---------------------------- MODULE ConfigStore ----------------------------
(* A configuration object (ConfigObject) and the cluster method that derives *)
(* from it: lines of a file become a map from keys to values, a value may    *)
(* name other keys between braces, and Configure copies the values of its    *)
(* settings, or their defaults, into members of the method.                  *)
(*                                                                           *)
(* Texts are sequences of tokens: a space, the splitter "=", the comment     *)
(* mark "#", the braces, and letters.                                        *)
EXTENDS Integers, Sequences, FiniteSets, SequencesExt, Functions, TLC

CONSTANTS Files,     \* what the configuration file may hold: sequences of lines
          Values,    \* texts a program sets
          Lower,     \* the lower case of the letters that are in upper case
          Settings,  \* sequence of [name, def]: what Configure reads, in order
          Universal, \* name of the universal minimum of modules
          Typed,     \* type of module -> name of its own minimum
          MaxCalls   \* bound on the calls after construction

VARIABLES config_map, config_path,
          settings,           \* the members Configure assigns
          min_module_energy,  \* <<>> until it is sized
          disk,               \* files by name
          last, overrides,    \* history: lines read last, values set since
          applied,            \* history: Configure came after the last of them
          calls

vars == <<config_map, config_path, settings, min_module_energy, disk, last, overrides,
          applied, calls>>

Ignore == {" ", "_"}

-----------------------------------------------------------------------------
(* ConfigParser's functions on texts. *)
trim(s) ==
  LET kept == {k \in DOMAIN s : s[k] # " "}
  IN  IF kept = {} THEN <<>>
      ELSE SubSeq(s, CHOOSE k \in kept : \A j \in kept : k <= j,
                     CHOOSE k \in kept : \A j \in kept : j <= k)

comment_out(s) ==
  LET marks == {k \in DOMAIN s : s[k] = "#"}
  IN  IF marks = {} THEN s ELSE SubSeq(s, 1, (CHOOSE k \in marks : \A j \in marks : k <= j) - 1)

(* The pieces between splitters; strtok gives no empty ones. *)
split(s) ==
  SelectSeq(FoldLeft(LAMBDA r, c : IF c = "=" THEN Append(r, <<>>)
                                   ELSE [r EXCEPT ![Len(r)] = Append(@, c)], <<<<>>>>, s),
            LAMBDA p : p # <<>>)

\* Mutant of ParseLine: the elements are not trimmed.
ParseLineUntrimmed(l) == split(trim(comment_out(l)))

ParseLine(l) ==
  SelectSeq([k \in DOMAIN split(trim(comment_out(l))) |-> trim(split(trim(comment_out(l)))[k])],
            LAMBDA e : e # <<>>)

str_remove(s) == SelectSeq(s, LAMBDA c : c \notin Ignore)
str_lower(s)  == [k \in DOMAIN s |-> IF s[k] \in DOMAIN Lower THEN Lower[s[k]] ELSE s[k]]
Key(name)     == str_lower(str_remove(name))

\* Mutant of find_pair: a close ends the first open.
find_outer_pair(s) ==
  LET opens(c) == {o \in DOMAIN s : s[o] = "{" /\ o < c}
      closes   == {c \in DOMAIN s : s[c] = "}" /\ opens(c) # {}}
      c        == CHOOSE x \in closes : \A y \in closes : x <= y
  IN  IF closes = {} THEN <<>> ELSE <<CHOOSE o \in opens(c) : \A x \in opens(c) : o <= x, c>>

(* The first close that has an open before it, with the last of these. *)
find_pair(s) ==
  LET opens(c) == {o \in DOMAIN s : s[o] = "{" /\ o < c}
      closes   == {c \in DOMAIN s : s[c] = "}" /\ opens(c) # {}}
      c        == CHOOSE x \in closes : \A y \in closes : x <= y
  IN  IF closes = {} THEN <<>> ELSE <<CHOOSE o \in opens(c) : \A x \in opens(c) : x <= o, c>>

-----------------------------------------------------------------------------
(* form replaces the pair that closes first by the value of the key inside, *)
(* and looks for pairs again; the value was formed before.  Keys that refer *)
(* to each other in a circle are not followed to an end.                    *)
RECURSIVE form(_, _), GetConfigValue(_, _)
form(m, s) ==
  LET p == find_pair(s)
  IN  IF p = <<>> THEN s
      ELSE form(m, SubSeq(s, 1, p[1] - 1)
                   \o GetConfigValue(m, SubSeq(s, p[1] + 1, p[2] - 1))
                   \o SubSeq(s, p[2] + 1, Len(s)))
GetConfigValue(m, name) == IF Key(name) \in DOMAIN m THEN form(m, m[Key(name)]) ELSE <<>>

(* One line of a file: two elements or nothing; a repeated key is appended. *)
AddLine(m, l) ==
  LET e == ParseLine(l)
      k == Key(e[1])
  IN  IF Len(e) # 2 THEN m
      ELSE IF k \in DOMAIN m THEN [m EXCEPT ![k] = @ \o <<",", " ">> \o e[2]]
      ELSE m @@ (k :> e[2])

\* Mutant of MapOf: the map is not cleared before.
MapOnTop(m, lines) == FoldLeft(AddLine, m, lines)

MapOf(m, lines) == FoldLeft(AddLine, <<>>, lines)

(* The lines SaveConfig writes, one for each key. *)
LinesOf(m) ==
  LET keys == SetToSeq(DOMAIN m)
  IN  [k \in DOMAIN keys |-> keys[k] \o <<" ", "=", " ">> \o m[keys[k]]]

(* getDefConfig: the map, with the default when it is used, and the value.  *)
getDefConfig(m, name, def) ==
  IF Key(name) \in DOMAIN m THEN <<m, form(m, m[Key(name)])>>
  ELSE IF def = <<>> THEN <<m, <<>>>>
  ELSE <<m @@ (Key(name) :> def), def>>

(* All settings in their order: a default that is stored is there for those *)
(* that follow.                                                             *)
GetSettings(m) ==
  FoldLeft(LAMBDA r, s : LET g == getDefConfig(r[1], s.name, s.def)
                         IN  <<g[1], r[2] @@ (Key(s.name) :> g[2])>>, <<m, <<>>>>, Settings)

(* The vector is resized to the number of types: values of types it had     *)
(* before are kept.  Then the types that have a value of their own get it.  *)
MinEnergies(m, univ, old) ==
  [t \in DOMAIN Typed |->
     LET own == GetConfigValue(m, Typed[t])
     IN  IF own # <<>> THEN own ELSE IF t \in DOMAIN old THEN old[t] ELSE univ]

(* What Configure does once the file is read, if one is. *)
Assign(m) ==
  LET s == GetSettings(m)
      u == getDefConfig(s[1], Universal, <<"0">>)
  IN  /\ config_map' = u[1]
      /\ settings' = s[2]
      /\ min_module_energy' = MinEnergies(u[1], u[2], min_module_energy)

-----------------------------------------------------------------------------
(* The constructor of a method configures it without a file. *)
Init ==
  /\ LET s == GetSettings(<<>>)
         u == getDefConfig(s[1], Universal, <<"0">>)
     IN  /\ config_map = u[1] /\ settings = s[2]
         /\ min_module_energy = MinEnergies(u[1], u[2], <<>>)
  /\ config_path = "" /\ \E f \in Files : disk = ("file.conf" :> f)
  /\ last = <<>> /\ overrides = <<>> /\ applied = TRUE /\ calls = 0

Call == calls < MaxCalls /\ calls' = calls + 1

(* From a file; when there is none of the name the map stays. *)
ConfigureFile(path) ==
  /\ Call
  /\ IF path \in DOMAIN disk
     THEN /\ Assign(MapOf(config_map, disk[path]))
          /\ config_path' = path
          /\ last' = disk[path] /\ overrides' = <<>>
     ELSE Assign(config_map) /\ UNCHANGED <<config_path, last, overrides>>
  /\ applied' = TRUE
  /\ UNCHANGED disk

ConfigureAgain ==
  Call /\ Assign(config_map) /\ applied' = TRUE
  /\ UNCHANGED <<config_path, disk, last, overrides>>

SetConfigValue(name, value) ==
  /\ Call
  /\ config_map' = (Key(name) :> value) @@ config_map
  /\ overrides' = (Key(name) :> value) @@ overrides
  /\ applied' = FALSE
  /\ UNCHANGED <<config_path, settings, min_module_energy, disk, last>>

(* SaveConfig: a path that is given is not used. *)
SaveConfig(path) ==
  /\ Call
  /\ LET to == IF path = "" /\ config_path # "" THEN config_path ELSE "latest.conf"
     IN  disk' = (to :> LinesOf(config_map)) @@ disk
  /\ UNCHANGED <<config_map, config_path, settings, min_module_energy, last, overrides, applied>>

ClearConfig ==
  /\ Call
  /\ config_map' = <<>> /\ config_path' = ""
  /\ last' = <<>> /\ overrides' = <<>> /\ applied' = FALSE
  /\ UNCHANGED <<settings, min_module_energy, disk>>

Next ==
  \/ \E path \in {"file.conf", "latest.conf"} : ConfigureFile(path)
  \/ ConfigureAgain
  \/ \E s \in Range(Settings), v \in Values : SetConfigValue(s.name, v)
  \/ \E path \in {"", "file.conf"} : SaveConfig(path)
  \/ ClearConfig

Spec == Init /\ [][Next]_vars

-----------------------------------------------------------------------------
(* Braces from the outside in: the first open with the close that balances  *)
(* it, the name between them expanded before it is looked up.               *)
Depth(s, k) == Cardinality({j \in 1 .. k : s[j] = "{"}) - Cardinality({j \in 1 .. k : s[j] = "}"})
Balanced(s) == (\A k \in DOMAIN s : Depth(s, k) >= 0) /\ Depth(s, Len(s)) = 0

RECURSIVE Expand(_, _)
Expand(m, s) ==
  LET opens == {k \in DOMAIN s : s[k] = "{"}
      o == CHOOSE x \in opens : \A y \in opens : x <= y
      c == CHOOSE x \in o .. Len(s) : Depth(s, x) = 0 /\ \A y \in o .. x - 1 : Depth(s, y) > 0
      k == Key(Expand(m, SubSeq(s, o + 1, c - 1)))
  IN  IF opens = {} THEN s
      ELSE SubSeq(s, 1, o - 1) \o (IF k \in DOMAIN m THEN Expand(m, m[k]) ELSE <<>>)
           \o Expand(m, SubSeq(s, c + 1, Len(s)))

(* A value is formed as config/hycal.conf says: {key} is replaced with the  *)
(* value of the key, and is empty without one.  The order in which pairs    *)
(* are replaced does not matter, nested or not, as long as braces balance.  *)
FormedAsWritten ==
  (\A k \in DOMAIN config_map : Balanced(config_map[k])) =>
    \A k \in DOMAIN config_map : form(config_map, config_map[k]) = Expand(config_map, config_map[k])

(* What is saved gives the same values when it is read: the reader skips    *)
(* lines, cuts comments, splits, trims and joins repeated keys, and none of *)
(* it touches what a file, the defaults or a program put into the map.      *)
SavedReadsBack ==
  LET read == MapOf(<<>>, LinesOf(config_map))
  IN  \A k \in DOMAIN config_map : GetConfigValue(read, k) = GetConfigValue(config_map, k)

(* Once Configure ran, a setting is what was set since the last file was    *)
(* read, else what that file says, else its default: files and values of    *)
(* before have no effect.                                                   *)
SettingsFromLastFile ==
  applied => LET m == overrides @@ MapOf(<<>>, last)
             IN  \A s \in Range(Settings) :
                   settings[Key(s.name)] = IF Key(s.name) \in DOMAIN m THEN form(m, m[Key(s.name)])
                                           ELSE s.def

(* PRadIslandCluster.cpp:58: "set the min module energy for all the module  *)
(* type".  A type without a value of its own has the universal one.         *)
MinEnergyAsConfigured ==
  applied => \A t \in DOMAIN Typed :
    min_module_energy[t] = IF GetConfigValue(config_map, Typed[t]) # <<>>
                           THEN GetConfigValue(config_map, Typed[t])
                           ELSE GetConfigValue(config_map, Universal)
=============================================================================
