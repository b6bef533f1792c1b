----------------------------- MODULE ConfigText -----------------------------
(* The two ways ConfigParser reads a text: ReadFile takes it all, removes   *)
(* comments between pair marks and breaks the rest into lines; OpenFile     *)
(* reads line by line and remembers whether a comment is open.  One parser  *)
(* may read several texts.                                                  *)
(*                                                                          *)
(* A text is a sequence of tokens; a word is its position in the text.      *)
EXTENDS Integers, Sequences, FiniteSets, SequencesExt

CONSTANTS Texts,   \* sequences of "word", "nl", "open", "close", "mark"
          MaxReads \* bound on the texts one parser reads

VARIABLES text,             \* the text being read
          source,           \* "none", "file" or "buffer"
          lines,            \* still to be parsed: infile, or the queue
          in_comment_pair,
          taken,            \* elements that ParseLine returned, by line
          reads, proper     \* texts read; whether all were well formed

vars == <<text, source, lines, in_comment_pair, taken, reads, proper>>

Newline == -1   Open == -2   Close == -3   Mark == -4
Token == [nl |-> Newline, open |-> Open, close |-> Close, mark |-> Mark]
TokensOf(t) == [k \in DOMAIN t |-> IF t[k] = "word" THEN k ELSE Token[t[k]]]

-----------------------------------------------------------------------------
Positions(s, x) == {k \in DOMAIN s : s[k] = x}
Least(S) == CHOOSE x \in S : \A y \in S : x <= y
Greatest(S) == CHOOSE x \in S : \A y \in S : y <= x

(* find_pair: the first closing mark that has an opening one before it,     *)
(* with the last of these; comment_between erases what they enclose.        *)
comment_between(s) ==
  LET closes == {c \in Positions(s, Close) : \E o \in Positions(s, Open) : o < c}
      c == Least(closes)
      o == Greatest({k \in Positions(s, Open) : k < c})
  IN  IF closes = {} THEN s ELSE SubSeq(s, 1, o - 1) \o SubSeq(s, c + 1, Len(s))

\* Mutant of WithoutPairs: only one pair is removed.
WithoutOnePair(s) == comment_between(s)

(* while(comment_between(...)); *)
WithoutPairs(s) == FoldLeft(LAMBDA t, x : comment_between(t), s, s)

(* Lines that end, and what follows the last of them. *)
Broken(s) ==
  FoldLeft(LAMBDA r, x : IF x = Newline THEN <<Append(r[1], r[2]), <<>>>> ELSE <<r[1], Append(r[2], x)>>,
           <<<<>>, <<>>>>, s)

(* buffer_process: a last line that does not end is not pushed. *)
buffer_process(s) == Broken(WithoutPairs(s))[1]

(* getline gives the last line too. *)
getlines(s) == LET b == Broken(s) IN IF b[2] = <<>> THEN b[1] ELSE Append(b[1], b[2])

(* comment_out, then the elements of the line. *)
ParseLine(s) == IF Positions(s, Mark) = {} THEN s ELSE SubSeq(s, 1, Least(Positions(s, Mark)) - 1)

(* parse_file, one line: its elements, and whether a comment is open then.  *)
(* After the end of a comment the rest of the line is not searched.         *)
ParseFileLine(s, in) ==
  IF in
  THEN IF Positions(s, Close) = {} THEN <<<<>>, TRUE>>
       ELSE <<ParseLine(SubSeq(s, Least(Positions(s, Close)) + 1, Len(s))), FALSE>>
  ELSE LET t == WithoutPairs(s)
       IN  IF Positions(t, Open) = {} THEN <<ParseLine(t), FALSE>>
           ELSE <<ParseLine(SubSeq(t, 1, Least(Positions(t, Open)) - 1)), TRUE>>

-----------------------------------------------------------------------------
Init == /\ text = <<>> /\ source = "none" /\ lines = <<>> /\ in_comment_pair = FALSE
        /\ taken = <<>> /\ reads = 0 /\ proper = TRUE

(* A text that readers should agree on: comments are closed, not nested,    *)
(* and on lines without a mark; after one that spans lines no other opens   *)
(* on the line; and the last line ends.                                     *)
Depth(s, k) == Cardinality({j \in Positions(s, Open) : j <= k})
               - Cardinality({j \in Positions(s, Close) : j <= k})
SameLine(s, j, k) == \A n \in Positions(s, Newline) : n < j \/ n > k

WellFormed(s) ==
  /\ s # <<>> => Last(s) = Newline
  /\ \A k \in DOMAIN s : Depth(s, k) \in {0, 1}
  /\ Depth(s, Len(s)) = 0
  /\ \A m \in Positions(s, Mark), k \in Positions(s, Open) \cup Positions(s, Close) :
       ~SameLine(s, IF m < k THEN m ELSE k, IF m < k THEN k ELSE m) /\ Depth(s, m) = 0
  /\ \A c \in Positions(s, Close), o \in Positions(s, Open) :
       c < o /\ SameLine(s, c, o) =>
         \E p \in Positions(s, Open) : p < c /\ SameLine(s, p, c) /\ Depth(s, p) = 1

(* OpenFile and ReadFile: Clear keeps in_comment_pair. *)
Read(t, from, ls) ==
  /\ reads < MaxReads /\ reads' = reads + 1
  /\ text' = TokensOf(t) /\ source' = from /\ lines' = ls /\ taken' = <<>>
  /\ proper' = (proper /\ (from = "file" => WellFormed(TokensOf(t))))
  /\ UNCHANGED in_comment_pair

OpenFile == source = "none" /\ \E t \in Texts : Read(t, "file", getlines(TokensOf(t)))
ReadFile == source = "none" /\ \E t \in Texts : Read(t, "buffer", buffer_process(TokensOf(t)))

Take(elements) == taken' = IF elements = <<>> THEN taken ELSE Append(taken, elements)

ParseFile ==
  /\ source = "file" /\ lines # <<>>
  /\ LET r == ParseFileLine(Head(lines), in_comment_pair)
     IN  Take(r[1]) /\ in_comment_pair' = r[2]
  /\ lines' = Tail(lines)
  /\ UNCHANGED <<text, source, reads, proper>>

ParseBuffer ==
  /\ source = "buffer" /\ lines # <<>>
  /\ Take(ParseLine(Head(lines)))
  /\ lines' = Tail(lines)
  /\ UNCHANGED <<text, source, in_comment_pair, reads, proper>>

CloseFile ==
  /\ source # "none" /\ lines = <<>>
  /\ source' = "none" /\ text' = <<>> /\ taken' = <<>>
  /\ UNCHANGED <<lines, in_comment_pair, reads, proper>>

Next == OpenFile \/ ReadFile \/ ParseFile \/ ParseBuffer \/ CloseFile

Spec == Init /\ [][Next]_vars

-----------------------------------------------------------------------------
(* The words of a line that are in no comment. *)
Outside(s) ==
  SelectSeq(s, LAMBDA x : x > 0 /\ Depth(s, x) = 0
                          /\ ~\E m \in Positions(s, Mark) : m < x /\ SameLine(s, m, x))

LinesOutside(s) ==
  SelectSeq([n \in 1 .. Cardinality(Positions(s, Newline)) |->
               SelectSeq(Outside(s), LAMBDA x : Cardinality({k \in Positions(s, Newline) : k < x}) = n - 1)],
            LAMBDA l : l # <<>>)

(* What a parser takes from a well formed text is what stands outside of    *)
(* its comments: line by line from an open file, and from a buffer in the   *)
(* same order, with lines joined that a comment spans.  It holds for each   *)
(* text one parser reads, as long as all it opened were well formed: a      *)
(* comment left open swallows the beginning of the next file.               *)
ReadsOutsideComments ==
  source # "none" /\ lines = <<>> /\ WellFormed(text) =>
    /\ source = "file" /\ proper => taken = LinesOutside(text)
    /\ source = "buffer" => FlattenSeq(taken) = Outside(text)
=============================================================================
