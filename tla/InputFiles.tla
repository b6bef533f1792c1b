---------------------------- MODULE InputFiles ----------------------------
(* How the analysis programs of decoder/ find their input.                 *)
EXTENDS Integers, FiniteSets

(* The files of a directory with a run from start to end, sorted by run;   *)
(* std::sort leaves files of one run in any order.                         *)
FindInputFiles(dir, start, end) ==
  LET found == {f \in dir : start <= f.run /\ f.run <= end}
      n     == Cardinality(found)
  IN  {res \in [1..n -> found] : /\ \A f \in found : \E i \in 1..n : res[i] = f
                                 /\ \A i, j \in 1..n : i <= j => res[i].run <= res[j].run}
===========================================================================
