---------------------------- MODULE MCEmployeeCache ----------------------------
(* Two request threads; e1 has a row, e2 has none.  Threads, columns and values *)
(* are alike, so states that differ by swapping them are one.                    *)
EXTENDS EmployeeCache, TLC

CONSTANTS t1, t2, e1, e2, lastName, email, v1, v2

MCThreads == {t1, t2}
MCIds == {e1, e2}
MCExisting == {e1}
MCColumns == {lastName, email}
MCVals == {v1, v2}

Alike ==
  Permutations(MCThreads) \cup Permutations(MCColumns) \cup Permutations(MCVals)
================================================================================
