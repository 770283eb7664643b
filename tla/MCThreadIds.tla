------------------------------ MODULE MCThreadIds ------------------------------
(* Three threads for two ids, so that a thread can be refused; with four   *)
(* ids no thread is refused and the stack is deeper than the contention.   *)
EXTENDS ThreadIds, TLC

CONSTANTS a, b, c

MCThreads == {a, b, c}
Symmetry == Permutations(MCThreads)
================================================================================
