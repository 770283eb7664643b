----------------------------- MODULE MCStringMemory ----------------------------
(* StringMemory for TLC: the addresses of heap memories are alike.          *)
EXTENDS StringMemory, TLC

HeapSymmetry == Permutations(HeapMemories) \cup Permutations(Strings)
================================================================================
