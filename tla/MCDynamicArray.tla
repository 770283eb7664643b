---------------------------- MODULE MCDynamicArray -----------------------------
(* One or two arrays of a few pages of one or two slots: enough for        *)
(* chains of several pages, for pages that empty in the middle of a chain, *)
(* and for an append or a clone between them.                              *)
EXTENDS AvDynamicArray

CONSTANTS a1, a2, e1, e2

OneArray == {a1}
TwoArrays == {a1, a2}
TwoElements == {e1, e2}
OneElement == {e1}
OneTwo == {1, 2}
One == {1}
Symmetry == Permutations(TwoArrays) \cup Permutations(TwoElements)
================================================================================
