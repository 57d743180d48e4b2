------------------------------- MODULE MCHeap -------------------------------
(* Small instances of Heap: the keys beyond the pinned ones and the upvalue *)
(* cells are interchangeable.                                               *)
EXTENDS Heap, TLC

Symmetry == Permutations(Keys \ Pinned) \cup Permutations(Slots) \cup Permutations(Cells)
=============================================================================
