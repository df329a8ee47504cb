------------------------------- MODULE MCHeap -------------------------------
(* Heap.tla on a heap of a few blocks, with the real header and alignment. *)
EXTENDS Heap

(* 0 gives a block with no data, 1 and 9 round up, 24 and 40 make blocks   *)
(* that can be split, grown over or not at all.                            *)
MCRequests == {0, 1, 9, 24, 40}
=============================================================================
