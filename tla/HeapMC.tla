-------------------------------- MODULE HeapMC --------------------------------
(* A small instance of Heap.                                                  *)
EXTENDS Heap
=============================================================================
