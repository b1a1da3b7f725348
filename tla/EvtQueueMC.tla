------------------------------ MODULE EvtQueueMC ------------------------------
(* Small instances of EvtQueue.  See the .cfg files for the sets of events.   *)
EXTENDS EvtQueue, TLC

\* Records and the events that no constant tells apart are interchangeable.
Plain == Events \ (Discardable \cup Removable \cup HeapFreed)
Symmetry == Permutations(Records) \cup Permutations(Plain)
=============================================================================
