------------------------------ MODULE Allocator ------------------------------
(***************************************************************************)
(* What the heap promises its callers (os/inc/heap.h): a block of at least *)
(* the size asked for, inside the heap, that shares no byte with any other *)
(* live block and stays where it is until it is freed, alone or with all   *)
(* blocks of its task.  A request may be refused.                          *)
(***************************************************************************)
EXTENDS Integers

CONSTANTS First, Last,   \* the heap is First .. Last - 1
          Sizes, Tids

VARIABLE live   \* the blocks handed out: start, length, owner

Overlap(b, c) == b.at < c.at + c.len /\ c.at < b.at + b.len

Init == live = {}

Grant(b) ==
  /\ First <= b.at /\ b.at + b.len <= Last
  /\ \A c \in live : b.at # c.at /\ ~Overlap(b, c)
  /\ live' = live \cup {b}

Return(b) == b \in live /\ live' = live \ {b}

ReturnAll(tid) == live' = {b \in live : b.tid # tid}

Next ==
  \/ \E at \in First .. Last, n \in Sizes, t \in Tids :
       Grant([at |-> at, len |-> n, tid |-> t])
  \/ \E b \in live : Return(b)
  \/ \E t \in Tids : ReturnAll(t)

Spec == Init /\ [][Next]_live
=============================================================================
