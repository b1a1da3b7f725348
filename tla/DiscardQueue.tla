---------------------------- MODULE DiscardQueue ----------------------------
(***************************************************************************)
(* What os/core/simpleQ.c promises: a bounded queue that, when it is full, *)
(* gives up the oldest entry that is marked as discardable and that its    *)
(* owner agrees to lose, or else refuses the new one.                      *)
(***************************************************************************)
EXTENDS Naturals, Sequences, SequencesExt

CONSTANTS Capacity, Items

VARIABLES queue, out

vars == <<queue, out>>

Entry(item, d) == [item |-> item, discardable |-> d]

Init == queue = <<>> /\ out = <<>>

Put(item, d) ==
  /\ Len(queue) < Capacity
  /\ queue' = Append(queue, Entry(item, d))
  /\ out' = <<>>

\* The owner agrees to lose those of `agreed'; the oldest of them goes.
PutDiscarding(item, d, agreed) ==
  /\ Len(queue) = Capacity
  /\ agreed # {} /\ agreed \subseteq {k \in DOMAIN queue : queue[k].discardable}
  /\ \E k \in agreed :
       /\ \A j \in agreed : k <= j
       /\ queue' = Append(RemoveAt(queue, k), Entry(item, d))
  /\ out' = <<>>

Get ==
  /\ queue # <<>>
  /\ out' = <<Head(queue).item>>
  /\ queue' = Tail(queue)

Next ==
  \/ \E item \in Items, d \in BOOLEAN :
       \/ Put(item, d)
       \/ \E agreed \in SUBSET (DOMAIN queue) : PutDiscarding(item, d, agreed)
  \/ Get

Spec == Init /\ [][Next]_vars
=============================================================================
