--------------------------- MODULE BoundedEvtQueue ---------------------------
(***************************************************************************)
(* What the event queue promises its users (os/inc/eventQ.h): a queue of   *)
(* bounded length, with one consumer that takes the events from the front, *)
(* producers that put each event once, at the back or (urgent) in front of *)
(* all others, and events of a droppable kind that may disappear from it.  *)
(* Who produces, and from which context, is not visible here.              *)
(***************************************************************************)
EXTENDS Naturals, Sequences

CONSTANTS Events, Droppable, Capacity

VARIABLES
  waiting,   \* the events in the queue, the next to be taken first
  gone       \* the events that have left it

vars == <<waiting, gone>>

In(e) == \E i \in 1 .. Len(waiting) : waiting[i] = e
Without(i) == SubSeq(waiting, 1, i - 1) \o SubSeq(waiting, i + 1, Len(waiting))

Init == waiting = <<>> /\ gone = {}

Put(e) ==
  /\ ~In(e) /\ e \notin gone /\ Len(waiting) < Capacity
  /\ waiting' \in {Append(waiting, e), <<e>> \o waiting}
  /\ UNCHANGED gone

Take ==
  /\ waiting # <<>>
  /\ waiting' = Tail(waiting)
  /\ gone' = gone \cup {Head(waiting)}

Drop(i) ==
  /\ waiting[i] \in Droppable
  /\ waiting' = Without(i)
  /\ gone' = gone \cup {waiting[i]}

Next ==
  \/ \E e \in Events : Put(e)
  \/ Take
  \/ \E i \in 1 .. Len(waiting) : Drop(i)

Spec == Init /\ [][Next]_vars
=============================================================================
