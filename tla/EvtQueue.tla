------------------------------- MODULE EvtQueue -------------------------------
(***************************************************************************)
(* The SEOS event queue, os/core/eventQ.c, on top of its slab of records,  *)
(* os/core/slab.c: a doubly linked ring through a head node, filled by the *)
(* main loop and by interrupt handlers and emptied by the main loop alone. *)
(*                                                                         *)
(* There is one CPU.  A context is the main loop (priority 0) or the       *)
(* interrupt handler of a priority level; a handler starts only while      *)
(* interrupts are on and nothing of its priority or above runs, and what   *)
(* it preempted does not move until it returns.  Sections of code between  *)
(* cpuIntsOff and cpuIntsRestore that call nothing are one step.  The walk *)
(* that looks for a victim calls the free callback of an event, which may  *)
(* turn interrupts on again: from there on each store to the ring is a     *)
(* step.  Every enqueue modelled is made with interrupts on.               *)
(***************************************************************************)
EXTENDS Naturals, FiniteSets

CONSTANTS
  Records,      \* the slots of q->evtsSlab (512 in osInit)
  Levels,       \* number of interrupt priority levels that enqueue
  Events,       \* the events offered to the queue, each of them once
  Discardable,  \* those with EVENT_TYPE_BIT_DISCARDABLE
  Removable,    \* those a timer cancellation matches (private timer events)
  HeapFreed,    \* those whose free callback ends in heapFree
  HeadNode,     \* &q->head
  NULL

ASSUME EvtQueueAssumption ==
  /\ IsFiniteSet(Records)
  /\ Levels \in Nat
  /\ Discardable \subseteq Events
  /\ HeapFreed \subseteq Events
  /\ Removable \subseteq Events \ (Discardable \cup HeapFreed)
  /\ HeadNode \notin Records
  /\ NULL \notin Records \cup Events \cup {HeadNode}

VARIABLES
  next, prev,   \* the ring's links; NULL in a record that is not on it
  slab,         \* records whose bit is set in the slab's bitset
  payload,      \* the event written into each record
  pc, ev, front, item,  \* evtQueueEnqueue's frame, one per context
  del,          \* evtListDel's frame in it: the links of the record it read
  cons,         \* the main loop: where it is, the record and event it holds
  primask,      \* PRIMASK: interrupts off
  halted,       \* the CPU took a fault
  torn,         \* history: a victim was chosen while another was half unlinked
  fate,         \* history: what became of each event
  frees         \* history: how often each event's free callback ran

vars == <<next, prev, slab, payload, pc, ev, front, item, del, cons, primask,
          halted, torn, fate, frees>>
frame == <<pc, ev, front, item, del>>
history == <<torn, fate, frees>>

Main == 0
Contexts == 0 .. Levels
Nodes == Records \cup {HeadNode}

NoLinks == [prev |-> NULL, next |-> NULL]

\* evtListDel is between two of its stores, or has those to the neighbours of
\* its record still to make.
Unlinking == {"back", "fore", "clear", "bare"}
Half == {c \in Contexts : pc[c] \in {"back", "fore"}}
Leaving(n) == \E c \in Contexts : pc[c] \in Unlinking /\ item[c] = n

\* The ring's links as they are once the stores under way have been made.
ahead == [n \in Nodes |->
  IF Leaving(n) THEN NULL
  ELSE IF \E c \in Half : del[c].prev = n
       THEN del[CHOOSE c \in Half : del[c].prev = n].next ELSE next[n]]
behind == [n \in Nodes |->
  IF Leaving(n) THEN NULL
  ELSE IF \E c \in Half : del[c].next = n
       THEN del[CHOOSE c \in Half : del[c].next = n].prev ELSE prev[n]]

Linked(r) == ahead[r] # NULL

\* The only context that moves: nothing of a higher priority is in a handler.
Runs(c) == ~halted /\ \A d \in Contexts : d > c => pc[d] = "rest"

Goto(c, label) == pc' = [pc EXCEPT ![c] = label]

\* evtQueueEnqueue returns: its locals are gone.
Return(c) ==
  /\ Goto(c, "rest")
  /\ ev' = [ev EXCEPT ![c] = NULL]
  /\ front' = [front EXCEPT ![c] = FALSE]
  /\ item' = [item EXCEPT ![c] = NULL]
  /\ UNCHANGED del

-----------------------------------------------------------------------------
Init ==
  /\ next = [n \in Nodes |-> IF n = HeadNode THEN HeadNode ELSE NULL]
  /\ prev = [n \in Nodes |-> IF n = HeadNode THEN HeadNode ELSE NULL]
  /\ slab = {}
  /\ payload = [r \in Records |-> NULL]
  /\ pc = [c \in Contexts |-> "rest"]
  /\ ev = [c \in Contexts |-> NULL]
  /\ front = [c \in Contexts |-> FALSE]
  /\ item = [c \in Contexts |-> NULL]
  /\ del = [c \in Contexts |-> NoLinks]
  /\ cons = [at |-> "handling", rec |-> NULL, ev |-> NULL]
  /\ primask = FALSE
  /\ halted = FALSE
  /\ torn = FALSE
  /\ fate = [e \in Events |-> "new"]
  /\ frees = [e \in Events |-> 0]

\* evtListDel with interrupts off: unlink n and clear its links.
ListDel(n) ==
  /\ next[n] # NULL /\ prev[n] # NULL
  /\ next' = [next EXCEPT ![prev[n]] = next[n], ![n] = NULL]
  /\ prev' = [prev EXCEPT ![next[n]] = prev[n], ![n] = NULL]

\* handleEventFreeing as the queue sees it: the event's callback runs, and a
\* callback that reaches heapFree leaves interrupts enabled (heap.c:259).
FreeEvent(e) == frees' = [frees EXCEPT ![e] = @ + 1]

-----------------------------------------------------------------------------
\* evtQueueEnqueue, by the handler the main loop is in or by an interrupt.
Offer(c, e, atFront) ==
  /\ Runs(c) /\ pc[c] = "rest" /\ fate[e] = "new"
  /\ IF c = Main THEN cons.at = "handling" ELSE ~primask
  /\ Goto(c, "alloc")
  /\ ev' = [ev EXCEPT ![c] = e]
  /\ front' = [front EXCEPT ![c] = atFront]
  /\ fate' = [fate EXCEPT ![e] = "offered"]
  /\ UNCHANGED <<next, prev, slab, payload, item, del, cons, primask, halted, torn, frees>>

\* slabAllocatorAlloc finds a clear bit and sets it with one exclusive store.
Alloc(c, r) ==
  /\ Runs(c) /\ pc[c] = "alloc" /\ r \notin slab
  /\ slab' = slab \cup {r}
  /\ item' = [item EXCEPT ![c] = r]
  /\ Goto(c, "fill")
  /\ UNCHANGED <<next, prev, payload, ev, front, del, cons, primask, halted, history>>

\* The record is written before it is linked, with interrupts on.
Fill(c) ==
  /\ Runs(c) /\ pc[c] = "fill"
  /\ payload' = [payload EXCEPT ![item[c]] = ev[c]]
  /\ Goto(c, "link")
  /\ UNCHANGED <<next, prev, slab, ev, front, item, del, cons, primask, halted, history>>

\* Mutant of InsertBetween: the node before b is not given its new successor.
InsertBehind(n, a, b) ==
  /\ next' = [next EXCEPT ![n] = b]
  /\ prev' = [prev EXCEPT ![n] = a, ![b] = n]

InsertBetween(n, a, b) ==
  /\ next' = [next EXCEPT ![a] = n, ![n] = b]
  /\ prev' = [prev EXCEPT ![n] = a, ![b] = n]

\* The node the event is linked in front of is the first record, or the head;
\* its neighbour is read through the first of the two.
Link(c) ==
  /\ Runs(c) /\ pc[c] = "link"
  /\ next[HeadNode] # NULL /\ prev[HeadNode] # NULL
  /\ LET b == IF front[c] THEN next[HeadNode] ELSE next[prev[HeadNode]]
         a == IF front[c] THEN prev[next[HeadNode]] ELSE prev[HeadNode]
     IN a # NULL /\ b # NULL /\ InsertBetween(item[c], a, b)
  /\ fate' = [fate EXCEPT ![ev[c]] = "queued"]
  /\ Return(c)
  /\ UNCHANGED <<slab, payload, cons, primask, halted, torn, frees>>

\* The slab is full: walk the ring, with interrupts off, for a victim.
Scan(c) ==
  /\ Runs(c) /\ pc[c] = "alloc" /\ slab = Records
  /\ primask' = TRUE
  /\ item' = [item EXCEPT ![c] = next[HeadNode]]
  /\ Goto(c, "scan")
  /\ UNCHANGED <<next, prev, slab, payload, ev, front, del, cons, halted, history>>

ScanNext(c) ==
  /\ Runs(c) /\ pc[c] = "scan"
  /\ item[c] # HeadNode /\ payload[item[c]] \notin Discardable
  /\ next[item[c]] # NULL
  /\ item' = [item EXCEPT ![c] = next[@]]
  /\ UNCHANGED <<next, prev, slab, payload, pc, ev, front, del, cons, primask, halted,
                 history>>

\* No victim: evtQueueEnqueue returns false.
Refuse(c) ==
  /\ Runs(c) /\ pc[c] = "scan" /\ item[c] = HeadNode
  /\ primask' = FALSE
  /\ fate' = [fate EXCEPT ![ev[c]] = "refused"]
  /\ Return(c)
  /\ UNCHANGED <<next, prev, slab, payload, cons, halted, torn, frees>>

\* forceDiscardCbk runs while the victim is still on the ring.
Discard(c) ==
  LET e == payload[item[c]]
  IN /\ Runs(c) /\ pc[c] = "scan"
     /\ item[c] # HeadNode /\ e \in Discardable
     /\ FreeEvent(e)
     /\ fate' = [fate EXCEPT ![e] = "discarded"]
     /\ primask' = (primask /\ e \notin HeapFreed)
     /\ torn' = (torn \/ Half # {})
     /\ Goto(c, "unlink")
     /\ UNCHANGED <<next, prev, slab, payload, ev, front, item, del, cons, halted>>

\* evtListDel of the victim reads its two links, words side by side (a store
\* through a NULL link faults), ...
Unlink(c) ==
  LET r == item[c]
  IN /\ Runs(c) /\ pc[c] = "unlink"
     /\ IF next[r] # NULL /\ prev[r] # NULL
        THEN /\ del' = [del EXCEPT ![c] = [prev |-> prev[r], next |-> next[r]]]
             /\ Goto(c, "back")
             /\ UNCHANGED halted
        ELSE halted' = TRUE /\ UNCHANGED <<pc, del>>
     /\ UNCHANGED <<next, prev, slab, payload, ev, front, item, cons, primask, history>>

\* Mutant of StoreBack: __evtListDel does not set next->prev.
StoreBackNone(c) ==
  /\ Runs(c) /\ pc[c] = "back"
  /\ Goto(c, "fore")
  /\ UNCHANGED <<next, prev, slab, payload, ev, front, item, del, cons, primask, halted,
                 history>>

\* ... next->prev = prev, ...
StoreBack(c) ==
  /\ Runs(c) /\ pc[c] = "back"
  /\ prev' = [prev EXCEPT ![del[c].next] = del[c].prev]
  /\ Goto(c, "fore")
  /\ UNCHANGED <<next, slab, payload, ev, front, item, del, cons, primask, halted, history>>

\* ... prev->next = next, ...
StoreFore(c) ==
  /\ Runs(c) /\ pc[c] = "fore"
  /\ next' = [next EXCEPT ![del[c].prev] = del[c].next]
  /\ del' = [del EXCEPT ![c] = NoLinks]
  /\ Goto(c, "clear")
  /\ UNCHANGED <<prev, slab, payload, ev, front, item, cons, primask, halted, history>>

\* ... and clears the links of the record, prev first.
ClearPrev(c) ==
  /\ Runs(c) /\ pc[c] = "clear"
  /\ prev' = [prev EXCEPT ![item[c]] = NULL]
  /\ Goto(c, "bare")
  /\ UNCHANGED <<next, slab, payload, ev, front, item, del, cons, primask, halted, history>>

\* Mutant of ClearNext: the victim's record goes back to the slab as well.
ClearNextAndFree(c) ==
  /\ Runs(c) /\ pc[c] = "bare"
  /\ next' = [next EXCEPT ![item[c]] = NULL]
  /\ slab' = slab \ {item[c]}
  /\ Goto(c, "stray")
  /\ UNCHANGED <<prev, payload, ev, front, item, del, cons, primask, halted, history>>

ClearNext(c) ==
  /\ Runs(c) /\ pc[c] = "bare"
  /\ next' = [next EXCEPT ![item[c]] = NULL]
  /\ Goto(c, "stray")
  /\ UNCHANGED <<prev, slab, payload, ev, front, item, del, cons, primask, halted, history>>

\* The loop does not stop at its victim: it goes on to pos->next, which
\* evtListDel has just cleared, and reads through NULL.  Either that faults...
StrayFault(c) ==
  /\ Runs(c) /\ pc[c] = "stray"
  /\ halted' = TRUE
  /\ UNCHANGED <<next, prev, slab, payload, frame, cons, primask, history>>

\* ... or what it reads there leads it back to the head.  Then rec points to
\* what it read last, so the new event is written outside of the slab, and the
\* victim's record is linked again with the event it held.
StrayReturn(c) ==
  /\ Runs(c) /\ pc[c] = "stray"
  /\ primask' = FALSE
  /\ Goto(c, "link")
  /\ UNCHANGED <<next, prev, slab, payload, ev, front, item, del, cons, halted, history>>

\* Once an unlinking was torn a link may be NULL where nobody expects it: the
\* steps above and below are not taken along such a link, the CPU faults.
Fault ==
  /\ torn /\ ~halted
  /\ halted' = TRUE
  /\ UNCHANGED <<next, prev, slab, payload, frame, cons, primask, history>>

-----------------------------------------------------------------------------
\* Mutant of Pop: the record is free before it has been copied out.
PopAndFree ==
  /\ Runs(Main) /\ pc[Main] = "rest"
  /\ cons.at = "loop" /\ next[HeadNode] # HeadNode
  /\ ListDel(next[HeadNode])
  /\ slab' = slab \ {next[HeadNode]}
  /\ cons' = [cons EXCEPT !.at = "popped", !.rec = next[HeadNode]]
  /\ UNCHANGED <<payload, frame, primask, halted, history>>

\* Mutant of Pop: the record put last is taken.
PopLast ==
  /\ Runs(Main) /\ pc[Main] = "rest"
  /\ cons.at = "loop" /\ next[HeadNode] # HeadNode
  /\ ListDel(prev[HeadNode])
  /\ cons' = [cons EXCEPT !.at = "popped", !.rec = prev[HeadNode]]
  /\ UNCHANGED <<slab, payload, frame, primask, halted, history>>

\* evtQueueDequeue: unlink the first record (asleep while there is none), ...
Pop ==
  /\ Runs(Main) /\ pc[Main] = "rest"
  /\ cons.at = "loop" /\ next[HeadNode] # HeadNode
  /\ ListDel(next[HeadNode])
  /\ cons' = [cons EXCEPT !.at = "popped", !.rec = next[HeadNode]]
  /\ UNCHANGED <<slab, payload, frame, primask, halted, history>>

\* ... copy it out with interrupts on again, ...
Read ==
  /\ Runs(Main) /\ cons.at = "popped"
  /\ cons' = [cons EXCEPT !.at = "read", !.ev = payload[cons.rec]]
  /\ UNCHANGED <<next, prev, slab, payload, frame, primask, halted, history>>

\* ... and give the record back to the slab.  The event is then handled.
Release ==
  /\ Runs(Main) /\ cons.at = "read"
  /\ slab' = slab \ {cons.rec}
  /\ cons' = [cons EXCEPT !.at = "handling", !.rec = NULL]
  /\ fate' = [fate EXCEPT ![cons.ev] = "delivered"]
  /\ UNCHANGED <<next, prev, payload, frame, primask, halted, torn, frees>>

\* osMainDequeueLoop: the handlers have returned; the event is freed.
Finish ==
  /\ Runs(Main) /\ pc[Main] = "rest" /\ cons.at = "handling"
  /\ cons' = [at |-> "loop", rec |-> NULL, ev |-> NULL]
  /\ IF cons.ev = NULL THEN UNCHANGED frees ELSE FreeEvent(cons.ev)
  /\ UNCHANGED <<next, prev, slab, payload, frame, primask, halted, torn, fate>>

\* evtQueueRemoveAllMatching, called by a handler.  It runs with interrupts off
\* throughout: the events it matches are never freed through the heap.
RemoveBegin ==
  /\ Runs(Main) /\ pc[Main] = "rest" /\ cons.at = "handling"
  /\ primask' = TRUE
  /\ cons' = [cons EXCEPT !.at = "removing", !.rec = next[HeadNode]]
  /\ UNCHANGED <<next, prev, slab, payload, frame, halted, history>>

\* forceDiscardCbk is called for the event of a record that matches.
Expel(r) ==
  /\ Runs(Main) /\ cons.at = "removing"
  /\ r # HeadNode /\ payload[r] \in Removable
  /\ FreeEvent(payload[r])
  /\ fate' = [fate EXCEPT ![payload[r]] = "removed"]
  /\ UNCHANGED <<payload, frame, primask, halted, torn>>

\* Mutant of RemoveMatch: the record is not given back to the slab.
RemoveMatchLeak ==
  /\ Expel(cons.rec) /\ ListDel(cons.rec)
  /\ cons' = [cons EXCEPT !.rec = next[@]]
  /\ UNCHANGED slab

\* Mutant of RemoveMatch: the freed event stays on the ring.
RemoveMatchKeep ==
  /\ Expel(cons.rec)
  /\ cons' = [cons EXCEPT !.rec = next[@]]
  /\ UNCHANGED <<next, prev, slab>>

\* Mutant of RemoveMatch: the successor is read after the record was unlinked.
RemoveMatchUnsafe ==
  /\ Expel(cons.rec) /\ ListDel(cons.rec)
  /\ slab' = slab \ {cons.rec}
  /\ cons' = [cons EXCEPT !.rec = next'[@]]

RemoveMatch ==
  /\ Expel(cons.rec) /\ ListDel(cons.rec)
  /\ slab' = slab \ {cons.rec}
  /\ cons' = [cons EXCEPT !.rec = next[@]]

\* Mutant of RemoveSkip: the walk does not go on.
RemoveSkipStuck ==
  Runs(Main) /\ cons.at = "removing" /\ cons.rec # HeadNode /\ UNCHANGED vars

\* An event that does not match, of another timer say, stays.
RemoveSkip ==
  /\ Runs(Main) /\ cons.at = "removing"
  /\ cons.rec # HeadNode /\ next[cons.rec] # NULL
  /\ cons' = [cons EXCEPT !.rec = next[@]]
  /\ UNCHANGED <<next, prev, slab, payload, frame, primask, halted, history>>

RemoveEnd ==
  /\ Runs(Main) /\ cons.at = "removing" /\ cons.rec = HeadNode
  /\ primask' = FALSE
  /\ cons' = [cons EXCEPT !.at = "handling", !.rec = NULL]
  /\ UNCHANGED <<next, prev, slab, payload, frame, halted, history>>

-----------------------------------------------------------------------------
Enqueue(c) ==
  \/ \E e \in Events, atFront \in BOOLEAN : Offer(c, e, atFront)
  \/ \E r \in Records : Alloc(c, r)
  \/ Fill(c) \/ Link(c)
  \/ Scan(c) \/ ScanNext(c) \/ Refuse(c)
  \/ Discard(c) \/ Unlink(c)
  \/ StoreBack(c) \/ StoreFore(c) \/ ClearPrev(c) \/ ClearNext(c)
  \/ StrayFault(c) \/ StrayReturn(c)

Dequeue == Pop \/ Read \/ Release \/ Finish
Remove == RemoveBegin \/ RemoveMatch \/ RemoveSkip \/ RemoveEnd

Next == Dequeue \/ Remove \/ Fault \/ \E c \in Contexts : Enqueue(c)

Spec == Init /\ [][Next]_vars

\* The CPU does not stop by itself: code that was entered goes on, a handler
\* of either kind returns after finitely many calls, and the main loop takes
\* the next event.  Nothing is assumed of new interrupts and new events.
Fairness ==
  /\ \A c \in Contexts : WF_vars(pc[c] # "rest" /\ Enqueue(c))
  /\ WF_vars(cons.at = "removing" /\ Remove)
  /\ SF_vars(Dequeue)

FairSpec == Spec /\ Fairness

-----------------------------------------------------------------------------
Fates == {"new", "offered", "refused", "queued", "discarded", "removed",
          "delivered"}
Labels == {"rest", "alloc", "fill", "link", "scan", "unlink", "stray"} \cup Unlinking
Places == {"loop", "popped", "read", "handling", "removing"}

\* The types of the state; the one type invariant of this module.
TypeOK ==
  /\ next \in [Nodes -> Nodes \cup {NULL}]
  /\ prev \in [Nodes -> Nodes \cup {NULL}]
  /\ slab \subseteq Records
  /\ payload \in [Records -> Events \cup {NULL}]
  /\ pc \in [Contexts -> Labels]
  /\ ev \in [Contexts -> Events \cup {NULL}]
  /\ front \in [Contexts -> BOOLEAN]
  /\ item \in [Contexts -> Nodes \cup {NULL}]
  /\ del \in [Contexts -> [prev : Nodes \cup {NULL}, next : Nodes \cup {NULL}]]
  /\ cons \in [at : Places, rec : Nodes \cup {NULL}, ev : Events \cup {NULL}]
  /\ cons.at = "removing" => cons.rec \in Nodes
  /\ primask \in BOOLEAN
  /\ halted \in BOOLEAN
  /\ torn \in BOOLEAN
  /\ fate \in [Events -> Fates]
  /\ frees \in [Events -> Nat]

WellLinked ==
  /\ Linked(HeadNode)
  /\ \A n \in Nodes :
       IF Linked(n) THEN /\ behind[n] # NULL
                         /\ behind[ahead[n]] = n
                         /\ ahead[behind[n]] = n
                    ELSE behind[n] = NULL

\* The links of the ring agree in both directions, whatever interrupted whom
\* between two updates of them (evtListDel, and the tail of evtQueueEnqueue);
\* while an unlinking is under way, those that its next stores leave.  An
\* interrupt handler that chooses a victim while another one is half unlinked
\* (heapFree has turned interrupts on) tears the ring: that alone is excused,
\* here and in the next two properties.
RingOK == torn \/ WellLinked

\* Record r is in the hands of an enqueue, or of the dequeue.
HeldBy(c, r) ==
  pc[c] \in {"fill", "link", "stray"} \cup Unlinking /\ item[c] = r
HeldByMain(r) == cons.at \in {"popped", "read"} /\ cons.rec = r

\* The records that hold an accepted event.
Present == {r \in Records : Linked(r) \/ HeldByMain(r)}

SlabAgrees ==
  \A r \in Records :
    /\ r \in slab <=> r \in Present \/ \E c \in Contexts : HeldBy(c, r)
    /\ HeldByMain(r) => ~Linked(r)
    /\ \A c \in Contexts : HeldBy(c, r) =>
         r \notin Present /\ \A d \in Contexts \ {c} : ~HeldBy(d, r)

\* A record whose slab bit is set is on the ring, or in exactly one hand, and
\* no other record is: none leaks and none is used twice (slabAllocatorAlloc
\* and slabAllocatorFree bracket every use).
SlabAccounted == torn \/ SlabAgrees

OneCycle ==
  \A S \in SUBSET Nodes :
    (HeadNode \in S /\ \A n \in S : Linked(n) => ahead[n] \in S)
      => \A n \in Nodes : Linked(n) => n \in S

\* The ring is one cycle: whatever the walk from the head is confined to holds
\* every linked record, so no event that was accepted is out of the reach of the
\* main loop and of the walks that remove or discard (for_each_item_safe).
OneRing == torn \/ OneCycle

\* An event evtQueueEnqueue returned true for stays on the ring, in one record,
\* until it is delivered, removed or thrown away as discardable: eventQ.h:27
\* marks as discardable exactly the "events we can afford to lose".
NoLoss ==
  \A e \in Events : fate[e] = "queued" =>
    \E r \in Records : {s \in Present : payload[s] = e} = {r}

\* The free callback of an event runs at most once, and never for an event
\* that is still waiting (handleEventFreeing from the three places that call it).
FreedOnce ==
  \A e \in Events : /\ frees[e] <= 1
                    /\ fate[e] \in {"new", "offered", "queued"} => frees[e] = 0

LinkedCount == Cardinality({r \in Records : Linked(r)})
\* The i-th node after the head.
NodeAt[i \in 0 .. Cardinality(Records)] ==
  IF i = 0 THEN HeadNode ELSE ahead[NodeAt[i - 1]]
\* The events on the ring, in order.
Queue == [i \in 1 .. LinkedCount |-> payload[NodeAt[i]]]

\* What the queue promises: a bounded queue of events (refinement).
BoundedQueue == INSTANCE BoundedEvtQueue WITH
  Capacity <- Cardinality(Records),
  Droppable <- Discardable \cup Removable,
  waiting <- Queue,
  gone <- {e \in Events : fate[e] \in {"delivered", "removed", "discarded"}}
          \cup (IF cons.at = "popped" THEN {payload[cons.rec]}
                ELSE IF cons.at = "read" THEN {cons.ev} ELSE {})
Refinement == BoundedQueue!Spec

\* Every event accepted is delivered to the main loop, or removed when its
\* timer is cancelled; osMainDequeueLoop never gets stuck behind it.
Served == \A e \in Events :
  fate[e] = "queued" ~> fate[e] \in {"delivered", "removed"}
=============================================================================
