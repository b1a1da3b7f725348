---------------------------- MODULE EvtQueue_proofs ----------------------------
(***************************************************************************)
(* Proofs about EvtQueue, for any number of records, of events and of      *)
(* interrupt priority levels.  First types, which hold whatever happens;   *)
(* then the links of the ring and the slab, as sets of nodes, until the    *)
(* ring is torn; then the events in the records; then the ring as a        *)
(* sequence, and that the abstract queue is what its users see of it.      *)
(***************************************************************************)
EXTENDS EvtQueue, TLAPS, WellFoundedInduction, SequenceTheorems, FiniteSetTheorems,
        FunctionTheorems

\* What a context, and the main loop, holds where, even on a ring that is torn.
Framed ==
  /\ next[HeadNode] # NULL
  /\ \A c \in Contexts :
       /\ pc[c] \in {"fill", "link", "unlink", "stray"} \cup Unlinking => item[c] \in Records
       /\ pc[c] = "scan" => item[c] \in Nodes
       /\ pc[c] # "rest" => ev[c] \in Events
       /\ pc[c] \in {"back", "fore"} => del[c].prev \in Nodes /\ del[c].next \in Nodes
  /\ cons.at \in {"popped", "read"} => cons.rec \in Records

TypeInv == TypeOK /\ Framed

\* A walk stands on the ring, or on the record another context is taking off.
FramesOK ==
  \A c \in Contexts : pc[c] = "scan" =>
    Linked(item[c]) \/ \E d \in Half : item[d] = item[c]

\* A walk over the ring is alone: interrupts are off, and nothing above it runs.
WalksAlone ==
  /\ \A c \in Contexts : pc[c] = "scan" =>
       primask /\ \A d \in Contexts : d > c => pc[d] = "rest"
  /\ cons.at = "removing" =>
       /\ primask /\ cons.rec \in Nodes /\ Linked(cons.rec)
       /\ \A c \in Contexts : pc[c] = "rest"
  /\ cons.at \in {"popped", "read"} => cons.rec \in Records
  /\ cons.at # "handling" => pc[Main] = "rest"

\* The slab is full from the walk to the end of the unlinking.
Full ==
  \A c \in Contexts : pc[c] \in {"scan", "unlink", "back", "fore"} => slab = Records

\* What interrupts a half done unlinking gets no further than its own walk.
Below ==
  \A c \in Half, d \in Contexts : d > c => pc[d] \in {"rest", "alloc", "scan"}

\* The links between the stores of a half done unlinking.
Marked ==
  \A c \in Half :
    /\ del[c].prev # item[c] /\ del[c].next # item[c]
    /\ Linked(del[c].prev) /\ Linked(del[c].next)
    /\ next[item[c]] = del[c].next /\ next[del[c].prev] = item[c]
    /\ pc[c] = "fore" => prev[del[c].next] = del[c].prev

Bare == \A c \in Contexts : pc[c] = "bare" => prev[item[c]] = NULL

\* A victim still to be unlinked is not being unlinked by a lower context.
Apart ==
  \A c, d \in Contexts :
    pc[c] = "unlink" /\ pc[d] \in Unlinking /\ item[d] = item[c] => d > c

\* The inductive invariant behind RingOK, OneRing and SlabAccounted: it holds
\* until the ring is torn.
Firm == /\ WellLinked /\ OneCycle /\ SlabAgrees
        /\ FramesOK /\ WalksAlone /\ Full /\ Below /\ Marked /\ Bare /\ Apart

RingInv == TypeInv /\ Firm

-----------------------------------------------------------------------------
USE DEF Contexts, Nodes, Main, Fates, Labels, Places, Unlinking

LEMMA NodesAreNotNull ==
  /\ NULL \notin Nodes /\ NULL \notin Events /\ HeadNode \notin Records
  /\ Main \in Contexts /\ \A c \in Contexts : c \in Nat
  /\ Discardable \subseteq Events /\ Removable \subseteq Events
BY EvtQueueAssumption

-----------------------------------------------------------------------------
(* Types.                                                                   *)

LEMMA TypeInit == Init => TypeInv
<1> SUFFICES ASSUME Init PROVE TypeOK /\ Framed
  BY DEF TypeInv
<1> USE NodesAreNotNull DEF Init, NoLinks
<1>1. next \in [Nodes -> Nodes \cup {NULL}] /\ prev \in [Nodes -> Nodes \cup {NULL}]
  OBVIOUS
<1>2. /\ pc \in [Contexts -> Labels] /\ front \in [Contexts -> BOOLEAN]
      /\ ev \in [Contexts -> Events \cup {NULL}]
      /\ item \in [Contexts -> Nodes \cup {NULL}]
      /\ del \in [Contexts -> [prev : Nodes \cup {NULL}, next : Nodes \cup {NULL}]]
  OBVIOUS
<1>3. /\ cons \in [at : Places, rec : Nodes \cup {NULL}, ev : Events \cup {NULL}]
      /\ cons.at = "handling"
  OBVIOUS
<1>4. /\ slab \subseteq Records /\ payload \in [Records -> Events \cup {NULL}]
      /\ fate \in [Events -> Fates] /\ frees \in [Events -> Nat]
      /\ primask \in BOOLEAN /\ halted \in BOOLEAN /\ torn \in BOOLEAN
  OBVIOUS
<1>5. TypeOK
  BY <1>1, <1>2, <1>3, <1>4 DEF TypeOK
<1>6. next[HeadNode] # NULL /\ \A c \in Contexts : pc[c] = "rest"
  OBVIOUS
<1> HIDE DEF Init
<1>7. Framed
  BY <1>3, <1>6 DEF Framed
<1> QED BY <1>5, <1>7

\* The two arrays of links after evtListDel, which needs both links of n.
LEMMA ListDelTypes ==
  ASSUME TypeInv, NEW n \in Records, ListDel(n)
  PROVE  /\ next' \in [Nodes -> Nodes \cup {NULL}] /\ prev' \in [Nodes -> Nodes \cup {NULL}]
         /\ next'[HeadNode] # NULL /\ next[n] \in Nodes
BY NodesAreNotNull DEF ListDel, TypeInv, TypeOK, Framed

\* Type correctness is inductive on its own.
LEMMA TypeStep ==
  ASSUME TypeInv, [Next]_vars
  PROVE  TypeInv'
<1> USE NodesAreNotNull DEF TypeOK, Framed, TypeInv
<1>1. ASSUME NEW c \in Contexts, NEW e \in Events, NEW f \in BOOLEAN, Offer(c, e, f)
      PROVE TypeInv'
  BY <1>1 DEF Offer, Goto
<1>2. ASSUME NEW c \in Contexts, NEW r \in Records, Alloc(c, r) PROVE TypeInv'
  BY <1>2 DEF Alloc, Goto, history
<1>3. ASSUME NEW c \in Contexts, Fill(c) PROVE TypeInv'
  BY <1>3 DEF Fill, Goto, history
<1>4. ASSUME NEW c \in Contexts, Link(c) PROVE TypeInv'
  <2>1. item[c] \in Records /\ ev[c] \in Events
    BY <1>4 DEF Link
  <2>2. PICK a \in Nodes, b \in Nodes : InsertBetween(item[c], a, b)
    BY <1>4 DEF Link
  <2>3. /\ next' \in [Nodes -> Nodes \cup {NULL}] /\ prev' \in [Nodes -> Nodes \cup {NULL}]
        /\ next'[HeadNode] # NULL
    BY <2>1, <2>2 DEF InsertBetween
  <2>4. fate' \in [Events -> Fates]
    BY <1>4, <2>1 DEF Link
  <2> QED BY <1>4, <2>3, <2>4 DEF Link, Return, Goto
<1>5. ASSUME NEW c \in Contexts, Scan(c) PROVE TypeInv'
  BY <1>5 DEF Scan, Goto, history
<1>6. ASSUME NEW c \in Contexts, ScanNext(c) PROVE TypeInv'
  BY <1>6 DEF ScanNext, history
<1>7. ASSUME NEW c \in Contexts, Refuse(c) PROVE TypeInv'
  BY <1>7 DEF Refuse, Return, Goto
<1>8. ASSUME NEW c \in Contexts, Discard(c) PROVE TypeInv'
  <2>1. item[c] \in Records /\ payload[item[c]] \in Events
    BY <1>8 DEF Discard
  <2>2. frees' \in [Events -> Nat] /\ fate' \in [Events -> Fates]
    BY <1>8, <2>1 DEF Discard, FreeEvent
  <2>3. torn' \in BOOLEAN /\ primask' \in BOOLEAN
    BY <1>8 DEF Discard
  <2> QED BY <1>8, <2>1, <2>2, <2>3 DEF Discard, Goto
<1>9. ASSUME NEW c \in Contexts, Unlink(c) PROVE TypeInv'
  <2>1. item[c] \in Records
    BY <1>9 DEF Unlink
  <2>2. CASE next[item[c]] # NULL /\ prev[item[c]] # NULL
    <3>1. next[item[c]] \in Nodes /\ prev[item[c]] \in Nodes
      BY <2>1, <2>2
    <3>2. /\ del' = [del EXCEPT ![c] = [prev |-> prev[item[c]], next |-> next[item[c]]]]
          /\ pc' = [pc EXCEPT ![c] = "back"]
          /\ UNCHANGED <<next, prev, slab, payload, ev, front, item, cons, primask, halted,
                         torn, fate, frees>>
      BY <1>9, <2>2 DEF Unlink, Goto, history
    <3>3. del' \in [Contexts -> [prev : Nodes \cup {NULL}, next : Nodes \cup {NULL}]]
      BY <3>1, <3>2
    <3>4. del'[c].prev \in Nodes /\ del'[c].next \in Nodes
      BY <3>1, <3>2
    <3>5. \A d \in Contexts : d # c => pc'[d] = pc[d] /\ del'[d] = del[d]
      BY <3>2
    <3>6. pc'[c] = "back" /\ ev[c] \in Events /\ pc' \in [Contexts -> Labels]
      BY <1>9, <3>2 DEF Unlink
    <3>7. TypeOK'
      BY <3>2, <3>3, <3>6
    <3>8. Framed'
      BY <2>1, <3>2, <3>4, <3>5, <3>6
    <3> QED BY <3>7, <3>8
  <2>3. CASE ~(next[item[c]] # NULL /\ prev[item[c]] # NULL)
    BY <1>9, <2>3 DEF Unlink, history
  <2> QED BY <2>2, <2>3
<1>10. ASSUME NEW c \in Contexts, StoreBack(c) PROVE TypeInv'
  BY <1>10 DEF StoreBack, Goto, history
<1>11. ASSUME NEW c \in Contexts, StoreFore(c) PROVE TypeInv'
  BY <1>11 DEF StoreFore, Goto, history, NoLinks
<1>12. ASSUME NEW c \in Contexts, ClearPrev(c) PROVE TypeInv'
  BY <1>12 DEF ClearPrev, Goto, history
<1>13. ASSUME NEW c \in Contexts, ClearNext(c) PROVE TypeInv'
  BY <1>13 DEF ClearNext, Goto, history
<1>14. ASSUME NEW c \in Contexts, StrayFault(c) \/ StrayReturn(c) PROVE TypeInv'
  BY <1>14 DEF StrayFault, StrayReturn, Goto, frame, history
<1>15. ASSUME Pop PROVE TypeInv'
  <2>1. next[HeadNode] \in Records
    BY <1>15 DEF Pop
  <2> QED BY <1>15, <2>1, ListDelTypes DEF Pop, frame, history
<1>16. ASSUME Read PROVE TypeInv'
  BY <1>16 DEF Read, frame, history
<1>17. ASSUME Release PROVE TypeInv'
  BY <1>17 DEF Release, frame
<1>18. ASSUME Finish PROVE TypeInv'
  BY <1>18 DEF Finish, FreeEvent, frame
<1>19. ASSUME RemoveBegin PROVE TypeInv'
  BY <1>19 DEF RemoveBegin, frame, history
<1>20. ASSUME RemoveMatch PROVE TypeInv'
  <2>1. cons.rec \in Records /\ payload[cons.rec] \in Events /\ cons.at = "removing"
    BY <1>20 DEF RemoveMatch, Expel
  <2>2. /\ next' \in [Nodes -> Nodes \cup {NULL}] /\ prev' \in [Nodes -> Nodes \cup {NULL}]
        /\ next'[HeadNode] # NULL /\ next[cons.rec] \in Nodes
    BY <1>20, <2>1, ListDelTypes DEF RemoveMatch
  <2>3. /\ frees' = [frees EXCEPT ![payload[cons.rec]] = @ + 1]
        /\ fate' = [fate EXCEPT ![payload[cons.rec]] = "removed"]
        /\ slab' = slab \ {cons.rec}
        /\ cons' = [cons EXCEPT !.rec = next[cons.rec]]
        /\ UNCHANGED <<payload, pc, ev, front, item, del, primask, halted, torn>>
    BY <1>20 DEF RemoveMatch, Expel, FreeEvent, frame
  <2>4. fate' \in [Events -> Fates]
    BY <2>3
  <2>5. frees' \in [Events -> Nat]
    <3> DEFINE e == payload[cons.rec]
    <3>1. e \in Events /\ frees' = [frees EXCEPT ![e] = frees[e] + 1]
      BY <2>1, <2>3
    <3> HIDE DEF e
    <3>2. frees[e] + 1 \in Nat
      BY <3>1
    <3> QED BY <3>1, <3>2
  <2>6. /\ cons' \in [at : Places, rec : Nodes \cup {NULL}, ev : Events \cup {NULL}]
        /\ cons'.at = "removing" /\ cons'.rec \in Nodes
    BY <2>1, <2>2, <2>3
  <2> QED BY <2>2, <2>3, <2>4, <2>5, <2>6
<1>21. ASSUME RemoveSkip \/ RemoveEnd PROVE TypeInv'
  <2>1. UNCHANGED <<next, prev, slab, payload, pc, ev, front, item, del, halted, torn, fate, frees>>
    BY <1>21 DEF RemoveSkip, RemoveEnd, frame, history
  <2>2. primask' \in BOOLEAN
    BY <1>21 DEF RemoveSkip, RemoveEnd
  <2>3. ASSUME RemoveSkip PROVE cons' \in [at : Places, rec : Nodes, ev : Events \cup {NULL}]
    BY <2>3 DEF RemoveSkip
  <2>4. ASSUME RemoveEnd
        PROVE  cons' = [at |-> "handling", rec |-> NULL, ev |-> cons.ev]
    BY <2>4 DEF RemoveEnd
  <2>5. /\ cons' \in [at : Places, rec : Nodes \cup {NULL}, ev : Events \cup {NULL}]
        /\ cons'.at = "removing" => cons'.rec \in Nodes
    <3>1. CASE RemoveSkip
      BY <2>3, <3>1
    <3>2. CASE RemoveEnd
      <4>1. cons'.at = "handling"
        BY <2>4, <3>2
      <4>2. cons' \in [at : Places, rec : Nodes \cup {NULL}, ev : Events \cup {NULL}]
        BY <2>4, <3>2
      <4> QED BY <4>1, <4>2
    <3> QED BY <1>21, <3>1, <3>2
  <2>6. Framed'
    <3>1. cons'.at \notin {"popped", "read"}
      BY <1>21, <2>4 DEF RemoveSkip
    <3> QED BY <2>1, <3>1
  <2>7. TypeOK'
    BY <2>1, <2>2, <2>5
  <2> QED BY <2>6, <2>7
<1>22. ASSUME Fault PROVE TypeInv'
  BY <1>22 DEF Fault, frame, history
<1>23. CASE UNCHANGED vars
  BY <1>23 DEF vars
<1> HIDE DEF TypeOK, Framed, TypeInv, Contexts, Nodes
<1> QED
  BY <1>1, <1>2, <1>3, <1>4, <1>5, <1>6, <1>7, <1>8, <1>9, <1>10, <1>11, <1>12, <1>13,
     <1>14, <1>15, <1>16, <1>17, <1>18, <1>19, <1>20, <1>21, <1>22, <1>23
     DEF Next, Enqueue, Dequeue, Remove

\* Every variable keeps its type, also on a ring that is torn.
THEOREM TypeCorrect == Spec => []TypeOK
<1>1. TypeInv => TypeOK
  BY DEF TypeInv
<1> QED BY <1>1, TypeInit, TypeStep, PTL DEF Spec

-----------------------------------------------------------------------------
(* The ring.                                                                *)

\* What TypeOK says of the two arrays of links, as they will be.
LinksOK == /\ ahead \in [Nodes -> Nodes \cup {NULL}]
           /\ behind \in [Nodes -> Nodes \cup {NULL}]

OneHalf == \A c, d \in Half : c = d

\* What the two arrays of links are while at most one unlinking is half done.
Views ==
  /\ \A n \in Nodes : Leaving(n) => ahead[n] = NULL /\ behind[n] = NULL
  /\ \A n \in Nodes : ~Leaving(n) /\ Half = {} => ahead[n] = next[n] /\ behind[n] = prev[n]
  /\ \A n \in Nodes, c \in Half : ~Leaving(n) /\ OneHalf =>
       /\ ahead[n] = IF del[c].prev = n THEN del[c].next ELSE next[n]
       /\ behind[n] = IF del[c].next = n THEN del[c].prev ELSE prev[n]

LEMMA ViewsAre == Views
<1>1. ASSUME NEW n \in Nodes, Leaving(n) PROVE ahead[n] = NULL /\ behind[n] = NULL
  BY <1>1 DEF ahead, behind
<1>2. ASSUME NEW n \in Nodes, ~Leaving(n), Half = {}
      PROVE  ahead[n] = next[n] /\ behind[n] = prev[n]
  BY <1>2 DEF ahead, behind
<1>3. ASSUME NEW n \in Nodes, NEW c \in Half, ~Leaving(n), OneHalf
      PROVE  /\ ahead[n] = IF del[c].prev = n THEN del[c].next ELSE next[n]
             /\ behind[n] = IF del[c].next = n THEN del[c].prev ELSE prev[n]
  <2>1. ASSUME del[c].prev = n PROVE ahead[n] = del[c].next
    <3> DEFINE p == CHOOSE d \in Half : del[d].prev = n
    <3>1. p \in Half
      BY <2>1
    <3>2. p = c
      BY <3>1, <1>3 DEF OneHalf
    <3>3. ahead[n] = del[p].next
      BY <1>3, <2>1 DEF ahead
    <3> QED BY <3>2, <3>3, <2>1
  <2>2. ASSUME del[c].prev # n PROVE ahead[n] = next[n]
    <3>1. ~\E d \in Half : del[d].prev = n
      BY <2>2, <1>3 DEF OneHalf
    <3> QED BY <1>3, <2>2, <3>1 DEF ahead
  <2>3. ASSUME del[c].next = n PROVE behind[n] = del[c].prev
    <3> DEFINE p == CHOOSE d \in Half : del[d].next = n
    <3>1. p \in Half
      BY <2>3
    <3>2. p = c
      BY <3>1, <1>3 DEF OneHalf
    <3>3. behind[n] = del[p].prev
      BY <1>3, <2>3 DEF behind
    <3> QED BY <3>2, <3>3, <2>3
  <2>4. ASSUME del[c].next # n PROVE behind[n] = prev[n]
    <3>1. ~\E d \in Half : del[d].next = n
      BY <2>4, <1>3 DEF OneHalf
    <3> QED BY <1>3, <2>4, <3>1 DEF behind
  <2>5. ahead[n] = IF del[c].prev = n THEN del[c].next ELSE next[n]
    BY <2>1, <2>2
  <2>6. behind[n] = IF del[c].next = n THEN del[c].prev ELSE prev[n]
    BY <2>3, <2>4
  <2> QED BY <2>5, <2>6
<1> QED BY <1>1, <1>2, <1>3 DEF Views

LEMMA ViewsNext == Views'
BY ViewsAre, PTL

\* ... and they have their types.
LEMMA LinksTyped == TypeInv /\ OneHalf => LinksOK
<1> SUFFICES ASSUME TypeInv, OneHalf PROVE LinksOK
  OBVIOUS
<1>1. ahead = [n \in Nodes |-> ahead[n]] /\ behind = [n \in Nodes |-> behind[n]]
  BY DEF ahead, behind
<1>2. ASSUME NEW n \in Nodes
      PROVE ahead[n] \in Nodes \cup {NULL} /\ behind[n] \in Nodes \cup {NULL}
  <2>1. CASE Leaving(n)
    BY <2>1, ViewsAre DEF Views
  <2>2. CASE ~Leaving(n) /\ Half = {}
    BY <2>2, ViewsAre DEF Views, TypeInv, TypeOK
  <2>3. CASE ~Leaving(n) /\ Half # {}
    <3>1. PICK c \in Half : TRUE
      BY <2>3
    <3>2. del[c].prev \in Nodes /\ del[c].next \in Nodes
      BY DEF Half, TypeInv, Framed
    <3> QED BY <2>3, <3>1, <3>2, ViewsAre DEF Views, TypeInv, TypeOK
  <2> QED BY <2>1, <2>2, <2>3
<1> HIDE DEF Nodes
<1> QED BY <1>1, <1>2 DEF LinksOK

LEMMA LinksTypedNext == TypeInv' /\ OneHalf' => LinksOK'
<1>1. (TypeInv /\ OneHalf => LinksOK)'
  BY LinksTyped, PTL
<1> QED BY <1>1

LEMMA HalvesAreOne == Below => OneHalf
<1>1. ASSUME Below, NEW c \in Half, NEW d \in Half, c # d PROVE FALSE
  <2>1. c \in Nat /\ d \in Nat
    BY NodesAreNotNull DEF Half
  <2>2. c < d \/ d < c
    BY <1>1, <2>1
  <2> QED BY <1>1, <2>2 DEF Below, Half
<1> QED BY <1>1 DEF OneHalf

LEMMA HalvesAreOneNext == Below' => OneHalf'
<1>1. (Below => OneHalf)'
  BY HalvesAreOne, PTL
<1> QED BY <1>1

\* evtListDel, as the links will be once its stores are made.
Unlinked(n) ==
  /\ \A m \in Nodes : ahead'[m] =
       IF m = n THEN NULL ELSE IF m = behind[n] THEN ahead[n] ELSE ahead[m]
  /\ \A m \in Nodes : behind'[m] =
       IF m = n THEN NULL ELSE IF m = ahead[n] THEN behind[n] ELSE behind[m]

\* The tail of evtQueueEnqueue: n is linked in front of b.
Inserted(n, b) ==
  /\ \A m \in Nodes : ahead'[m] =
       IF m = n THEN b ELSE IF m = behind[b] THEN n ELSE ahead[m]
  /\ \A m \in Nodes : behind'[m] =
       IF m = n THEN behind[b] ELSE IF m = b THEN n ELSE behind[m]

\* Following a link of a linked node leads to a linked node.
LEMMA Neighbours ==
  ASSUME LinksOK, WellLinked
  PROVE  \A n \in Nodes : Linked(n) =>
           /\ ahead[n] \in Nodes /\ Linked(ahead[n])
           /\ behind[n] \in Nodes /\ Linked(behind[n])
BY NodesAreNotNull DEF LinksOK, WellLinked, Linked

\* evtListDel takes n, and only n, off the ring, and leaves a ring.
LEMMA ListDelKeepsRing ==
  ASSUME LinksOK, WellLinked, NEW n \in Records, Linked(n), Unlinked(n)
  PROVE  /\ WellLinked'
         /\ \A m \in Nodes : Linked(m)' <=> Linked(m) /\ m # n
<1>1. /\ ahead[n] \in Nodes /\ Linked(ahead[n]) /\ behind[n] \in Nodes /\ Linked(behind[n])
      /\ n \in Nodes /\ n # HeadNode
  BY Neighbours, NodesAreNotNull
<1>2. /\ \A m \in Nodes : ahead'[m] = IF m = n THEN NULL
                                     ELSE IF m = behind[n] THEN ahead[n] ELSE ahead[m]
      /\ \A m \in Nodes : behind'[m] = IF m = n THEN NULL
                                     ELSE IF m = ahead[n] THEN behind[n] ELSE behind[m]
  BY <1>1 DEF Unlinked
<1>4. \A m \in Nodes : Linked(m)' <=> Linked(m) /\ m # n
  BY <1>1, <1>2, NodesAreNotNull DEF Linked
<1>5. WellLinked'
  <2>1. Linked(HeadNode)'
    BY <1>1, <1>4 DEF WellLinked
  <2>2. ASSUME NEW m \in Nodes, m # n, Linked(m)
        PROVE behind'[m] # NULL /\ behind'[ahead'[m]] = m /\ ahead'[behind'[m]] = m
    <3>1. ahead[m] \in Nodes /\ behind[m] \in Nodes /\ behind[m] # NULL
      BY <2>2, Neighbours, NodesAreNotNull
    <3>2. behind[ahead[m]] = m /\ ahead[behind[m]] = m /\ behind[ahead[n]] = n /\ ahead[behind[n]] = n
      BY <2>2, <1>1 DEF WellLinked
    <3> QED BY <2>2, <3>1, <3>2, <1>1, <1>2, NodesAreNotNull
  <2>3. ASSUME NEW m \in Nodes, m = n \/ ~Linked(m) PROVE behind'[m] = NULL
    BY <2>3, <1>1, <1>2, Neighbours DEF WellLinked
  <2> QED BY <2>1, <2>2, <2>3, <1>4 DEF WellLinked
<1> QED BY <1>4, <1>5

\* The tail of evtQueueEnqueue puts n, and only n, on the ring, before b.
LEMMA InsertKeepsRing ==
  ASSUME LinksOK, WellLinked, NEW n \in Records, ~Linked(n), NEW b \in Nodes, Linked(b),
         Inserted(n, b)
  PROVE  /\ WellLinked'
         /\ \A m \in Nodes : Linked(m)' <=> Linked(m) \/ m = n
<1>1. behind[b] \in Nodes /\ Linked(behind[b]) /\ n \in Nodes /\ n # b /\ n # behind[b]
  BY Neighbours
<1>2. /\ \A m \in Nodes : ahead'[m] = IF m = n THEN b
                                     ELSE IF m = behind[b] THEN n ELSE ahead[m]
      /\ \A m \in Nodes : behind'[m] = IF m = n THEN behind[b]
                                     ELSE IF m = b THEN n ELSE behind[m]
  BY <1>1 DEF Inserted
<1>4. \A m \in Nodes : Linked(m)' <=> Linked(m) \/ m = n
  BY <1>1, <1>2, NodesAreNotNull DEF Linked
<1>5. WellLinked'
  <2>1. Linked(HeadNode)'
    BY <1>4 DEF WellLinked
  <2>2. ASSUME NEW m \in Nodes, m = n \/ Linked(m)
        PROVE behind'[m] # NULL /\ behind'[ahead'[m]] = m /\ ahead'[behind'[m]] = m
    <3>1. CASE m = n
      BY <3>1, <1>1, <1>2, NodesAreNotNull
    <3>2. CASE m # n
      <4>1. /\ ahead[m] \in Nodes /\ behind[m] \in Nodes /\ behind[m] # NULL
            /\ Linked(ahead[m]) /\ Linked(behind[m])
        BY <2>2, <3>2, Neighbours, NodesAreNotNull
      <4>2. behind[ahead[m]] = m /\ ahead[behind[m]] = m /\ ahead[behind[b]] = b
        BY <2>2, <3>2, <1>1 DEF WellLinked
      <4>3. ahead[m] # n /\ behind[m] # n
        BY <4>1
      <4>4. behind'[ahead'[m]] = m
        <5>1. CASE m = behind[b]
          BY <5>1, <3>2, <1>1, <1>2
        <5>2. CASE m # behind[b]
          <6>1. ahead'[m] = ahead[m] /\ ahead[m] # b
            BY <5>2, <3>2, <4>2, <1>2
          <6> QED BY <6>1, <4>1, <4>2, <4>3, <1>2
        <5> QED BY <5>1, <5>2
      <4>5. ahead'[behind'[m]] = m
        <5>1. CASE m = b
          BY <5>1, <3>2, <1>1, <1>2
        <5>2. CASE m # b
          <6>1. behind'[m] = behind[m] /\ behind[m] # behind[b]
            BY <5>2, <3>2, <4>2, <1>2
          <6> QED BY <6>1, <4>1, <4>2, <4>3, <1>2
        <5> QED BY <5>1, <5>2
      <4> QED BY <3>2, <4>1, <4>4, <4>5, <1>2, NodesAreNotNull
    <3> QED BY <3>1, <3>2
  <2>3. ASSUME NEW m \in Nodes, m # n, ~Linked(m) PROVE behind'[m] = NULL
    <3>1. m # b /\ behind[m] = NULL
      BY <2>3 DEF WellLinked
    <3> QED BY <2>3, <3>1, <1>2
  <2> QED BY <2>1, <2>2, <2>3, <1>4 DEF WellLinked
<1> QED BY <1>4, <1>5

\* ... and, if all linked nodes were on one cycle, so are those that remain.
LEMMA ListDelKeepsOneRing ==
  ASSUME LinksOK, WellLinked, OneCycle, NEW n \in Records, Linked(n), Unlinked(n)
  PROVE  OneCycle'
<1>1. /\ ahead[n] \in Nodes /\ behind[n] \in Nodes /\ Linked(behind[n])
      /\ n \in Nodes /\ n # HeadNode /\ ahead[behind[n]] = n
  BY Neighbours, NodesAreNotNull DEF WellLinked
<1>2. /\ \A m \in Nodes : Linked(m)' <=> Linked(m) /\ m # n
      /\ \A m \in Nodes : m # n => ahead'[m] = IF m = behind[n] THEN ahead[n] ELSE ahead[m]
  BY <1>1, ListDelKeepsRing DEF Unlinked
<1> SUFFICES ASSUME NEW S \in SUBSET Nodes, HeadNode \in S,
                    \A m \in S : Linked(m)' => ahead'[m] \in S
             PROVE  \A m \in Nodes : Linked(m)' => m \in S
  BY DEF OneCycle
<1>3. CASE behind[n] \in S
  <2>1. ahead[n] \in S \/ behind[n] = n
    BY <1>1, <1>2, <1>3
  <2>2. \A m \in S \cup {n} : Linked(m) => ahead[m] \in S \cup {n}
    BY <2>1, <1>1, <1>2
  <2>3. S \cup {n} \in SUBSET Nodes
    BY <1>1
  <2>4. \A m \in Nodes : Linked(m) => m \in S \cup {n}
    BY <2>2, <2>3 DEF OneCycle
  <2> QED BY <2>4, <1>2
<1>4. CASE behind[n] \notin S
  <2>1. ASSUME NEW m \in S \ {n}, Linked(m) PROVE ahead[m] \in S \ {n}
    <3>1. ahead[m] = ahead'[m] /\ Linked(m)' /\ m # behind[n]
      BY <2>1, <1>2, <1>4
    <3>2. behind[ahead[m]] = m
      BY <2>1 DEF WellLinked
    <3> QED BY <3>1, <3>2
  <2>2. \A m \in Nodes : Linked(m) => m \in S \ {n}
    BY <2>1, <1>1 DEF OneCycle
  <2> QED BY <2>2, <1>1, <1>4
<1> QED BY <1>3, <1>4

LEMMA InsertKeepsOneRing ==
  ASSUME LinksOK, WellLinked, OneCycle,
         NEW n \in Records, ~Linked(n), NEW b \in Nodes, Linked(b),
         Inserted(n, b)
  PROVE  OneCycle'
<1>1. /\ behind[b] \in Nodes /\ Linked(behind[b]) /\ n \in Nodes /\ ahead[behind[b]] = b
      /\ behind[b] # n
      /\ Linked(HeadNode)
  BY Neighbours DEF WellLinked
<1>2. /\ \A m \in Nodes : Linked(m)' <=> Linked(m) \/ m = n
      /\ \A m \in Nodes : ahead'[m] = IF m = n THEN b
                                     ELSE IF m = behind[b] THEN n ELSE ahead[m]
  BY <1>1, InsertKeepsRing DEF Inserted
<1> SUFFICES ASSUME NEW S \in SUBSET Nodes, HeadNode \in S,
                    \A m \in S : Linked(m)' => ahead'[m] \in S
             PROVE  \A m \in Nodes : Linked(m)' => m \in S
  BY DEF OneCycle
<1>3. ASSUME NEW m \in S \ {n}, Linked(m) PROVE ahead[m] \in S \ {n}
  <2>1. Linked(ahead[m]) /\ ahead'[m] \in S /\ m \in Nodes
    BY <1>2, <1>3, Neighbours
  <2>2. CASE m = behind[b]
    <3>1. n \in S
      BY <2>1, <2>2, <1>2, <1>3
    <3>2. b \in S
      BY <3>1, <1>1, <1>2
    <3> QED BY <3>2, <2>1, <2>2, <1>1
  <2>3. CASE m # behind[b]
    BY <2>1, <2>3, <1>2, <1>3
  <2> QED BY <2>2, <2>3
<1>4. \A m \in Nodes : Linked(m) => m \in S \ {n}
  BY <1>1, <1>3 DEF OneCycle
<1>5. n \in S
  <2>1. \A m \in Nodes : m = behind[b] => m \in S /\ Linked(m)' /\ ahead'[m] = n
    BY <1>1, <1>2, <1>4
  <2> QED BY <2>1, <1>1
<1> QED BY <1>2, <1>4, <1>5

\* On one cycle through the head, no record is its own successor.
LEMMA NoSelfLoop ==
  ASSUME LinksOK, WellLinked, OneCycle, NEW r \in Records, Linked(r)
  PROVE  ahead[r] # r
<1> SUFFICES ASSUME ahead[r] = r PROVE FALSE
  OBVIOUS
<1>1. ASSUME NEW m \in Nodes \ {r}, Linked(m) PROVE ahead[m] \in Nodes \ {r}
  <2>1. ahead[m] \in Nodes /\ behind[ahead[m]] = m /\ behind[ahead[r]] = r
    BY <1>1, Neighbours DEF WellLinked
  <2> QED BY <2>1
<1>2. HeadNode \in Nodes \ {r}
  BY NodesAreNotNull
<1> QED BY <1>1, <1>2 DEF OneCycle

-----------------------------------------------------------------------------
(* The steps, until the ring is torn.                                       *)

Same == \A n \in Nodes : ahead'[n] = ahead[n] /\ behind'[n] = behind[n]

\* A step that leaves the links as they are leaves the ring as it is.
LEMMA SameRing ==
  ASSUME LinksOK, WellLinked, OneCycle, Same
  PROVE  WellLinked' /\ OneCycle' /\ \A n \in Nodes : Linked(n)' <=> Linked(n)
<1>1. \A n \in Nodes : Linked(n)' <=> Linked(n)
  BY DEF Same, Linked
<1>2. WellLinked'
  BY <1>1, Neighbours, NodesAreNotNull DEF Same, WellLinked
<1>3. OneCycle'
  BY <1>1 DEF Same, OneCycle
<1> QED BY <1>1, <1>2, <1>3

\* A step that stores no link and concerns nobody who is unlinking.
Quiet ==
  /\ UNCHANGED <<next, prev, del>>
  /\ \A d \in Contexts : pc[d] \in Unlinking \/ pc'[d] \in Unlinking =>
       pc'[d] = pc[d] /\ item'[d] = item[d]

LEMMA QuietStep ==
  ASSUME TypeInv, Firm, Quiet
  PROVE  /\ WellLinked' /\ OneCycle' /\ Marked' /\ Bare' /\ Half' = Half
         /\ \A n \in Nodes : Linked(n)' <=> Linked(n)
<1>1. Half' = Half
  BY DEF Quiet, Half
<1>2. \A n \in Nodes : Leaving(n)' <=> Leaving(n)
  BY DEF Quiet, Leaving
<1>3. OneHalf /\ OneHalf' /\ LinksOK
  BY <1>1, HalvesAreOne, LinksTyped DEF Firm, OneHalf
<1>4. Same
  <2> SUFFICES ASSUME NEW n \in Nodes PROVE ahead'[n] = ahead[n] /\ behind'[n] = behind[n]
    BY DEF Same
  <2>1. CASE Leaving(n)
    BY <2>1, <1>2, ViewsAre, ViewsNext DEF Views
  <2>2. CASE ~Leaving(n) /\ Half = {}
    BY <2>2, <1>1, <1>2, ViewsAre, ViewsNext DEF Views, Quiet
  <2>3. CASE ~Leaving(n) /\ Half # {}
    <3>1. PICK c \in Half : TRUE
      BY <2>3
    <3>2. c \in Half' /\ ~Leaving(n)' /\ del' = del /\ next' = next /\ prev' = prev
      BY <2>3, <1>1, <1>2 DEF Quiet
    <3>3. /\ ahead[n] = IF del[c].prev = n THEN del[c].next ELSE next[n]
          /\ behind[n] = IF del[c].next = n THEN del[c].prev ELSE prev[n]
      BY <2>3, <1>3, ViewsAre DEF Views
    <3>4. /\ ahead'[n] = IF del'[c].prev = n THEN del'[c].next ELSE next'[n]
          /\ behind'[n] = IF del'[c].next = n THEN del'[c].prev ELSE prev'[n]
      BY <3>2, <1>3, ViewsNext DEF Views
    <3> QED BY <3>2, <3>3, <3>4
  <2> QED BY <2>1, <2>2, <2>3
<1>5. WellLinked' /\ OneCycle' /\ \A n \in Nodes : Linked(n)' <=> Linked(n)
  BY <1>3, <1>4, SameRing DEF Firm
<1>6. Marked'
  <2>1. \A c \in Half : pc'[c] = pc[c] /\ item'[c] = item[c]
    BY DEF Half, Quiet
  <2>2. \A c \in Half : del[c].prev \in Nodes /\ del[c].next \in Nodes
    BY DEF Half, TypeInv, Framed
  <2> QED BY <2>1, <2>2, <1>1, <1>5 DEF Marked, Firm, Quiet
<1>7. Bare'
  BY DEF Bare, Firm, Quiet
<1> QED BY <1>1, <1>5, <1>6, <1>7

\* Whoever runs and is beyond its walk has no half done unlinking below it.
LEMMA NoneBelow ==
  ASSUME Firm, NEW c \in Contexts, Runs(c), pc[c] \notin {"rest", "alloc", "scan"}
  PROVE  Half \subseteq {c}
<1>1. ASSUME NEW d \in Half, d # c PROVE FALSE
  <2>1. d \in Nat /\ c \in Nat /\ d \in Contexts
    BY NodesAreNotNull DEF Half
  <2>2. ~(d > c)
    BY <2>1 DEF Runs, Half
  <2>3. c > d
    BY <2>1, <2>2, <1>1
  <2> QED BY <1>1, <2>3 DEF Firm, Below
<1> QED BY <1>1

\* A node somebody unlinks is not on the ring.
LEMMA LeavingIsOff == \A n \in Nodes : Leaving(n) => ~Linked(n)
BY ViewsAre DEF Views, Linked

\* A step of c keeps what Full, Below and Apart say of who is where.
LEMMA ControlStays ==
  ASSUME TypeInv, Firm, NEW c \in Contexts, Runs(c),
         \A d \in Contexts : d # c => pc'[d] = pc[d] /\ item'[d] = item[d],
         slab = Records => slab' = Records,
         pc'[c] \in {"scan", "unlink", "back", "fore"} => slab = Records,
         pc'[c] \in {"rest", "alloc", "scan"} \/ Half \subseteq {c},
         pc'[c] = "unlink" => item'[c] \in Nodes /\ Linked(item'[c])
  PROVE  Full' /\ Below' /\ Apart'
<1>1. Full'
  BY DEF Firm, Full
<1>2. Below'
  <2> SUFFICES ASSUME NEW h \in Half', NEW d \in Contexts, d > h
               PROVE  pc'[d] \in {"rest", "alloc", "scan"}
    BY DEF Below
  <2>1. h \in Contexts /\ pc'[h] \in {"back", "fore"}
    BY DEF Half
  <2>2. CASE h = c
    BY <2>2, NodesAreNotNull DEF Runs
  <2>3. CASE h # c
    <3>1. h \in Half
      BY <2>1, <2>3 DEF Half
    <3> QED BY <2>3, <3>1 DEF Firm, Below
  <2> QED BY <2>2, <2>3
<1>3. Apart'
  <2> SUFFICES ASSUME NEW a \in Contexts, NEW d \in Contexts,
                      pc'[a] = "unlink", pc'[d] \in Unlinking, item'[d] = item'[a]
               PROVE  d > a
    BY DEF Apart
  <2>1. CASE a = c
    <3>1. Leaving(item'[c])
      BY <2>1 DEF Leaving
    <3> QED BY <2>1, <3>1, LeavingIsOff
  <2>2. CASE a # c /\ d = c
    <3>1. a \in Nat /\ c \in Nat /\ ~(a > c)
      BY <2>2, NodesAreNotNull DEF Runs
    <3> QED BY <2>2, <3>1
  <2>3. CASE a # c /\ d # c
    BY <2>3 DEF Firm, Apart
  <2> QED BY <2>1, <2>2, <2>3
<1> QED BY <1>1, <1>2, <1>3

\* With nobody inside of evtQueueEnqueue the links are what they seem.
LEMMA AllAtRest ==
  ASSUME \A c \in Contexts : pc[c] = "rest", UNCHANGED pc
  PROVE  /\ Full' /\ Below' /\ Apart' /\ Marked' /\ Bare' /\ FramesOK'
         /\ \A n \in Nodes : /\ ahead[n] = next[n] /\ behind[n] = prev[n]
                             /\ ahead'[n] = next'[n] /\ behind'[n] = prev'[n]
<1>1. Half = {} /\ Half' = {}
  BY DEF Half
<1>2. \A n \in Nodes : ~Leaving(n) /\ ~Leaving(n)'
  BY DEF Leaving
<1>3. Full' /\ Below' /\ Apart' /\ Marked' /\ Bare' /\ FramesOK'
  BY <1>1 DEF Full, Below, Apart, Marked, Bare, FramesOK
<1> QED BY <1>1, <1>2, <1>3, ViewsAre, ViewsNext DEF Views

\* The next node of a walk is on the ring, or being taken off.
LEMMA WalkGoesOn ==
  ASSUME TypeInv, Firm, NEW n \in Nodes, next[n] # NULL,
         Linked(n) \/ \E d \in Half : item[d] = n
  PROVE  next[n] \in Nodes /\ (Linked(next[n]) \/ \E d \in Half : item[d] = next[n])
<1>1. OneHalf /\ LinksOK
  BY HalvesAreOne, LinksTyped DEF Firm
<1>2. next[n] \in Nodes
  BY DEF TypeInv, TypeOK
<1>3. CASE Half = {}
  BY <1>1, <1>3, Neighbours, LeavingIsOff, ViewsAre DEF Views, Firm
<1>4. ASSUME NEW h \in Half PROVE Linked(next[n]) \/ \E d \in Half : item[d] = next[n]
  <2>1. CASE item[h] = n
    BY <2>1, <1>4 DEF Firm, Marked
  <2>2. CASE item[h] # n /\ del[h].prev = n
    BY <2>2, <1>4 DEF Firm, Marked
  <2>3. CASE item[h] # n /\ del[h].prev # n
    <3>1. Linked(n)
      BY <2>3, <1>1, <1>4 DEF OneHalf
    <3>2. ahead[n] = next[n]
      BY <2>3, <3>1, <1>1, <1>4, LeavingIsOff, ViewsAre DEF Views
    <3> QED BY <3>1, <3>2, <1>1, Neighbours DEF Firm
  <2> QED BY <2>1, <2>2, <2>3
<1> QED BY <1>2, <1>3, <1>4

\* While a context moves, no other one is walking the ring.
LEMMA NoOtherWalk ==
  ASSUME WalksAlone, NEW c \in Contexts, Runs(c)
  PROVE  /\ \A d \in Contexts : d # c /\ pc[c] # "rest" => pc[d] # "scan"
         /\ pc[c] # "rest" => cons.at # "removing"
         /\ ~primask => cons.at # "removing" /\ \A d \in Contexts : pc[d] # "scan"
         /\ c = Main => \A d \in Contexts : d # Main => pc[d] = "rest"
<1>1. ASSUME NEW d \in Contexts, d # c, pc[c] # "rest" PROVE pc[d] # "scan"
  <2>1. c < d \/ d < c
    BY <1>1
  <2> QED BY <2>1, <1>1 DEF Runs, WalksAlone
<1>2. c = Main => \A d \in Contexts : d # Main => pc[d] = "rest"
  BY DEF Runs
<1> QED BY <1>1, <1>2 DEF WalksAlone

\* A step of an enqueue that does not begin a walk disturbs nobody's walk.
LEMMA WalksStay ==
  ASSUME TypeInv, WalksAlone, NEW c \in Contexts, Runs(c), pc[c] # "rest",
         NEW l \in Labels \ {"scan"}, pc' = [pc EXCEPT ![c] = l], UNCHANGED cons
  PROVE  WalksAlone' /\ FramesOK'
<1>1. /\ \A d \in Contexts : pc'[d] = IF d = c THEN l ELSE pc[d]
      /\ Main \in Contexts
  BY NodesAreNotNull DEF TypeInv, TypeOK
<1>2. \A d \in Contexts : pc'[d] # "scan"
  BY <1>1, NoOtherWalk
<1>3. cons.at # "removing"
  BY NoOtherWalk
<1>4. cons.at # "handling" => pc'[Main] = "rest"
  BY <1>1 DEF WalksAlone
<1>5. cons.at \in {"popped", "read"} => cons.rec \in Records
  BY DEF WalksAlone
<1> QED BY <1>2, <1>3, <1>4, <1>5 DEF WalksAlone, FramesOK

\* A step that moves no record from one place to another.
LEMMA SameHands ==
  ASSUME SlabAgrees, UNCHANGED slab,
         \A r \in Records :
           /\ Linked(r)' <=> Linked(r)
           /\ HeldByMain(r)' <=> HeldByMain(r)
           /\ \A c \in Contexts : HeldBy(c, r)' <=> HeldBy(c, r)
  PROVE  SlabAgrees'
BY DEF SlabAgrees, Present

\* The quiet steps of an enqueue.
LEMMA QuietEnqueue ==
  ASSUME TypeInv, TypeInv', Firm, ~torn', NEW c \in Contexts,
         \/ \E e \in Events, f \in BOOLEAN : Offer(c, e, f)
         \/ \E r \in Records : Alloc(c, r)
         \/ Fill(c) \/ Scan(c) \/ ScanNext(c) \/ Refuse(c) \/ Discard(c) \/ StrayReturn(c)
  PROVE  Firm'
<1> USE NodesAreNotNull DEF history, frame
<1>0. TypeOK /\ TypeOK' /\ WalksAlone /\ FramesOK /\ SlabAgrees
  BY DEF TypeInv, Firm
<1> DEFINE Hands == UNCHANGED slab /\ \A r \in Records, d \in Contexts :
             (HeldByMain(r)' <=> HeldByMain(r)) /\ (HeldBy(d, r)' <=> HeldBy(d, r))
<1>1. ASSUME Quiet, Hands, Full', Below', Apart', FramesOK', WalksAlone' PROVE Firm'
  BY <1>0, <1>1, QuietStep, SameHands DEF Firm
<1> HIDE DEF Contexts, Nodes
<1>2. ASSUME NEW e \in Events, NEW f \in BOOLEAN, Offer(c, e, f) PROVE Firm'
  <2>1. Quiet /\ Hands
    BY <1>0, <1>2 DEF Offer, Goto, Quiet, HeldBy, HeldByMain, TypeOK
  <2>2. Full' /\ Below' /\ Apart'
    BY <1>0, <1>2, ControlStays DEF Offer, Goto, TypeOK
  <2>3. c = Main => cons.at = "handling"
    BY <1>2 DEF Offer
  <2>4. cons.at # "removing" /\ \A d \in Contexts : pc[d] # "scan"
    BY <1>0, <1>2, <2>3, NoOtherWalk DEF Offer
  <2>5. FramesOK' /\ WalksAlone'
    BY <1>0, <1>2, <2>4 DEF Offer, Goto, WalksAlone, FramesOK, TypeOK
  <2> QED BY <1>1, <2>1, <2>2, <2>5
<1>3. ASSUME NEW r \in Records, Alloc(c, r) PROVE Firm'
  <2>1. Quiet
    BY <1>0, <1>3 DEF Alloc, Goto, Quiet, TypeOK
  <2>2. WellLinked' /\ OneCycle' /\ Marked' /\ Bare' /\ \A n \in Nodes : Linked(n)' <=> Linked(n)
    BY <2>1, QuietStep
  <2>3. Half = {}
    BY <1>3 DEF Alloc, Half, Firm, Full
  <2>4. Full' /\ Below' /\ Apart'
    BY <1>0, <1>3, <2>3, ControlStays DEF Alloc, Goto, TypeOK
  <2>5. SlabAgrees'
    <3>1. \A q \in Records, d \in Contexts :
            /\ HeldByMain(q)' <=> HeldByMain(q)
            /\ HeldBy(d, q)' <=> HeldBy(d, q) \/ (d = c /\ q = r)
      BY <1>0, <1>3 DEF Alloc, Goto, HeldBy, HeldByMain, TypeOK
    <3>2. r \notin slab /\ slab' = slab \cup {r}
      BY <1>3 DEF Alloc
    <3>3. r \notin Present /\ \A d \in Contexts : ~HeldBy(d, r)
      BY <1>0, <3>2 DEF SlabAgrees
    <3> QED BY <1>0, <2>2, <3>1, <3>2, <3>3 DEF SlabAgrees, Present, Nodes
  <2>6. WalksAlone' /\ FramesOK'
    BY <1>0, <1>3, WalksStay DEF Alloc, Goto
  <2> QED BY <2>2, <2>4, <2>5, <2>6 DEF Firm
<1>4. ASSUME Fill(c) PROVE Firm'
  <2>1. Quiet /\ Hands
    BY <1>0, <1>4 DEF Fill, Goto, Quiet, HeldBy, HeldByMain, TypeOK
  <2>2. Half \subseteq {c}
    BY <1>4, NoneBelow DEF Fill
  <2>3. Full' /\ Below' /\ Apart'
    BY <1>0, <1>4, <2>2, ControlStays DEF Fill, Goto, TypeOK
  <2>4. WalksAlone' /\ FramesOK'
    BY <1>0, <1>4, WalksStay DEF Fill, Goto
  <2> QED BY <1>1, <2>1, <2>3, <2>4
<1>5. ASSUME Scan(c) PROVE Firm'
  <2>1. Quiet /\ Hands
    BY <1>0, <1>5 DEF Scan, Goto, Quiet, HeldBy, HeldByMain, TypeOK
  <2>2. Full' /\ Below' /\ Apart'
    BY <1>0, <1>5, ControlStays DEF Scan, Goto, TypeOK
  <2>3. Half' = Half /\ \A n \in Nodes : Linked(n)' <=> Linked(n)
    BY <2>1, QuietStep
  <2>4. /\ HeadNode \in Nodes /\ next[HeadNode] # NULL /\ Linked(HeadNode)
    BY DEF Firm, WellLinked, TypeInv, Framed, Nodes
  <2>5. /\ next[HeadNode] \in Nodes
        /\ Linked(next[HeadNode]) \/ \E d \in Half : item[d] = next[HeadNode]
    BY <2>4, WalkGoesOn
  <2>6. \A d \in Contexts : pc'[d] = "scan" => d = c
    BY <1>0, <1>5, NoOtherWalk DEF Scan, Goto, TypeOK
  <2>7. FramesOK'
    <3>1. item'[c] = next[HeadNode] /\ \A d \in Half : item'[d] = item[d]
      BY <1>0, <1>5 DEF Scan, Half, TypeOK
    <3> QED BY <2>3, <2>5, <2>6, <3>1 DEF FramesOK
  <2>8. WalksAlone'
    <3>1. \A d \in Contexts : d > c => pc'[d] = "rest"
      BY <1>0, <1>5 DEF Scan, Goto, Runs, TypeOK
    <3>2. primask' /\ cons.at # "removing"
      BY <1>0, <1>5, NoOtherWalk DEF Scan
    <3>3. cons.at # "handling" => pc'[Main] = "rest"
      BY <1>0, <1>5 DEF Scan, Goto, WalksAlone, TypeOK
    <3> QED BY <1>0, <1>5, <2>6, <3>1, <3>2, <3>3 DEF Scan, WalksAlone
  <2> QED BY <1>1, <2>1, <2>2, <2>7, <2>8
<1>6. ASSUME ScanNext(c) PROVE Firm'
  <2>1. Quiet /\ Hands
    BY <1>0, <1>6 DEF ScanNext, Quiet, HeldBy, HeldByMain, TypeOK
  <2>2. Full' /\ Below' /\ Apart'
    BY <1>0, <1>6, ControlStays DEF ScanNext, TypeOK, Firm, Full
  <2>3. Half' = Half /\ \A n \in Nodes : Linked(n)' <=> Linked(n)
    BY <2>1, QuietStep
  <2>4. /\ item[c] \in Nodes /\ next[item[c]] # NULL
        /\ Linked(item[c]) \/ \E d \in Half : item[d] = item[c]
    BY <1>0, <1>6 DEF ScanNext, TypeInv, Framed, FramesOK
  <2>5. /\ next[item[c]] \in Nodes
        /\ Linked(next[item[c]]) \/ \E d \in Half : item[d] = next[item[c]]
    BY <2>4, WalkGoesOn
  <2>6. \A d \in Contexts : pc'[d] = "scan" => d = c
    BY <1>0, <1>6, NoOtherWalk DEF ScanNext
  <2>7. FramesOK'
    <3>1. item'[c] = next[item[c]] /\ \A d \in Half : item'[d] = item[d]
      BY <1>0, <1>6 DEF ScanNext, Half, TypeOK
    <3> QED BY <2>3, <2>5, <2>6, <3>1 DEF FramesOK
  <2>8. WalksAlone'
    BY <1>0, <1>6 DEF ScanNext, WalksAlone
  <2> QED BY <1>1, <2>1, <2>2, <2>7, <2>8
<1>7. ASSUME Refuse(c) PROVE Firm'
  <2>1. Quiet /\ Hands
    BY <1>0, <1>7 DEF Refuse, Return, Goto, Quiet, HeldBy, HeldByMain, TypeOK
  <2>2. Full' /\ Below' /\ Apart'
    BY <1>0, <1>7, ControlStays DEF Refuse, Return, Goto, TypeOK
  <2>3. WalksAlone' /\ FramesOK'
    BY <1>0, <1>7, WalksStay DEF Refuse, Return, Goto
  <2> QED BY <1>1, <2>1, <2>2, <2>3
<1>8. ASSUME Discard(c) PROVE Firm'
  <2>1. Quiet /\ Hands
    BY <1>0, <1>8 DEF Discard, Goto, Quiet, HeldBy, HeldByMain, TypeOK
  <2>2. Half = {}
    BY <1>8 DEF Discard
  <2>3. item[c] \in Nodes /\ Linked(item[c])
    BY <1>0, <1>8, <2>2 DEF Discard, FramesOK, TypeInv, Framed
  <2>4. slab = Records
    BY <1>8 DEF Discard, Firm, Full
  <2>5. Full' /\ Below' /\ Apart'
    BY <1>0, <1>8, <2>2, <2>3, <2>4, ControlStays DEF Discard, Goto, TypeOK
  <2>6. WalksAlone' /\ FramesOK'
    BY <1>0, <1>8, WalksStay DEF Discard, Goto
  <2> QED BY <1>1, <2>1, <2>5, <2>6
<1>9. ASSUME StrayReturn(c) PROVE Firm'
  <2>1. Quiet /\ Hands
    BY <1>0, <1>9 DEF StrayReturn, Goto, Quiet, HeldBy, HeldByMain, TypeOK
  <2>2. Half \subseteq {c}
    BY <1>9, NoneBelow DEF StrayReturn
  <2>3. Full' /\ Below' /\ Apart'
    BY <1>0, <1>9, <2>2, ControlStays DEF StrayReturn, Goto, TypeOK
  <2>4. WalksAlone' /\ FramesOK'
    BY <1>0, <1>9, WalksStay DEF StrayReturn, Goto
  <2> QED BY <1>1, <2>1, <2>3, <2>4
<1> QED BY <1>2, <1>3, <1>4, <1>5, <1>6, <1>7, <1>8, <1>9

\* The stores of evtListDel after the first reads change no link that is seen.
LEMMA StoresKeepLinks ==
  ASSUME TypeInv, TypeInv', Firm, NEW c \in Contexts,
         StoreBack(c) \/ StoreFore(c) \/ ClearPrev(c) \/ ClearNext(c)
  PROVE  Same /\ Marked' /\ Bare'
<1> USE NodesAreNotNull DEF history
<1>0. TypeOK /\ TypeOK' /\ OneHalf /\ LinksOK /\ SlabAgrees /\ WellLinked /\ OneCycle
  BY HalvesAreOne, LinksTyped DEF TypeInv, Firm
<1>1. Half \subseteq {c} /\ item[c] \in Records
  <2>1. Runs(c) /\ pc[c] \in Unlinking
    BY DEF StoreBack, StoreFore, ClearPrev, ClearNext
  <2> QED BY <2>1, NoneBelow DEF TypeInv, Framed
<1>2. ASSUME Same, Half' = {} PROVE Marked'
  BY <1>2 DEF Marked
<1>3. ASSUME StoreBack(c) PROVE Same /\ Marked' /\ Bare'
  <2>1. c \in Half /\ c \in Half' /\ Half = {c} /\ Half' = {c} /\ OneHalf'
    BY <1>0, <1>1, <1>3 DEF StoreBack, Goto, Half, OneHalf, TypeOK
  <2>2. \A n \in Nodes : Leaving(n)' <=> Leaving(n)
    BY <1>0, <1>3 DEF StoreBack, Goto, Leaving, TypeOK
  <2>3. /\ del[c].prev \in Nodes /\ del[c].next \in Nodes
        /\ prev' = [prev EXCEPT ![del[c].next] = del[c].prev]
        /\ pc' = [pc EXCEPT ![c] = "fore"]
        /\ UNCHANGED <<next, del, item>>
    BY <1>3 DEF StoreBack, Goto, TypeInv, Framed
  <2>4. Same
    <3> SUFFICES ASSUME NEW n \in Nodes PROVE ahead'[n] = ahead[n] /\ behind'[n] = behind[n]
      BY DEF Same
    <3>1. CASE Leaving(n)
      BY <3>1, <2>2, ViewsAre, ViewsNext DEF Views
    <3>2. CASE ~Leaving(n)
      <4>1. /\ ahead[n] = IF del[c].prev = n THEN del[c].next ELSE next[n]
            /\ behind[n] = IF del[c].next = n THEN del[c].prev ELSE prev[n]
        BY <3>2, <1>0, <2>1, ViewsAre DEF Views
      <4>2. /\ ahead'[n] = IF del'[c].prev = n THEN del'[c].next ELSE next'[n]
            /\ behind'[n] = IF del'[c].next = n THEN del'[c].prev ELSE prev'[n]
        BY <3>2, <2>1, <2>2, ViewsNext DEF Views
      <4>3. prev'[n] = IF del[c].next = n THEN del[c].prev ELSE prev[n]
        BY <1>0, <2>3 DEF TypeOK
      <4> QED BY <4>1, <4>2, <4>3, <2>3
    <3> QED BY <3>1, <3>2
  <2>5. \A n \in Nodes : Linked(n)' <=> Linked(n)
    BY <2>4, <1>0, SameRing
  <2>6. Marked'
    BY <2>1, <2>3, <2>5, <1>0 DEF Marked, Firm, TypeOK
  <2>7. Bare'
    <3> SUFFICES ASSUME NEW d \in Contexts, pc'[d] = "bare" PROVE prev'[item'[d]] = NULL
      BY DEF Bare
    <3>1. pc[d] = "bare" /\ item'[d] = item[d]
      BY <1>0, <2>3 DEF TypeOK
    <3>2. item[d] \in Nodes /\ Leaving(item[d])
      BY <3>1 DEF Leaving, TypeInv, Framed
    <3>3. item[d] # del[c].next
      BY <3>2, <2>1, LeavingIsOff DEF Firm, Marked
    <3>4. prev[item[d]] = NULL
      BY <3>1 DEF Firm, Bare
    <3> QED BY <3>1, <3>2, <3>3, <3>4, <2>3, <1>0 DEF TypeOK
  <2> QED BY <2>4, <2>6, <2>7
<1>4. ASSUME StoreFore(c) PROVE Same /\ Marked' /\ Bare'
  <2>1. c \in Half /\ Half = {c} /\ Half' = {}
    BY <1>0, <1>1, <1>4 DEF StoreFore, Goto, Half, OneHalf, TypeOK
  <2>2. \A n \in Nodes : Leaving(n)' <=> Leaving(n)
    BY <1>0, <1>4 DEF StoreFore, Goto, Leaving, TypeOK
  <2>3. /\ del[c].prev \in Nodes /\ del[c].next \in Nodes
        /\ next' = [next EXCEPT ![del[c].prev] = del[c].next]
        /\ pc' = [pc EXCEPT ![c] = "clear"]
        /\ UNCHANGED <<prev, item>>
        /\ prev[del[c].next] = del[c].prev
    BY <1>4, <2>1 DEF StoreFore, Goto, TypeInv, Framed, Firm, Marked
  <2>4. Same
    <3> SUFFICES ASSUME NEW n \in Nodes PROVE ahead'[n] = ahead[n] /\ behind'[n] = behind[n]
      BY DEF Same
    <3>1. CASE Leaving(n)
      BY <3>1, <2>2, ViewsAre, ViewsNext DEF Views
    <3>2. CASE ~Leaving(n)
      <4>1. /\ ahead[n] = IF del[c].prev = n THEN del[c].next ELSE next[n]
            /\ behind[n] = IF del[c].next = n THEN del[c].prev ELSE prev[n]
        BY <3>2, <1>0, <2>1, ViewsAre DEF Views
      <4>2. ahead'[n] = next'[n] /\ behind'[n] = prev'[n]
        BY <3>2, <2>1, <2>2, ViewsNext DEF Views
      <4>3. next'[n] = IF del[c].prev = n THEN del[c].next ELSE next[n]
        BY <1>0, <2>3 DEF TypeOK
      <4> QED BY <4>1, <4>2, <4>3, <2>3
    <3> QED BY <3>1, <3>2
  <2>5. Bare'
    BY <1>0, <2>3 DEF Firm, Bare, TypeOK
  <2> QED BY <2>1, <2>4, <2>5, <1>2
<1>5. ASSUME ClearPrev(c) PROVE Same /\ Marked' /\ Bare'
  <2>1. Half = {} /\ Half' = {}
    BY <1>0, <1>1, <1>5 DEF ClearPrev, Goto, Half, TypeOK
  <2>2. \A n \in Nodes : Leaving(n)' <=> Leaving(n)
    BY <1>0, <1>5 DEF ClearPrev, Goto, Leaving, TypeOK
  <2>3. /\ prev' = [prev EXCEPT ![item[c]] = NULL]
        /\ pc' = [pc EXCEPT ![c] = "bare"]
        /\ UNCHANGED <<next, item>>
        /\ Leaving(item[c])
    BY <1>5 DEF ClearPrev, Goto, Leaving
  <2>4. Same
    <3> SUFFICES ASSUME NEW n \in Nodes PROVE ahead'[n] = ahead[n] /\ behind'[n] = behind[n]
      BY DEF Same
    <3>1. CASE Leaving(n)
      BY <3>1, <2>2, ViewsAre, ViewsNext DEF Views
    <3>2. CASE ~Leaving(n)
      <4>1. /\ ahead[n] = next[n] /\ behind[n] = prev[n]
            /\ ahead'[n] = next'[n] /\ behind'[n] = prev'[n]
        BY <3>2, <2>1, <2>2, ViewsAre, ViewsNext DEF Views
      <4>2. prev'[n] = prev[n]
        BY <3>2, <1>0, <2>3 DEF TypeOK
      <4> QED BY <4>1, <4>2, <2>3
    <3> QED BY <3>1, <3>2
  <2>5. Bare'
    BY <1>0, <1>1, <2>3 DEF Firm, Bare, TypeOK, TypeInv, Framed
  <2> QED BY <2>1, <2>4, <2>5, <1>2
<1>6. ASSUME ClearNext(c) PROVE Same /\ Marked' /\ Bare'
  <2>1. Half = {} /\ Half' = {}
    BY <1>0, <1>1, <1>6 DEF ClearNext, Goto, Half, TypeOK
  <2>2. /\ next' = [next EXCEPT ![item[c]] = NULL]
        /\ pc' = [pc EXCEPT ![c] = "stray"]
        /\ UNCHANGED <<prev, item>>
        /\ pc[c] = "bare" /\ Leaving(item[c]) /\ prev[item[c]] = NULL
    BY <1>6 DEF ClearNext, Goto, Leaving, Firm, Bare
  <2>3. /\ \A n \in Nodes : n # item[c] => (Leaving(n)' <=> Leaving(n))
        /\ ~Leaving(item[c])'
    <3>1. \A d \in Contexts : d # c => ~HeldBy(d, item[c])
      BY <1>0, <1>1, <2>2 DEF SlabAgrees, HeldBy
    <3>2. \A d \in Contexts : pc'[d] = IF d = c THEN "stray" ELSE pc[d]
      BY <1>0, <2>2 DEF TypeOK
    <3>3. \A n \in Nodes : n # item[c] => (Leaving(n)' <=> Leaving(n))
      BY <2>2, <3>2 DEF Leaving
    <3>4. ~Leaving(item[c])'
      BY <2>2, <3>1, <3>2 DEF Leaving, HeldBy
    <3> QED BY <3>3, <3>4
  <2>4. Same
    <3> SUFFICES ASSUME NEW n \in Nodes PROVE ahead'[n] = ahead[n] /\ behind'[n] = behind[n]
      BY DEF Same
    <3>1. CASE n = item[c]
      <4>1. ahead[n] = NULL /\ behind[n] = NULL
        BY <3>1, <2>2, ViewsAre DEF Views
      <4>2. ~Leaving(n)'
        BY <3>1, <2>2, <2>3
      <4>3. ahead'[n] = next'[n] /\ behind'[n] = prev'[n]
        BY <4>2, <2>1, ViewsNext DEF Views
      <4>4. next'[n] = NULL /\ prev'[n] = NULL
        BY <3>1, <2>2, <1>0 DEF TypeOK
      <4> QED BY <4>1, <4>3, <4>4
    <3>2. CASE n # item[c] /\ Leaving(n)
      BY <3>2, <2>3, ViewsAre, ViewsNext DEF Views
    <3>3. CASE n # item[c] /\ ~Leaving(n)
      <4>1. /\ ahead[n] = next[n] /\ behind[n] = prev[n]
            /\ ahead'[n] = next'[n] /\ behind'[n] = prev'[n]
        BY <3>3, <2>1, <2>3, ViewsAre, ViewsNext DEF Views
      <4>2. next'[n] = next[n]
        BY <3>3, <1>0, <2>2 DEF TypeOK
      <4> QED BY <4>1, <4>2, <2>2
    <3> QED BY <3>1, <3>2, <3>3
  <2>5. Bare'
    BY <1>0, <2>2 DEF Firm, Bare, TypeOK
  <2> QED BY <2>1, <2>4, <2>5, <1>2
<1> QED BY <1>3, <1>4, <1>5, <1>6

\* With nobody inside of evtListDel but c, before or after it, the links are
\* what they seem for every node on the ring.
LEMMA LinkedAsSeen ==
  ASSUME TypeInv, Firm, Half = {}
  PROVE  /\ \A n \in Nodes : ~Leaving(n) => ahead[n] = next[n] /\ behind[n] = prev[n]
         /\ \A n \in Nodes : Linked(n) => ~Leaving(n) /\ ahead[n] = next[n] /\ behind[n] = prev[n]
BY ViewsAre, LeavingIsOff DEF Views

\* The first reads of evtListDel: from here on the victim counts as unlinked.
LEMMA UnlinkStep ==
  ASSUME TypeInv, TypeInv', Firm, NEW c \in Contexts, Unlink(c)
  PROVE  Firm'
<1> USE NodesAreNotNull DEF history
<1> DEFINE r == item[c]
<1>0. /\ TypeOK /\ TypeOK' /\ OneHalf /\ LinksOK /\ SlabAgrees /\ WellLinked /\ OneCycle
      /\ WalksAlone
  BY HalvesAreOne, LinksTyped DEF TypeInv, Firm
<1>1. Half = {} /\ r \in Records /\ Runs(c) /\ pc[c] = "unlink" /\ slab = Records
  <2>1. Half \subseteq {c}
    BY NoneBelow DEF Unlink
  <2> QED BY <2>1 DEF Unlink, Half, TypeInv, Framed, Firm, Full
<1>2. ~Leaving(r)
  <2> SUFFICES ASSUME NEW d \in Contexts, pc[d] \in Unlinking, item[d] = r PROVE FALSE
    BY DEF Leaving
  <2>1. d > c
    BY <1>1 DEF Firm, Apart
  <2> QED BY <2>1, <1>1 DEF Runs
<1>3. CASE next[r] = NULL \/ prev[r] = NULL
  <2>1. UNCHANGED <<next, prev, slab, payload, pc, ev, front, item, del, cons, primask>>
    BY <1>3 DEF Unlink
  <2>2. Quiet
    BY <2>1 DEF Quiet
  <2>3. /\ WellLinked' /\ OneCycle' /\ Marked' /\ Bare' /\ Half' = Half
        /\ \A n \in Nodes : Linked(n)' <=> Linked(n)
    BY <2>2, QuietStep
  <2>4. SlabAgrees'
    BY <1>0, <2>1, <2>3, SameHands DEF HeldBy, HeldByMain
  <2>5. WalksAlone' /\ Full' /\ Below' /\ Apart'
    BY <1>0, <2>1, <2>3 DEF WalksAlone, Full, Below, Apart, Firm, Linked
  <2>6. FramesOK'
    BY <1>0, <1>1, <2>1, NoOtherWalk DEF FramesOK
  <2> QED BY <2>3, <2>4, <2>5, <2>6 DEF Firm
<1>4. CASE next[r] # NULL /\ prev[r] # NULL
  <2>1. /\ del' = [del EXCEPT ![c] = [prev |-> prev[r], next |-> next[r]]]
        /\ pc' = [pc EXCEPT ![c] = "back"]
        /\ UNCHANGED <<next, prev, slab, item, cons, primask>>
    BY <1>4 DEF Unlink, Goto
  <2>2. /\ Linked(r) /\ ahead[r] = next[r] /\ behind[r] = prev[r]
        /\ ahead[r] \in Nodes /\ Linked(ahead[r]) /\ behind[r] \in Nodes /\ Linked(behind[r])
        /\ behind[ahead[r]] = r /\ ahead[behind[r]] = r
    <3>1. ahead[r] = next[r] /\ behind[r] = prev[r]
      BY <1>1, <1>2, LinkedAsSeen
    <3>2. Linked(r)
      BY <3>1, <1>4 DEF Linked
    <3> QED BY <3>1, <3>2, <1>0, <1>1, Neighbours DEF WellLinked
  <2>3. ahead[r] # r /\ behind[r] # r
    BY <2>2, <1>0, <1>1, NoSelfLoop
  <2>4. Half' = {c} /\ c \in Half' /\ OneHalf'
    <3>1. \A d \in Contexts : pc'[d] = IF d = c THEN "back" ELSE pc[d]
      BY <1>0, <2>1 DEF TypeOK
    <3>2. \A d \in Contexts : pc[d] \notin {"back", "fore"}
      BY <1>1 DEF Half
    <3>3. Half' = {c}
      BY <3>1, <3>2 DEF Half
    <3> QED BY <3>3 DEF OneHalf
  <2>5. \A n \in Nodes : Leaving(n)' <=> Leaving(n) \/ n = r
    <3>1. \A d \in Contexts : pc'[d] = IF d = c THEN "back" ELSE pc[d]
      BY <1>0, <2>1 DEF TypeOK
    <3> QED BY <3>1, <1>1, <2>1 DEF Leaving
  <2>6. del'[c].prev = behind[r] /\ del'[c].next = ahead[r]
    BY <1>0, <2>1, <2>2 DEF TypeOK
  <2>7. Unlinked(r)
    <3> SUFFICES ASSUME NEW m \in Nodes
                 PROVE  /\ ahead'[m] = IF m = r THEN NULL
                                       ELSE IF m = behind[r] THEN ahead[r] ELSE ahead[m]
                        /\ behind'[m] = IF m = r THEN NULL
                                        ELSE IF m = ahead[r] THEN behind[r] ELSE behind[m]
      BY DEF Unlinked
    <3>1. CASE m = r
      BY <3>1, <2>5, ViewsNext DEF Views
    <3>2. CASE m # r /\ Leaving(m)
      <4>1. m # behind[r] /\ m # ahead[r]
        BY <3>2, <2>2, LeavingIsOff
      <4> QED BY <4>1, <3>2, <2>5, ViewsAre, ViewsNext DEF Views
    <3>3. CASE m # r /\ ~Leaving(m)
      <4>1. ~Leaving(m)'
        BY <3>3, <2>5
      <4>2. /\ ahead'[m] = IF del'[c].prev = m THEN del'[c].next ELSE next'[m]
            /\ behind'[m] = IF del'[c].next = m THEN del'[c].prev ELSE prev'[m]
        BY <4>1, <2>4, ViewsNext DEF Views
      <4>3. ahead[m] = next[m] /\ behind[m] = prev[m]
        BY <3>3, <1>1, LinkedAsSeen
      <4> QED BY <3>3, <4>2, <4>3, <2>1, <2>6
    <3> QED BY <3>1, <3>2, <3>3
  <2>8. WellLinked' /\ OneCycle' /\ \A m \in Nodes : Linked(m)' <=> Linked(m) /\ m # r
    BY <1>0, <1>1, <2>2, <2>7, ListDelKeepsRing, ListDelKeepsOneRing
  <2>9. SlabAgrees'
    <3>1. UNCHANGED slab /\ \A q \in Records, d \in Contexts :
            /\ HeldByMain(q)' <=> HeldByMain(q)
            /\ HeldBy(d, q)' <=> HeldBy(d, q) \/ (d = c /\ q = r)
      BY <1>0, <1>1, <2>1 DEF HeldBy, HeldByMain, TypeOK
    <3>2. r \in slab /\ ~HeldByMain(r) /\ \A d \in Contexts : ~HeldBy(d, r)
      BY <1>0, <1>1, <2>2 DEF SlabAgrees, Present
    <3>3. \A q \in Records : ~HeldBy(c, q)
      BY <1>1 DEF HeldBy
    <3> HIDE DEF r
    <3> QED BY <1>0, <1>1, <2>8, <3>1, <3>2, <3>3 DEF SlabAgrees, Present
  <2>10. FramesOK' /\ WalksAlone'
    BY <1>0, <1>1, <2>1, WalksStay
  <2>11. Full' /\ Below' /\ Apart'
    BY <1>0, <1>1, <2>1, ControlStays DEF TypeOK
  <2>12. Marked'
    <3>1. next[behind[r]] = r
      BY <2>2, <1>1, LinkedAsSeen
    <3>2. ahead'[behind[r]] # NULL /\ ahead'[ahead[r]] # NULL
      <4>1. \A m \in Nodes : Linked(m) /\ m # r => ahead'[m] # NULL
        BY <2>8 DEF Linked
      <4> QED BY <4>1, <2>2, <2>3
    <3>3. pc'[c] = "back" /\ item'[c] = r
      BY <1>0, <2>1 DEF TypeOK
    <3>4. next'[r] = del'[c].next /\ next'[del'[c].prev] = r
      BY <3>1, <2>1, <2>2, <2>6
    <3> HIDE DEF r
    <3> QED BY <3>2, <3>3, <3>4, <2>3, <2>4, <2>6 DEF Marked, Linked
  <2>13. Bare'
    BY <1>0, <2>1 DEF Bare, Firm, TypeOK
  <2> QED BY <2>8, <2>9, <2>10, <2>11, <2>12, <2>13 DEF Firm
<1> QED BY <1>3, <1>4

\* The tail of evtQueueEnqueue links the record, which is off the ring, in front
\* of the first one or of the head.
LEMMA LinkInserts ==
  ASSUME TypeInv, TypeInv', Firm, NEW c \in Contexts, Link(c)
  PROVE  LET r == item[c]
             b == IF front[c] THEN ahead[HeadNode] ELSE HeadNode
         IN /\ r \in Records /\ ~Linked(r) /\ HeldBy(c, r) /\ ~Leaving(r) /\ r \in slab
            /\ ~HeldByMain(r) /\ \A d \in Contexts : d # c => ~HeldBy(d, r)
            /\ b \in Nodes /\ Linked(b) /\ Inserted(r, b) /\ Half = {} /\ Half' = {}
            /\ Linked(behind[b]) /\ behind[b] \in Nodes /\ InsertBetween(r, behind[b], b)
            /\ WellLinked' /\ OneCycle' /\ \A m \in Nodes : Linked(m)' <=> Linked(m) \/ m = r
<1> USE NodesAreNotNull
<1> DEFINE r == item[c]
           b == IF front[c] THEN next[HeadNode] ELSE next[prev[HeadNode]]
           a == IF front[c] THEN prev[next[HeadNode]] ELSE prev[HeadNode]
<1>0. /\ TypeOK /\ TypeOK' /\ OneHalf /\ LinksOK /\ SlabAgrees /\ WellLinked /\ OneCycle
      /\ WalksAlone
  BY HalvesAreOne, LinksTyped DEF TypeInv, Firm
<1>1. /\ Half = {} /\ r \in Records /\ Runs(c) /\ pc[c] = "link" /\ HeldBy(c, r)
      /\ InsertBetween(r, a, b) /\ Return(c) /\ UNCHANGED <<slab, cons, primask>>
  <2>1. Half \subseteq {c}
    BY NoneBelow DEF Link
  <2> QED BY <2>1 DEF Link, Half, TypeInv, Framed, HeldBy
<1>2. /\ ~Linked(r) /\ ~HeldByMain(r) /\ r \in slab
      /\ \A d \in Contexts : d # c => ~HeldBy(d, r)
  BY <1>0, <1>1 DEF SlabAgrees, Present
<1>3. ~Leaving(r)
  BY <1>1, <1>2 DEF Leaving, HeldBy
<1>4. /\ b \in Nodes /\ Linked(b) /\ a = behind[b] /\ a \in Nodes /\ Linked(a)
      /\ b = IF front[c] THEN ahead[HeadNode] ELSE HeadNode
  <2>1. /\ Linked(HeadNode) /\ HeadNode \in Nodes
        /\ ahead[HeadNode] \in Nodes /\ Linked(ahead[HeadNode])
        /\ behind[HeadNode] \in Nodes /\ Linked(behind[HeadNode])
        /\ behind[ahead[HeadNode]] = HeadNode /\ ahead[behind[HeadNode]] = HeadNode
    BY <1>0, Neighbours DEF WellLinked
  <2>2. /\ next[HeadNode] = ahead[HeadNode] /\ prev[HeadNode] = behind[HeadNode]
        /\ prev[ahead[HeadNode]] = HeadNode /\ next[behind[HeadNode]] = HeadNode
    BY <1>1, <2>1, LinkedAsSeen
  <2> QED BY <2>1, <2>2
<1> HIDE DEF a, b
<1>5. Half' = {} /\ \A n \in Nodes : Leaving(n)' <=> Leaving(n)
  <2>1. \A d \in Contexts : /\ pc'[d] = IF d = c THEN "rest" ELSE pc[d]
                            /\ d # c => item'[d] = item[d]
    BY <1>0, <1>1 DEF Return, Goto, TypeOK
  <2> QED BY <2>1, <1>1 DEF Half, Leaving
<1>6. Inserted(r, b)
  <2> SUFFICES ASSUME NEW m \in Nodes
               PROVE  /\ ahead'[m] = IF m = r THEN b
                                     ELSE IF m = behind[b] THEN r ELSE ahead[m]
                      /\ behind'[m] = IF m = r THEN behind[b]
                                      ELSE IF m = b THEN r ELSE behind[m]
    BY DEF Inserted
  <2>1. CASE Leaving(m)
    <3>1. m # r /\ m # b /\ m # behind[b]
      BY <2>1, <1>3, <1>4, LeavingIsOff
    <3> QED BY <2>1, <3>1, <1>5, ViewsAre, ViewsNext DEF Views
  <2>2. CASE ~Leaving(m)
    <3>1. /\ ahead[m] = next[m] /\ behind[m] = prev[m]
          /\ ahead'[m] = next'[m] /\ behind'[m] = prev'[m]
      BY <2>2, <1>1, <1>5, ViewsAre, ViewsNext DEF Views
    <3>2. /\ next'[m] = IF m = r THEN b ELSE IF m = a THEN r ELSE next[m]
          /\ prev'[m] = IF m = b THEN r ELSE IF m = r THEN a ELSE prev[m]
      BY <1>0, <1>1, <1>4 DEF InsertBetween, TypeOK
    <3>3. r # b
      BY <1>2, <1>4
    <3> QED BY <3>1, <3>2, <3>3, <1>4
  <2> QED BY <2>1, <2>2
<1>7. WellLinked' /\ OneCycle' /\ \A m \in Nodes : Linked(m)' <=> Linked(m) \/ m = r
  BY <1>0, <1>1, <1>2, <1>4, <1>6, InsertKeepsRing, InsertKeepsOneRing
<1> QED BY <1>1, <1>2, <1>3, <1>4, <1>5, <1>6, <1>7

LEMMA LinkStep ==
  ASSUME TypeInv, TypeInv', Firm, NEW c \in Contexts, Link(c)
  PROVE  Firm'
<1> USE NodesAreNotNull
<1> DEFINE r == item[c]
           b == IF front[c] THEN ahead[HeadNode] ELSE HeadNode
<1>0. TypeOK /\ TypeOK' /\ SlabAgrees /\ WalksAlone
  BY DEF TypeInv, Firm
<1>1. /\ Runs(c) /\ pc[c] = "link" /\ Return(c) /\ UNCHANGED <<slab, cons, primask>>
  BY DEF Link
<1>2. /\ r \in Records /\ ~Linked(r) /\ HeldBy(c, r) /\ ~Leaving(r) /\ r \in slab
      /\ ~HeldByMain(r) /\ \A d \in Contexts : d # c => ~HeldBy(d, r)
      /\ b \in Nodes /\ Linked(b) /\ Half = {} /\ Half' = {}
      /\ Linked(behind[b]) /\ behind[b] \in Nodes /\ InsertBetween(r, behind[b], b)
      /\ WellLinked' /\ OneCycle' /\ \A m \in Nodes : Linked(m)' <=> Linked(m) \/ m = r
  BY LinkInserts
<1> HIDE DEF b
<1>8. SlabAgrees'
  <2>1. UNCHANGED slab /\ \A q \in Records, d \in Contexts :
          /\ HeldByMain(q)' <=> HeldByMain(q)
          /\ HeldBy(d, q)' <=> HeldBy(d, q) /\ d # c
    BY <1>0, <1>1 DEF Return, Goto, HeldBy, HeldByMain, TypeOK
  <2>2. \A q \in Records : HeldBy(c, q) <=> q = r
    BY <1>2 DEF HeldBy
  <2> HIDE DEF r
  <2> QED BY <1>0, <1>2, <2>1, <2>2 DEF SlabAgrees, Present
<1>9. FramesOK' /\ WalksAlone'
  BY <1>0, <1>1, WalksStay DEF Return, Goto
<1>10. Full' /\ Below' /\ Apart'
  BY <1>0, <1>1, <1>2, ControlStays DEF Return, Goto, TypeOK
<1>11. Marked'
  BY <1>2 DEF Marked
<1>12. Bare'
  <2> SUFFICES ASSUME NEW d \in Contexts, pc'[d] = "bare" PROVE prev'[item'[d]] = NULL
    BY DEF Bare
  <2>1. pc[d] = "bare" /\ item'[d] = item[d]
    BY <1>0, <1>1 DEF Return, Goto, TypeOK
  <2>2. item[d] \in Nodes /\ Leaving(item[d])
    BY <2>1 DEF Leaving, TypeInv, Framed
  <2>3. item[d] # b /\ item[d] # r
    BY <2>2, <1>2, LeavingIsOff
  <2>4. prev[item[d]] = NULL
    BY <2>1 DEF Firm, Bare
  <2> QED BY <2>1, <2>2, <2>3, <2>4, <1>0, <1>2 DEF InsertBetween, TypeOK
<1> QED BY <1>2, <1>8, <1>9, <1>10, <1>11, <1>12 DEF Firm

\* evtListDel with interrupts off, and nobody inside of evtQueueEnqueue.
LEMMA ListDelUnlinks ==
  ASSUME TypeOK, \A c \in Contexts : pc[c] = "rest", UNCHANGED pc,
         NEW r \in Records, ListDel(r)
  PROVE  Unlinked(r)
<1>1. \A n \in Nodes : /\ ahead[n] = next[n] /\ behind[n] = prev[n]
                       /\ ahead'[n] = next'[n] /\ behind'[n] = prev'[n]
  BY AllAtRest
<1>2. /\ r \in Nodes /\ next[r] \in Nodes /\ prev[r] \in Nodes
      /\ next' = [next EXCEPT ![prev[r]] = next[r], ![r] = NULL]
      /\ prev' = [prev EXCEPT ![next[r]] = prev[r], ![r] = NULL]
  BY DEF ListDel, TypeOK
<1>3. next' = [m \in Nodes |->
        IF m = r THEN NULL ELSE IF m = prev[r] THEN next[r] ELSE next[m]]
  BY <1>2 DEF TypeOK
<1>4. prev' = [m \in Nodes |->
        IF m = r THEN NULL ELSE IF m = next[r] THEN prev[r] ELSE prev[m]]
  BY <1>2 DEF TypeOK
<1>5. \A m \in Nodes :
        /\ next'[m] = IF m = r THEN NULL ELSE IF m = prev[r] THEN next[r] ELSE next[m]
        /\ prev'[m] = IF m = r THEN NULL ELSE IF m = next[r] THEN prev[r] ELSE prev[m]
  BY <1>3, <1>4
<1>6. ASSUME NEW m \in Nodes
      PROVE  /\ ahead'[m] = IF m = r THEN NULL ELSE IF m = behind[r] THEN ahead[r] ELSE ahead[m]
             /\ behind'[m] = IF m = r THEN NULL ELSE IF m = ahead[r] THEN behind[r] ELSE behind[m]
  <2>1. ahead'[m] = next'[m] /\ behind'[m] = prev'[m] /\ ahead[m] = next[m] /\ behind[m] = prev[m]
    BY <1>1
  <2>2. ahead[r] = next[r] /\ behind[r] = prev[r]
    BY <1>1, <1>2
  <2> QED BY <1>5, <2>1, <2>2
<1> QED BY <1>6 DEF Unlinked

\* The steps of the main loop's side are taken with nobody inside of
\* evtQueueEnqueue.
LEMMA ConsumerAlone ==
  ASSUME WalksAlone, Dequeue \/ Remove
  PROVE  UNCHANGED pc /\ \A c \in Contexts : pc[c] = "rest"
<1> USE NodesAreNotNull DEF frame
<1>1. CASE Pop \/ Finish \/ RemoveBegin
  <2>1. Runs(Main) /\ pc[Main] = "rest" /\ UNCHANGED pc
    BY <1>1 DEF Pop, Finish, RemoveBegin
  <2> QED BY <2>1, NoOtherWalk
<1>2. CASE Read \/ Release
  <2>1. Runs(Main) /\ cons.at # "handling" /\ UNCHANGED pc
    BY <1>2 DEF Read, Release
  <2> QED BY <2>1, NoOtherWalk DEF WalksAlone
<1>3. CASE RemoveMatch \/ RemoveSkip \/ RemoveEnd
  BY <1>3 DEF RemoveMatch, Expel, RemoveSkip, RemoveEnd, WalksAlone
<1> QED BY <1>1, <1>2, <1>3 DEF Dequeue, Remove

LEMMA ConsumerStep ==
  ASSUME TypeInv, TypeInv', Firm, Dequeue \/ Remove
  PROVE  Firm'
<1> USE NodesAreNotNull DEF history, frame
<1>0. /\ TypeOK /\ TypeOK' /\ OneHalf /\ LinksOK /\ SlabAgrees /\ WellLinked /\ OneCycle
      /\ WalksAlone
  BY HalvesAreOne, LinksTyped DEF TypeInv, Firm
<1>1. UNCHANGED pc /\ \A c \in Contexts : pc[c] = "rest"
  BY <1>0, ConsumerAlone
<1>2. /\ Full' /\ Below' /\ Apart' /\ Marked' /\ Bare' /\ FramesOK'
      /\ \A n \in Nodes : /\ ahead[n] = next[n] /\ behind[n] = prev[n]
                          /\ ahead'[n] = next'[n] /\ behind'[n] = prev'[n]
  BY <1>1, AllAtRest
<1>3. \A r \in Records, c \in Contexts : ~HeldBy(c, r) /\ ~HeldBy(c, r)'
  BY <1>1 DEF HeldBy
<1>4. ASSUME UNCHANGED <<next, prev>>
      PROVE  WellLinked' /\ OneCycle' /\ \A n \in Nodes : Linked(n)' <=> Linked(n)
  <2>1. Same
    BY <1>2, <1>4 DEF Same
  <2> QED BY <2>1, <1>0, SameRing
<1>5. ASSUME NEW r \in Records, Linked(r), ListDel(r)
      PROVE  WellLinked' /\ OneCycle' /\ \A m \in Nodes : Linked(m)' <=> Linked(m) /\ m # r
  BY <1>0, <1>1, <1>5, ListDelUnlinks, ListDelKeepsRing, ListDelKeepsOneRing
<1>6. /\ Linked(HeadNode) /\ next[HeadNode] \in Nodes /\ Linked(next[HeadNode])
  BY <1>0, <1>2, Neighbours DEF WellLinked
<1>7. ASSUME UNCHANGED <<next, prev, slab>>,
             \A r \in Records : HeldByMain(r)' <=> HeldByMain(r)
      PROVE  SlabAgrees'
  BY <1>0, <1>3, <1>4, <1>7, SameHands
<1>8. ASSUME Pop PROVE Firm'
  <2>1. next[HeadNode] \in Records
    BY <1>6, <1>8 DEF Pop
  <2>2. WellLinked' /\ OneCycle' /\ \A m \in Nodes : Linked(m)' <=> Linked(m) /\ m # next[HeadNode]
    BY <1>5, <1>6, <1>8, <2>1 DEF Pop
  <2>3. SlabAgrees'
    <3>1. UNCHANGED slab /\ \A r \in Records : ~HeldByMain(r)
      BY <1>8 DEF Pop, HeldByMain
    <3>2. \A r \in Records : HeldByMain(r)' <=> r = next[HeadNode]
      BY <1>0, <1>8, <2>1 DEF Pop, HeldByMain, TypeOK
    <3> QED BY <1>0, <1>3, <1>6, <2>1, <2>2, <3>1, <3>2 DEF SlabAgrees, Present
  <2>4. WalksAlone'
    BY <1>0, <1>1, <1>8, <2>1 DEF Pop, WalksAlone, TypeOK
  <2> QED BY <1>2, <2>2, <2>3, <2>4 DEF Firm
<1>9. ASSUME Read PROVE Firm'
  <2>1. SlabAgrees'
    BY <1>0, <1>7, <1>9 DEF Read, HeldByMain, TypeOK
  <2>2. WalksAlone'
    BY <1>0, <1>1, <1>9 DEF Read, WalksAlone, TypeOK
  <2>3. UNCHANGED <<next, prev>>
    BY <1>9 DEF Read
  <2> QED BY <1>2, <1>4, <2>1, <2>2, <2>3 DEF Firm
<1>10. ASSUME Release PROVE Firm'
  <2>1. WellLinked' /\ OneCycle' /\ \A n \in Nodes : Linked(n)' <=> Linked(n)
    BY <1>4, <1>10 DEF Release
  <2>2. SlabAgrees'
    <3>1. \A r \in Records : ~HeldByMain(r)' /\ (HeldByMain(r) <=> r = cons.rec)
      BY <1>0, <1>10 DEF Release, HeldByMain, TypeOK
    <3>2. slab' = slab \ {cons.rec} /\ cons.rec \in Records
      BY <1>0, <1>10 DEF Release, WalksAlone
    <3>3. ~Linked(cons.rec)
      BY <1>0, <3>1, <3>2 DEF SlabAgrees
    <3> QED BY <1>0, <1>3, <2>1, <3>1, <3>2, <3>3 DEF SlabAgrees, Present
  <2>3. WalksAlone'
    BY <1>0, <1>1, <1>10 DEF Release, WalksAlone, TypeOK
  <2> QED BY <1>2, <2>1, <2>2, <2>3 DEF Firm
<1>11. ASSUME Finish PROVE Firm'
  <2>1. SlabAgrees'
    BY <1>0, <1>7, <1>11 DEF Finish, HeldByMain, TypeOK
  <2>2. WalksAlone'
    BY <1>0, <1>1, <1>11 DEF Finish, WalksAlone, TypeOK
  <2>3. UNCHANGED <<next, prev>>
    BY <1>11 DEF Finish
  <2> QED BY <1>2, <1>4, <2>1, <2>2, <2>3 DEF Firm
<1>12. ASSUME RemoveBegin PROVE Firm'
  <2>1. WellLinked' /\ OneCycle' /\ \A n \in Nodes : Linked(n)' <=> Linked(n)
    BY <1>4, <1>12 DEF RemoveBegin
  <2>2. SlabAgrees'
    BY <1>0, <1>7, <1>12 DEF RemoveBegin, HeldByMain, TypeOK
  <2>3. WalksAlone'
    BY <1>0, <1>1, <1>6, <1>12, <2>1 DEF RemoveBegin, WalksAlone, TypeOK
  <2> QED BY <1>2, <2>1, <2>2, <2>3 DEF Firm
<1>13. ASSUME RemoveMatch PROVE Firm'
  <2>1. cons.rec \in Records /\ Linked(cons.rec) /\ ListDel(cons.rec)
    BY <1>0, <1>13 DEF RemoveMatch, Expel, WalksAlone
  <2>2. WellLinked' /\ OneCycle' /\ \A m \in Nodes : Linked(m)' <=> Linked(m) /\ m # cons.rec
    BY <1>5, <2>1
  <2>3. next[cons.rec] \in Nodes /\ Linked(next[cons.rec]) /\ next[cons.rec] # cons.rec
    BY <1>0, <1>2, <2>1, Neighbours, NoSelfLoop
  <2>4. SlabAgrees'
    <3>1. \A r \in Records : ~HeldByMain(r) /\ ~HeldByMain(r)'
      BY <1>0, <1>13 DEF RemoveMatch, Expel, HeldByMain, TypeOK
    <3>2. slab' = slab \ {cons.rec}
      BY <1>13 DEF RemoveMatch, Expel
    <3> QED BY <1>0, <1>3, <2>1, <2>2, <3>1, <3>2 DEF SlabAgrees, Present
  <2>5. WalksAlone'
    BY <1>0, <1>1, <1>13, <2>1, <2>2, <2>3 DEF RemoveMatch, Expel, WalksAlone, TypeOK
  <2> QED BY <1>2, <2>2, <2>4, <2>5 DEF Firm
<1>14. ASSUME RemoveSkip PROVE Firm'
  <2>1. WellLinked' /\ OneCycle' /\ \A n \in Nodes : Linked(n)' <=> Linked(n)
    BY <1>4, <1>14 DEF RemoveSkip
  <2>2. SlabAgrees'
    BY <1>0, <1>7, <1>14 DEF RemoveSkip, HeldByMain, TypeOK
  <2>3. next[cons.rec] \in Nodes /\ Linked(next[cons.rec]) /\ primask
    BY <1>0, <1>2, <1>14, Neighbours DEF RemoveSkip, WalksAlone
  <2>4. cons'.at = "removing" /\ cons'.rec = next[cons.rec] /\ primask'
    BY <1>0, <1>14, <2>3 DEF RemoveSkip, TypeOK
  <2>5. WalksAlone'
    BY <1>1, <2>1, <2>3, <2>4 DEF WalksAlone
  <2> QED BY <1>2, <2>1, <2>2, <2>5 DEF Firm
<1>15. ASSUME RemoveEnd PROVE Firm'
  <2>1. WellLinked' /\ OneCycle'
    BY <1>4, <1>15 DEF RemoveEnd
  <2>2. SlabAgrees'
    BY <1>0, <1>7, <1>15 DEF RemoveEnd, HeldByMain, TypeOK
  <2>3. cons'.at = "handling"
    BY <1>0, <1>15 DEF RemoveEnd, TypeOK
  <2>4. WalksAlone'
    BY <1>1, <2>3 DEF WalksAlone
  <2> QED BY <1>2, <2>1, <2>2, <2>4 DEF Firm
<1> QED BY <1>8, <1>9, <1>10, <1>11, <1>12, <1>13, <1>14, <1>15 DEF Dequeue, Remove

\* ... and those of evtListDel after its first reads.
LEMMA StoreStep ==
  ASSUME TypeInv, TypeInv', Firm, NEW c \in Contexts,
         StoreBack(c) \/ StoreFore(c) \/ ClearPrev(c) \/ ClearNext(c)
  PROVE  Firm'
<1> USE NodesAreNotNull DEF history
<1>0. /\ TypeOK /\ TypeOK' /\ OneHalf /\ LinksOK /\ SlabAgrees /\ WellLinked /\ OneCycle
      /\ WalksAlone
  BY HalvesAreOne, LinksTyped DEF TypeInv, Firm
<1>1. Same /\ Marked' /\ Bare'
  BY StoresKeepLinks
<1>2. WellLinked' /\ OneCycle' /\ \A n \in Nodes : Linked(n)' <=> Linked(n)
  BY <1>0, <1>1, SameRing
<1>3. PICK l \in {"fore", "clear", "bare", "stray"} :
        /\ pc' = [pc EXCEPT ![c] = l] /\ Runs(c) /\ pc[c] \in Unlinking
        /\ UNCHANGED <<slab, item, cons>>
        /\ l = "fore" => slab = Records
  BY DEF StoreBack, StoreFore, ClearPrev, ClearNext, Goto, Firm, Full
<1>4. pc'[c] = l /\ \A d \in Contexts : d # c => pc'[d] = pc[d]
  BY <1>0, <1>3 DEF TypeOK
<1>5. SlabAgrees'
  <2>1. \A r \in Records, d \in Contexts :
          (HeldByMain(r)' <=> HeldByMain(r)) /\ (HeldBy(d, r)' <=> HeldBy(d, r))
    BY <1>3, <1>4 DEF HeldBy, HeldByMain
  <2> QED BY <1>0, <1>2, <1>3, <2>1, SameHands
<1>6. FramesOK' /\ WalksAlone'
  BY <1>0, <1>3, WalksStay
<1>7. Full' /\ Below' /\ Apart'
  <2>1. Half \subseteq {c}
    BY <1>3, NoneBelow
  <2> QED BY <1>3, <1>4, <2>1, ControlStays
<1> QED BY <1>1, <1>2, <1>5, <1>6, <1>7 DEF Firm

LEMMA FirmStep ==
  ASSUME TypeInv, TypeInv', Firm, ~torn', [Next]_vars
  PROVE  Firm'
<1>1. ASSUME NEW c \in Contexts, StrayFault(c) PROVE UNCHANGED <<next, prev, slab, frame, cons, primask>>
  BY <1>1 DEF StrayFault
<1>2. ASSUME UNCHANGED <<next, prev, slab, frame, cons, primask>> PROVE Firm'
  <2>1. Quiet
    BY <1>2 DEF Quiet, frame
  <2>2. /\ WellLinked' /\ OneCycle' /\ Marked' /\ Bare' /\ Half' = Half
        /\ \A n \in Nodes : Linked(n)' <=> Linked(n)
    BY <2>1, QuietStep
  <2>3. SlabAgrees'
    BY <1>2, <2>2, SameHands DEF HeldBy, HeldByMain, frame, Firm
  <2>4. WalksAlone' /\ Full' /\ Below' /\ Apart'
    BY <1>2, <2>2 DEF WalksAlone, Full, Below, Apart, Firm, frame
  <2>5. FramesOK'
    BY <1>2, <2>2 DEF FramesOK, Firm, frame, TypeInv, Framed
  <2> QED BY <2>2, <2>3, <2>4, <2>5 DEF Firm
<1>3. CASE UNCHANGED vars
  BY <1>2, <1>3 DEF vars, frame
<1>4. CASE Fault
  BY <1>4 DEF Fault, history
<1>5. CASE Dequeue \/ Remove
  BY <1>5, ConsumerStep
<1>6. ASSUME NEW c \in Contexts, Enqueue(c) PROVE Firm'
  <2>1. CASE StoreBack(c) \/ StoreFore(c) \/ ClearPrev(c) \/ ClearNext(c)
    BY <2>1, StoreStep
  <2>2. CASE Unlink(c)
    BY <2>2, UnlinkStep
  <2>3. CASE Link(c)
    BY <2>3, LinkStep
  <2>4. CASE StrayFault(c)
    BY <2>4, <1>1, <1>2
  <2>5. CASE \/ \E e \in Events, f \in BOOLEAN : Offer(c, e, f)
             \/ \E r \in Records : Alloc(c, r)
             \/ Fill(c) \/ Scan(c) \/ ScanNext(c) \/ Refuse(c) \/ Discard(c) \/ StrayReturn(c)
    BY <2>5, QuietEnqueue
  <2> QED BY <1>6, <2>1, <2>2, <2>3, <2>4, <2>5 DEF Enqueue
<1> QED BY <1>3, <1>4, <1>5, <1>6 DEF Next

\* A ring that was torn stays torn, as far as the properties go.
LEMMA TornStays ==
  ASSUME torn, TypeOK, [Next]_vars
  PROVE  torn'
<1> USE DEF history, frame
<1>1. ASSUME NEW c \in Contexts, Enqueue(c) PROVE torn'
  BY <1>1 DEF Enqueue, Offer, Alloc, Fill, Link, Scan, ScanNext, Refuse, Discard, Unlink,
              StoreBack, StoreFore, ClearPrev, ClearNext, StrayFault, StrayReturn
<1>2. CASE Dequeue \/ Remove \/ Fault \/ UNCHANGED vars
  BY <1>2 DEF Dequeue, Remove, Fault, vars, Pop, Read, Release, Finish, RemoveBegin,
              RemoveMatch, Expel, RemoveSkip, RemoveEnd
<1> QED BY <1>1, <1>2 DEF Next

LEMMA RingInit ==
  ASSUME Init
  PROVE  TypeInv /\ Firm
<1>1. TypeInv /\ \A c \in Contexts : pc[c] = "rest"
  BY TypeInit DEF Init
<1>2. Half = {} /\ \A n \in Nodes : ~Leaving(n)
  BY <1>1 DEF Half, Leaving
<1>3. \A n \in Nodes : /\ ahead[n] = IF n = HeadNode THEN HeadNode ELSE NULL
                       /\ behind[n] = IF n = HeadNode THEN HeadNode ELSE NULL
  BY <1>2, ViewsAre DEF Views, Init
<1>4. \A n \in Nodes : Linked(n) <=> n = HeadNode
  BY <1>3, NodesAreNotNull DEF Linked
<1>5. WellLinked /\ OneCycle
  BY <1>3, <1>4, NodesAreNotNull DEF WellLinked, OneCycle
<1>6. SlabAgrees /\ WalksAlone
  BY <1>1, <1>4, NodesAreNotNull
     DEF Init, SlabAgrees, WalksAlone, HeldBy, HeldByMain, Present
<1>7. FramesOK /\ Full /\ Below /\ Marked /\ Bare /\ Apart
  BY <1>1, <1>2 DEF FramesOK, Full, Below, Marked, Bare, Apart
<1> QED BY <1>1, <1>5, <1>6, <1>7 DEF Firm

\* The invariant: types always, and the ring until it is torn.
SafeInv == TypeInv /\ (torn \/ Firm)

LEMMA RingAlways == Spec => []SafeInv
<1>1. Init => SafeInv
  BY RingInit DEF SafeInv
<1>2. SafeInv /\ [Next]_vars => SafeInv'
  <2> SUFFICES ASSUME SafeInv, [Next]_vars PROVE SafeInv'
    OBVIOUS
  <2>1. TypeInv /\ TypeInv' /\ TypeOK
    BY TypeStep DEF SafeInv, TypeInv
  <2>2. CASE torn'
    BY <2>1, <2>2 DEF SafeInv
  <2>3. CASE ~torn'
    <3>1. ~torn
      BY <2>1, <2>3, TornStays
    <3> QED BY <2>1, <2>3, <3>1, FirmStep DEF SafeInv
  <2> QED BY <2>2, <2>3
<1> QED BY <1>1, <1>2, PTL DEF Spec

\* Whatever interrupts the main loop or an interrupt handler inside of
\* evtQueueEnqueue, evtQueueDequeue and evtQueueRemoveAllMatching, and also
\* between the stores of evtListDel when a free callback has turned interrupts
\* on, the ring's links agree in both directions, until a handler chooses a
\* victim while another unlinking is half done.
THEOREM LinksAgree == Spec => []RingOK
<1>1. SafeInv => RingOK
  BY DEF SafeInv, Firm, RingOK
<1> QED BY <1>1, RingAlways, PTL

\* ... until then all records on the ring are reached from its head, by the main
\* loop and by the walks that discard and remove (for_each_item_safe), ...
THEOREM RingCorrect == Spec => []OneRing
<1>1. SafeInv => OneRing
  BY DEF SafeInv, Firm, OneRing
<1> QED BY <1>1, RingAlways, PTL

\* ... no record leaks from the slab and none is in two places at once.
THEOREM RecordsAccounted == Spec => []SlabAccounted
<1>1. SafeInv => SlabAccounted
  BY DEF SafeInv, Firm, SlabAccounted
<1> QED BY <1>1, RingAlways, PTL

-----------------------------------------------------------------------------
(* Without discardable events.                                              *)

\* Nobody takes a victim off the ring.
Plain == ~torn /\ \A c \in Contexts : pc[c] \notin {"unlink", "stray"} \cup Unlinking

\* The links are what they seem.
Seen == ahead = next /\ behind = prev

LEMMA PlainSeen == TypeOK /\ Plain => Seen
<1> SUFFICES ASSUME TypeOK, Plain PROVE Seen
  OBVIOUS
<1>1. Half = {} /\ \A n \in Nodes : ~Leaving(n)
  BY DEF Plain, Half, Leaving
<1>2. \A n \in Nodes : ahead[n] = next[n] /\ behind[n] = prev[n]
  BY <1>1, ViewsAre DEF Views
<1>3. ahead = [n \in Nodes |-> ahead[n]] /\ behind = [n \in Nodes |-> behind[n]]
  BY DEF ahead, behind
<1>4. next = [n \in Nodes |-> next[n]] /\ prev = [n \in Nodes |-> prev[n]]
  BY DEF TypeOK
<1> QED BY <1>2, <1>3, <1>4 DEF Seen

LEMMA PlainSeenNext == TypeOK' /\ Plain' => Seen'
<1>1. (TypeOK /\ Plain => Seen)'
  BY PlainSeen, PTL
<1> QED BY <1>1

LEMMA PlainStep ==
  ASSUME Discardable = {}, RingInv, Plain, [Next]_vars
  PROVE  RingInv' /\ Plain' /\ Seen /\ Seen'
<1> USE NodesAreNotNull DEF history, frame
<1>0. TypeInv /\ TypeInv' /\ TypeOK /\ TypeOK' /\ Firm
  BY TypeStep DEF RingInv, TypeInv
<1>1. ASSUME NEW c \in Contexts, Enqueue(c) PROVE Plain'
  <2>1. CASE \/ Discard(c) \/ Unlink(c) \/ StoreBack(c) \/ StoreFore(c) \/ ClearPrev(c)
             \/ ClearNext(c) \/ StrayFault(c) \/ StrayReturn(c)
    BY <2>1 DEF Discard, Unlink, StoreBack, StoreFore, ClearPrev, ClearNext, StrayFault,
                StrayReturn, Plain
  <2>2. CASE ScanNext(c)
    BY <2>2 DEF ScanNext, Plain
  <2>3. ASSUME UNCHANGED torn, NEW l \in {"alloc", "fill", "link", "scan", "rest"}, Goto(c, l)
        PROVE Plain'
    BY <1>0, <2>3 DEF Goto, Plain, TypeOK
  <2>4. CASE (\E e \in Events, f \in BOOLEAN : Offer(c, e, f)) \/ \E r \in Records : Alloc(c, r)
    BY <2>3, <2>4 DEF Offer, Alloc
  <2>5. CASE Fill(c) \/ Link(c) \/ Scan(c) \/ Refuse(c)
    BY <2>3, <2>5 DEF Fill, Link, Scan, Refuse, Return
  <2> QED BY <1>1, <2>1, <2>2, <2>4, <2>5 DEF Enqueue
<1>2. ASSUME Dequeue \/ Remove PROVE Plain'
  BY <1>2 DEF Dequeue, Remove, Plain, Pop, Read, Release, Finish, RemoveBegin,
              RemoveMatch, Expel, RemoveSkip, RemoveEnd
<1>3. ASSUME Fault \/ UNCHANGED vars PROVE Plain'
  BY <1>3 DEF Fault, vars, Plain
<1>4. Plain'
  BY <1>1, <1>2, <1>3 DEF Next
<1>5. Firm'
  BY <1>0, <1>4, FirmStep DEF Plain
<1> QED BY <1>0, <1>4, <1>5, PlainSeen, PlainSeenNext DEF RingInv

LEMMA PlainInit == Init => RingInv /\ Plain
<1> SUFFICES ASSUME Init PROVE RingInv /\ Plain
  OBVIOUS
<1>1. TypeInv /\ Firm
  BY RingInit
<1>2. ~torn /\ \A c \in Contexts : pc[c] = "rest"
  BY DEF Init
<1> QED BY <1>1, <1>2 DEF RingInv, Plain

\* The main loop takes a record, and no other, off the ring.
LEMMA DelTakes ==
  ASSUME RingInv, Dequeue \/ Remove, NEW r \in Records, Linked(r), ListDel(r)
  PROVE  /\ Unlinked(r)
         /\ \A m \in Nodes : Linked(m)' <=> Linked(m) /\ m # r
<1>1. TypeOK /\ WellLinked /\ WalksAlone /\ LinksOK
  BY HalvesAreOne, LinksTyped DEF RingInv, TypeInv, Firm
<1>2. UNCHANGED pc /\ \A c \in Contexts : pc[c] = "rest"
  BY <1>1, ConsumerAlone
<1>3. Unlinked(r)
  BY <1>1, <1>2, ListDelUnlinks
<1> QED BY <1>1, <1>3, ListDelKeepsRing

\* The frames of the producers hold offered events, each of them one frame.
EventsInFrames ==
  \A c \in Contexts :
    /\ pc[c] # "rest" => ev[c] \in Events /\ fate[ev[c]] = "offered"
    /\ pc[c] = "link" => payload[item[c]] = ev[c]
    /\ \A d \in Contexts : pc[c] # "rest" /\ pc[d] # "rest" /\ ev[c] = ev[d] => c = d

\* The records on the ring, and in the hand of the main loop, hold the events
\* that were accepted, each of them one record.
EventsInRecords ==
  /\ \A r \in Present : payload[r] \in Events /\ fate[payload[r]] = "queued"
  /\ \A r, s \in Present : payload[r] = payload[s] => r = s
  /\ \A e \in Events : fate[e] = "queued" => \E r \in Present : payload[r] = e
  /\ cons.at = "read" => cons.ev = payload[cons.rec]

LEMMA EventsInit ==
  ASSUME Init
  PROVE  EventsInFrames /\ EventsInRecords
<1>1. Seen
  BY PlainInit, PlainSeen DEF RingInv, TypeInv
<1> QED
  BY <1>1, NodesAreNotNull
     DEF Init, EventsInFrames, EventsInRecords, Present, Linked, HeldByMain, Seen

\* A step that moves neither events nor records that hold them.
LEMMA SameEvents ==
  ASSUME EventsInRecords, UNCHANGED fate,
         \A r \in Records : r \in Present' <=> r \in Present,
         \A r \in Present : payload'[r] = payload[r],
         cons'.at = "read" => cons'.ev = payload'[cons'.rec]
  PROVE  EventsInRecords'
<1>1. Present' = Present /\ \A r \in Present : r \in Records
  BY DEF Present
<1> QED BY <1>1 DEF EventsInRecords

LEMMA EventsStep ==
  ASSUME Discardable = {}, RingInv, RingInv', Plain, Plain', Seen, Seen', EventsInFrames,
         EventsInRecords, [Next]_vars
  PROVE  EventsInFrames' /\ EventsInRecords'
<1> USE NodesAreNotNull DEF history, frame
<1> DEFINE Rest == EventsInFrames /\ EventsInRecords
<1>0. TypeOK /\ TypeOK' /\ SlabAgrees /\ Framed /\ WalksAlone
  BY DEF RingInv, TypeInv, Firm
<1> USE DEF Seen
<1>1. ASSUME NEW c \in Contexts, NEW e \in Events, NEW f \in BOOLEAN, Offer(c, e, f)
      PROVE Rest'
  <2>1. EventsInFrames'
    BY <1>0, <1>1 DEF Offer, Goto, EventsInFrames, TypeOK
  <2>2. Present' = Present /\ \A r \in Present : r \in Records
    BY <1>1 DEF Offer, Present, Linked, HeldByMain
  <2>3. \A d \in Events : fate'[d] = "queued" <=> fate[d] = "queued"
    BY <1>0, <1>1 DEF Offer, TypeOK
  <2>4. EventsInRecords'
    BY <1>1, <2>2, <2>3 DEF Offer, EventsInRecords
  <2> QED BY <2>1, <2>4
<1>2. ASSUME NEW c \in Contexts, NEW r \in Records, Alloc(c, r) PROVE Rest'
  <2>1. EventsInFrames'
    BY <1>0, <1>2 DEF Alloc, Goto, EventsInFrames, TypeOK
  <2>2. EventsInRecords'
    BY <1>2, SameEvents DEF Alloc, Present, Linked, HeldByMain, EventsInRecords
  <2> QED BY <2>1, <2>2
<1>3. ASSUME NEW c \in Contexts, Fill(c) PROVE Rest'
  <2>1. HeldBy(c, item[c]) /\ item[c] \in Records
    BY <1>0, <1>3 DEF Fill, HeldBy, Framed
  <2>2. /\ item[c] \notin Present
        /\ \A d \in Contexts \ {c} : ~HeldBy(d, item[c])
    BY <1>0, <2>1 DEF SlabAgrees
  <2>3. \A d \in Contexts : pc'[d] = "link" => d = c \/ (pc[d] = "link" /\ item[d] # item[c])
    BY <1>0, <1>3, <2>2 DEF Fill, Goto, HeldBy, TypeOK
  <2>4. EventsInFrames'
    BY <1>0, <1>3, <2>1, <2>3 DEF Fill, Goto, EventsInFrames, Framed, TypeOK
  <2>5. \A r \in Records : r # item[c] => payload'[r] = payload[r]
    BY <1>0, <1>3 DEF Fill, TypeOK
  <2>6. Present' = Present
    BY <1>3 DEF Fill, Present, Linked, HeldByMain
  <2>7. cons'.at = "read" => cons'.ev = payload'[cons'.rec]
    <3> SUFFICES ASSUME cons.at = "read" PROVE cons.ev = payload'[cons.rec]
      BY <1>3 DEF Fill
    <3>1. cons.rec \in Records /\ cons.rec \in Present
      BY <1>0 DEF WalksAlone, Present, HeldByMain
    <3> QED BY <3>1, <2>2, <2>5 DEF EventsInRecords
  <2>8. EventsInRecords'
    BY <1>3, <2>2, <2>5, <2>6, <2>7, SameEvents DEF Fill, Present
  <2> QED BY <2>4, <2>8
<1>4. ASSUME NEW c \in Contexts, Link(c) PROVE Rest'
  <2> DEFINE r == item[c]
             e == ev[c]
  <2>1. HeldBy(c, r) /\ r \in Records
    BY <1>0, <1>4 DEF Link, HeldBy, Framed
  <2>2. r \notin Present /\ ~Linked(r)
    BY <1>0, <2>1 DEF SlabAgrees, Present
  <2>3. payload[r] = e /\ e \in Events /\ fate[e] = "offered"
    BY <1>4 DEF Link, EventsInFrames
  <2>4. \A m \in Nodes : Linked(m)' <=> Linked(m) \/ m = r
    BY <1>4, LinkInserts DEF RingInv
  <2>5. Present' = Present \cup {r} /\ UNCHANGED <<payload, cons>>
    BY <1>4, <2>1, <2>4 DEF Link, Present, HeldByMain
  <2>6. fate' = [fate EXCEPT ![e] = "queued"]
    BY <1>4 DEF Link
  <2>7. EventsInFrames'
    <3>1. \A d \in Contexts : pc'[d] # "rest" =>
            /\ d # c /\ pc'[d] = pc[d] /\ ev'[d] = ev[d] /\ item'[d] = item[d]
            /\ ev[d] # e
      BY <1>0, <1>4 DEF Link, Return, Goto, EventsInFrames, TypeOK
    <3>3. \A d \in Contexts : pc'[d] # "rest" => ev'[d] \in Events /\ fate'[ev'[d]] = "offered"
      BY <1>0, <3>1, <2>6 DEF EventsInFrames, TypeOK
    <3> QED BY <3>1, <3>3, <2>5 DEF EventsInFrames
  <2>8. EventsInRecords'
    <3> HIDE DEF r, e
    <3>1. \A d \in Events : fate'[d] = IF d = e THEN "queued" ELSE fate[d]
      BY <1>0, <2>6 DEF TypeOK
    <3>2. \A q \in Present : payload[q] # e
      BY <2>3 DEF EventsInRecords
    <3> QED BY <2>2, <2>3, <2>5, <3>1, <3>2 DEF EventsInRecords
  <2> QED BY <2>7, <2>8
<1>5. ASSUME NEW c \in Contexts, Scan(c) \/ ScanNext(c) PROVE Rest'
  <2>1. EventsInFrames'
    BY <1>0, <1>5 DEF Scan, ScanNext, Goto, EventsInFrames, TypeOK
  <2>2. EventsInRecords'
    BY <1>5, SameEvents DEF Scan, ScanNext, Present, Linked, HeldByMain, EventsInRecords
  <2> QED BY <2>1, <2>2
<1>6. ASSUME NEW c \in Contexts, Refuse(c) PROVE Rest'
  <2>1. ev[c] \in Events /\ fate[ev[c]] = "offered" /\ fate' = [fate EXCEPT ![ev[c]] = "refused"]
    BY <1>6 DEF Refuse, EventsInFrames
  <2>2. EventsInFrames'
    <3>1. \A d \in Contexts : pc'[d] # "rest" =>
            /\ d # c /\ pc'[d] = pc[d] /\ ev'[d] = ev[d] /\ item'[d] = item[d]
            /\ ev[d] # ev[c]
      BY <1>0, <1>6 DEF Refuse, Return, Goto, EventsInFrames, TypeOK
    <3>3. \A d \in Contexts : pc'[d] # "rest" => ev'[d] \in Events /\ fate'[ev'[d]] = "offered"
      BY <1>0, <2>1, <3>1 DEF EventsInFrames, TypeOK
    <3> QED BY <1>6, <3>1, <3>3 DEF EventsInFrames, Refuse
  <2>3. Present' = Present /\ \A r \in Present : r \in Records
    BY <1>6 DEF Refuse, Present, Linked, HeldByMain
  <2>4. \A d \in Events : fate'[d] = "queued" <=> fate[d] = "queued"
    BY <1>0, <2>1 DEF TypeOK
  <2>5. EventsInRecords'
    BY <1>6, <2>3, <2>4 DEF Refuse, EventsInRecords
  <2> QED BY <2>2, <2>5
<1>7. ASSUME \/ Fault
             \/ \E c \in Contexts : \/ Discard(c) \/ Unlink(c) \/ StoreBack(c) \/ StoreFore(c)
                                  \/ ClearPrev(c) \/ ClearNext(c)
                                  \/ StrayFault(c) \/ StrayReturn(c)
      PROVE Rest'
  BY <1>7 DEF Discard, Unlink, StoreBack, StoreFore, ClearPrev, ClearNext, StrayFault,
              StrayReturn, Fault, Plain
<1>8. ASSUME Pop PROVE Rest'
  <2>1. next[HeadNode] \in Records /\ Linked(next[HeadNode])
    <3>1. next[HeadNode] \in Records
      BY <1>0, <1>8 DEF Pop, ListDel, TypeOK
    <3>2. next[next[HeadNode]] # NULL
      BY <1>8 DEF Pop, ListDel
    <3> QED BY <3>1, <3>2 DEF Linked
  <2>2. \A m \in Nodes : Linked(m)' <=> Linked(m) /\ m # next[HeadNode]
    BY <1>8, <2>1, DelTakes DEF Pop, Dequeue
  <2>3. \A r \in Records : ~HeldByMain(r) /\ (HeldByMain(r)' <=> r = next[HeadNode])
    BY <1>0, <1>8, <2>1 DEF Pop, HeldByMain, TypeOK
  <2>4. EventsInRecords'
    BY <1>0, <1>8, <2>1, <2>2, <2>3, SameEvents DEF Pop, Present, TypeOK
  <2>5. EventsInFrames'
    BY <1>8 DEF Pop, EventsInFrames
  <2> QED BY <2>4, <2>5
<1>9. ASSUME Read PROVE Rest'
  BY <1>0, <1>9, SameEvents DEF Read, Present, Linked, HeldByMain, EventsInFrames, TypeOK
<1>10. ASSUME Release PROVE Rest'
  <2> DEFINE e == cons.ev
             r == cons.rec
  <2>1. r \in Records /\ r \in Present /\ payload[r] = e
    BY <1>0, <1>10 DEF Release, WalksAlone, Present, HeldByMain, EventsInRecords
  <2>2. e \in Events /\ fate[e] = "queued" /\ ~Linked(r)
    BY <1>0, <1>10, <2>1 DEF EventsInRecords, SlabAgrees, HeldByMain, Release
  <2>3. Present' = Present \ {r} /\ UNCHANGED payload /\ cons'.at # "read"
    BY <1>0, <1>10, <2>2 DEF Release, Present, Linked, HeldByMain, TypeOK
  <2>4. fate' = [fate EXCEPT ![e] = "delivered"]
    BY <1>10 DEF Release
  <2>5. EventsInFrames'
    BY <1>0, <1>10, <2>2, <2>4 DEF Release, EventsInFrames, TypeOK
  <2>6. EventsInRecords'
    <3> HIDE DEF r, e
    <3>1. \A d \in Events : fate'[d] = IF d = e THEN "delivered" ELSE fate[d]
      BY <1>0, <2>4 DEF TypeOK
    <3> QED BY <2>1, <2>2, <2>3, <3>1 DEF EventsInRecords
  <2> QED BY <2>5, <2>6
<1>11. ASSUME Finish \/ RemoveBegin \/ RemoveSkip \/ RemoveEnd PROVE Rest'
  <2> DEFINE free == {"loop", "handling", "removing"}
  <2>a. Finish => cons.at \in free /\ cons'.at \in free
    BY DEF Finish
  <2>b. RemoveBegin => cons.at \in free /\ cons'.at \in free
    BY <1>0 DEF RemoveBegin, TypeOK
  <2>c. RemoveSkip => cons.at \in free /\ cons'.at \in free
    BY <1>0 DEF RemoveSkip, TypeOK
  <2>d. RemoveEnd => cons.at \in free /\ cons'.at \in free
    BY <1>0 DEF RemoveEnd, TypeOK
  <2>1. cons'.at # "read" /\ \A r \in Records : ~HeldByMain(r) /\ ~HeldByMain(r)'
    BY <1>11, <2>a, <2>b, <2>c, <2>d DEF HeldByMain
  <2>2. UNCHANGED <<next, payload, pc, ev, item, fate>>
    BY <1>11 DEF Finish, RemoveBegin, RemoveSkip, RemoveEnd
  <2>3. EventsInRecords'
    BY <2>1, <2>2, SameEvents DEF Present, Linked
  <2> QED BY <2>2, <2>3 DEF EventsInFrames
<1>12. ASSUME RemoveMatch PROVE Rest'
  <2> DEFINE r == cons.rec
             e == payload[cons.rec]
  <2>1. r \in Records /\ Linked(r) /\ r \in Present
    BY <1>0, <1>12 DEF RemoveMatch, Expel, WalksAlone, Present
  <2>2. e \in Events /\ fate[e] = "queued"
    BY <2>1 DEF EventsInRecords
  <2>3. \A m \in Nodes : Linked(m)' <=> Linked(m) /\ m # r
    BY <1>12, <2>1, DelTakes DEF RemoveMatch, Expel, Remove
  <2>4. cons'.at = "removing" /\ \A q \in Records : ~HeldByMain(q) /\ ~HeldByMain(q)'
    BY <1>0, <1>12 DEF RemoveMatch, Expel, HeldByMain, TypeOK
  <2>5. Present' = Present \ {r} /\ UNCHANGED payload
    BY <1>12, <2>3, <2>4 DEF RemoveMatch, Expel, Present
  <2>6. fate' = [fate EXCEPT ![e] = "removed"]
    BY <1>12 DEF RemoveMatch, Expel
  <2>7. EventsInFrames'
    BY <1>0, <1>12, <2>2, <2>6 DEF RemoveMatch, Expel, EventsInFrames, TypeOK
  <2>8. EventsInRecords'
    <3>1. payload[r] = e
      OBVIOUS
    <3> HIDE DEF r, e
    <3>2. \A d \in Events : fate'[d] = IF d = e THEN "removed" ELSE fate[d]
      BY <1>0, <2>6 DEF TypeOK
    <3> QED BY <2>1, <2>2, <2>4, <2>5, <3>1, <3>2 DEF EventsInRecords
  <2> QED BY <2>7, <2>8
<1>13. ASSUME UNCHANGED vars PROVE Rest'
  BY <1>13 DEF vars, EventsInFrames, EventsInRecords, Present, Linked, HeldByMain
<1> HIDE DEF Contexts, Nodes, Rest
<1>14. Rest'
  BY <1>1, <1>2, <1>3, <1>4, <1>5, <1>6, <1>7, <1>8, <1>9, <1>10, <1>11, <1>12, <1>13
     DEF Next, Enqueue, Dequeue, Remove
<1> QED BY <1>14 DEF Rest

\* When no event is discardable, an event evtQueueEnqueue accepted stays in one
\* record of the ring until the main loop has taken it or its timer is
\* cancelled, whichever contexts interrupt each other.  (Run EvtQueueVictim
\* shows that the assumption cannot be dropped.)
THEOREM NothingLost ==
  ASSUME Discardable = {}
  PROVE  Spec => []NoLoss
<1>1. EventsInRecords => NoLoss
  <2> SUFFICES ASSUME EventsInRecords, NEW e \in Events, fate[e] = "queued"
               PROVE  \E r \in Records : {s \in Present : payload[s] = e} = {r}
    BY DEF NoLoss
  <2>1. PICK r \in Present : payload[r] = e
    BY DEF EventsInRecords
  <2>2. {s \in Present : payload[s] = e} = {r} /\ r \in Records
    BY <2>1 DEF EventsInRecords, Present
  <2> QED BY <2>2
<1> DEFINE I == RingInv /\ Plain /\ EventsInFrames /\ EventsInRecords
<1>2. Init => I
  BY PlainInit, EventsInit
<1>3. I /\ [Next]_vars => I'
  BY PlainStep, EventsStep
<1>4. I => NoLoss
  BY <1>1
<1> QED BY <1>2, <1>3, <1>4, PTL DEF Spec

-----------------------------------------------------------------------------
\* Events that wait have not been freed; nor has the one that is being handled.
FreesOK ==
  /\ \A e \in Events : /\ frees[e] <= 1
                       /\ fate[e] \in {"new", "offered", "queued"} => frees[e] = 0
  /\ cons.at \in {"handling", "removing"} /\ cons.ev # NULL =>
       cons.ev \in Events /\ fate[cons.ev] = "delivered" /\ frees[cons.ev] = 0

LEMMA FreesStep ==
  ASSUME Discardable = {}, Plain, TypeOK, TypeOK', WalksAlone, EventsInFrames, EventsInRecords,
         FreesOK, [Next]_vars
  PROVE  FreesOK'
<1> USE NodesAreNotNull DEF history, frame
<1>1. ASSUME NEW c \in Contexts, NEW e \in Events, NEW f \in BOOLEAN, Offer(c, e, f)
      PROVE FreesOK'
  <2>1. fate' = [fate EXCEPT ![e] = "offered"] /\ fate[e] = "new" /\ UNCHANGED <<cons, frees>>
    BY <1>1 DEF Offer
  <2> QED BY <2>1 DEF FreesOK, TypeOK
<1>2. ASSUME NEW c \in Contexts, Link(c)
      PROVE FreesOK'
  <2>1. /\ ev[c] \in Events /\ fate[ev[c]] = "offered" /\ UNCHANGED <<cons, frees>>
        /\ fate' = [fate EXCEPT ![ev[c]] = "queued"]
    BY <1>2 DEF Link, EventsInFrames
  <2> QED BY <2>1 DEF FreesOK, TypeOK
<1>3. ASSUME NEW c \in Contexts, Refuse(c)
      PROVE FreesOK'
  <2>1. /\ ev[c] \in Events /\ fate[ev[c]] = "offered" /\ UNCHANGED <<cons, frees>>
        /\ fate' = [fate EXCEPT ![ev[c]] = "refused"]
    BY <1>3 DEF Refuse, EventsInFrames
  <2> QED BY <2>1 DEF FreesOK, TypeOK
<1>4. ASSUME \/ Fault
             \/ \E c \in Contexts : \/ Discard(c) \/ Unlink(c) \/ StoreBack(c) \/ StoreFore(c)
                                  \/ ClearPrev(c) \/ ClearNext(c)
                                  \/ StrayFault(c) \/ StrayReturn(c)
      PROVE FreesOK'
  BY <1>4 DEF Discard, Unlink, StoreBack, StoreFore, ClearPrev, ClearNext, StrayFault,
              StrayReturn, Fault, Plain
<1>5. ASSUME NEW c \in Contexts, (\E r \in Records : Alloc(c, r)) \/ Fill(c) \/ Scan(c) \/ ScanNext(c)
      PROVE FreesOK'
  BY <1>5 DEF Alloc, Fill, Scan, ScanNext, FreesOK
<1>6. ASSUME Pop \/ Read PROVE FreesOK'
  <2>1. Pop => cons'.at = "popped" /\ UNCHANGED <<fate, frees>>
    BY DEF Pop, TypeOK
  <2>2. Read => cons'.at = "read" /\ UNCHANGED <<fate, frees>>
    BY DEF Read, TypeOK
  <2> QED BY <1>6, <2>1, <2>2 DEF FreesOK
<1>7. ASSUME Release PROVE FreesOK'
  <2> DEFINE e == cons.ev
  <2>1. /\ cons.at = "read" /\ fate' = [fate EXCEPT ![e] = "delivered"] /\ UNCHANGED frees
        /\ cons'.ev = e
    BY <1>7 DEF Release, TypeOK
  <2>2. cons.rec \in Present /\ e = payload[cons.rec]
    BY <2>1 DEF WalksAlone, Present, HeldByMain, EventsInRecords
  <2>3. e \in Events /\ fate[e] = "queued" /\ frees[e] = 0
    BY <2>2 DEF EventsInRecords, FreesOK
  <2>4. fate'[e] = "delivered" /\ \A d \in Events : d # e => fate'[d] = fate[d]
    BY <2>1, <2>3 DEF TypeOK
  <2> HIDE DEF e
  <2> QED BY <2>1, <2>3, <2>4 DEF FreesOK
<1>8. ASSUME Finish PROVE FreesOK'
  <2> DEFINE e == cons.ev
  <2>1. cons'.ev = NULL /\ UNCHANGED fate /\ cons.at = "handling"
    BY <1>8 DEF Finish
  <2>2. CASE e = NULL
    BY <1>8, <2>1, <2>2 DEF Finish, FreesOK
  <2>3. CASE e # NULL
    <3>1. e \in Events /\ fate[e] = "delivered" /\ frees[e] = 0
      BY <2>1, <2>3 DEF FreesOK
    <3>2. frees'[e] = 1 /\ \A d \in Events : d # e => frees'[d] = frees[d]
      BY <1>8, <2>3, <3>1 DEF Finish, FreeEvent, TypeOK
    <3> HIDE DEF e
    <3> QED BY <2>1, <3>1, <3>2 DEF FreesOK
  <2> QED BY <2>2, <2>3
<1>9. ASSUME RemoveMatch PROVE FreesOK'
  <2> DEFINE e == payload[cons.rec]
  <2>1. cons.rec \in Present
    BY <1>9 DEF RemoveMatch, Expel, WalksAlone, Present
  <2>2. e \in Events /\ fate[e] = "queued" /\ frees[e] = 0
    BY <2>1 DEF EventsInRecords, FreesOK
  <2>3. /\ frees'[e] = 1 /\ \A d \in Events : d # e => frees'[d] = frees[d]
        /\ fate'[e] = "removed" /\ \A d \in Events : d # e => fate'[d] = fate[d]
    BY <1>9, <2>2 DEF RemoveMatch, Expel, FreeEvent, TypeOK
  <2>4. cons'.ev = cons.ev /\ cons.at = "removing"
    BY <1>9 DEF RemoveMatch, Expel, TypeOK
  <2> HIDE DEF e
  <2>5. \A d \in Events : frees'[d] <= 1 /\ (fate'[d] \in {"new", "offered", "queued"} => frees'[d] = 0)
    BY <2>2, <2>3 DEF FreesOK
  <2>6. cons.ev # NULL => cons.ev \in Events /\ fate'[cons.ev] = "delivered" /\ frees'[cons.ev] = 0
    BY <2>2, <2>3, <2>4 DEF FreesOK
  <2> QED BY <2>4, <2>5, <2>6 DEF FreesOK
<1>10. ASSUME RemoveBegin \/ RemoveSkip \/ RemoveEnd PROVE FreesOK'
  <2>1. cons.at \in {"handling", "removing"} /\ UNCHANGED <<fate, frees>>
    BY <1>10 DEF RemoveBegin, RemoveSkip, RemoveEnd
  <2>2. RemoveBegin => cons'.ev = cons.ev
    BY DEF RemoveBegin, TypeOK
  <2>3. RemoveSkip => cons'.ev = cons.ev
    BY DEF RemoveSkip, TypeOK
  <2>4. RemoveEnd => cons'.ev = cons.ev
    BY DEF RemoveEnd, TypeOK
  <2> QED BY <1>10, <2>1, <2>2, <2>3, <2>4 DEF FreesOK
<1>11. ASSUME UNCHANGED vars PROVE FreesOK'
  BY <1>11 DEF vars, FreesOK
<1> HIDE DEF Contexts, Nodes
<1> QED
  BY <1>1, <1>2, <1>3, <1>4, <1>5, <1>6, <1>7, <1>8, <1>9, <1>10, <1>11
     DEF Next, Enqueue, Dequeue, Remove

\* When no event is discardable, the free callback of an event runs at most
\* once, and not before the event has been handled or its timer cancelled
\* (osMainDequeueLoop, evtQueueRemoveAllMatching).
THEOREM FreedOnlyOnce ==
  ASSUME Discardable = {}
  PROVE  Spec => []FreedOnce
<1> DEFINE I == RingInv /\ Plain /\ EventsInFrames /\ EventsInRecords /\ FreesOK
<1>1. Init => I
  <2>1. Init => FreesOK
    BY DEF Init, FreesOK
  <2> QED BY <2>1, PlainInit, EventsInit
<1>2. I /\ [Next]_vars => I'
  <2> SUFFICES ASSUME I, [Next]_vars PROVE I'
    OBVIOUS
  <2>1. RingInv' /\ Plain' /\ EventsInFrames' /\ EventsInRecords'
    BY PlainStep, EventsStep
  <2>2. FreesOK'
    BY <2>1, FreesStep DEF RingInv, TypeInv, Firm
  <2> QED BY <2>1, <2>2
<1>3. I => FreedOnce
  BY DEF FreesOK, FreedOnce
<1> QED BY <1>1, <1>2, <1>3, PTL DEF Spec

-----------------------------------------------------------------------------

(* The ring as a sequence of records.                                       *)

\* The node that the walk from the head is at after k steps.
At(q, k) == IF k \in 1 .. Len(q) THEN q[k] ELSE HeadNode

\* q are the records of the ring in order: along the links n each of them leads
\* to the one behind it and the last to the head, no record comes twice, and no
\* record is linked that is not among them.
Ordered(q, n) ==
  /\ q \in Seq(Records)
  /\ \A k \in 0 .. Len(q) : n[At(q, k)] = At(q, k + 1)
  /\ \A j, k \in 1 .. Len(q) : q[j] = q[k] => j = k
  /\ \A r \in Records : n[r] # NULL => \E k \in 1 .. Len(q) : q[k] = r

\* The events in those records.
Shown(q, p) == [k \in 1 .. Len(q) |-> p[q[k]]]

\* A set of natural numbers that is not empty has a least element.
LEMMA Least ==
  ASSUME NEW S, S \subseteq Nat, S # {}
  PROVE  \E m \in S : \A k \in S : m <= k
<1> DEFINE Less == OpToRel(<, Nat)
<1>1. IsWellFoundedOn(Less, Nat)
  BY NatLessThanWellFounded
<1>2. \A a, b \in Nat : a < b => <<a, b>> \in Less
  BY DEF OpToRel
<1> HIDE DEF Less
<1>3. PICK m \in S : \A k \in S : ~(<<k, m>> \in Less)
  BY <1>1, WFMin
<1>4. ASSUME NEW k \in S PROVE ~(k < m)
  BY <1>2, <1>3, Zenon
<1> QED BY <1>3, <1>4

\* A set that holds 0, and k + 1 whenever it holds k < n, holds 0 to n.
LEMMA Climb ==
  ASSUME NEW n \in Nat, NEW S, 0 \in S,
         \A k \in 0 .. (n - 1) : k \in S => k + 1 \in S
  PROVE  0 .. n \subseteq S
<1> DEFINE M == (0 .. n) \ S
<1> SUFFICES ASSUME M # {} PROVE FALSE
  OBVIOUS
<1>1. M \subseteq Nat
  OBVIOUS
<1>2. PICK m \in M : \A k \in M : m <= k
  <2> HIDE DEF M
  <2> QED BY <1>1, Least
<1>3. m # 0 /\ m - 1 \in 0 .. (n - 1) /\ m - 1 \notin M
  BY <1>2
<1> QED BY <1>3

\* The recursive function that walks the ring, unfolded once.
LEMMA NodeAtIs ==
  /\ NodeAt[0] = HeadNode
  /\ \A k \in 1 .. Cardinality(Records) : NodeAt[k] = ahead[NodeAt[k - 1]]
<1> DEFINE top == Cardinality(Records)
           IsWalk(m, g) == g = [k \in 0 .. m |-> IF k = 0 THEN HeadNode ELSE ahead[g[k - 1]]]
           S == {m \in Nat : \E g : IsWalk(m, g)}
<1>0. top \in Nat
  BY EvtQueueAssumption, FS_CardinalityType
<1> HIDE DEF top
<1>1. 0 \in S
  <2>1. IsWalk(0, [k \in 0 .. 0 |-> HeadNode])
    OBVIOUS
  <2> QED BY <2>1
<1>2. ASSUME NEW m \in 0 .. (top - 1), m \in S PROVE m + 1 \in S
  <2>1. PICK g : IsWalk(m, g)
    BY <1>2
  <2> DEFINE h == [k \in 0 .. (m + 1) |-> IF k <= m THEN g[k] ELSE ahead[g[m]]]
  <2>2. \A k \in 0 .. (m + 1) : h[k] = IF k = 0 THEN HeadNode ELSE ahead[h[k - 1]]
    <3> TAKE k \in 0 .. (m + 1)
    <3>1. CASE k <= m
      <4>1. g[k] = IF k = 0 THEN HeadNode ELSE ahead[g[k - 1]]
        <5> k \in 0 .. m
          BY <3>1
        <5> QED BY <2>1
      <4>2. h[k] = g[k] /\ (k # 0 => h[k - 1] = g[k - 1])
        BY <3>1
      <4> HIDE DEF h
      <4> QED BY <4>1, <4>2
    <3>2. CASE k = m + 1
      <4>1. h[k] = ahead[g[m]] /\ h[k - 1] = g[m] /\ k # 0
        BY <3>2
      <4> HIDE DEF h
      <4> QED BY <4>1
    <3> QED BY <3>1, <3>2
  <2>3. IsWalk(m + 1, h)
    <3>1. h = [k \in 0 .. (m + 1) |-> h[k]]
      OBVIOUS
    <3> HIDE DEF h
    <3> QED BY <2>2, <3>1
  <2> HIDE DEF h
  <2>4. \E w : IsWalk(m + 1, w)
    BY <2>3
  <2> QED BY <2>4
<1>3. 0 .. top \subseteq S
  <2> HIDE DEF S
  <2> QED BY <1>0, <1>1, <1>2, Climb
<1>4. top \in S
  <2> HIDE DEF S
  <2> QED BY <1>0, <1>3
<1>5. PICK g : IsWalk(top, g)
  BY <1>4
<1>6. NodeAt = CHOOSE w : IsWalk(top, w)
  BY DEF NodeAt, top
<1>7. IsWalk(top, NodeAt)
  <2> HIDE DEF IsWalk
  <2> QED BY <1>5, <1>6
<1> HIDE DEF S
<1>8. NodeAt = [k \in 0 .. top |-> IF k = 0 THEN HeadNode ELSE ahead[NodeAt[k - 1]]]
  BY <1>7
<1> HIDE DEF IsWalk
<1>9. \A k \in 0 .. top : NodeAt[k] = IF k = 0 THEN HeadNode ELSE ahead[NodeAt[k - 1]]
  BY <1>8
<1>10. NodeAt[0] = HeadNode
  BY <1>0, <1>9
<1>11. \A k \in 1 .. top : NodeAt[k] = ahead[NodeAt[k - 1]]
  BY <1>9
<1> QED BY <1>10, <1>11 DEF top

\* q has as many elements as there are linked records.
LEMMA LinkedAre ==
  ASSUME NEW q, Ordered(q, ahead)
  PROVE  /\ Len(q) \in Nat /\ LinkedCount = Len(q) /\ Len(q) <= Cardinality(Records)
         /\ \A k \in 1 .. Len(q) : q[k] \in Records /\ Linked(q[k])
<1> DEFINE S == {r \in Records : Linked(r)}
<1>1. q \in Seq(Records) /\ Len(q) \in Nat /\ \A k \in 1 .. Len(q) : q[k] \in Records
  BY LenProperties, ElementOfSeq DEF Ordered
<1>2. ASSUME NEW k \in 1 .. Len(q) PROVE Linked(q[k])
  <2>1. k \in 0 .. Len(q) /\ At(q, k) = q[k]
    BY <1>1 DEF At
  <2>2. ahead[q[k]] = At(q, k + 1)
    BY <2>1 DEF Ordered
  <2>3. At(q, k + 1) \in Nodes
    BY <1>1 DEF At
  <2> QED BY <2>2, <2>3, NodesAreNotNull DEF Linked
<1>3. q \in [1 .. Len(q) -> S]
  BY <1>1, <1>2, LenProperties
<1>4. q \in Surjection(1 .. Len(q), S) /\ q \in Injection(1 .. Len(q), S)
  <2>1. \A j, k \in 1 .. Len(q) : q[j] = q[k] => j = k
    BY DEF Ordered
  <2>2. \A r \in S : \E k \in 1 .. Len(q) : q[k] = r
    BY DEF Ordered, Linked
  <2> HIDE DEF S
  <2> QED BY <1>3, <2>1, <2>2 DEF Surjection, Injection, IsInjective
<1>5. /\ IsFiniteSet(1 .. Len(q))
      /\ Cardinality(1 .. Len(q)) = Len(q)
  <2>1. 1 \in Int /\ Len(q) \in Int
    BY <1>1
  <2>2. /\ IsFiniteSet(1 .. Len(q))
        /\ Cardinality(1 .. Len(q)) = IF 1 > Len(q) THEN 0 ELSE Len(q) - 1 + 1
    BY <2>1, FS_Interval, Zenon
  <2> QED BY <1>1, <2>2
<1>6. S \subseteq Records /\ IsFiniteSet(Records) /\ LinkedCount = Cardinality(S)
  BY EvtQueueAssumption DEF LinkedCount
<1> HIDE DEF S
<1>7. Cardinality(S) = Cardinality(1 .. Len(q))
  BY <1>4, <1>5, FS_Surjection
<1>8. Cardinality(S) <= Cardinality(Records)
  BY <1>6, FS_Subset
<1> QED BY <1>1, <1>2, <1>5, <1>6, <1>7, <1>8

\* The walk meets the records in their order.
LEMMA WalkIs ==
  ASSUME NEW q, Ordered(q, ahead)
  PROVE  \A k \in 1 .. Len(q) : NodeAt[k] = q[k]
<1> DEFINE S == {k \in Nat : NodeAt[k] = At(q, k)}
<1>1. Len(q) \in Nat /\ Len(q) <= Cardinality(Records) /\ Cardinality(Records) \in Nat
  BY LinkedAre, EvtQueueAssumption, FS_CardinalityType
<1>2. 0 \in S
  BY NodeAtIs DEF At
<1>3. ASSUME NEW k \in 0 .. (Len(q) - 1), k \in S PROVE k + 1 \in S
  <2> DEFINE j == k + 1
  <2>1. j \in 1 .. Cardinality(Records) /\ j - 1 = k /\ k \in 0 .. Len(q)
    BY <1>1
  <2>2. NodeAt[j] = ahead[NodeAt[j - 1]]
    <3> HIDE DEF j
    <3> QED BY <2>1, NodeAtIs
  <2>3. NodeAt[j] = ahead[At(q, k)]
    BY <1>3, <2>1, <2>2
  <2>4. ahead[At(q, k)] = At(q, k + 1)
    BY <2>1 DEF Ordered
  <2> QED BY <2>1, <2>3, <2>4
<1>4. 0 .. Len(q) \subseteq S
  <2> HIDE DEF S
  <2> QED BY <1>1, <1>2, <1>3, Climb
<1>5. ASSUME NEW k \in 1 .. Len(q) PROVE NodeAt[k] = q[k]
  BY <1>1, <1>4 DEF At
<1> QED BY <1>5

\* What the queue shows of itself is the events in the records, in order.
LEMMA QueueIs == \A q : Ordered(q, ahead) => Queue = Shown(q, payload)
BY LinkedAre, WalkIs DEF Queue, Shown

LEMMA QueueNext == \A q : Ordered(q, ahead') => Queue' = Shown(q, payload')
<1>1. (\A q : Ordered(q, ahead) => Queue = Shown(q, payload))'
  BY QueueIs, PTL
<1> QED BY <1>1

\* A sequence without its i-th element, as BoundedEvtQueue has it.
Without(q, i) == SubSeq(q, 1, i - 1) \o SubSeq(q, i + 1, Len(q))

LEMMA WithoutIs ==
  ASSUME NEW S, NEW q \in Seq(S), NEW i \in 1 .. Len(q)
  PROVE  /\ Without(q, i) \in Seq(S)
         /\ Len(Without(q, i)) = Len(q) - 1
         /\ \A k \in 1 .. Len(q) - 1 :
              Without(q, i)[k] = IF k < i THEN q[k] ELSE q[k + 1]
<1> DEFINE a == SubSeq(q, 1, i - 1)
           b == SubSeq(q, i + 1, Len(q))
<1>1. Len(q) \in Nat /\ \A k \in 1 .. Len(q) : q[k] \in S
  BY LenProperties, ElementOfSeq
<1>2. a \in Seq(S) /\ Len(a) = i - 1 /\ \A k \in 1 .. (i - 1) : a[k] = q[k]
  <2>1. 1 \in Int /\ i - 1 \in Int /\ \A k \in 1 .. (i - 1) : q[k] \in S
    BY <1>1
  <2>2. /\ a \in Seq(S)
        /\ Len(a) = IF 1 <= i - 1 THEN i - 1 - 1 + 1 ELSE 0
        /\ \A k \in 1 .. i - 1 - 1 + 1 : a[k] = q[1 + k - 1]
    BY <2>1, SubSeqProperties
  <2> HIDE DEF a
  <2> QED BY <2>2
<1>3. b \in Seq(S) /\ Len(b) = Len(q) - i /\ \A k \in 1 .. (Len(q) - i) : b[k] = q[i + k]
  <2>1. i + 1 \in Int /\ Len(q) \in Int /\ \A k \in (i + 1) .. Len(q) : q[k] \in S
    BY <1>1
  <2>2. /\ b \in Seq(S)
        /\ Len(b) = IF i + 1 <= Len(q) THEN Len(q) - (i + 1) + 1 ELSE 0
        /\ \A k \in 1 .. Len(q) - (i + 1) + 1 : b[k] = q[i + 1 + k - 1]
    BY <2>1, SubSeqProperties
  <2> HIDE DEF b
  <2>3. Len(b) = Len(q) - i
    BY <1>1, <2>2
  <2>4. \A k \in 1 .. (Len(q) - i) : i + 1 + k - 1 = i + k /\ k \in 1 .. Len(q) - (i + 1) + 1
    BY <1>1
  <2> QED BY <2>2, <2>3, <2>4
<1> HIDE DEF a, b
<1>4. /\ a \o b \in Seq(S)
      /\ Len(a \o b) = Len(a) + Len(b)
      /\ \A k \in 1 .. Len(a) + Len(b) :
           (a \o b)[k] = IF k <= Len(a) THEN a[k] ELSE b[k - Len(a)]
  BY <1>2, <1>3, ConcatProperties
<1>5. Without(q, i) = a \o b
  BY DEF Without, a, b
<1>6. Len(a) + Len(b) = Len(q) - 1
  BY <1>1, <1>2, <1>3
<1>7. ASSUME NEW k \in 1 .. Len(q) - 1
      PROVE  (a \o b)[k] = IF k < i THEN q[k] ELSE q[k + 1]
  <2>1. (a \o b)[k] = IF k <= i - 1 THEN a[k] ELSE b[k - (i - 1)]
    BY <1>2, <1>4, <1>6
  <2>2. CASE k < i
    <3> k \in 1 .. (i - 1)
      BY <2>2
    <3> QED BY <1>2, <2>1, <2>2
  <2>3. CASE ~(k < i)
    <3>1. k - (i - 1) \in 1 .. (Len(q) - i) /\ i + (k - (i - 1)) = k + 1 /\ ~(k <= i - 1)
      BY <1>1, <2>3
    <3> QED BY <1>3, <2>1, <2>3, <3>1
  <2> QED BY <2>2, <2>3
<1> QED BY <1>4, <1>5, <1>6, <1>7

\* evtListDel takes the i-th record out of the order.
LEMMA Shortened ==
  ASSUME LinksOK, WellLinked, NEW q, Ordered(q, ahead), NEW i \in 1 .. Len(q), Unlinked(q[i])
  PROVE  Ordered(Without(q, i), ahead')
<1> DEFINE w == Without(q, i)
<1>1. /\ q \in Seq(Records) /\ Len(q) \in Nat
      /\ \A k \in 1 .. Len(q) : q[k] \in Records /\ Linked(q[k])
  BY LinkedAre DEF Ordered
<1>2. /\ w \in Seq(Records) /\ Len(w) = Len(q) - 1
      /\ \A k \in 1 .. Len(q) - 1 : w[k] = IF k < i THEN q[k] ELSE q[k + 1]
  BY <1>1, WithoutIs
<1> HIDE DEF w
<1>3. \A j, k \in 1 .. Len(q) : q[j] = q[k] => j = k
  BY DEF Ordered
<1>4. \A k \in 0 .. Len(q) : ahead[At(q, k)] = At(q, k + 1)
  BY DEF Ordered
<1>5. \A k \in 0 .. Len(q) + 1 : At(q, k) \in Nodes
  BY <1>1 DEF At
<1>6. At(q, i) = q[i] /\ At(q, i - 1) # q[i] /\ At(q, i + 1) # q[i]
  BY <1>1, <1>3, NodesAreNotNull DEF At
<1>7. ahead[q[i]] = At(q, i + 1) /\ behind[q[i]] = At(q, i - 1)
  <2>1. i \in 0 .. Len(q) /\ i - 1 \in 0 .. Len(q) /\ i - 1 + 1 = i
    BY <1>1
  <2>2. ahead[At(q, i)] = At(q, i + 1) /\ ahead[At(q, i - 1)] = At(q, i)
    BY <1>4, <2>1
  <2>3. At(q, i - 1) \in Nodes /\ Linked(At(q, i - 1))
    BY <1>5, <1>6, <2>1, <2>2, NodesAreNotNull, <1>1 DEF Linked
  <2>4. behind[ahead[At(q, i - 1)]] = At(q, i - 1)
    BY <2>3 DEF WellLinked
  <2> QED BY <1>6, <2>2, <2>4
<1>8. \A m \in Nodes : ahead'[m] = IF m = q[i] THEN NULL
                                  ELSE IF m = At(q, i - 1) THEN At(q, i + 1) ELSE ahead[m]
  BY <1>1, <1>6, <1>7 DEF Unlinked
<1>9. \A k \in 0 .. Len(w) + 1 : At(w, k) = IF k < i THEN At(q, k) ELSE At(q, k + 1)
  BY <1>1, <1>2 DEF At
<1>10. ASSUME NEW k \in 0 .. Len(w) PROVE ahead'[At(w, k)] = At(w, k + 1)
  <2>1. k \in 0 .. Len(q) /\ k + 1 \in 0 .. Len(q) /\ k + 1 \in 0 .. Len(w) + 1
    BY <1>1, <1>2
  <2>2. CASE k < i - 1
    <3>1. At(w, k) = At(q, k) /\ At(w, k + 1) = At(q, k + 1)
      BY <1>9, <2>1, <2>2
    <3>2. At(q, k) # q[i] /\ At(q, k) # At(q, i - 1)
      BY <1>1, <1>3, <2>1, <2>2, NodesAreNotNull DEF At
    <3> QED BY <1>4, <1>5, <1>8, <2>1, <3>1, <3>2
  <2>3. CASE k = i - 1
    <3>1. At(w, k) = At(q, i - 1) /\ At(w, k + 1) = At(q, i + 1)
      BY <1>9, <2>1, <2>3
    <3> QED BY <1>5, <1>6, <1>8, <2>1, <2>3, <3>1
  <2>4. CASE k >= i
    <3>1. At(w, k) = At(q, k + 1) /\ At(w, k + 1) = At(q, k + 2)
      BY <1>9, <2>1, <2>4
    <3>2. At(q, k + 1) # q[i] /\ At(q, k + 1) # At(q, i - 1)
      BY <1>1, <1>2, <1>3, <2>1, <2>4, NodesAreNotNull DEF At
    <3>3. ahead[At(q, k + 1)] = At(q, k + 2)
      BY <1>4, <2>1
    <3> QED BY <1>5, <1>8, <2>1, <3>1, <3>2, <3>3
  <2> QED BY <1>1, <2>2, <2>3, <2>4
<1>11. ASSUME NEW j \in 1 .. Len(w), NEW k \in 1 .. Len(w), w[j] = w[k] PROVE j = k
  BY <1>1, <1>2, <1>3, <1>11
<1>12. ASSUME NEW r \in Records, ahead'[r] # NULL PROVE \E k \in 1 .. Len(w) : w[k] = r
  <2>1. r # q[i]
    BY <1>8, <1>12
  <2>2. ahead[r] # NULL
    <3>1. r = At(q, i - 1) => ahead[r] = q[i]
      BY <1>1, <1>4, <1>6
    <3> QED BY <1>1, <1>8, <1>12, <2>1, <3>1, NodesAreNotNull
  <2>3. PICK k \in 1 .. Len(q) : q[k] = r
    BY <2>2 DEF Ordered
  <2>4. CASE k < i
    <3> k \in 1 .. Len(w) /\ w[k] = r
      BY <1>1, <1>2, <2>3, <2>4
    <3> QED OBVIOUS
  <2>5. CASE k > i
    <3> k - 1 \in 1 .. Len(w) /\ w[k - 1] = r
      BY <1>1, <1>2, <2>3, <2>5
    <3> QED OBVIOUS
  <2> QED BY <2>1, <2>3, <2>4, <2>5
<1> QED BY <1>2, <1>10, <1>11, <1>12 DEF Ordered, w

\* An event that is put last.
LEMMA PutLast ==
  ASSUME LinksOK, WellLinked, NEW q, Ordered(q, ahead), NEW r \in Records, ~Linked(r),
         Inserted(r, HeadNode)
  PROVE  Ordered(Append(q, r), ahead')
<1> DEFINE w == Append(q, r)
           n == Len(q)
<1>1. /\ q \in Seq(Records) /\ n \in Nat
      /\ \A k \in 1 .. n : q[k] \in Records /\ Linked(q[k]) /\ q[k] # r
  BY LinkedAre DEF Ordered
<1>2. /\ w \in Seq(Records) /\ Len(w) = n + 1
      /\ \A k \in 1 .. n : w[k] = q[k]
      /\ w[n + 1] = r
  BY <1>1, AppendProperties
<1>3. \A k \in 0 .. n : ahead[At(q, k)] = At(q, k + 1)
  BY DEF Ordered
<1>4. \A k \in 0 .. n : At(q, k) \in Nodes /\ Linked(At(q, k)) /\ At(q, k) # r
  BY <1>1 DEF At, WellLinked
<1>5. At(q, n) = behind[HeadNode]
  <2>1. n \in 0 .. n /\ At(q, n + 1) = HeadNode
    BY <1>1 DEF At
  <2>2. behind[ahead[At(q, n)]] = At(q, n)
    BY <1>4, <2>1 DEF WellLinked
  <2> QED BY <1>3, <2>1, <2>2
<1> HIDE DEF w, n
<1>6. \A m \in Nodes : ahead'[m] = IF m = r THEN HeadNode
                                  ELSE IF m = At(q, n) THEN r ELSE ahead[m]
  BY <1>1, <1>4, <1>5 DEF Inserted
<1>7. \A k \in 0 .. n + 2 : At(w, k) = IF k = n + 1 THEN r ELSE At(q, k)
  BY <1>1, <1>2 DEF At, n
<1>8. ASSUME NEW k \in 0 .. Len(w) PROVE ahead'[At(w, k)] = At(w, k + 1)
  <2>1. k \in 0 .. n + 2 /\ k + 1 \in 0 .. n + 2
    BY <1>1, <1>2
  <2>2. CASE k < n
    <3>1. At(w, k) = At(q, k) /\ At(w, k + 1) = At(q, k + 1) /\ k \in 0 .. n
      BY <1>1, <1>7, <2>1, <2>2
    <3>2. At(q, k) # At(q, n)
      BY <1>1, <2>2, <3>1, NodesAreNotNull DEF At, n, Ordered
    <3> QED BY <1>3, <1>4, <1>6, <3>1, <3>2
  <2>3. CASE k = n
    <3>1. At(w, k) = At(q, n) /\ At(w, k + 1) = r /\ n \in 0 .. n
      BY <1>1, <1>7, <2>1, <2>3
    <3> QED BY <1>4, <1>6, <3>1
  <2>4. CASE k = n + 1
    <3>1. At(w, k) = r /\ At(w, k + 1) = HeadNode
      BY <1>1, <1>7, <2>1, <2>4 DEF At, n
    <3> QED BY <1>6, <3>1
  <2> QED BY <1>1, <1>2, <2>2, <2>3, <2>4
<1>9. ASSUME NEW j \in 1 .. Len(w), NEW k \in 1 .. Len(w), w[j] = w[k] PROVE j = k
  <2>1. \A a, b \in 1 .. n : q[a] = q[b] => a = b
    BY DEF Ordered, n
  <2> QED BY <1>1, <1>2, <1>9, <2>1
<1>10. ASSUME NEW m \in Records, ahead'[m] # NULL PROVE \E k \in 1 .. Len(w) : w[k] = m
  <2>1. CASE m = r
    BY <1>1, <1>2, <2>1
  <2>2. CASE m # r
    <3>1. ahead[m] # NULL
      BY <1>1, <1>4, <1>6, <1>10, <2>2 DEF Linked
    <3>2. PICK k \in 1 .. n : q[k] = m
      BY <3>1 DEF Ordered, n
    <3> QED BY <1>1, <1>2, <3>2
  <2> QED BY <2>1, <2>2
<1> QED BY <1>2, <1>8, <1>9, <1>10 DEF Ordered, w

\* An urgent event is put first.
LEMMA PutFirst ==
  ASSUME LinksOK, WellLinked, NEW q, Ordered(q, ahead), NEW r \in Records, ~Linked(r),
         Inserted(r, ahead[HeadNode])
  PROVE  Ordered(<<r>> \o q, ahead')
<1> DEFINE w == <<r>> \o q
           n == Len(q)
<1>1. /\ q \in Seq(Records) /\ n \in Nat
      /\ \A k \in 1 .. n : q[k] \in Records /\ Linked(q[k]) /\ q[k] # r
  BY LinkedAre DEF Ordered
<1>2. /\ w \in Seq(Records) /\ Len(w) = n + 1
      /\ w[1] = r
      /\ \A k \in 1 .. n : w[k + 1] = q[k]
  <2>1. <<r>> \in Seq(Records) /\ Len(<<r>>) = 1 /\ <<r>>[1] = r
    OBVIOUS
  <2>2. /\ w \in Seq(Records) /\ Len(w) = 1 + n
        /\ \A k \in 1 .. 1 + n : w[k] = IF k <= 1 THEN <<r>>[k] ELSE q[k - 1]
    BY <1>1, <2>1, ConcatProperties
  <2> HIDE DEF w, n
  <2>3. w[1] = r
    BY <1>1, <2>1, <2>2
  <2>4. ASSUME NEW k \in 1 .. n PROVE w[k + 1] = q[k]
    BY <1>1, <2>2
  <2> QED BY <1>1, <2>2, <2>3, <2>4
<1>3. \A k \in 0 .. n : ahead[At(q, k)] = At(q, k + 1)
  BY DEF Ordered
<1>4. \A k \in 0 .. n + 1 : At(q, k) \in Nodes /\ Linked(At(q, k)) /\ At(q, k) # r
  BY <1>1 DEF At, WellLinked
<1>5. At(q, 0) = HeadNode /\ behind[ahead[HeadNode]] = HeadNode
  BY <1>4 DEF At, WellLinked
<1> HIDE DEF w, n
<1>6. \A m \in Nodes : ahead'[m] = IF m = r THEN ahead[HeadNode]
                                  ELSE IF m = HeadNode THEN r ELSE ahead[m]
  BY <1>5 DEF Inserted
<1>7. \A k \in 1 .. n + 2 : At(w, k) = IF k = 1 THEN r ELSE At(q, k - 1)
  <2> TAKE k \in 1 .. n + 2
  <2>1. CASE k = 1
    BY <1>1, <1>2, <2>1 DEF At
  <2>2. CASE k \in 2 .. n + 1
    <3>1. k - 1 \in 1 .. n /\ k - 1 + 1 = k /\ k \in 1 .. Len(w)
      BY <1>1, <1>2, <2>2
    <3>2. w[k] = q[k - 1]
      BY <1>2, <3>1
    <3> QED BY <2>2, <3>1, <3>2 DEF At, n
  <2>3. CASE k = n + 2
    BY <1>1, <1>2, <2>3 DEF At, n
  <2> QED BY <1>1, <2>1, <2>2, <2>3
<1>8. ASSUME NEW k \in 0 .. Len(w) PROVE ahead'[At(w, k)] = At(w, k + 1)
  <2>1. CASE k = 0
    <3>1. At(w, 0) = HeadNode /\ At(w, 1) = r
      BY <1>1, <1>7 DEF At
    <3> QED BY <1>6, <2>1, <3>1, NodesAreNotNull
  <2>2. CASE k = 1
    <3>1. At(w, 1) = r /\ At(w, 2) = At(q, 1)
      BY <1>1, <1>7
    <3>2. ahead[HeadNode] = At(q, 1)
      BY <1>1, <1>3, <1>5
    <3> QED BY <1>6, <2>2, <3>1, <3>2
  <2>3. CASE k \in 2 .. n + 1
    <3>1. At(w, k) = At(q, k - 1) /\ At(w, k + 1) = At(q, k)
      BY <1>1, <1>7, <2>3
    <3>2. At(q, k - 1) \in Records
      BY <1>1, <2>3 DEF At, n
    <3>3. ahead[At(q, k - 1)] = At(q, k) /\ At(q, k - 1) # r
      BY <1>1, <1>3, <1>4, <2>3
    <3> QED BY <1>6, <3>1, <3>2, <3>3, NodesAreNotNull
  <2> QED BY <1>1, <1>2, <2>1, <2>2, <2>3
<1>9. ASSUME NEW j \in 1 .. Len(w), NEW k \in 1 .. Len(w), w[j] = w[k] PROVE j = k
  <2>1. \A a, b \in 1 .. n : q[a] = q[b] => a = b
    BY DEF Ordered, n
  <2>2. \A a \in 1 .. Len(w) : a = 1 \/ (a - 1 \in 1 .. n /\ w[a] = q[a - 1])
    <3> TAKE a \in 1 .. Len(w)
    <3> SUFFICES ASSUME a # 1 PROVE a - 1 \in 1 .. n /\ w[a] = q[a - 1]
      OBVIOUS
    <3>1. a - 1 \in 1 .. n /\ a - 1 + 1 = a
      BY <1>1, <1>2
    <3> QED BY <1>2, <3>1
  <2>3. \A a \in 1 .. n : q[a] # r
    BY <1>1
  <2>4. w[1] = r
    BY <1>2
  <2> QED BY <1>1, <1>2, <1>9, <2>1, <2>2, <2>3, <2>4
<1>10. ASSUME NEW m \in Records, ahead'[m] # NULL PROVE \E k \in 1 .. Len(w) : w[k] = m
  <2>1. CASE m = r
    BY <1>1, <1>2, <2>1
  <2>2. CASE m # r
    <3>1. ahead[m] # NULL
      BY <1>6, <1>10, <2>2, NodesAreNotNull
    <3>2. PICK k \in 1 .. n : q[k] = m
      BY <3>1 DEF Ordered, n
    <3>3. k + 1 \in 1 .. Len(w) /\ w[k + 1] = m
      BY <1>1, <1>2, <3>2
    <3> QED BY <3>3
  <2> QED BY <2>1, <2>2
<1> QED BY <1>2, <1>8, <1>9, <1>10 DEF Ordered, w

\* The events shown are those of the records, one by one.
LEMMA ShownIs ==
  ASSUME NEW q \in Seq(Records), NEW p, \A k \in 1 .. Len(q) : p[q[k]] \in Events
  PROVE  /\ Shown(q, p) \in Seq(Events) /\ Len(Shown(q, p)) = Len(q)
         /\ \A k \in 1 .. Len(q) : Shown(q, p)[k] = p[q[k]]
<1>1. Len(q) \in Nat
  BY LenProperties
<1>2. \A k \in 1 .. Len(q) : Shown(q, p)[k] = p[q[k]]
  BY DEF Shown
<1>3. Shown(q, p) \in [1 .. Len(q) -> Events]
  BY DEF Shown
<1>4. Shown(q, p) \in Seq(Events) /\ Len(Shown(q, p)) = Len(q)
  <2> DEFINE w == Shown(q, p)
  <2> HIDE DEF w
  <2>1. w \in [1 .. Len(q) -> Events]
    BY <1>3 DEF w
  <2>2. w \in Seq(Events) /\ Len(w) = Len(q)
    BY <1>1, <2>1
  <2> QED BY <2>2 DEF w
<1> QED BY <1>2, <1>4

LEMMA ShownLast ==
  ASSUME NEW q \in Seq(Records), NEW r \in Records, NEW p, p[r] \in Events,
         \A k \in 1 .. Len(q) : p[q[k]] \in Events
  PROVE  Shown(Append(q, r), p) = Append(Shown(q, p), p[r])
<1> DEFINE a == Append(q, r)
           s == Shown(a, p)
           t == Append(Shown(q, p), p[r])
<1>1. Len(q) \in Nat
  BY LenProperties
<1>2. /\ a \in Seq(Records) /\ Len(a) = Len(q) + 1 /\ a[Len(q) + 1] = r
      /\ \A k \in 1 .. Len(q) : a[k] = q[k]
  BY AppendProperties
<1> HIDE DEF a
<1>3. \A k \in 1 .. Len(a) : p[a[k]] \in Events
  BY <1>1, <1>2
<1>4. s \in Seq(Events) /\ Len(s) = Len(a) /\ \A k \in 1 .. Len(a) : s[k] = p[a[k]]
  BY <1>2, <1>3, ShownIs
<1>5. /\ Shown(q, p) \in Seq(Events) /\ Len(Shown(q, p)) = Len(q)
      /\ \A k \in 1 .. Len(q) : Shown(q, p)[k] = p[q[k]]
  BY ShownIs
<1>6. /\ t \in Seq(Events) /\ Len(t) = Len(q) + 1 /\ t[Len(q) + 1] = p[r]
      /\ \A k \in 1 .. Len(q) : t[k] = Shown(q, p)[k]
  BY <1>5, AppendProperties
<1> HIDE DEF s, t
<1>7. \A k \in 1 .. Len(s) : s[k] = t[k]
  <2> TAKE k \in 1 .. Len(s)
  <2>1. CASE k \in 1 .. Len(q)
    BY <1>2, <1>4, <1>5, <1>6, <2>1
  <2>2. CASE k = Len(q) + 1
    BY <1>2, <1>4, <1>6, <2>2
  <2> QED BY <1>1, <1>2, <1>4, <2>1, <2>2
<1>8. s = t
  BY <1>2, <1>4, <1>6, <1>7, SeqEqual
<1> QED BY <1>8 DEF a, s, t

LEMMA ShownFirst ==
  ASSUME NEW q \in Seq(Records), NEW r \in Records, NEW p, p[r] \in Events,
         \A k \in 1 .. Len(q) : p[q[k]] \in Events
  PROVE  Shown(<<r>> \o q, p) = <<p[r]>> \o Shown(q, p)
<1> DEFINE a == <<r>> \o q
           s == Shown(a, p)
           t == <<p[r]>> \o Shown(q, p)
<1>1. Len(q) \in Nat
  BY LenProperties
<1>2. /\ a \in Seq(Records) /\ Len(a) = 1 + Len(q)
      /\ \A k \in 1 .. 1 + Len(q) : a[k] = IF k <= 1 THEN r ELSE q[k - 1]
  <2>1. <<r>> \in Seq(Records) /\ Len(<<r>>) = 1 /\ <<r>>[1] = r
    OBVIOUS
  <2>2. /\ a \in Seq(Records) /\ Len(a) = 1 + Len(q)
        /\ \A k \in 1 .. 1 + Len(q) : a[k] = IF k <= 1 THEN <<r>>[k] ELSE q[k - 1]
    BY <2>1, ConcatProperties
  <2> HIDE DEF a
  <2> QED BY <1>1, <2>1, <2>2
<1> HIDE DEF a
<1>3. \A k \in 1 .. Len(a) : p[a[k]] \in Events
  <2> TAKE k \in 1 .. Len(a)
  <2>1. CASE k = 1
    BY <1>1, <1>2, <2>1
  <2>2. CASE k # 1
    <3>1. k - 1 \in 1 .. Len(q) /\ a[k] = q[k - 1]
      BY <1>1, <1>2, <2>2
    <3> QED BY <3>1
  <2> QED BY <2>1, <2>2
<1>4. s \in Seq(Events) /\ Len(s) = Len(a) /\ \A k \in 1 .. Len(a) : s[k] = p[a[k]]
  BY <1>2, <1>3, ShownIs
<1>5. /\ Shown(q, p) \in Seq(Events) /\ Len(Shown(q, p)) = Len(q)
      /\ \A k \in 1 .. Len(q) : Shown(q, p)[k] = p[q[k]]
  BY ShownIs
<1>6. /\ t \in Seq(Events) /\ Len(t) = 1 + Len(q)
      /\ \A k \in 1 .. 1 + Len(q) : t[k] = IF k <= 1 THEN p[r] ELSE Shown(q, p)[k - 1]
  <2>1. <<p[r]>> \in Seq(Events) /\ Len(<<p[r]>>) = 1 /\ <<p[r]>>[1] = p[r]
    OBVIOUS
  <2>2. /\ t \in Seq(Events) /\ Len(t) = 1 + Len(q)
        /\ \A k \in 1 .. 1 + Len(q) : t[k] = IF k <= 1 THEN <<p[r]>>[k] ELSE Shown(q, p)[k - 1]
    BY <1>5, <2>1, ConcatProperties
  <2> HIDE DEF t
  <2> QED BY <1>1, <2>1, <2>2
<1> HIDE DEF s, t
<1>7. \A k \in 1 .. 1 + Len(q) : s[k] = t[k]
  <2> TAKE k \in 1 .. 1 + Len(q)
  <2>1. CASE k = 1
    BY <1>1, <1>2, <1>4, <1>6, <2>1
  <2>2. CASE k # 1
    <3>1. k - 1 \in 1 .. Len(q) /\ ~(k <= 1)
      BY <1>1, <2>2
    <3>2. a[k] = q[k - 1] /\ s[k] = p[a[k]]
      BY <1>2, <1>4, <3>1
    <3>3. t[k] = Shown(q, p)[k - 1]
      BY <1>6, <3>1
    <3>4. Shown(q, p)[k - 1] = p[q[k - 1]]
      BY <1>5, <3>1
    <3> QED BY <3>2, <3>3, <3>4
  <2> QED BY <2>1, <2>2
<1>8. s = t
  BY <1>2, <1>4, <1>6, <1>7, SeqEqual
<1> QED BY <1>8 DEF a, s, t

LEMMA ShownWithout ==
  ASSUME NEW q \in Seq(Records), NEW i \in 1 .. Len(q), NEW p,
         \A k \in 1 .. Len(q) : p[q[k]] \in Events
  PROVE  Shown(Without(q, i), p) = Without(Shown(q, p), i)
<1> DEFINE a == Without(q, i)
           s == Shown(a, p)
           t == Without(Shown(q, p), i)
<1>1. Len(q) \in Nat
  BY LenProperties
<1>2. /\ a \in Seq(Records) /\ Len(a) = Len(q) - 1
      /\ \A k \in 1 .. Len(q) - 1 : a[k] = IF k < i THEN q[k] ELSE q[k + 1]
  BY WithoutIs
<1> HIDE DEF a
<1>3. \A k \in 1 .. Len(a) : p[a[k]] \in Events
  BY <1>1, <1>2
<1>4. s \in Seq(Events) /\ Len(s) = Len(a) /\ \A k \in 1 .. Len(a) : s[k] = p[a[k]]
  BY <1>2, <1>3, ShownIs
<1>5. /\ Shown(q, p) \in Seq(Events) /\ Len(Shown(q, p)) = Len(q)
      /\ \A k \in 1 .. Len(q) : Shown(q, p)[k] = p[q[k]]
  BY ShownIs
<1>6. /\ t \in Seq(Events) /\ Len(t) = Len(q) - 1
      /\ \A k \in 1 .. Len(q) - 1 :
           t[k] = IF k < i THEN Shown(q, p)[k] ELSE Shown(q, p)[k + 1]
  BY <1>5, WithoutIs
<1> HIDE DEF s, t
<1>7. \A k \in 1 .. Len(q) - 1 : s[k] = t[k]
  <2> TAKE k \in 1 .. Len(q) - 1
  <2>1. k \in 1 .. Len(q) /\ k + 1 \in 1 .. Len(q)
    BY <1>1
  <2>2. a[k] = (IF k < i THEN q[k] ELSE q[k + 1]) /\ s[k] = p[a[k]]
    BY <1>2, <1>4
  <2>3. t[k] = IF k < i THEN Shown(q, p)[k] ELSE Shown(q, p)[k + 1]
    BY <1>6
  <2>4. Shown(q, p)[k] = p[q[k]] /\ Shown(q, p)[k + 1] = p[q[k + 1]]
    BY <1>5, <2>1
  <2> QED BY <2>2, <2>3, <2>4
<1>8. s = t
  BY <1>2, <1>4, <1>6, <1>7, SeqEqual
<1> QED BY <1>8 DEF a, s, t

\* Without its first element a sequence is its tail.
LEMMA TailIs ==
  ASSUME NEW S, NEW q \in Seq(S), q # <<>>
  PROVE  Tail(q) = Without(q, 1) /\ Head(q) = q[1] /\ 1 \in 1 .. Len(q)
<1>1. Len(q) \in Nat /\ Len(q) # 0 /\ 1 \in 1 .. Len(q)
  BY EmptySeq, LenProperties
<1>2. /\ Tail(q) \in Seq(S) /\ Len(Tail(q)) = Len(q) - 1
      /\ \A k \in 1 .. Len(Tail(q)) : Tail(q)[k] = q[k + 1]
  BY HeadTailProperties
<1>3. /\ Without(q, 1) \in Seq(S) /\ Len(Without(q, 1)) = Len(q) - 1
      /\ \A k \in 1 .. Len(q) - 1 : Without(q, 1)[k] = IF k < 1 THEN q[k] ELSE q[k + 1]
  BY <1>1, WithoutIs
<1>4. \A k \in 1 .. Len(Tail(q)) : Tail(q)[k] = Without(q, 1)[k]
  BY <1>1, <1>2, <1>3
<1>5. Tail(q) = Without(q, 1)
  BY <1>2, <1>3, <1>4, SeqEqual
<1> QED BY <1>1, <1>5

-----------------------------------------------------------------------------

(* The refinement of BoundedEvtQueue.                                       *)

\* The events that have left the queue, as the refinement mapping has it.
Left == {e \in Events : fate[e] \in {"delivered", "removed", "discarded"}}
        \cup (IF cons.at = "popped" THEN {payload[cons.rec]}
              ELSE IF cons.at = "read" THEN {cons.ev} ELSE {})

\* The inductive invariant behind Refinement, without the order of the ring.
EventInv == RingInv /\ Plain /\ EventsInFrames /\ EventsInRecords

\* What is on the ring is an event, accepted, in a record of its own.
LEMMA Waiting ==
  ASSUME EventInv, NEW q, Ordered(q, ahead)
  PROVE  /\ q \in Seq(Records) /\ Len(q) \in Nat
         /\ \A k \in 1 .. Len(q) : /\ q[k] \in Records /\ Linked(q[k]) /\ q[k] \in Present
                                   /\ payload[q[k]] \in Events
                                   /\ fate[payload[q[k]]] = "queued"
<1>1. /\ q \in Seq(Records) /\ Len(q) \in Nat
      /\ \A k \in 1 .. Len(q) : q[k] \in Records /\ Linked(q[k])
  BY LinkedAre DEF Ordered
<1>2. \A k \in 1 .. Len(q) : q[k] \in Present
  BY <1>1 DEF Present
<1> QED BY <1>1, <1>2 DEF EventInv, EventsInRecords

\* The abstract queue does not move when neither the ring, nor an event on it,
\* nor the set of events that have left changes.
LEMMA Stays ==
  ASSUME NEW q, Ordered(q, ahead), UNCHANGED ahead,
         \A k \in 1 .. Len(q) : payload'[q[k]] = payload[q[k]],
         Left' = Left
  PROVE  UNCHANGED BoundedQueue!vars /\ Ordered(q, ahead')
<1>1. Ordered(q, ahead')
  OBVIOUS
<1>2. Queue = Shown(q, payload) /\ Queue' = Shown(q, payload')
  BY <1>1, QueueIs, QueueNext
<1>3. Shown(q, payload') = Shown(q, payload)
  BY DEF Shown
<1> QED BY <1>1, <1>2, <1>3 DEF BoundedQueue!vars, Left

\* What the main loop is holding was accepted, too.
LEMMA HeldWas ==
  ASSUME EventInv
  PROVE  /\ cons.at \in {"popped", "read"} =>
              /\ cons.rec \in Records /\ cons.rec \in Present /\ ~Linked(cons.rec)
              /\ payload[cons.rec] \in Events /\ fate[payload[cons.rec]] = "queued"
         /\ cons.at = "read" => cons.ev = payload[cons.rec]
<1>1. cons.at = "read" => cons.ev = payload[cons.rec]
  BY DEF EventInv, EventsInRecords
<1> SUFFICES ASSUME cons.at \in {"popped", "read"}
             PROVE  /\ cons.rec \in Records /\ cons.rec \in Present /\ ~Linked(cons.rec)
                    /\ payload[cons.rec] \in Events /\ fate[payload[cons.rec]] = "queued"
  BY <1>1
<1>2. cons.rec \in Records
  BY DEF EventInv, RingInv, Firm, WalksAlone
<1>3. HeldByMain(cons.rec) /\ cons.rec \in Present
  BY <1>2 DEF HeldByMain, Present
<1>4. ~Linked(cons.rec)
  BY <1>2, <1>3 DEF EventInv, RingInv, Firm, SlabAgrees
<1> QED BY <1>2, <1>3, <1>4 DEF EventInv, EventsInRecords

\* Linking a record is putting its event into the queue: the last, or the first.
LEMMA LinkPuts ==
  ASSUME EventInv, TypeInv', NEW q, Ordered(q, ahead), NEW c \in Contexts, Link(c)
  PROVE  BoundedQueue!Put(ev[c]) /\ \E w : Ordered(w, ahead')
<1> DEFINE r == item[c]
           e == ev[c]
<1>0. TypeInv /\ Firm /\ TypeOK /\ WellLinked /\ LinksOK
  BY HalvesAreOne, LinksTyped DEF EventInv, RingInv, TypeInv, Firm
<1>1. /\ e \in Events /\ fate[e] = "offered" /\ payload[r] = e
      /\ fate' = [fate EXCEPT ![e] = "queued"] /\ UNCHANGED <<payload, cons>>
  BY DEF Link, EventInv, EventsInFrames
<1>2. /\ r \in Records /\ ~Linked(r)
      /\ Inserted(r, IF front[c] THEN ahead[HeadNode] ELSE HeadNode)
  BY <1>0, LinkInserts
<1>3. /\ q \in Seq(Records) /\ Len(q) \in Nat
      /\ \A k \in 1 .. Len(q) : /\ q[k] \in Records /\ Linked(q[k])
                                /\ payload[q[k]] \in Events /\ fate[payload[q[k]]] = "queued"
  BY Waiting
<1> HIDE DEF r, e
<1>4. Queue = Shown(q, payload)
  BY QueueIs
<1>5. /\ Shown(q, payload) \in Seq(Events) /\ Len(Shown(q, payload)) = Len(q)
      /\ \A k \in 1 .. Len(q) : Shown(q, payload)[k] = payload[q[k]]
  BY <1>3, ShownIs
<1>6. ~\E i \in 1 .. Len(Queue) : Queue[i] = e
  BY <1>1, <1>3, <1>4, <1>5
<1>7. e \notin Left
  <2>1. e \notin {d \in Events : fate[d] \in {"delivered", "removed", "discarded"}}
    BY <1>1
  <2>2. cons.at = "popped" => payload[cons.rec] # e
    BY <1>1, HeldWas
  <2>3. cons.at = "read" => cons.ev # e
    BY <1>1, HeldWas
  <2> QED BY <2>1, <2>2, <2>3 DEF Left
<1>8. Left' = Left
  <2>1. \A d \in Events : fate'[d] = IF d = e THEN "queued" ELSE fate[d]
    BY <1>0, <1>1 DEF TypeOK
  <2>2. \A d \in Events : fate'[d] \in {"delivered", "removed", "discarded"}
                       <=> fate[d] \in {"delivered", "removed", "discarded"}
    BY <1>1, <2>1
  <2> QED BY <1>1, <2>2 DEF Left
<1>9. \E w : /\ Ordered(w, ahead')
             /\ Shown(w, payload) \in {Append(Queue, e), <<e>> \o Queue}
  <2>1. CASE ~front[c]
    <3>1. Ordered(Append(q, r), ahead')
      BY <1>0, <1>2, <2>1, PutLast
    <3>2. Shown(Append(q, r), payload) = Append(Queue, e)
      BY <1>1, <1>2, <1>3, <1>4, ShownLast
    <3> QED BY <3>1, <3>2
  <2>2. CASE front[c]
    <3>1. Ordered(<<r>> \o q, ahead')
      BY <1>0, <1>2, <2>2, PutFirst
    <3>2. Shown(<<r>> \o q, payload) = <<e>> \o Queue
      BY <1>1, <1>2, <1>3, <1>4, ShownFirst
    <3> QED BY <3>1, <3>2
  <2> QED BY <2>1, <2>2
<1>10. PICK w : Ordered(w, ahead') /\ Shown(w, payload) \in {Append(Queue, e), <<e>> \o Queue}
  BY <1>9
<1>11. Queue' \in {Append(Queue, e), <<e>> \o Queue}
  BY <1>1, <1>10, QueueNext
<1>12. Len(Queue) < Cardinality(Records)
  <2>1. Len(Queue) = Len(q)
    BY <1>4, <1>5
  <2> DEFINE S == {m \in Records : Linked(m)}
  <2>2. Cardinality(S) = Len(q)
    BY LinkedAre DEF LinkedCount
  <2>3. S \subseteq Records /\ IsFiniteSet(Records) /\ S # Records
    BY <1>1, <1>2, EvtQueueAssumption
  <2> HIDE DEF S
  <2>4. Cardinality(S) <= Cardinality(Records) /\ Cardinality(S) # Cardinality(Records)
    BY <2>3, FS_Subset
  <2>5. Cardinality(Records) \in Nat
    BY <2>3, FS_CardinalityType
  <2> QED BY <1>3, <2>1, <2>2, <2>4, <2>5
<1>13. BoundedQueue!Put(e)
  BY <1>6, <1>7, <1>8, <1>11, <1>12 DEF BoundedQueue!Put, BoundedQueue!In, Left
<1> QED BY <1>10, <1>13 DEF e

\* Unlinking the first record is taking its event.
LEMMA PopTakes ==
  ASSUME EventInv, NEW q, Ordered(q, ahead), Pop
  PROVE  BoundedQueue!Take /\ \E w : Ordered(w, ahead')
<1>0. TypeOK /\ WellLinked /\ LinksOK /\ ahead = next
  BY HalvesAreOne, LinksTyped, PlainSeen DEF EventInv, RingInv, TypeInv, Firm, Seen
<1>1. /\ next[HeadNode] # HeadNode /\ ListDel(next[HeadNode]) /\ cons.at = "loop"
      /\ UNCHANGED <<payload, fate>>
      /\ cons'.at = "popped" /\ cons'.rec = next[HeadNode]
  BY <1>0 DEF Pop, TypeOK, history
<1>2. /\ q \in Seq(Records) /\ Len(q) \in Nat
      /\ \A k \in 1 .. Len(q) : payload[q[k]] \in Events
  BY Waiting
<1>3. next[HeadNode] = At(q, 1)
  <2>1. 0 \in 0 .. Len(q) /\ At(q, 0) = HeadNode
    BY <1>2 DEF At
  <2>2. next[At(q, 0)] = At(q, 0 + 1)
    BY <1>0, <2>1 DEF Ordered
  <2> QED BY <2>1, <2>2
<1>4. 1 \in 1 .. Len(q) /\ next[HeadNode] = q[1]
  BY <1>1, <1>3 DEF At
<1>5. Ordered(Without(q, 1), ahead')
  <2>1. q[1] \in Records /\ Linked(q[1]) /\ ListDel(q[1])
    BY <1>1, <1>4, LinkedAre
  <2>2. Unlinked(q[1])
    BY <2>1, DelTakes DEF Dequeue, EventInv
  <2> QED BY <1>0, <1>4, <2>2, Shortened
<1>6. Queue = Shown(q, payload) /\ Queue' = Shown(Without(q, 1), payload)
  BY <1>1, <1>5, QueueIs, QueueNext
<1>7. Queue' = Without(Queue, 1)
  BY <1>2, <1>4, <1>6, ShownWithout
<1>8. Queue \in Seq(Events) /\ Len(Queue) = Len(q) /\ Queue[1] = payload[q[1]] /\ Queue # <<>>
  <2>1. /\ Queue \in Seq(Events) /\ Len(Queue) = Len(q)
        /\ \A k \in 1 .. Len(q) : Queue[k] = payload[q[k]]
    BY <1>2, <1>6, ShownIs
  <2> QED BY <1>4, <2>1, EmptySeq
<1>9. Queue' = Tail(Queue) /\ Head(Queue) = payload[q[1]]
  BY <1>7, <1>8, TailIs
<1>10. Left' = Left \cup {payload[q[1]]}
  BY <1>1, <1>4 DEF Left
<1>11. BoundedQueue!Take
  BY <1>8, <1>9, <1>10 DEF BoundedQueue!Take, Left
<1> QED BY <1>5, <1>11

\* Removing a record whose event matches is dropping the event.
LEMMA RemoveDrops ==
  ASSUME EventInv, NEW q, Ordered(q, ahead), RemoveMatch
  PROVE  BoundedQueue!Next /\ \E w : Ordered(w, ahead')
<1> DEFINE r == cons.rec
           e == payload[r]
<1>0. TypeOK /\ WellLinked /\ LinksOK /\ WalksAlone /\ ahead = next
  BY HalvesAreOne, LinksTyped, PlainSeen DEF EventInv, RingInv, TypeInv, Firm, Seen
<1>1. /\ r \in Records /\ e \in Removable /\ e \in Events /\ Linked(r) /\ Unlinked(r)
      /\ cons.at = "removing" /\ cons'.at = "removing" /\ UNCHANGED payload
      /\ fate' = [fate EXCEPT ![e] = "removed"]
  <2>1. r \in Records /\ e \in Removable /\ ListDel(r) /\ e \in Events
    BY <1>0, EvtQueueAssumption, NodesAreNotNull DEF RemoveMatch, Expel, TypeOK
  <2>2. Linked(r)
    BY <1>0, <2>1 DEF ListDel, Linked
  <2>3. Unlinked(r)
    BY <2>1, <2>2, DelTakes DEF Remove, EventInv
  <2>4. /\ cons.at = "removing" /\ cons'.at = "removing" /\ UNCHANGED payload
        /\ fate' = [fate EXCEPT ![e] = "removed"]
    BY <1>0 DEF RemoveMatch, Expel, TypeOK
  <2> QED BY <2>1, <2>2, <2>3, <2>4
<1>2. /\ q \in Seq(Records) /\ Len(q) \in Nat
      /\ \A k \in 1 .. Len(q) : payload[q[k]] \in Events
  BY Waiting
<1> HIDE DEF r
<1>3. PICK i \in 1 .. Len(q) : q[i] = r
  BY <1>1 DEF Ordered, Linked
<1>4. Ordered(Without(q, i), ahead')
  BY <1>0, <1>1, <1>3, Shortened
<1>5. Queue = Shown(q, payload) /\ Queue' = Shown(Without(q, i), payload)
  BY <1>1, <1>4, QueueIs, QueueNext
<1>6. Queue' = Without(Queue, i)
  BY <1>2, <1>3, <1>5, ShownWithout
<1>7. Len(Queue) = Len(q) /\ Queue[i] = e
  <2>1. Len(Queue) = Len(q) /\ \A k \in 1 .. Len(q) : Queue[k] = payload[q[k]]
    BY <1>2, <1>5, ShownIs
  <2> QED BY <1>3, <2>1
<1> HIDE DEF e
<1>8. Left' = Left \cup {e}
  <2>1. \A d \in Events : fate'[d] = IF d = e THEN "removed" ELSE fate[d]
    BY <1>0, <1>1 DEF TypeOK
  <2> QED BY <1>1, <2>1 DEF Left
<1>9. BoundedQueue!Drop(i)
  BY <1>1, <1>6, <1>7, <1>8 DEF BoundedQueue!Drop, BoundedQueue!Without, Without, Left
<1>10. i \in 1 .. Len(Queue)
  BY <1>3, <1>7
<1> QED BY <1>4, <1>9, <1>10 DEF BoundedQueue!Next

\* The steps that neither change the ring nor take an event from it.
LEMMA OthersStay ==
  ASSUME Discardable = {}, EventInv, Seen, Seen', NEW q, Ordered(q, ahead), [Next]_vars,
         ~Pop, ~RemoveMatch, \A c \in Contexts : ~Link(c)
  PROVE  UNCHANGED BoundedQueue!vars /\ Ordered(q, ahead')
<1> USE NodesAreNotNull DEF history, frame
<1> DEFINE Calm == /\ UNCHANGED next
                   /\ \A k \in 1 .. Len(q) : payload'[q[k]] = payload[q[k]]
                   /\ Left' = Left
           Gone == {"delivered", "removed", "discarded"}
<1>0. /\ TypeOK /\ SlabAgrees /\ Framed
      /\ \A k \in 1 .. Len(q) : q[k] \in Records /\ q[k] \in Present
  BY Waiting DEF EventInv, RingInv, TypeInv, Firm
<1>1. ASSUME NEW c \in Contexts, NEW e \in Events, NEW f \in BOOLEAN, Offer(c, e, f)
      PROVE  Calm
  <2>1. \A d \in Events : fate'[d] \in Gone <=> fate[d] \in Gone
    BY <1>0, <1>1 DEF Offer, TypeOK
  <2> QED BY <1>1, <2>1 DEF Offer, Left
<1>2. ASSUME NEW c \in Contexts, (\E r \in Records : Alloc(c, r)) \/ Scan(c) \/ ScanNext(c)
      PROVE  Calm
  BY <1>2 DEF Alloc, Scan, ScanNext, Left
<1>3. ASSUME NEW c \in Contexts, Fill(c) PROVE Calm
  <2>1. item[c] \in Records /\ item[c] \notin Present
    BY <1>0, <1>3 DEF Fill, Framed, SlabAgrees, HeldBy
  <2>2. UNCHANGED <<next, fate, cons>> /\ \A r \in Present : payload'[r] = payload[r]
    BY <1>0, <1>3, <2>1 DEF Fill, TypeOK, Present
  <2>3. Left' = Left
    BY <2>2, HeldWas DEF Left
  <2> QED BY <1>0, <2>2, <2>3
<1>4. ASSUME NEW c \in Contexts, Refuse(c) PROVE Calm
  <2>1. ev[c] \in Events /\ fate[ev[c]] = "offered"
    BY <1>4 DEF Refuse, EventInv, EventsInFrames
  <2>2. \A d \in Events : fate'[d] \in Gone <=> fate[d] \in Gone
    BY <1>0, <1>4, <2>1 DEF Refuse, TypeOK
  <2> QED BY <1>4, <2>2 DEF Refuse, Left
<1>5. ASSUME \/ Fault
             \/ \E c \in Contexts : \/ Discard(c) \/ Unlink(c) \/ StoreBack(c) \/ StoreFore(c)
                                  \/ ClearPrev(c) \/ ClearNext(c)
                                  \/ StrayFault(c) \/ StrayReturn(c)
      PROVE  Calm
  BY <1>5 DEF Discard, Unlink, StoreBack, StoreFore, ClearPrev, ClearNext, StrayFault,
              StrayReturn, Fault, Plain, EventInv
<1>6. ASSUME Read PROVE Calm
  <2>1. cons.at = "popped" /\ cons'.at = "read" /\ cons'.ev = payload[cons.rec]
    BY <1>0, <1>6, HeldWas DEF Read, TypeOK
  <2> QED BY <1>6, <2>1 DEF Read, Left
<1>7. ASSUME Release PROVE Calm
  <2> DEFINE e == cons.ev
  <2>1. cons.at = "read" /\ cons'.at = "handling" /\ fate' = [fate EXCEPT ![e] = "delivered"]
    BY <1>0, <1>7 DEF Release, TypeOK
  <2>2. e \in Events
    BY <2>1, HeldWas
  <2> HIDE DEF e
  <2>3. \A d \in Events : fate'[d] = IF d = e THEN "delivered" ELSE fate[d]
    BY <1>0, <2>1, <2>2 DEF TypeOK
  <2>4. Left = {d \in Events : fate[d] \in Gone} \cup {e}
    BY <2>1 DEF Left, e
  <2>5. Left' = {d \in Events : fate'[d] \in Gone}
    BY <2>1 DEF Left
  <2>6. Left' = Left
    BY <2>2, <2>3, <2>4, <2>5
  <2> QED BY <1>7, <2>6 DEF Release
<1>8. ASSUME Finish \/ RemoveBegin \/ RemoveSkip \/ RemoveEnd PROVE Calm
  <2> DEFINE free == {"loop", "handling", "removing"}
  <2>1. Finish => cons.at \in free /\ cons'.at \in free
    BY DEF Finish
  <2>2. RemoveBegin => cons.at \in free /\ cons'.at \in free
    BY <1>0 DEF RemoveBegin, TypeOK
  <2>3. RemoveSkip => cons.at \in free /\ cons'.at \in free
    BY <1>0 DEF RemoveSkip, TypeOK
  <2>4. RemoveEnd => cons.at \in free /\ cons'.at \in free
    BY <1>0 DEF RemoveEnd, TypeOK
  <2>5. UNCHANGED <<next, payload, fate>>
    BY <1>8 DEF Finish, RemoveBegin, RemoveSkip, RemoveEnd
  <2>6. Left' = Left
    BY <1>8, <2>1, <2>2, <2>3, <2>4, <2>5 DEF Left
  <2> QED BY <2>5, <2>6
<1>9. ASSUME UNCHANGED vars PROVE Calm
  BY <1>9 DEF vars, Left
<1> HIDE DEF Contexts, Nodes, Calm
<1>10. Calm
  BY <1>1, <1>2, <1>3, <1>4, <1>5, <1>6, <1>7, <1>8, <1>9
     DEF Next, Enqueue, Dequeue, Remove
<1>11. UNCHANGED ahead
  BY <1>10 DEF Calm, Seen
<1> QED BY <1>10, <1>11, Stays DEF Calm

\* Every step of the queue is one of the abstract queue, or none.
LEMMA StepRefines ==
  ASSUME Discardable = {}, EventInv, TypeInv', Seen, Seen', \E q : Ordered(q, ahead), [Next]_vars
  PROVE  [BoundedQueue!Next]_(BoundedQueue!vars) /\ \E q : Ordered(q, ahead')
<1>1. PICK q : Ordered(q, ahead)
  OBVIOUS
<1>2. ASSUME NEW c \in Contexts, Link(c)
      PROVE  BoundedQueue!Next /\ \E w : Ordered(w, ahead')
  <2>1. ev[c] \in Events
    BY <1>2 DEF Link, EventInv, EventsInFrames
  <2>2. BoundedQueue!Put(ev[c]) /\ \E w : Ordered(w, ahead')
    BY <1>1, <1>2, LinkPuts
  <2> QED BY <2>1, <2>2 DEF BoundedQueue!Next
<1>3. CASE Pop
  <2>1. BoundedQueue!Take /\ \E w : Ordered(w, ahead')
    BY <1>1, <1>3, PopTakes
  <2> QED BY <2>1 DEF BoundedQueue!Next
<1>4. CASE RemoveMatch
  BY <1>1, <1>4, RemoveDrops
<1>5. CASE ~Pop /\ ~RemoveMatch /\ \A c \in Contexts : ~Link(c)
  <2>1. UNCHANGED BoundedQueue!vars /\ Ordered(q, ahead')
    BY <1>1, <1>5, OthersStay
  <2> QED BY <2>1
<1> QED BY <1>2, <1>3, <1>4, <1>5

\* The empty ring is the empty queue.
LEMMA InitRefines ==
  ASSUME Init
  PROVE  BoundedQueue!Init /\ \E q : Ordered(q, ahead)
<1>0. Seen
  BY PlainInit, PlainSeen DEF RingInv, TypeInv
<1>1. Ordered(<<>>, ahead)
  BY <1>0, NodesAreNotNull DEF Init, Ordered, At, Seen
<1>2. Queue = Shown(<<>>, payload)
  BY <1>1, QueueIs
<1>3. Shown(<<>>, payload) = <<>>
  BY DEF Shown
<1>4. Left = {}
  BY DEF Init, Left
<1> QED BY <1>1, <1>2, <1>3, <1>4 DEF BoundedQueue!Init, Left

\* When no event is discardable, what the main loop and the interrupt handlers
\* see of eventQ.c is a bounded queue, whatever interrupts what: each event goes
\* in once, last or (urgent) first, comes out from the front, and disappears
\* from between only when its timer is cancelled.  It takes effect in one step,
\* the one that links or unlinks the record.  (Run EvtQueueVictim shows that
\* the assumption cannot be dropped.)
THEOREM QueueIsBounded ==
  ASSUME Discardable = {}
  PROVE  Spec => Refinement
<1> DEFINE I == EventInv /\ \E q : Ordered(q, ahead)
<1>1. Init => I /\ BoundedQueue!Init
  BY PlainInit, EventsInit, InitRefines DEF EventInv
<1>2. I /\ [Next]_vars => I' /\ [BoundedQueue!Next]_(BoundedQueue!vars)
  <2> SUFFICES ASSUME I, [Next]_vars
               PROVE  I' /\ [BoundedQueue!Next]_(BoundedQueue!vars)
    OBVIOUS
  <2>0. RingInv' /\ Plain' /\ Seen /\ Seen'
    BY PlainStep DEF EventInv
  <2>1. EventInv'
    BY <2>0, EventsStep DEF EventInv
  <2>2. [BoundedQueue!Next]_(BoundedQueue!vars) /\ \E q : Ordered(q, ahead')
    BY <2>0, StepRefines DEF RingInv
  <2> QED BY <2>1, <2>2
<1> HIDE DEF I
<1>3. Spec => BoundedQueue!Spec
  BY <1>1, <1>2, PTL DEF Spec, BoundedQueue!Spec
<1> QED BY <1>3 DEF Refinement

=============================================================================
