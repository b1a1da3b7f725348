---------------------------- MODULE Timer_proofs ----------------------------
(***************************************************************************)
(* Proofs about Timer, for any number of slots and ids, any tasks, lengths *)
(* and room for events, and scans that nest to any depth.                  *)
(***************************************************************************)
EXTENDS Timer, WellFoundedInduction, TLAPS, SequenceTheorems

-----------------------------------------------------------------------------
(* Induction over the numbers, stated for sets.                             *)

\* A set of natural numbers that is not empty has a least element.
LEMMA Least ==
  ASSUME NEW S, S \subseteq Nat, S # {}
  PROVE  \E m \in S : \A k \in S : m <= k
<1> DEFINE Less == OpToRel(<, Nat)
<1>1. IsWellFoundedOn(Less, Nat)
  BY NatLessThanWellFounded
<1>2. \A a, b \in Nat : a < b => <<a, b>> \in Less
  BY DEF OpToRel
<1> HIDE DEF Less
<1>3. PICK m \in S : \A k \in S : ~(<<k, m>> \in Less)
  BY <1>1, WFMin
<1>4. ASSUME NEW k \in S PROVE ~(k < m)
  BY <1>2, <1>3, Zenon
<1> QED BY <1>3, <1>4

\* One that is bounded has a greatest element.
LEMMA Greatest ==
  ASSUME NEW n \in Nat, NEW S, S \subseteq 0 .. n, S # {}
  PROVE  \E m \in S : \A k \in S : k <= m
<1> DEFINE T == {n - k : k \in S}
<1>1. \A k \in S : n - k \in T /\ n - k \in Nat
  OBVIOUS
<1>2. T \subseteq Nat /\ T # {}
  BY <1>1
<1> HIDE DEF T
<1>3. PICK t \in T : \A k \in T : t <= k
  BY <1>2, Least
<1>4. PICK m \in S : t = n - m
  BY DEF T
<1>5. \A k \in S : n - m <= n - k /\ k \in Int /\ m \in Int
  BY <1>1, <1>3, <1>4
<1>6. \A k \in S : k <= m
  BY <1>5
<1> QED BY <1>6

\* A set that holds 0, and k + 1 whenever it holds k < n, holds 0 to n.
LEMMA Climb ==
  ASSUME NEW n \in Nat, NEW S, 0 \in S,
         \A k \in 0 .. (n - 1) : k \in S => k + 1 \in S
  PROVE  0 .. n \subseteq S
<1> DEFINE M == (0 .. n) \ S
<1> SUFFICES ASSUME M # {} PROVE FALSE
  OBVIOUS
<1>1. M \subseteq Nat
  OBVIOUS
<1>2. PICK m \in M : \A k \in M : m <= k
  <2> HIDE DEF M
  <2> QED BY <1>1, Least
<1>3. m # 0 /\ m - 1 \in 0 .. (n - 1) /\ m - 1 \notin M
  BY <1>2
<1> QED BY <1>3


\* The kinds of frames on the stack, as long as no scan loses its protection.
ScanFrame == [at : {"scan"}, tid : Nat, i : Nat \ {0}, done : BOOLEAN,
              any : BOOLEAN, next : Nat, open : {FALSE}]
ClaimedFrame == [at : {"claimed", "drawn"}, tid : Nat, slot : Slots, expires : Nat, id : Ids,
                 period : Nat, call : BOOLEAN, start : Nat, len : Nat \ {0}]
CallbackFrame == [at : {"callback"}, tid : Nat, slot : Slots, once : BOOLEAN]
Frame ==
  [at : {"main", "idle", "asleep", "woken"}] \cup [at : {"handler", "written"}, tid : Nat]
    \cup [at : {"cancelled"}, tid : Nat, slot : Slots, none : BOOLEAN]
    \cup ClaimedFrame \cup CallbackFrame \cup ScanFrame

\* What osTimerSet was asked for, and what has become of it.
Entry == [id : Ids \ {0}, start : Nat, len : Nat \ {0}, once : BOOLEAN, fired : Nat,
          end : {"armed", "fired", "cancelled", "evicted"}]

\* An EVT_APP_TIMER event.
Event == [id : Ids, sn : Nat]

Typed ==
  /\ timer \in [Slots -> [id : Ids, expires : Nat, period : Nat, tid : Nat,
                          call : BOOLEAN, sn : Nat]]
  /\ valid \subseteq Slots
  /\ now \in Nat /\ alarm \in Nat
  /\ log \in Seq(Entry)
  /\ events \in Seq(Event)
  /\ stack \in Seq(Frame) /\ Depth > 0

\* The main loop is at the bottom, its idle loop on top of it, and a scan below
\* another frame has called back, so that it goes on after its end.
StackOK ==
  \A k \in 1 .. Depth :
    /\ stack[k].at = "main" <=> k = 1
    /\ stack[k].at = "scan" /\ k < Depth => stack[k].done
    /\ stack[k].at \in {"idle", "asleep", "woken"} => k = 2

\* An armed slot carries the id that was given to its timer.
Named == \A s \in Slots : Armed(s) =>
  timer[s].sn \in 1 .. Len(log) /\ log[timer[s].sn].id = timer[s].id

\* When a timer fires next, and at what distance from then on.
Schedule(n, period, expires) ==
  /\ period = IF log[n].once THEN 0 ELSE log[n].len
  /\ expires = log[n].start + log[n].fired * log[n].len + log[n].len
  /\ log[n].once => log[n].fired = 0

\* An armed timer fires one length after the last time.
Scheduled ==
  \A s \in Slots : Armed(s) => Schedule(timer[s].sn, timer[s].period, timer[s].expires)

\* So does one that has been claimed and is not written yet.
ClaimsTimed ==
  \A k \in 1 .. Depth : stack[k].at \in {"claimed", "drawn"} =>
    /\ stack[k].expires = stack[k].start + stack[k].len /\ stack[k].start <= now
    /\ stack[k].period \in {0, stack[k].len}

\* An id that was drawn is in no slot, and was drawn once.
DrawnApart ==
  /\ \A k \in 1 .. Depth : stack[k].at = "drawn" =>
       stack[k].id # 0 /\ \A s \in Slots : timer[s].id # stack[k].id
  /\ \A j, k \in 1 .. Depth :
       stack[j].at = "drawn" /\ stack[k].at = "drawn" /\ stack[j].id = stack[k].id => j = k

ClaimsOK == ClaimsTimed /\ DrawnApart

\* No timer was set in the future.
Started == \A n \in 1 .. Len(log) : log[n].start <= now

\* The events in the queue carry the id and the number of one timer.
EventsNamed == \A k \in 1 .. Len(events) :
  events[k].sn \in 1 .. Len(log) /\ events[k].id = log[events[k].sn].id

\* What the scan on top of the stack has passed without doing anything is
\* covered by the time it found so far.
ScanCovers ==
  Top.at = "scan" /\ ~Top.done =>
    \A s \in Slots : s < Top.i /\ Armed(s) => Top.next # 0 /\ Top.next <= timer[s].expires

\* The alarm is set for the first timer that is due, outside of scans.
AlarmSet == Quiet => Covered

\* What holds until `upset'.
TimerInv ==
  /\ Typed /\ StackOK
  /\ OneOwner /\ Named
  /\ Scheduled /\ ClaimsOK /\ Started /\ OnTime
  /\ EventsNamed /\ NoneAfterCancel
  /\ ScanCovers /\ AlarmSet

-----------------------------------------------------------------------------
\* What the types say of the fields.

LEMMA SlotFacts ==
  ASSUME Typed, NEW s \in Slots
  PROVE  /\ timer[s].id \in Ids /\ timer[s].id \in Nat /\ timer[s].expires \in Nat
         /\ timer[s].period \in Nat /\ timer[s].tid \in Nat
         /\ timer[s].call \in BOOLEAN /\ timer[s].sn \in Nat
  BY TimerAssumption DEF Typed, Ids

LEMMA LogFacts ==
  ASSUME Typed
  PROVE  /\ Len(log) \in Nat /\ DOMAIN log = 1 .. Len(log)
         /\ \A n \in 1 .. Len(log) :
              /\ log[n] \in Entry /\ log[n].id \in Ids /\ log[n].id # 0
              /\ log[n].start \in Nat /\ log[n].len \in Nat /\ log[n].len # 0
              /\ log[n].once \in BOOLEAN /\ log[n].fired \in Nat
<1>1. \A n \in 1 .. Len(log) : log[n] \in Entry
  BY DEF Typed
<1>2. \A e \in Entry :
        /\ e.id \in Ids /\ e.id # 0 /\ e.start \in Nat /\ e.len \in Nat /\ e.len # 0
        /\ e.once \in BOOLEAN /\ e.fired \in Nat
  BY DEF Entry
<1>3. Len(log) \in Nat /\ DOMAIN log = 1 .. Len(log)
  BY DEF Typed
<1> QED BY <1>1, <1>2, <1>3

LEMMA EventFacts ==
  ASSUME Typed
  PROVE  /\ Len(events) \in Nat /\ DOMAIN events = 1 .. Len(events)
         /\ \A k \in 1 .. Len(events) : events[k] \in Event
  BY DEF Typed

-----------------------------------------------------------------------------
\* The stack: what each of the ways to change it leaves and puts there.

\* The lowest n frames stay.
Keeps(n) == \A k \in 1 .. n : stack'[k] = stack[k]

LEMMA TopFacts ==
  ASSUME stack \in Seq(Frame), Depth > 0
  PROVE  /\ Depth \in Nat \ {0} /\ DOMAIN stack = 1 .. Depth
         /\ Top = stack[Depth] /\ Top \in Frame
         /\ \A k \in 1 .. Depth : stack[k] \in Frame
  BY DEF Top, Last, Depth

LEMMA Pushed ==
  ASSUME stack \in Seq(Frame), NEW f \in Frame, Call(f)
  PROVE  /\ stack' \in Seq(Frame) /\ Depth' = Depth + 1 /\ Keeps(Depth)
         /\ stack'[Depth + 1] = f
  BY DEF Call, Keeps, Depth

LEMMA Lowest ==
  ASSUME stack \in Seq(Frame), NEW n \in 0 .. Depth
  PROVE  /\ SubSeq(stack, 1, n) \in Seq(Frame) /\ Len(SubSeq(stack, 1, n)) = n
         /\ \A k \in 1 .. n : SubSeq(stack, 1, n)[k] = stack[k]
  BY DEF Depth

LEMMA Popped ==
  ASSUME stack \in Seq(Frame), Depth > 0, Return
  PROVE  stack' \in Seq(Frame) /\ Depth' = Depth - 1 /\ Keeps(Depth - 1)
<1>1. Depth - 1 \in 0 .. Depth /\ stack' = SubSeq(stack, 1, Depth - 1)
  BY DEF Return, Front, Depth
<1> QED BY <1>1, Lowest DEF Keeps, Depth

LEMMA Replaced ==
  ASSUME stack \in Seq(Frame), Depth > 0, NEW f \in Frame, Become(f)
  PROVE  /\ stack' \in Seq(Frame) /\ Depth' = Depth /\ Keeps(Depth - 1)
         /\ stack'[Depth] = f
  BY DEF Become, Keeps, Depth

\* A callback goes on top of the scan, g, that makes it.
LEMMA CalledBack ==
  ASSUME stack \in Seq(Frame), Depth > 0, NEW f \in Frame, NEW g \in Frame,
         stack' = Append([stack EXCEPT ![Depth] = g], f)
  PROVE  /\ stack' \in Seq(Frame) /\ Depth' = Depth + 1 /\ Keeps(Depth - 1)
         /\ stack'[Depth] = g /\ stack'[Depth + 1] = f
<1> DEFINE t == [stack EXCEPT ![Depth] = g]
<1>1. t \in Seq(Frame) /\ Len(t) = Depth /\ \A k \in 1 .. (Depth - 1) : t[k] = stack[k]
  BY DEF Depth
<1>2. t[Depth] = g /\ Depth \in Nat
  BY DEF Depth
<1> HIDE DEF t
<1>3. stack' = Append(t, f)
  BY DEF t
<1> QED BY <1>1, <1>2, <1>3 DEF Keeps, Depth

\* A frame that owns a slot.
Holds(f) ==
  \/ f.at \in {"claimed", "drawn"}
  \/ f.at = "cancelled" /\ ~f.none
  \/ f.at = "callback" /\ f.once

LEMMA HoldingIs ==
  stack \in Seq(Frame) =>
    /\ Holding = {k \in 1 .. Depth : Holds(stack[k])}
    /\ \A k \in Holding : k \in 1 .. Depth /\ stack[k].slot \in Slots
<1> SUFFICES ASSUME stack \in Seq(Frame)
             PROVE  /\ Holding = {k \in 1 .. Depth : Holds(stack[k])}
                    /\ \A k \in Holding : k \in 1 .. Depth /\ stack[k].slot \in Slots
  OBVIOUS
<1>1. DOMAIN stack = 1 .. Depth /\ \A k \in 1 .. Depth : stack[k] \in Frame
  BY DEF Depth
<1>2. Holding = {k \in 1 .. Depth : Holds(stack[k])}
  BY <1>1 DEF Holding, Holds
<1>3. ASSUME NEW f \in Frame, Holds(f) PROVE f.slot \in Slots
  BY <1>3 DEF Frame, ScanFrame, ClaimedFrame, CallbackFrame, Holds
<1> QED BY <1>1, <1>2, <1>3

LEMMA HoldingIsNext ==
  (stack \in Seq(Frame) =>
     /\ Holding = {k \in 1 .. Depth : Holds(stack[k])}
     /\ \A k \in Holding : k \in 1 .. Depth /\ stack[k].slot \in Slots)'
  BY HoldingIs, PTL

\* Frames that own nothing come and go above the lowest n.
LEMMA HoldingKept ==
  ASSUME stack \in Seq(Frame), stack' \in Seq(Frame),
         NEW n \in Nat, n <= Depth, n <= Depth', Keeps(n),
         \A k \in (n + 1) .. Depth : ~Holds(stack[k]),
         \A k \in (n + 1) .. Depth' : ~Holds(stack'[k])
  PROVE  Holding' = Holding /\ \A k \in Holding : stack'[k] = stack[k]
<1>1. Holding = {k \in 1 .. n : Holds(stack[k])}
  BY HoldingIs DEF Depth
<1>2. Holding' = {k \in 1 .. n : Holds(stack'[k])}
  BY HoldingIsNext DEF Depth, Holds
<1> QED BY <1>1, <1>2 DEF Keeps

\* Someone scans the timers or is about to.
Alert == \E k \in 1 .. Depth : stack[k].at \in {"written", "scan", "woken"}

LEMMA AlarmSetIs == stack \in Seq(Frame) => (AlarmSet <=> Alert \/ Covered)
<1> SUFFICES ASSUME stack \in Seq(Frame)
             PROVE  AlarmSet <=> Alert \/ Covered
  OBVIOUS
<1>1. DOMAIN stack = 1 .. Depth /\ \A k \in 1 .. Depth : stack[k] \in Frame
  BY DEF Depth
<1>2. \A f \in Frame : f.at # "due"
  BY DEF Frame, ScanFrame, ClaimedFrame, CallbackFrame
<1> QED BY <1>1, <1>2 DEF AlarmSet, Quiet, Alert, Frames

LEMMA AlarmSetIsNext == (stack \in Seq(Frame) => (AlarmSet <=> Alert \/ Covered))'
  BY AlarmSetIs, PTL

\* No id is drawn and no slot gets one.
LEMMA DrawnKept ==
  ASSUME DrawnApart,
         \A k \in 1 .. Depth' : stack'[k].at = "drawn" =>
           k \in 1 .. Depth /\ stack'[k] = stack[k],
         \A s \in Slots : timer'[s].id \in {0, timer[s].id}
  PROVE  DrawnApart'
<1>1. \A k \in 1 .. Depth' : stack'[k].at = "drawn" =>
        stack'[k].id # 0 /\ \A s \in Slots : timer'[s].id # stack'[k].id
  BY DEF DrawnApart
<1>2. \A j, k \in 1 .. Depth' :
        stack'[j].at = "drawn" /\ stack'[k].at = "drawn" /\ stack'[j].id = stack'[k].id => j = k
  BY DEF DrawnApart
<1> QED BY <1>1, <1>2 DEF DrawnApart

\* The calls that set a timer go on, and no slot gets an id.
LEMMA ClaimsKept ==
  ASSUME Typed, ClaimsOK, now' \in Nat, now <= now',
         \A k \in 1 .. Depth' : stack'[k].at \in {"claimed", "drawn"} =>
           k \in 1 .. Depth /\ stack'[k] = stack[k],
         \A s \in Slots : timer'[s].id \in {0, timer[s].id}
  PROVE  ClaimsOK'
<1>1. now \in Nat /\ \A k \in 1 .. Depth : stack[k] \in Frame
  BY DEF Typed, Depth
<1>2. \A f \in Frame : f.at \in {"claimed", "drawn"} => f.start \in Nat
  BY DEF Frame, ScanFrame, ClaimedFrame, CallbackFrame
<1>3. ClaimsTimed'
  <2> SUFFICES ASSUME NEW k \in 1 .. Depth', stack'[k].at \in {"claimed", "drawn"}
               PROVE  /\ stack'[k].expires = stack'[k].start + stack'[k].len
                      /\ stack'[k].start <= now'
                      /\ stack'[k].period \in {0, stack'[k].len}
    BY DEF ClaimsTimed
  <2>1. k \in 1 .. Depth /\ stack'[k] = stack[k] /\ stack[k].start \in Nat
    BY <1>1, <1>2
  <2>2. /\ stack[k].expires = stack[k].start + stack[k].len /\ stack[k].start <= now
        /\ stack[k].period \in {0, stack[k].len}
    BY <2>1 DEF ClaimsOK, ClaimsTimed
  <2> QED BY <1>1, <2>1, <2>2
<1>4. DrawnApart'
  BY DrawnKept DEF ClaimsOK
<1> QED BY <1>3, <1>4 DEF ClaimsOK

LEMMA QuietStep ==
  ASSUME TimerInv, UNCHANGED <<timer, valid, log>>,
         now' \in Nat, now <= now', alarm' \in Nat,
         events' = events \/ (events # <<>> /\ events' = Tail(events)),
         stack' \in Seq(Frame), Depth' > 0, StackOK',
         Holding' = Holding, \A k \in Holding : stack'[k] = stack[k],
         ScanCovers', Alert' \/ Covered'
  PROVE  TimerInv'
<1>1. /\ events' \in Seq(Event)
      /\ \A k \in 1 .. Len(events') : \E j \in 1 .. Len(events) : events'[k] = events[j]
  <2>1. CASE events' = events
    BY <2>1 DEF TimerInv, Typed
  <2>2. CASE events # <<>> /\ events' = Tail(events)
    <3>1. /\ events' \in Seq(Event) /\ Len(events') = Len(events) - 1
          /\ \A k \in 1 .. (Len(events) - 1) : events'[k] = events[k + 1]
      BY <2>2 DEF TimerInv, Typed
    <3> QED BY <3>1, EventFacts DEF TimerInv
  <2> QED BY <2>1, <2>2
<1>2. Typed'
  BY <1>1 DEF TimerInv, Typed
<1>3. OneOwner'
  BY DEF TimerInv, OneOwner, Armed
<1>4. Named'
  BY DEF TimerInv, Named, Armed
<1>5. Scheduled'
  BY DEF TimerInv, Scheduled, Schedule, Armed
<1>6. Started'
  BY LogFacts DEF TimerInv, Typed, Started
<1>7. ClaimsOK'
  <2>1. \A k \in 1 .. Depth' : stack'[k].at \in {"claimed", "drawn"} => k \in Holding
    BY HoldingIsNext DEF Holds
  <2>2. \A k \in Holding : k \in 1 .. Depth
    BY HoldingIs DEF TimerInv, Typed
  <2> QED BY <2>1, <2>2, ClaimsKept DEF TimerInv
<1>8. OnTime'
  <2> SUFFICES ASSUME NEW n \in 1 .. Len(log)
               PROVE  /\ log[n].fired * log[n].len <= now' - log[n].start
                      /\ log[n].once => log[n].fired <= 1
                      /\ log[n].once /\ log[n].end # "armed" =>
                           (log[n].fired = 1 <=> log[n].end = "fired")
    BY LogFacts DEF TimerInv, OnTime
  <2>1. /\ log[n].fired * log[n].len <= now - log[n].start
        /\ log[n].once => log[n].fired <= 1
        /\ log[n].once /\ log[n].end # "armed" =>
             (log[n].fired = 1 <=> log[n].end = "fired")
    BY LogFacts DEF TimerInv, OnTime
  <2>2. log[n].fired * log[n].len \in Nat /\ log[n].start \in Nat /\ now \in Nat
    BY LogFacts DEF TimerInv, Typed
  <2> QED BY <2>1, <2>2
<1>9. EventsNamed'
  BY <1>1, EventFacts DEF TimerInv, EventsNamed
<1>10. NoneAfterCancel'
  <2>1. DOMAIN events' = 1 .. Len(events')
    BY <1>1
  <2>2. \A j \in 1 .. Len(events) : log[events[j].sn].end # "evicted"
    BY EventFacts DEF TimerInv, NoneAfterCancel
  <2>3. ASSUME NEW k \in DOMAIN events' PROVE log'[events'[k].sn].end # "evicted"
    <3>1. PICK j \in 1 .. Len(events) : events'[k] = events[j]
      BY <1>1, <2>1
    <3> QED BY <2>2, <3>1
  <2> QED BY <2>3 DEF NoneAfterCancel
<1>11. AlarmSet'
  BY AlarmSetIsNext
<1> QED
  BY <1>2, <1>3, <1>4, <1>5, <1>6, <1>7, <1>8, <1>9, <1>10, <1>11 DEF TimerInv

-----------------------------------------------------------------------------
\* The steps that touch no timer.

LEMMA FrameKinds ==
  ASSUME NEW f \in Frame
  PROVE  /\ f.at = "scan" => f \in ScanFrame
         /\ f.at \in {"claimed", "drawn"} => f \in ClaimedFrame
         /\ f.at = "callback" => f \in CallbackFrame
         /\ f.at = "cancelled" => f.slot \in Slots /\ f.none \in BOOLEAN
         /\ f.at \in {"handler", "written", "claimed", "callback", "scan"} => f.tid \in Nat
         /\ f.at \notin {"due", "posting", "posted"} /\ ~Open(f)
  BY DEF Frame, ScanFrame, ClaimedFrame, CallbackFrame, Open

LEMMA ScanFields ==
  ASSUME NEW f \in ScanFrame
  PROVE  /\ DOMAIN f = {"at", "tid", "i", "done", "any", "next", "open"}
         /\ f = [x \in DOMAIN f |-> f[x]]
         /\ f.at = "scan" /\ f.tid \in Nat /\ f.i \in Nat \ {0} /\ f.done \in BOOLEAN
         /\ f.any \in BOOLEAN /\ f.next \in Nat /\ f.open = FALSE
  BY DEF ScanFrame

LEMMA NewScanIs ==
  ASSUME NEW t \in Nat, NEW any \in BOOLEAN
  PROVE  /\ NewScan(t, any) \in ScanFrame /\ NewScan(t, any).at = "scan"
         /\ NewScan(t, any).i = 1 /\ ~NewScan(t, any).done
<1> DEFINE g == NewScan(t, any)
<1>1. g = [at |-> "scan", tid |-> t, i |-> 1, done |-> FALSE, any |-> any, next |-> 0,
           open |-> FALSE]
  BY DEF NewScan
<1> HIDE DEF g
<1>2. g \in ScanFrame
  BY <1>1 DEF ScanFrame
<1>3. g.at = "scan" /\ g.i = 1 /\ ~g.done
  BY <1>1
<1> QED BY <1>2, <1>3 DEF g

LEMMA FramesAre ==
  /\ \A t \in Nat, any \in BOOLEAN :
       NewScan(t, any) \in ScanFrame /\ NewScan(t, any).at = "scan"
         /\ NewScan(t, any).i = 1 /\ ~NewScan(t, any).done
  /\ ScanFrame \subseteq Frame /\ ClaimedFrame \subseteq Frame
  /\ CallbackFrame \subseteq Frame
  /\ \A f \in ScanFrame : f.at = "scan" /\ ~Holds(f)
  /\ \A k \in {"main", "idle", "asleep", "woken"} : [at |-> k] \in Frame
  /\ \A k \in {"handler", "written"}, t \in Nat : [at |-> k, tid |-> t] \in Frame
  /\ \A t \in Nat, s \in Slots, b \in BOOLEAN :
       [at |-> "cancelled", tid |-> t, slot |-> s, none |-> b] \in Frame
<1>1. \A f \in ScanFrame : f.at = "scan" /\ ~Holds(f)
  BY ScanFields DEF Holds
<1>2. /\ ScanFrame \subseteq Frame /\ ClaimedFrame \subseteq Frame
      /\ CallbackFrame \subseteq Frame
  BY DEF Frame
<1>3. /\ \A k \in {"main", "idle", "asleep", "woken"} : [at |-> k] \in Frame
      /\ \A k \in {"handler", "written"}, t \in Nat : [at |-> k, tid |-> t] \in Frame
      /\ \A t \in Nat, s \in Slots, b \in BOOLEAN :
           [at |-> "cancelled", tid |-> t, slot |-> s, none |-> b] \in Frame
  BY DEF Frame
<1> QED BY <1>1, <1>2, <1>3, NewScanIs

\* The scan on top of the stack is a new one, or goes on.
LEMMA ScanMoves ==
  ASSUME TimerInv, NEW g \in ScanFrame, Become(g), Top.at \in {"written", "scan", "handler"},
         UNCHANGED <<timer, valid, now, alarm, events, log>>,
         ~g.done => \A s \in Slots : s < g.i /\ Armed(s) =>
                      g.next # 0 /\ g.next <= timer[s].expires
  PROVE  TimerInv'
<1>1. stack \in Seq(Frame) /\ Depth > 0
  BY DEF TimerInv, Typed
<1>2. /\ Depth \in Nat \ {0} /\ Top = stack[Depth]
      /\ g \in Frame /\ g.at = "scan" /\ ~Holds(g)
  BY <1>1, TopFacts, FramesAre
<1>3. stack' \in Seq(Frame) /\ Depth' = Depth /\ Keeps(Depth - 1) /\ stack'[Depth] = g
  BY <1>1, <1>2, Replaced
<1>4. Top' = g
  BY <1>2, <1>3 DEF Top, Last, Depth
<1>5. StackOK'
  BY <1>2, <1>3 DEF TimerInv, StackOK, Keeps
<1>6. Holding' = Holding /\ \A k \in Holding : stack'[k] = stack[k]
  <2>1. ~Holds(Top)
    BY DEF Holds
  <2> QED BY <1>1, <1>2, <1>3, <2>1, HoldingKept
<1>7. ScanCovers'
  BY <1>4 DEF ScanCovers, Armed
<1>8. Alert'
  BY <1>2, <1>3 DEF Alert
<1>9. now' \in Nat /\ now <= now' /\ alarm' \in Nat
  BY DEF TimerInv, Typed
<1> QED BY <1>2, <1>3, <1>5, <1>6, <1>7, <1>8, <1>9, QuietStep

\* Nothing changes in the stack but a handler on top of it, or nothing at all.
LEMMA NoScan ==
  ASSUME TimerInv, UNCHANGED <<timer, valid, alarm, log>>,
         now' \in Nat, now <= now',
         events' = events \/ (events # <<>> /\ events' = Tail(events)),
         stack' \in Seq(Frame), Depth' > 0, StackOK',
         NEW n \in Nat, n <= Depth, n <= Depth', Keeps(n),
         \A k \in (n + 1) .. Depth : stack[k].at = "handler",
         \A k \in (n + 1) .. Depth' : stack'[k].at = "handler",
         ScanCovers'
  PROVE  TimerInv'
<1>1. stack \in Seq(Frame) /\ Depth > 0 /\ alarm' \in Nat
  BY DEF TimerInv, Typed
<1>2. Holding' = Holding /\ \A k \in Holding : stack'[k] = stack[k]
  BY <1>1, HoldingKept DEF Holds
<1>3. Alert \/ Covered
  BY <1>1, AlarmSetIs DEF TimerInv
<1>4. ASSUME Alert PROVE Alert'
  <2>1. PICK k \in 1 .. Depth : stack[k].at \in {"written", "scan", "woken"}
    BY <1>4 DEF Alert
  <2>2. Depth \in Nat /\ Depth' \in Nat
    BY <1>1 DEF Depth
  <2>3. k \in 1 .. n
    BY <2>1, <2>2
  <2>4. k \in 1 .. Depth' /\ stack'[k] = stack[k]
    BY <2>2, <2>3 DEF Keeps
  <2> QED BY <2>1, <2>4 DEF Alert
<1>5. Covered => Covered'
  BY DEF Covered, Armed
<1> QED BY <1>1, <1>2, <1>3, <1>4, <1>5, QuietStep

LEMMA ScanOfSetInv ==
  ASSUME TimerInv, ScanOfSet
  PROVE  TimerInv'
<1>1. Top \in Frame /\ Top.tid \in Nat /\ Top.at = "written"
  BY TopFacts, FrameKinds DEF TimerInv, Typed, ScanOfSet
<1> DEFINE g == NewScan(Top.tid, FALSE)
<1>2. g \in ScanFrame /\ g.i = 1 /\ Become(g)
  BY <1>1, FramesAre DEF ScanOfSet
<1> HIDE DEF g
<1>3. \A s \in Slots : ~(s < g.i)
  BY <1>2, TimerAssumption DEF Slots
<1> QED BY <1>1, <1>2, <1>3, ScanMoves DEF ScanOfSet

LEMMA TimIntHandlerInv ==
  ASSUME TimerInv, TimIntHandler
  PROVE  TimerInv'
<1>1. Top \in Frame /\ Top.tid \in Nat /\ Top.at = "handler"
  BY TopFacts, FrameKinds DEF TimerInv, Typed, TimIntHandler
<1> DEFINE g == NewScan(Top.tid, FALSE)
<1>2. g \in ScanFrame /\ g.i = 1 /\ Become(g)
  BY <1>1, FramesAre DEF TimIntHandler
<1> HIDE DEF g
<1>3. \A s \in Slots : ~(s < g.i)
  BY <1>2, TimerAssumption DEF Slots
<1> QED BY <1>1, <1>2, <1>3, ScanMoves DEF TimIntHandler

LEMMA ScanAgainInv ==
  ASSUME TimerInv, ScanAgain
  PROVE  TimerInv'
<1>1. Top \in ScanFrame /\ Top.at = "scan"
  BY TopFacts, FrameKinds DEF TimerInv, Typed, ScanAgain, Scanned
<1>2. Top.tid \in Nat /\ (Top.any \/ Top.done) \in BOOLEAN /\ Top.open = FALSE
  BY <1>1 DEF ScanFrame
<1> DEFINE g == NewScan(Top.tid, Top.any \/ Top.done)
<1>3. g \in ScanFrame /\ g.i = 1
  BY <1>2, FramesAre
<1>4. Become([g EXCEPT !.open = Top.open])
  BY DEF ScanAgain
<1> HIDE DEF g
<1>5. g = [g EXCEPT !.open = Top.open]
  BY <1>2, <1>3 DEF ScanFrame
<1>6. \A s \in Slots : ~(s < g.i)
  BY <1>3, TimerAssumption DEF Slots
<1> QED BY <1>1, <1>3, <1>4, <1>5, <1>6, ScanMoves DEF ScanAgain

\* The frame of a scan that has a slot to look at.
LEMMA ScanningFacts ==
  ASSUME TimerInv, Scanning
  PROVE  /\ Top \in ScanFrame /\ Top.at = "scan" /\ Top.i \in Slots /\ Top.next \in Nat
         /\ Top.done \in BOOLEAN /\ Depth \in Nat /\ Depth > 1
<1>1. Top \in Frame /\ Top.at = "scan" /\ Depth \in Nat \ {0} /\ Top = stack[Depth]
  BY TopFacts DEF TimerInv, Typed, Scanning
<1>2. Top \in ScanFrame
  BY <1>1, FrameKinds
<1>3. Top.i \in Nat \ {0} /\ Top.next \in Nat /\ Top.done \in BOOLEAN
  BY <1>2 DEF ScanFrame
<1>4. Top.i \in Slots
  BY <1>3, TimerAssumption DEF Scanning, Slots
<1>5. Depth > 1
  BY <1>1 DEF TimerInv, StackOK
<1> QED BY <1>1, <1>2, <1>3, <1>4, <1>5

LEMMA PassInv ==
  ASSUME TimerInv, Pass
  PROVE  TimerInv'
<1>1. Top \in ScanFrame /\ Top.at = "scan" /\ Top.i \in Slots /\ Top.done \in BOOLEAN
  BY ScanningFacts DEF Pass
<1> DEFINE g == [Top EXCEPT !.i = @ + 1]
<1>2. g \in ScanFrame /\ g.i = Top.i + 1 /\ g.done = Top.done /\ g.next = Top.next
  <2>1. g = [Top EXCEPT !.i = Top.i + 1] /\ Top.i + 1 \in Nat \ {0}
    BY <1>1 DEF ScanFrame
  <2>2. /\ DOMAIN Top = {"at", "tid", "i", "done", "any", "next", "open"}
        /\ Top.at = "scan" /\ Top.tid \in Nat /\ Top.any \in BOOLEAN /\ Top.open = FALSE
        /\ Top.next \in Nat
    BY <1>1 DEF ScanFrame
  <2> HIDE DEF g
  <2>3. g = [at |-> "scan", tid |-> Top.tid, i |-> Top.i + 1, done |-> Top.done,
             any |-> Top.any, next |-> Top.next, open |-> FALSE]
    BY <1>1, <2>1, <2>2 DEF ScanFrame
  <2> QED BY <1>1, <2>1, <2>2, <2>3 DEF ScanFrame
<1>3. Become(g)
  BY DEF Pass
<1>4. ASSUME ~g.done, NEW s \in Slots, s < g.i, Armed(s)
      PROVE  g.next # 0 /\ g.next <= timer[s].expires
  <2>1. s < Top.i
    BY <1>1, <1>2, <1>4 DEF Pass, Slots
  <2> QED BY <1>1, <1>2, <1>4, <2>1 DEF TimerInv, ScanCovers
<1> HIDE DEF g
<1> QED BY <1>1, <1>2, <1>3, <1>4, ScanMoves DEF Pass

LEMMA NotYetInv ==
  ASSUME TimerInv, NotYet
  PROVE  TimerInv'
<1>1. /\ Top \in ScanFrame /\ Top.at = "scan" /\ Top.i \in Slots /\ Top.done \in BOOLEAN
      /\ Top.next \in Nat
  BY ScanningFacts DEF NotYet
<1>2. Cur.expires \in Nat /\ Cur.expires > now /\ now \in Nat /\ Cur = timer[Top.i]
  BY <1>1, SlotFacts DEF NotYet, Cur, TimerInv, Typed
<1> DEFINE n == IF Top.next = 0 \/ Top.next > Cur.expires THEN Cur.expires ELSE Top.next
           g == [Top EXCEPT !.i = @ + 1, !.next = n]
<1>3. n \in Nat /\ n # 0 /\ n <= Cur.expires /\ (Top.next # 0 => n <= Top.next)
  BY <1>1, <1>2
<1>4. g = [Top EXCEPT !.i = @ + 1,
             !.next = IF @ = 0 \/ @ > Cur.expires THEN Cur.expires ELSE @]
  BY <1>1 DEF ScanFrame
<1> HIDE DEF n
<1>5. g \in ScanFrame /\ g.i = Top.i + 1 /\ g.done = Top.done /\ g.next = n
  <2>1. Top.i + 1 \in Nat \ {0} /\ g = [Top EXCEPT !.i = Top.i + 1, !.next = n]
    BY <1>1 DEF ScanFrame
  <2>2. /\ DOMAIN Top = {"at", "tid", "i", "done", "any", "next", "open"}
        /\ Top.at = "scan" /\ Top.tid \in Nat /\ Top.any \in BOOLEAN /\ Top.open = FALSE
    BY <1>1 DEF ScanFrame
  <2> HIDE DEF g
  <2>3. g = [at |-> "scan", tid |-> Top.tid, i |-> Top.i + 1, done |-> Top.done,
             any |-> Top.any, next |-> n, open |-> FALSE]
    BY <1>1, <2>1, <2>2 DEF ScanFrame
  <2> QED BY <1>1, <1>3, <2>1, <2>2, <2>3 DEF ScanFrame
<1>6. Become(g)
  BY <1>4 DEF NotYet
<1>7. ASSUME ~g.done, NEW s \in Slots, s < g.i, Armed(s)
      PROVE  g.next # 0 /\ g.next <= timer[s].expires
  <2>1. CASE s = Top.i
    BY <1>2, <1>3, <1>5, <2>1
  <2>2. CASE s < Top.i
    <3>1. Top.next # 0 /\ Top.next <= timer[s].expires
      BY <1>1, <1>5, <1>7, <2>2 DEF TimerInv, ScanCovers
    <3>2. timer[s].expires \in Nat
      BY SlotFacts DEF TimerInv
    <3> QED BY <1>1, <1>3, <1>5, <3>1, <3>2
  <2> QED BY <1>1, <1>5, <1>7, <2>1, <2>2 DEF Slots
<1> HIDE DEF g
<1> QED BY <1>1, <1>5, <1>6, <1>7, ScanMoves DEF NotYet

\* The scan ends: the alarm covers every timer, and the frames of the idle
\* loop go with it, or are replaced by that of a CPU asleep.
LEMMA ScanEndInv ==
  ASSUME TimerInv, ScanEnd
  PROVE  TimerInv'
<1>1. stack \in Seq(Frame) /\ Depth \in Nat \ {0} /\ Top = stack[Depth] /\ Top \in ScanFrame
      /\ Top.at = "scan" /\ Depth > 1 /\ stack[Depth - 1] \in Frame
  <2>1. /\ stack \in Seq(Frame) /\ Depth \in Nat \ {0} /\ Top = stack[Depth]
        /\ Top \in ScanFrame /\ Top.at = "scan" /\ \A k \in 1 .. Depth : stack[k] \in Frame
    BY TopFacts, FrameKinds DEF TimerInv, Typed, ScanEnd, Scanned
  <2>2. Depth > 1
    BY <2>1 DEF TimerInv, StackOK
  <2> QED BY <2>1, <2>2
<1> DEFINE below == stack[Depth - 1].at
<1>2. PICK n \in {Depth - 1, Depth - 2} :
        /\ stack' \in Seq(Frame) /\ Keeps(n) /\ n \in 1 .. Depth
        /\ n = Depth - 2 => below \in {"idle", "woken"} /\ Depth - 1 = 2
        /\ \/ Depth' = n
           \/ Depth' = n + 1 /\ n = Depth - 2 /\ stack'[n + 1] = [at |-> "asleep"]
  <2>1. CASE below = "idle" /\ ~Top.any
    <3> DEFINE low == SubSeq(stack, 1, Depth - 2)
               f == [at |-> "asleep"]
    <3>1. stack' = Append(low, f) /\ f \in Frame
      BY <2>1, FramesAre DEF ScanEnd
    <3>2. Depth - 2 \in 1 .. Depth
      BY <1>1, <2>1 DEF TimerInv, StackOK
    <3>3. low \in Seq(Frame) /\ Len(low) = Depth - 2
          /\ \A k \in 1 .. (Depth - 2) : low[k] = stack[k]
      BY <1>1, <3>2, Lowest
    <3> HIDE DEF low, f
    <3>4. /\ stack' \in Seq(Frame) /\ Depth' = Depth - 2 + 1 /\ Keeps(Depth - 2)
          /\ stack'[Depth - 2 + 1] = f
      BY <3>1, <3>2, <3>3 DEF Depth, Keeps
    <3>5. Depth - 1 = 2
      BY <1>1, <2>1 DEF TimerInv, StackOK
    <3> QED BY <2>1, <3>2, <3>4, <3>5 DEF f
  <2>2. CASE below = "woken" \/ (below = "idle" /\ Top.any)
    <3> DEFINE low == SubSeq(stack, 1, Depth - 2)
    <3>1. stack' = low
      BY <2>2 DEF ScanEnd
    <3>2. Depth - 2 \in 1 .. Depth
      BY <1>1, <2>2 DEF TimerInv, StackOK
    <3>3. low \in Seq(Frame) /\ Len(low) = Depth - 2
          /\ \A k \in 1 .. (Depth - 2) : low[k] = stack[k]
      BY <1>1, <3>2, Lowest
    <3> HIDE DEF low
    <3>4. stack' \in Seq(Frame) /\ Depth' = Depth - 2 /\ Keeps(Depth - 2)
      BY <3>1, <3>3 DEF Depth, Keeps
    <3>5. Depth - 1 = 2
      BY <1>1, <2>2 DEF TimerInv, StackOK
    <3> QED BY <2>2, <3>2, <3>4, <3>5
  <2>3. CASE below # "woken" /\ below # "idle"
    <3>1. Return
      BY <2>3 DEF ScanEnd, Return
    <3> QED BY <1>1, <3>1, Popped
  <2> QED BY <2>1, <2>2, <2>3
<1>3. Depth' \in Nat /\ Depth' > 0 /\ n <= Depth' /\ n \in Nat /\ n < Depth
  BY <1>1, <1>2
<1>4. /\ \A k \in (n + 1) .. Depth : k = Depth \/ (k = Depth - 1 /\ n = Depth - 2)
      /\ \A k \in (n + 1) .. Depth' : k = n + 1 /\ stack'[k] = [at |-> "asleep"]
  BY <1>1, <1>2, <1>3
<1>5. Holding' = Holding /\ \A k \in Holding : stack'[k] = stack[k]
  <2>1. \A k \in (n + 1) .. Depth : ~Holds(stack[k])
    BY <1>1, <1>2, <1>4 DEF Holds
  <2>2. \A k \in (n + 1) .. Depth' : ~Holds(stack'[k])
    BY <1>4 DEF Holds
  <2> QED BY <1>1, <1>2, <1>3, <2>1, <2>2, HoldingKept
<1>6. StackOK'
  <2> SUFFICES ASSUME NEW k \in 1 .. Depth'
               PROVE  /\ stack'[k].at = "main" <=> k = 1
                      /\ stack'[k].at = "scan" /\ k < Depth' => stack'[k].done
                      /\ stack'[k].at \in {"idle", "asleep", "woken"} => k = 2
    BY DEF StackOK
  <2>1. CASE k \in 1 .. n
    BY <1>1, <1>2, <1>3, <2>1 DEF Keeps, TimerInv, StackOK
  <2>2. CASE k = n + 1
    BY <1>2, <1>3, <1>4, <2>2
  <2> QED BY <1>1, <1>2, <1>3, <2>1, <2>2
<1>7. Covered' /\ alarm' \in Nat
  <2>1. alarm' = Top.next /\ ~Top.done /\ Top.i > NumSlots /\ Top.next \in Nat /\ Top.i \in Nat
    BY <1>1 DEF ScanEnd, NextWake, Another, Scanned, ScanFrame
  <2>2. \A s \in Slots : s < Top.i
    BY <2>1, TimerAssumption DEF Slots
  <2>3. \A s \in Slots : Armed(s) => Top.next # 0 /\ Top.next <= timer[s].expires
    BY <1>1, <2>1, <2>2 DEF TimerInv, ScanCovers
  <2> QED BY <2>1, <2>3 DEF Covered, Armed, ScanEnd
<1>8. ScanCovers'
  <2>1. Top' = stack'[Depth']
    BY DEF Top, Last, Depth
  <2>2. CASE Depth' = n
    <3>1. Top' = stack[n] /\ (stack[n].at = "scan" => stack[n].done)
      BY <1>1, <1>2, <1>3, <2>1, <2>2 DEF Keeps, TimerInv, StackOK
    <3> QED BY <3>1 DEF ScanCovers
  <2>3. CASE Depth' = n + 1
    BY <1>2, <1>3, <2>1, <2>3 DEF ScanCovers
  <2> QED BY <1>2, <2>2, <2>3
<1>9. now' \in Nat /\ now <= now' /\ UNCHANGED <<timer, valid, log, events>>
  BY DEF TimerInv, Typed, ScanEnd
<1> QED BY <1>2, <1>3, <1>5, <1>6, <1>7, <1>8, <1>9, QuietStep

LEMMA HandleInv ==
  ASSUME TimerInv, Handle
  PROVE  TimerInv'
<1>1. stack' = stack /\ stack \in Seq(Frame) /\ Depth \in Nat \ {0} /\ now' = now /\ now \in Nat
  BY DEF Handle, TimerInv, Typed, Depth
<1>2. StackOK' /\ ScanCovers' /\ Keeps(Depth) /\ Depth' = Depth
  BY <1>1 DEF Handle, TimerInv, StackOK, ScanCovers, Keeps, Top, Armed, Depth
<1> QED BY <1>1, <1>2, NoScan DEF Handle

LEMMA TickInv ==
  ASSUME TimerInv, Tick
  PROVE  TimerInv'
<1>1. /\ stack' = stack /\ stack \in Seq(Frame) /\ Depth \in Nat \ {0}
      /\ now' = now + 1 /\ now \in Nat
  BY DEF Tick, TimerInv, Typed, Depth
<1>2. StackOK' /\ ScanCovers' /\ Keeps(Depth) /\ Depth' = Depth
  BY <1>1 DEF Tick, TimerInv, StackOK, ScanCovers, Keeps, Top, Armed, Depth
<1> QED BY <1>1, <1>2, NoScan DEF Tick

LEMMA InterruptInv ==
  ASSUME TimerInv, NEW t \in Tasks \cup {SystemTid}, Interrupt(t)
  PROVE  TimerInv'
<1>1. stack \in Seq(Frame) /\ Depth \in Nat \ {0} /\ now' = now /\ now \in Nat
      /\ Top = stack[Depth] /\ \A k \in 1 .. Depth : stack[k] \in Frame
  BY TopFacts DEF Interrupt, TimerInv, Typed
<1> DEFINE f == [at |-> "handler", tid |-> t]
<1>2. f \in Frame /\ f.at = "handler" /\ Call(f)
  BY FramesAre, TimerAssumption DEF Interrupt, SystemTid
<1> HIDE DEF f
<1>3. /\ stack' \in Seq(Frame) /\ Depth' = Depth + 1 /\ Keeps(Depth)
      /\ stack'[Depth + 1] = f
  BY <1>1, <1>2, Pushed
<1>4. \A k \in 1 .. Depth : stack[k].at # "scan"
  <2> DEFINE S == {k \in 1 .. Depth : Section(stack[k])}
  <2> SUFFICES ASSUME S # {} PROVE FALSE
    BY DEF Section
  <2>1. PICK m \in S : \A k \in S : k <= m
    <3>1. S \subseteq 0 .. Depth /\ Depth \in Nat
      BY <1>1
    <3> HIDE DEF S
    <3> QED BY <3>1, Greatest
  <2>2. m \in 1 .. Depth /\ Section(stack[m]) /\ ~Open(stack[m])
    BY <1>1, <2>1, FrameKinds
  <2>3. DOMAIN stack = 1 .. Depth
    BY <1>1 DEF Depth
  <2> QED BY <2>1, <2>2, <2>3 DEF Interrupt, IntsOff
<1>5. StackOK'
  BY <1>1, <1>2, <1>3, <1>4 DEF TimerInv, StackOK, Keeps
<1>6. ScanCovers'
  <2>1. Top' = f
    BY <1>3 DEF Top, Last, Depth
  <2> QED BY <1>2, <2>1 DEF ScanCovers
<1> QED BY <1>1, <1>2, <1>3, <1>5, <1>6, NoScan DEF Interrupt

LEMMA HandlerReturnInv ==
  ASSUME TimerInv, HandlerReturn
  PROVE  TimerInv'
<1>1. stack \in Seq(Frame) /\ Depth \in Nat \ {0} /\ now' = now /\ now \in Nat
      /\ Top = stack[Depth] /\ Top.at = "handler" /\ Return
  BY TopFacts DEF HandlerReturn, TimerInv, Typed
<1>2. Depth > 1
  BY <1>1 DEF TimerInv, StackOK
<1>3. stack' \in Seq(Frame) /\ Depth' = Depth - 1 /\ Keeps(Depth - 1)
  BY <1>1, Popped
<1>4. StackOK'
  BY <1>1, <1>2, <1>3 DEF TimerInv, StackOK, Keeps
<1>5. ScanCovers'
  <2>1. Top' = stack[Depth - 1]
    BY <1>1, <1>2, <1>3 DEF Top, Last, Depth, Keeps
  <2>2. stack[Depth - 1].at = "scan" => stack[Depth - 1].done
    BY <1>1, <1>2 DEF TimerInv, StackOK
  <2> QED BY <2>1, <2>2 DEF ScanCovers
<1> QED BY <1>1, <1>2, <1>3, <1>4, <1>5, NoScan DEF HandlerReturn

LEMMA PushedTwo ==
  ASSUME stack \in Seq(Frame), NEW f \in Frame, NEW g \in Frame,
         stack' = stack \o <<f, g>>
  PROVE  /\ stack' \in Seq(Frame) /\ Depth' = Depth + 2 /\ Keeps(Depth)
         /\ stack'[Depth + 1] = f /\ stack'[Depth + 2] = g
<1>1. PICK t : t = <<f, g>>
  OBVIOUS
<1>2. t \in Seq(Frame) /\ Len(t) = 2 /\ t[1] = f /\ t[2] = g
  BY <1>1
<1>3. /\ stack \o t \in Seq(Frame) /\ Len(stack \o t) = Len(stack) + Len(t)
      /\ \A k \in 1 .. Len(stack) + Len(t) :
           (stack \o t)[k] = IF k <= Len(stack) THEN stack[k] ELSE t[k - Len(stack)]
  BY <1>2, ConcatProperties
<1>4. stack' = stack \o t
  BY <1>1
<1> QED BY <1>2, <1>3, <1>4 DEF Depth, Keeps

\* The idle loop starts a scan, when the queue is empty or the CPU wakes: above
\* the lowest n frames there are one of the loop, e, and that of the scan.
LEMMA IdleScan ==
  ASSUME TimerInv, UNCHANGED <<timer, valid, now, alarm, events, log>>,
         stack' \in Seq(Frame), NEW n, n = 1, n <= Depth, Keeps(n),
         \A k \in (n + 1) .. Depth : stack[k].at = "asleep",
         n = Depth => stack[n].at = "main",
         n < Depth => stack[n].at # "scan" \/ stack[n].done,
         Depth' = n + 2, stack'[n + 1].at \in {"idle", "woken"},
         stack'[n + 2] = NewScan(SystemTid, FALSE)
  PROVE  TimerInv'
<1> DEFINE w == stack'[n + 1]
           g == NewScan(SystemTid, FALSE)
<1>0. n \in Nat /\ n > 0 /\ Depth' \in Nat /\ Depth' = n + 2 /\ Depth' > n + 1
  OBVIOUS
<1>1. /\ stack \in Seq(Frame) /\ Depth \in Nat \ {0} /\ now' \in Nat /\ now <= now'
      /\ alarm' \in Nat /\ n <= Depth'
  BY DEF TimerInv, Typed, Depth
<1>2. g.at = "scan" /\ g.i = 1 /\ ~Holds(g) /\ ~Holds(w) /\ w.at # "scan" /\ w.at # "main"
  <2>1. ~Holds(w) /\ w.at # "scan" /\ w.at # "main"
    BY DEF Holds
  <2>2. g \in ScanFrame /\ g.i = 1
    BY NewScanIs DEF SystemTid
  <2> QED BY <2>1, <2>2, FramesAre
<1>3. Top' = g
  BY <1>1 DEF Top, Last, Depth
<1>4. \A k \in 1 .. Depth' : (k \in 1 .. n /\ stack'[k] = stack[k])
        \/ (k = n + 1 /\ stack'[k] = w) \/ (k = n + 2 /\ stack'[k] = g)
  <2>1. n \in Nat /\ n > 0
    OBVIOUS
  <2>2. \A k \in 1 .. (n + 2) : k \in 1 .. n \/ k = n + 1 \/ k = n + 2
    BY <2>1
  <2>3. \A k \in 1 .. n : stack'[k] = stack[k]
    BY DEF Keeps
  <2>4. 1 .. Depth' = 1 .. (n + 2)
    OBVIOUS
  <2> QED BY <2>2, <2>3, <2>4
<1>5. StackOK'
  <2> SUFFICES ASSUME NEW k \in 1 .. Depth'
               PROVE  /\ stack'[k].at = "main" <=> k = 1
                      /\ stack'[k].at = "scan" /\ k < Depth' => stack'[k].done
                      /\ stack'[k].at \in {"idle", "asleep", "woken"} => k = 2
    BY DEF StackOK
  <2>1. CASE k \in 1 .. n /\ stack'[k] = stack[k]
    <3>1. k \in 1 .. Depth
      BY <1>1, <2>1
    <3>2. stack[k].at = "main" <=> k = 1
      BY <3>1 DEF TimerInv, StackOK
    <3>3. /\ stack[k].at = "scan" => stack[k].done
          /\ stack[k].at \in {"idle", "asleep", "woken"} => k = 2
      BY <1>1, <2>1, <3>1 DEF TimerInv, StackOK
    <3> QED BY <2>1, <3>2, <3>3
  <2>2. CASE k = n + 1 /\ stack'[k] = w
    BY <1>0, <1>2, <2>2
  <2>3. CASE k = n + 2 /\ stack'[k] = g
    <3>1. stack'[k].at = "scan"
      BY <1>2, <2>3
    <3>2. k # 1
      BY <1>0, <2>3
    <3>3. ~(k < Depth')
      BY <1>0, <2>3
    <3> QED BY <3>1, <3>2, <3>3
  <2> QED BY <1>4, <2>1, <2>2, <2>3
<1>6. Holding' = Holding /\ \A k \in Holding : stack'[k] = stack[k]
  <2>1. \A k \in (n + 1) .. Depth : ~Holds(stack[k])
    BY DEF Holds
  <2>2. \A k \in (n + 1) .. Depth' : stack'[k] \in {w, g}
    <3>1. \A k \in (n + 1) .. Depth' : k \in 1 .. Depth' /\ k \notin 1 .. n
      BY <1>0
    <3> QED BY <1>4, <3>1
  <2>3. \A k \in (n + 1) .. Depth' : ~Holds(stack'[k])
    BY <1>2, <2>2
  <2> QED BY <1>1, <2>1, <2>3, HoldingKept
<1>7. ScanCovers'
  <2>1. \A s \in Slots : ~(s < 1)
    BY TimerAssumption DEF Slots
  <2> QED BY <1>2, <1>3, <2>1 DEF ScanCovers
<1>8. Alert'
  <2>1. n + 2 \in 1 .. Depth'
    BY <1>0
  <2>2. stack'[n + 2].at = "scan"
    BY <1>2
  <2> QED BY <2>1, <2>2 DEF Alert
<1> QED BY <1>1, <1>5, <1>6, <1>7, <1>8, QuietStep

LEMMA IdleInv ==
  ASSUME TimerInv, Idle
  PROVE  TimerInv'
<1>1. stack \in Seq(Frame) /\ Depth \in Nat \ {0} /\ Top = stack[Depth] /\ Top.at = "main"
  BY TopFacts DEF Idle, TimerInv, Typed
<1> DEFINE g == NewScan(SystemTid, FALSE)
           w == [at |-> "idle"]
<1>2. w \in Frame /\ g \in Frame /\ w.at = "idle"
  BY FramesAre, NewScanIs DEF SystemTid
<1>3. stack' = stack \o <<w, g>>
  BY DEF Idle
<1> HIDE DEF w
<1>4. /\ stack' \in Seq(Frame) /\ Depth' = Depth + 2 /\ Keeps(Depth)
      /\ stack'[Depth + 1] = w /\ stack'[Depth + 2] = g
  <2> HIDE DEF g
  <2> QED BY <1>1, <1>2, <1>3, PushedTwo
<1>5. UNCHANGED <<timer, valid, now, alarm, events, log>>
  BY DEF Idle
<1>6. ASSUME NEW k \in (Depth + 1) .. Depth PROVE stack[k].at = "asleep"
  <2>1. Depth \in Nat /\ k \in Int /\ Depth + 1 <= k /\ k <= Depth
    BY <1>1
  <2> QED BY <2>1
<1>7. Depth = 1 /\ Depth <= Depth /\ ~(Depth < Depth)
  BY <1>1 DEF TimerInv, StackOK
<1>8. stack'[Depth + 1].at \in {"idle", "woken"} /\ stack[Depth].at = "main"
  BY <1>1, <1>2, <1>4
<1> QED BY <1>4, <1>5, <1>6, <1>7, <1>8, IdleScan

LEMMA WakeInv ==
  ASSUME TimerInv, Wake
  PROVE  TimerInv'
<1>1. /\ stack \in Seq(Frame) /\ Depth \in Nat \ {0} /\ Top = stack[Depth]
      /\ Top.at = "asleep"
  BY TopFacts DEF Wake, TimerInv, Typed
<1>2. Depth = 2 /\ Depth > 1 /\ Depth - 1 \in 0 .. Depth
  BY <1>1 DEF TimerInv, StackOK
<1> DEFINE g == NewScan(SystemTid, FALSE)
           w == [at |-> "woken"]
           low == SubSeq(stack, 1, Depth - 1)
<1>3. w \in Frame /\ g \in Frame /\ w.at = "woken"
  BY FramesAre, NewScanIs DEF SystemTid
<1>4. low \in Seq(Frame) /\ Len(low) = Depth - 1
      /\ \A k \in 1 .. (Depth - 1) : low[k] = stack[k]
  BY <1>1, <1>2, Lowest
<1>5. stack' = Append(low, w) \o <<g>> /\ g = NewScan(SystemTid, FALSE)
  BY DEF Wake, Front, Depth
<1> HIDE DEF g, w, low
<1> DEFINE t == Append(low, w)
<1>6. /\ t \in Seq(Frame) /\ Len(t) = Depth /\ t[Depth] = w
      /\ \A k \in 1 .. (Depth - 1) : t[k] = stack[k]
  <2>1. t[Len(low) + 1] = w /\ \A k \in 1 .. Len(low) : t[k] = low[k]
    BY <1>3, <1>4
  <2> QED BY <1>1, <1>3, <1>4, <2>1
<1>7. stack' = t \o <<g>>
  BY <1>5
<1> HIDE DEF t
<1>8. /\ stack' \in Seq(Frame) /\ Depth' = Depth + 1 /\ Keeps(Depth - 1)
      /\ stack'[Depth] = w /\ stack'[Depth + 1] = g
  <2>1. \A k \in 1 .. Len(t) : stack'[k] = t[k]
    BY <1>3, <1>6, <1>7
  <2>2. stack' \in Seq(Frame) /\ Len(stack') = Len(t) + 1 /\ stack'[Len(t) + 1] = g
    BY <1>3, <1>6, <1>7
  <2>3. Depth' = Len(stack') /\ Depth \in 1 .. Len(t) /\ 1 .. Depth - 1 \subseteq 1 .. Len(t)
    BY <1>1, <1>6 DEF Depth
  <2> QED BY <1>6, <2>1, <2>2, <2>3 DEF Keeps
<1>9. UNCHANGED <<timer, valid, now, alarm, events, log>>
  BY DEF Wake
<1>10. /\ Depth - 1 = 1 /\ Depth - 1 <= Depth /\ Depth - 1 # Depth
       /\ Depth' = (Depth - 1) + 2
       /\ stack'[(Depth - 1) + 1] = w /\ stack'[(Depth - 1) + 2] = g
       /\ \A k \in ((Depth - 1) + 1) .. Depth : stack[k].at = "asleep"
  BY <1>1, <1>2, <1>8
<1>11. stack[Depth - 1].at # "scan" \/ stack[Depth - 1].done
  BY <1>1, <1>10 DEF TimerInv, StackOK
<1>12. stack'[(Depth - 1) + 1].at \in {"idle", "woken"} /\ stack'[(Depth - 1) + 2] = NewScan(SystemTid, FALSE)
  BY <1>3, <1>5, <1>10
<1> QED BY <1>8, <1>9, <1>10, <1>11, <1>12, IdleScan

-----------------------------------------------------------------------------
\* The slots and their owners.  The first part of OneOwner is about the
\* bits and the stack, the second about the timers and the log.

Owned ==
  /\ valid = {s \in Slots : Armed(s)} \cup {stack[k].slot : k \in Holding}
  /\ \A k \in Holding : ~Armed(stack[k].slot)
  /\ \A j, k \in Holding : stack[j].slot = stack[k].slot => j = k

Registered ==
  /\ \A s, o \in Slots : Armed(s) /\ timer[s].id = timer[o].id => s = o
  /\ \A s \in Slots : Armed(s) => log[timer[s].sn].end = "armed"
  /\ \A n \in DOMAIN log : log[n].end = "armed" =>
       \E s \in Slots : Armed(s) /\ timer[s].sn = n /\ timer[s].id = log[n].id

\* What depends on the timers, the log and the events alone.
Timers ==
  Registered /\ Named /\ Scheduled /\ Started /\ OnTime /\ EventsNamed /\ NoneAfterCancel

LEMMA Parts ==
  TimerInv <=> /\ Typed /\ StackOK /\ Owned /\ Timers
               /\ ClaimsOK /\ ScanCovers /\ AlarmSet
  BY DEF TimerInv, Timers, OneOwner, Owned, Registered

LEMMA PartsNext ==
  TimerInv' <=> /\ Typed' /\ StackOK' /\ Owned' /\ Timers'
                /\ ClaimsOK' /\ ScanCovers' /\ AlarmSet'
  BY Parts, PTL

\* The frame j takes the slot s, of which nobody was the owner.
LEMMA Taken ==
  ASSUME Typed, Owned, stack \in Seq(Frame), NEW j, j \notin Holding,
         Holding' = Holding \cup {j}, \A k \in Holding : stack'[k] = stack[k],
         NEW s \in Slots, stack'[j].slot = s, \A k \in Holding : stack[k].slot # s,
         timer'[s].id = 0, valid' = valid \cup {s},
         \A o \in Slots \ {s} : timer'[o].id # 0 <=> Armed(o)
  PROVE  Owned'
<1>1. \A k \in Holding : stack[k].slot \in Slots
  BY HoldingIs
<1>2. \A k \in Holding' : IF k = j THEN stack'[k].slot = s
        ELSE k \in Holding /\ stack'[k].slot = stack[k].slot /\ stack[k].slot # s
  OBVIOUS
<1>3. \A k \in Holding' : timer'[stack'[k].slot].id = 0
  BY <1>1, <1>2 DEF Owned, Armed
<1>4. \A i, k \in Holding' : stack'[i].slot = stack'[k].slot => i = k
  BY <1>2 DEF Owned
<1>5. valid' = {o \in Slots : timer'[o].id # 0} \cup {stack'[k].slot : k \in Holding'}
  <2>1. {stack'[k].slot : k \in Holding'} = {stack[k].slot : k \in Holding} \cup {s}
    BY <1>2
  <2>2. {o \in Slots : timer'[o].id # 0} \cup {s} = {o \in Slots : Armed(o)} \cup {s}
    OBVIOUS
  <2> QED BY <2>1, <2>2 DEF Owned
<1> QED BY <1>3, <1>4, <1>5 DEF Owned, Armed

\* The frame j lets go of its slot s, which is free or armed from then on.
LEMMA LetGo ==
  ASSUME Typed, Owned, stack \in Seq(Frame), NEW j \in Holding,
         Holding' = Holding \ {j}, \A k \in Holding \ {j} : stack'[k] = stack[k],
         NEW s, stack[j].slot = s, valid' \ {s} = valid \ {s},
         s \in valid' <=> timer'[s].id # 0, \A o \in Slots \ {s} : timer'[o].id # 0 <=> Armed(o)
  PROVE  Owned'
<1>1. \A k \in Holding : stack[k].slot \in Slots
  BY HoldingIs
<1>2. \A k \in Holding' : /\ k \in Holding /\ stack'[k].slot = stack[k].slot
                          /\ stack[k].slot # s
  BY DEF Owned
<1>3. \A k \in Holding' : timer'[stack'[k].slot].id = 0
  BY <1>1, <1>2 DEF Owned, Armed
<1>4. \A i, k \in Holding' : stack'[i].slot = stack'[k].slot => i = k
  BY <1>2 DEF Owned
<1>5. valid' = {o \in Slots : timer'[o].id # 0} \cup {stack'[k].slot : k \in Holding'}
  <2>1. {stack'[k].slot : k \in Holding'} = {stack[k].slot : k \in Holding} \ {s}
    BY <1>2
  <2>2. {o \in Slots : timer'[o].id # 0} \ {s} = {o \in Slots : Armed(o)} \ {s}
    OBVIOUS
  <2>3. s \in Slots /\ s \notin {stack'[k].slot : k \in Holding'}
    BY <1>1, <1>2
  <2> QED BY <2>1, <2>2, <2>3 DEF Owned
<1> QED BY <1>3, <1>4, <1>5 DEF Owned, Armed

\* Only the bit of the slot s changes, which was armed, and who holds what stays.
LEMMA Freed ==
  ASSUME Typed, Owned, stack \in Seq(Frame), Holding' = Holding,
         \A k \in Holding : stack'[k].slot = stack[k].slot,
         NEW s \in Slots, Armed(s), valid' \ {s} = valid \ {s},
         s \in valid' <=> timer'[s].id # 0, \A o \in Slots \ {s} : timer'[o].id # 0 <=> Armed(o)
  PROVE  Owned'
<1>1. \A k \in Holding : stack[k].slot \in Slots /\ stack[k].slot # s
  BY HoldingIs DEF Owned
<1>3. \A k \in Holding' : timer'[stack'[k].slot].id = 0
  BY <1>1 DEF Owned, Armed
<1>4. \A i, k \in Holding' : stack'[i].slot = stack'[k].slot => i = k
  BY DEF Owned
<1>5. valid' = {o \in Slots : timer'[o].id # 0} \cup {stack'[k].slot : k \in Holding'}
  <2>1. {stack'[k].slot : k \in Holding'} = {stack[k].slot : k \in Holding}
    OBVIOUS
  <2>2. {o \in Slots : timer'[o].id # 0} \ {s} = {o \in Slots : Armed(o)} \ {s}
    OBVIOUS
  <2>3. s \notin {stack'[k].slot : k \in Holding'}
    BY <1>1, <2>1
  <2> QED BY <2>1, <2>2, <2>3 DEF Owned
<1> QED BY <1>3, <1>4, <1>5 DEF Owned, Armed

-----------------------------------------------------------------------------
\* The timers and the log.

LEMMA TimersKept ==
  ASSUME Typed, Timers, UNCHANGED <<timer, log, events, now>>
  PROVE  Timers'
  BY DEF Timers, Registered, Named, Scheduled, Schedule, Started, OnTime, EventsNamed,
         NoneAfterCancel, Armed

\* The log after the timer with the number n has fired.
LEMMA FiredLog ==
  ASSUME Typed, NEW n \in 1 .. Len(log), NEW once \in BOOLEAN, log' = Fired(n, once)
  PROVE  /\ log' \in Seq(Entry) /\ Len(log') = Len(log)
         /\ \A k \in 1 .. Len(log) : k # n => log'[k] = log[k]
         /\ log'[n].fired = log[n].fired + 1
         /\ log'[n].end = IF once THEN "fired" ELSE log[n].end
         /\ log'[n].id = log[n].id /\ log'[n].start = log[n].start
         /\ log'[n].len = log[n].len /\ log'[n].once = log[n].once
<1> DEFINE e == [log[n] EXCEPT !.fired = @ + 1, !.end = IF once THEN "fired" ELSE @]
<1>1. log[n] \in Entry /\ log \in Seq(Entry) /\ DOMAIN log = 1 .. Len(log)
  BY LogFacts DEF Typed
<1>2. /\ e \in Entry /\ e.fired = log[n].fired + 1
      /\ e.end = IF once THEN "fired" ELSE log[n].end
      /\ e.id = log[n].id /\ e.start = log[n].start /\ e.len = log[n].len
      /\ e.once = log[n].once
  <2>1. DOMAIN log[n] = {"id", "start", "len", "once", "fired", "end"}
    BY <1>1 DEF Entry
  <2>2. /\ e.fired = log[n].fired + 1 /\ e.end = IF once THEN "fired" ELSE log[n].end
        /\ e.id = log[n].id /\ e.start = log[n].start /\ e.len = log[n].len
        /\ e.once = log[n].once
    BY <2>1
  <2>3. \A x \in Entry, f \in Nat : [x EXCEPT !.fired = f] \in Entry
    BY DEF Entry
  <2>4. \A x \in Entry, v \in {"armed", "fired", "cancelled", "evicted"} :
          [x EXCEPT !.end = v] \in Entry
    BY DEF Entry
  <2> DEFINE x == [log[n] EXCEPT !.fired = @ + 1]
             v == IF once THEN "fired" ELSE log[n].end
  <2>6. x \in Entry /\ v \in {"armed", "fired", "cancelled", "evicted"}
    <3>1. x \in Entry
      <4>1. log[n].fired + 1 \in Nat
        BY LogFacts
      <4> QED BY <1>1, <2>3, <4>1
    <3>2. v \in {"armed", "fired", "cancelled", "evicted"}
      BY <1>1 DEF Entry
    <3> QED BY <3>1, <3>2
  <2>7. e = [x EXCEPT !.end = v]
    BY <2>1
  <2> HIDE DEF e, x, v
  <2>8. e \in Entry
    BY <2>4, <2>6, <2>7
  <2> QED BY <2>2, <2>8
<1>3. log' = [log EXCEPT ![n] = e]
  BY <1>1 DEF Fired, Entry
<1> HIDE DEF e
<1>4. /\ log' \in Seq(Entry) /\ Len(log') = Len(log) /\ log'[n] = e
      /\ \A k \in 1 .. Len(log) : k # n => log'[k] = log[k]
  BY <1>1, <1>2, <1>3
<1> QED BY <1>2, <1>4

\* What is known of an armed timer.
LEMMA ArmedFacts ==
  ASSUME Typed, Timers, NEW s \in Slots, Armed(s)
  PROVE  /\ timer[s].sn \in 1 .. Len(log)
         /\ log[timer[s].sn].id = timer[s].id
         /\ log[timer[s].sn].end = "armed"
         /\ Schedule(timer[s].sn, timer[s].period, timer[s].expires)
         /\ timer[s].period = 0 <=> log[timer[s].sn].once
<1>1. /\ timer[s].sn \in 1 .. Len(log) /\ log[timer[s].sn].id = timer[s].id
      /\ log[timer[s].sn].end = "armed"
  BY DEF Timers, Named, Registered
<1>2. Schedule(timer[s].sn, timer[s].period, timer[s].expires)
  BY DEF Timers, Scheduled
<1>3. log[timer[s].sn].len # 0 /\ log[timer[s].sn].once \in BOOLEAN
  BY <1>1, LogFacts
<1> QED BY <1>1, <1>2, <1>3 DEF Schedule

\* Two armed slots have timers of different numbers.
LEMMA Distinct ==
  ASSUME Typed, Timers, NEW s \in Slots, NEW o \in Slots, Armed(s), Armed(o),
         timer[s].sn = timer[o].sn
  PROVE  s = o
  BY ArmedFacts DEF Timers, Registered

\* The timer in the slot s fires: it is due, and if it fires once its id goes.
LEMMA FiredTimers ==
  ASSUME Typed, Timers, NEW s \in Slots, Armed(s), timer[s].expires <= now, now' = now,
         log' = Fired(timer[s].sn, timer[s].period = 0),
         NEW r, timer' = [timer EXCEPT ![s] = r],
         r.id = IF timer[s].period = 0 THEN 0 ELSE timer[s].id, r.sn = timer[s].sn,
         timer[s].period # 0 => /\ r.expires = timer[s].expires + timer[s].period
                                /\ r.period = timer[s].period,
         events' \in Seq(Event),
         \A k \in 1 .. Len(events') :
           \/ \E j \in 1 .. Len(events) : events'[k] = events[j]
           \/ events'[k].id = timer[s].id /\ events'[k].sn = timer[s].sn
  PROVE  Timers' /\ log' \in Seq(Entry)
<1>1. PICK n \in 1 .. Len(log) :
        /\ n = timer[s].sn /\ log[n].id = timer[s].id /\ log[n].end = "armed"
        /\ Schedule(n, timer[s].period, timer[s].expires)
        /\ timer[s].period = 0 <=> log[n].once
  BY ArmedFacts
<1> DEFINE once == timer[s].period = 0
<1>2. /\ log' \in Seq(Entry) /\ Len(log') = Len(log)
      /\ \A k \in 1 .. Len(log) : k # n => log'[k] = log[k]
      /\ log'[n].fired = log[n].fired + 1
      /\ log'[n].end = IF once THEN "fired" ELSE log[n].end
      /\ log'[n].id = log[n].id /\ log'[n].start = log[n].start
      /\ log'[n].len = log[n].len /\ log'[n].once = log[n].once
  BY <1>1, FiredLog
<1>3. /\ timer'[s] = r /\ timer[s].id # 0
      /\ \A o \in Slots : o # s => timer'[o] = timer[o]
      /\ DOMAIN log = 1 .. Len(log) /\ DOMAIN log' = 1 .. Len(log)
  BY <1>2, LogFacts DEF Typed, Armed
<1>4. /\ log[n].fired \in Nat /\ log[n].len \in Nat /\ log[n].len # 0 /\ log[n].start \in Nat
      /\ log[n].once \in BOOLEAN /\ now \in Nat
  BY <1>1, LogFacts DEF Typed
<1>5. Registered'
  <2>1. \A a, b \in Slots : timer'[a].id # 0 /\ timer'[a].id = timer'[b].id => a = b
    <3>1. \A a \in Slots : timer'[a].id # 0 => timer'[a].id = timer[a].id
      BY <1>3
    <3> QED BY <3>1 DEF Timers, Registered, Armed
  <2>2. \A o \in Slots : timer'[o].id # 0 => log'[timer'[o].sn].end = "armed"
    <3> SUFFICES ASSUME NEW o \in Slots, timer'[o].id # 0
                 PROVE  log'[timer'[o].sn].end = "armed"
      OBVIOUS
    <3>1. CASE o = s
      BY <1>1, <1>2, <1>3, <3>1
    <3>2. CASE o # s
      <4>1. timer'[o] = timer[o] /\ Armed(o) /\ timer[o].sn \in 1 .. Len(log)
        BY <1>3, <3>2, ArmedFacts DEF Armed
      <4>2. timer[o].sn # n
        BY <1>1, <3>2, <4>1, Distinct
      <4> QED BY <1>2, <4>1, <4>2, ArmedFacts
    <3> QED BY <3>1, <3>2
  <2>3. ASSUME NEW k \in 1 .. Len(log), log'[k].end = "armed"
        PROVE  \E o \in Slots : /\ timer'[o].id # 0 /\ timer'[o].sn = k
                                /\ timer'[o].id = log'[k].id
    <3>1. CASE k = n
      <4>1. ~once
        BY <1>2, <2>3, <3>1
      <4>2. timer'[s].id # 0 /\ timer'[s].sn = k /\ timer'[s].id = log'[k].id
        BY <1>1, <1>2, <1>3, <3>1, <4>1
      <4> QED BY <4>2
    <3>2. CASE k # n
      <4>1. log'[k] = log[k]
        BY <1>2, <3>2
      <4>2. PICK o \in Slots : Armed(o) /\ timer[o].sn = k /\ timer[o].id = log[k].id
        BY <1>3, <2>3, <4>1 DEF Timers, Registered
      <4>3. o # s
        BY <1>1, <3>2, <4>2
      <4> QED BY <1>3, <4>1, <4>2, <4>3 DEF Armed
    <3> QED BY <3>1, <3>2
  <2> QED BY <1>3, <2>1, <2>2, <2>3 DEF Registered, Armed
<1>6. Named'
  <2> SUFFICES ASSUME NEW o \in Slots, timer'[o].id # 0
               PROVE  timer'[o].sn \in 1 .. Len(log) /\ log'[timer'[o].sn].id = timer'[o].id
    BY <1>2 DEF Named, Armed
  <2>1. CASE o = s
    BY <1>1, <1>2, <1>3, <2>1
  <2>2. CASE o # s
    <3>1. timer'[o] = timer[o] /\ Armed(o)
      BY <1>3, <2>2 DEF Armed
    <3>2. timer[o].sn \in 1 .. Len(log) /\ log[timer[o].sn].id = timer[o].id
      BY <3>1, ArmedFacts
    <3> QED BY <1>1, <1>2, <3>1, <3>2
  <2> QED BY <2>1, <2>2
<1>7. Scheduled'
  <2> SUFFICES ASSUME NEW o \in Slots, timer'[o].id # 0
               PROVE  LET k == timer'[o].sn IN
                      /\ timer'[o].period = IF log'[k].once THEN 0 ELSE log'[k].len
                      /\ timer'[o].expires =
                           log'[k].start + log'[k].fired * log'[k].len + log'[k].len
                      /\ log'[k].once => log'[k].fired = 0
    BY DEF Scheduled, Schedule, Armed
  <2>1. CASE o = s
    <3>1. ~once /\ timer'[o] = r
      BY <1>3, <2>1
    <3>2. ~log[n].once /\ timer[s].period = log[n].len
          /\ timer[s].expires = log[n].start + log[n].fired * log[n].len + log[n].len
      BY <1>1, <3>1 DEF Schedule
    <3>3. log'[n].fired * log'[n].len = log[n].fired * log[n].len + log[n].len
      BY <1>2, <1>4
    <3>4. r.expires = log'[n].start + log'[n].fired * log'[n].len + log'[n].len
      <4>1. log[n].fired * log[n].len \in Nat
        BY <1>4
      <4> QED BY <1>2, <1>4, <3>1, <3>2, <3>3, <4>1
    <3>5. r.sn = n /\ r.period = log'[n].len /\ ~log'[n].once
      BY <1>1, <1>2, <3>1, <3>2
    <3> QED BY <3>1, <3>4, <3>5
  <2>2. CASE o # s
    <3>1. timer'[o] = timer[o] /\ Armed(o)
      BY <1>3, <2>2 DEF Armed
    <3>2. timer[o].sn \in 1 .. Len(log) /\ timer[o].sn # n
      BY <1>1, <2>2, <3>1, ArmedFacts, Distinct
    <3>3. Schedule(timer[o].sn, timer[o].period, timer[o].expires)
      BY <3>1, ArmedFacts
    <3> QED BY <1>2, <3>1, <3>2, <3>3 DEF Schedule
  <2> QED BY <2>1, <2>2
<1>8. Started'
  <2>1. \A k \in 1 .. Len(log) : log'[k].start = log[k].start
    BY <1>2
  <2> QED BY <1>2, <2>1 DEF Started, Timers
<1>9. OnTime'
  <2> SUFFICES ASSUME NEW k \in 1 .. Len(log)
               PROVE  /\ log'[k].fired * log'[k].len <= now - log'[k].start
                      /\ log'[k].once => log'[k].fired <= 1
                      /\ log'[k].once /\ log'[k].end # "armed" =>
                           (log'[k].fired = 1 <=> log'[k].end = "fired")
    BY <1>3 DEF OnTime
  <2>1. CASE k = n
    <3>1. timer[s].expires = log[n].start + log[n].fired * log[n].len + log[n].len
      BY <1>1 DEF Schedule
    <3>2. log'[n].fired * log'[n].len = log[n].fired * log[n].len + log[n].len
      BY <1>2, <1>4
    <3>3. log[n].fired * log[n].len \in Nat
      BY <1>4
    <3>4. log'[n].fired * log'[n].len <= now - log'[n].start
      <4>1. PICK p \in Nat : p = log[n].fired * log[n].len
        BY <3>3
      <4>2. log'[n].fired * log'[n].len = p + log[n].len
        BY <3>2, <4>1
      <4>3. log[n].start + p + log[n].len <= now
        BY <3>1, <4>1
      <4>4. log'[n].start = log[n].start
        BY <1>2
      <4> QED BY ONLY <1>4, <4>1, <4>2, <4>3, <4>4
    <3>5. log'[n].once => log'[n].fired = 1 /\ log'[n].end = "fired"
      <4>1. log[n].once => log[n].fired = 0
        BY <1>1 DEF Schedule
      <4> QED BY <1>1, <1>2, <4>1
    <3> QED BY <2>1, <3>4, <3>5
  <2>2. CASE k # n
    BY <1>2, <1>3, <2>2 DEF Timers, OnTime
  <2> QED BY <2>1, <2>2
<1>10. EventsNamed'
  <2> SUFFICES ASSUME NEW k \in 1 .. Len(events')
               PROVE  /\ events'[k].sn \in 1 .. Len(log)
                      /\ events'[k].id = log'[events'[k].sn].id
    BY <1>2 DEF EventsNamed
  <2>1. \A m \in 1 .. Len(log) : log'[m].id = log[m].id
    BY <1>2
  <2>2. events'[k].sn \in 1 .. Len(log) /\ events'[k].id = log[events'[k].sn].id
    BY <1>1 DEF Timers, EventsNamed
  <2> QED BY <2>1, <2>2
<1>11. NoneAfterCancel'
  <2> SUFFICES ASSUME NEW k \in 1 .. Len(events')
               PROVE  log'[events'[k].sn].end # "evicted"
    BY DEF NoneAfterCancel
  <2>1. CASE events'[k].sn = n
    BY <1>1, <1>2, <2>1
  <2>2. CASE events'[k].sn # n
    <3>1. PICK j \in 1 .. Len(events) : events'[k] = events[j]
      BY <1>1, <2>2
    <3>2. log[events[j].sn].end # "evicted" /\ events[j].sn \in 1 .. Len(log)
      BY EventFacts DEF Timers, NoneAfterCancel, EventsNamed
    <3> QED BY <1>2, <2>2, <3>1, <3>2
  <2> QED BY <2>1, <2>2
<1> QED BY <1>2, <1>5, <1>6, <1>7, <1>8, <1>9, <1>10, <1>11 DEF Timers

\* The timers in the slots of the set T are cancelled; the events that carry
\* their ids leave the queue if the log is to say so.
LEMMA DisarmedTimers ==
  ASSUME Typed, Timers, now' = now, NEW T \in SUBSET Slots, NEW end \in {"cancelled", "evicted"},
         DOMAIN timer' = Slots,
         \A s \in T : timer'[s].id = 0, \A s \in Slots \ T : timer'[s] = timer[s],
         log' \in Seq(Entry), Len(log') = Len(log),
         \A n \in 1 .. Len(log) :
           /\ log'[n].id = log[n].id /\ log'[n].start = log[n].start
           /\ log'[n].len = log[n].len /\ log'[n].once = log[n].once
           /\ log'[n].fired = log[n].fired
           /\ log'[n].end = IF \E s \in T : Armed(s) /\ timer[s].sn = n THEN end ELSE log[n].end,
         events' \in Seq(Event),
         \A k \in 1 .. Len(events') : \E j \in 1 .. Len(events) :
           /\ events'[k] = events[j]
           /\ end = "evicted" => \A s \in T : events[j].id # timer[s].id
  PROVE  Timers'
<1>1. /\ DOMAIN log = 1 .. Len(log) /\ DOMAIN log' = 1 .. Len(log)
      /\ DOMAIN events' = 1 .. Len(events')
  BY LogFacts
<1>2. \A s \in Slots : timer'[s].id # 0 => Armed(s) /\ s \notin T /\ timer'[s] = timer[s]
  BY DEF Armed
<1>3. \A s \in Slots : timer'[s].id # 0 =>
        /\ timer[s].sn \in 1 .. Len(log)
        /\ ~\E o \in T : Armed(o) /\ timer[o].sn = timer[s].sn
  BY <1>2, ArmedFacts, Distinct
<1>4. Registered'
  <2>1. \A a, b \in Slots : timer'[a].id # 0 /\ timer'[a].id = timer'[b].id => a = b
    BY <1>2 DEF Timers, Registered, Armed
  <2>2. \A o \in Slots : timer'[o].id # 0 => log'[timer'[o].sn].end = "armed"
    BY <1>2, <1>3, ArmedFacts
  <2>3. ASSUME NEW k \in 1 .. Len(log), log'[k].end = "armed"
        PROVE  \E o \in Slots : /\ timer'[o].id # 0 /\ timer'[o].sn = k
                                /\ timer'[o].id = log'[k].id
    <3>1. log[k].end = "armed" /\ ~\E s \in T : Armed(s) /\ timer[s].sn = k
      BY <2>3
    <3>2. PICK o \in Slots : Armed(o) /\ timer[o].sn = k /\ timer[o].id = log[k].id
      BY <1>1, <3>1 DEF Timers, Registered
    <3>3. o \notin T
      BY <3>1, <3>2
    <3> QED BY <3>2, <3>3 DEF Armed
  <2> QED BY <1>1, <2>1, <2>2, <2>3 DEF Registered, Armed
<1>5. Named'
  BY <1>2, <1>3 DEF Timers, Named, Armed
<1>6. Scheduled'
  <2> SUFFICES ASSUME NEW o \in Slots, timer'[o].id # 0
               PROVE  LET k == timer'[o].sn IN
                      /\ timer'[o].period = IF log'[k].once THEN 0 ELSE log'[k].len
                      /\ timer'[o].expires =
                           log'[k].start + log'[k].fired * log'[k].len + log'[k].len
                      /\ log'[k].once => log'[k].fired = 0
    BY DEF Scheduled, Schedule, Armed
  <2>1. Schedule(timer[o].sn, timer[o].period, timer[o].expires)
    BY <1>2, ArmedFacts
  <2> QED BY <1>2, <1>3, <2>1 DEF Schedule
<1>7. Started'
  BY DEF Timers, Started
<1>8. OnTime'
  <2> SUFFICES ASSUME NEW k \in 1 .. Len(log)
               PROVE  /\ log'[k].fired * log'[k].len <= now - log'[k].start
                      /\ log'[k].once => log'[k].fired <= 1
                      /\ log'[k].once /\ log'[k].end # "armed" =>
                           (log'[k].fired = 1 <=> log'[k].end = "fired")
    BY <1>1 DEF OnTime
  <2>1. /\ log[k].fired * log[k].len <= now - log[k].start
        /\ log[k].once => log[k].fired <= 1
        /\ log[k].once /\ log[k].end # "armed" => (log[k].fired = 1 <=> log[k].end = "fired")
    BY <1>1 DEF Timers, OnTime
  <2>2. CASE \E s \in T : Armed(s) /\ timer[s].sn = k
    <3>1. log[k].once => log[k].fired = 0
      BY <2>2, ArmedFacts DEF Schedule
    <3> QED BY <2>1, <2>2, <3>1
  <2>3. CASE ~\E s \in T : Armed(s) /\ timer[s].sn = k
    BY <2>1, <2>3
  <2> QED BY <2>2, <2>3
<1>9. EventsNamed'
  <2> SUFFICES ASSUME NEW k \in 1 .. Len(events')
               PROVE  /\ events'[k].sn \in 1 .. Len(log)
                      /\ events'[k].id = log'[events'[k].sn].id
    BY DEF EventsNamed
  <2> QED BY DEF Timers, EventsNamed
<1>10. NoneAfterCancel'
  <2> SUFFICES ASSUME NEW k \in 1 .. Len(events')
               PROVE  log'[events'[k].sn].end # "evicted"
    BY <1>1 DEF NoneAfterCancel
  <2>1. PICK j \in 1 .. Len(events) :
          /\ events'[k] = events[j]
          /\ end = "evicted" => \A s \in T : events[j].id # timer[s].id
    OBVIOUS
  <2>2. /\ log[events[j].sn].end # "evicted" /\ events[j].sn \in 1 .. Len(log)
        /\ events[j].id = log[events[j].sn].id
    BY EventFacts DEF Timers, NoneAfterCancel, EventsNamed
  <2>3. CASE \E s \in T : Armed(s) /\ timer[s].sn = events[j].sn
    <3>1. PICK s \in T : Armed(s) /\ timer[s].sn = events[j].sn
      BY <2>3
    <3>2. s \in Slots
      OBVIOUS
    <3>3. events[j].id = timer[s].id
      BY <2>2, <3>1, <3>2, ArmedFacts
    <3>4. end # "evicted" /\ log'[events[j].sn].end = end
      BY <2>1, <2>2, <2>3, <3>3
    <3> QED BY <2>1, <3>4
  <2>4. CASE ~\E s \in T : Armed(s) /\ timer[s].sn = events[j].sn
    <3> DEFINE n == events[j].sn
    <3>1. n \in 1 .. Len(log) /\ log'[n].end = log[n].end /\ log[n].end # "evicted"
      BY <2>2, <2>4
    <3>2. events'[k].sn = n
      BY <2>1
    <3> QED BY <3>1, <3>2
  <2> QED BY <2>3, <2>4
<1> QED BY <1>4, <1>5, <1>6, <1>7, <1>8, <1>9, <1>10 DEF Timers

\* A timer is written into the slot s, under an id that no other has.
LEMMA WrittenTimers ==
  ASSUME Typed, Timers, UNCHANGED <<now, events>>,
         NEW s \in Slots, ~Armed(s), NEW e \in Entry, NEW r,
         timer' = [timer EXCEPT ![s] = r], log' = Append(log, e),
         \A o \in Slots : timer[o].id # e.id, e.fired = 0, e.end = "armed", e.start <= now,
         r.id = e.id, r.sn = Len(log) + 1, r.expires = e.start + e.len,
         r.period = IF e.once THEN 0 ELSE e.len
  PROVE  Timers'
<1>1. /\ timer'[s] = r /\ \A o \in Slots : o # s => timer'[o] = timer[o]
      /\ Len(log') = Len(log) + 1 /\ log'[Len(log) + 1] = e
      /\ \A k \in 1 .. Len(log) : log'[k] = log[k]
      /\ Len(log) \in Nat /\ DOMAIN log = 1 .. Len(log) /\ DOMAIN log' = 1 .. Len(log) + 1
  BY DEF Typed
<1>2. \A k \in 1 .. Len(log) + 1 :
        (k \in 1 .. Len(log) /\ k # Len(log) + 1) \/ k = Len(log) + 1
  BY <1>1
<1>3. \A o \in Slots : timer[o].id # 0 => /\ timer[o].sn \in 1 .. Len(log) /\ o # s
                                          /\ timer[o].sn # Len(log) + 1
  BY <1>1, ArmedFacts DEF Armed
<1>4. Registered'
  <2>1. \A a, b \in Slots : timer'[a].id # 0 /\ timer'[a].id = timer'[b].id => a = b
    <3>1. \A a \in Slots : a # s => timer'[a].id # e.id
      BY <1>1
    <3> QED BY <1>1, <3>1 DEF Timers, Registered, Armed
  <2>2. \A o \in Slots : timer'[o].id # 0 => log'[timer'[o].sn].end = "armed"
    <3> SUFFICES ASSUME NEW o \in Slots, timer'[o].id # 0
                 PROVE  log'[timer'[o].sn].end = "armed"
      OBVIOUS
    <3>1. CASE o = s
      BY <1>1, <3>1
    <3>2. CASE o # s
      BY <1>1, <1>3, <3>2, ArmedFacts DEF Armed
    <3> QED BY <3>1, <3>2
  <2>3. ASSUME NEW k \in 1 .. Len(log) + 1, log'[k].end = "armed"
        PROVE  \E o \in Slots : /\ timer'[o].id # 0 /\ timer'[o].sn = k
                                /\ timer'[o].id = log'[k].id
    <3>1. CASE k = Len(log) + 1
      <4>1. timer'[s].id # 0 /\ timer'[s].sn = k /\ timer'[s].id = log'[k].id
        BY <1>1, <3>1 DEF Entry
      <4> QED BY <4>1
    <3>2. CASE k \in 1 .. Len(log)
      <4>1. PICK o \in Slots : Armed(o) /\ timer[o].sn = k /\ timer[o].id = log[k].id
        BY <1>1, <2>3, <3>2 DEF Timers, Registered
      <4> QED BY <1>1, <3>2, <4>1 DEF Armed
    <3> QED BY <1>2, <3>1, <3>2
  <2> QED BY <1>1, <2>1, <2>2, <2>3 DEF Registered, Armed
<1>5. Named'
  <2> SUFFICES ASSUME NEW o \in Slots, timer'[o].id # 0
               PROVE  /\ timer'[o].sn \in 1 .. Len(log) + 1
                      /\ log'[timer'[o].sn].id = timer'[o].id
    BY <1>1 DEF Named, Armed
  <2>1. CASE o = s
    BY <1>1, <2>1
  <2>2. CASE o # s
    <3>1. timer'[o] = timer[o] /\ timer[o].sn \in 1 .. Len(log)
      BY <1>1, <1>3, <2>2
    <3>2. log[timer[o].sn].id = timer[o].id
      BY <2>2, <3>1, ArmedFacts DEF Armed
    <3> QED BY <1>1, <3>1, <3>2
  <2> QED BY <2>1, <2>2
<1>6. Scheduled'
  <2> SUFFICES ASSUME NEW o \in Slots, timer'[o].id # 0
               PROVE  LET k == timer'[o].sn IN
                      /\ timer'[o].period = IF log'[k].once THEN 0 ELSE log'[k].len
                      /\ timer'[o].expires =
                           log'[k].start + log'[k].fired * log'[k].len + log'[k].len
                      /\ log'[k].once => log'[k].fired = 0
    BY DEF Scheduled, Schedule, Armed
  <2>1. CASE o = s
    <3>1. log'[timer'[o].sn] = e /\ timer'[o] = r
      BY <1>1, <2>1
    <3>2. e.start \in Nat /\ e.len \in Nat
      BY DEF Entry
    <3>3. e.start + e.len = e.start + e.fired * e.len + e.len
      BY <3>2
    <3> QED BY <3>1, <3>3
  <2>2. CASE o # s
    <3>1. Schedule(timer[o].sn, timer[o].period, timer[o].expires)
          /\ timer[o].sn \in 1 .. Len(log) /\ timer'[o] = timer[o]
      BY <1>1, <2>2, ArmedFacts DEF Armed
    <3> QED BY <1>1, <3>1 DEF Schedule
  <2> QED BY <2>1, <2>2
<1>7. Started'
  <2> SUFFICES ASSUME NEW k \in 1 .. Len(log) + 1 PROVE log'[k].start <= now
    BY <1>1 DEF Started
  <2>1. CASE k = Len(log) + 1
    BY <1>1, <2>1
  <2>2. CASE k \in 1 .. Len(log)
    BY <1>1, <2>2 DEF Timers, Started
  <2> QED BY <1>2, <2>1, <2>2
<1>8. OnTime'
  <2> SUFFICES ASSUME NEW k \in 1 .. Len(log) + 1
               PROVE  /\ log'[k].fired * log'[k].len <= now - log'[k].start
                      /\ log'[k].once => log'[k].fired <= 1
                      /\ log'[k].once /\ log'[k].end # "armed" =>
                           (log'[k].fired = 1 <=> log'[k].end = "fired")
    BY <1>1 DEF OnTime
  <2>1. CASE k = Len(log) + 1
    <3>1. e.start \in Nat /\ e.len \in Nat /\ now \in Nat
      BY DEF Entry, Typed
    <3>2. e.fired * e.len = 0
      BY <3>1
    <3>3. 0 <= now - e.start
      BY <3>1
    <3>4. log'[k] = e
      BY <1>1, <2>1
    <3> QED BY <3>2, <3>3, <3>4
  <2>2. CASE k \in 1 .. Len(log)
    BY <1>1, <2>2 DEF Timers, OnTime
  <2> QED BY <1>2, <2>1, <2>2
<1>9. EventsNamed'
  <2> SUFFICES ASSUME NEW k \in 1 .. Len(events)
               PROVE  /\ events[k].sn \in 1 .. Len(log) + 1
                      /\ events[k].id = log'[events[k].sn].id
    BY <1>1 DEF EventsNamed
  <2>1. events[k].sn \in 1 .. Len(log) /\ events[k].id = log[events[k].sn].id
    BY DEF Timers, EventsNamed
  <2> QED BY <1>1, <2>1
<1>10. NoneAfterCancel'
  <2> SUFFICES ASSUME NEW k \in 1 .. Len(events)
               PROVE  log'[events[k].sn].end # "evicted"
    BY EventFacts DEF NoneAfterCancel
  <2>1. events[k].sn \in 1 .. Len(log) /\ log[events[k].sn].end # "evicted"
    BY EventFacts DEF Timers, EventsNamed, NoneAfterCancel
  <2> QED BY <1>1, <2>1
<1> QED BY <1>4, <1>5, <1>6, <1>7, <1>8, <1>9, <1>10 DEF Timers

-----------------------------------------------------------------------------
\* The stack, when a call is made that is no scan, and when one returns.

LEMMA CallMade ==
  ASSUME Typed, StackOK, ClaimsOK, now' = now, NEW f \in Frame, Call(f),
         f.at \notin {"main", "scan", "drawn", "idle", "asleep", "woken"}, Top.at # "scan",
         \A s \in Slots : timer'[s].id \in {0, timer[s].id},
         f.at = "claimed" => /\ f.expires = f.start + f.len /\ f.start <= now
                             /\ f.period \in {0, f.len}
  PROVE  /\ stack' \in Seq(Frame) /\ Depth' \in Nat /\ Depth' > 0
         /\ StackOK' /\ ClaimsOK' /\ ScanCovers' /\ (Alert => Alert')
         /\ Holding' = Holding \cup (IF Holds(f) THEN {Depth + 1} ELSE {})
         /\ Depth + 1 \notin Holding /\ stack'[Depth + 1] = f
         /\ \A k \in Holding : stack'[k] = stack[k]
<1>1. stack \in Seq(Frame) /\ Depth \in Nat \ {0} /\ Top = stack[Depth]
  BY TopFacts DEF Typed
<1>2. stack' \in Seq(Frame) /\ Depth' = Depth + 1 /\ stack'[Depth + 1] = f
      /\ \A k \in 1 .. Depth : stack'[k] = stack[k]
  BY <1>1, Pushed DEF Keeps
<1>3. Depth \in Nat /\ Depth > 0 /\ Depth' \in Nat /\ Depth' > 0
  BY <1>1, <1>2
<1>4. \A k \in 1 .. Depth' : k \in 1 .. Depth \/ k = Depth + 1
  BY <1>2, <1>3
<1>5. StackOK'
  <2> SUFFICES ASSUME NEW k \in 1 .. Depth'
               PROVE  /\ stack'[k].at = "main" <=> k = 1
                      /\ stack'[k].at = "scan" /\ k < Depth' => stack'[k].done
                      /\ stack'[k].at \in {"idle", "asleep", "woken"} => k = 2
    BY DEF StackOK
  <2>1. CASE k \in 1 .. Depth
    BY <1>1, <1>2, <1>3, <2>1 DEF StackOK
  <2>2. CASE k = Depth + 1
    BY <1>2, <1>3, <2>2
  <2> QED BY <1>4, <2>1, <2>2
<1>6. ClaimsOK'
  <2>1. ClaimsTimed'
    BY <1>2, <1>4 DEF ClaimsOK, ClaimsTimed
  <2>2. DrawnApart'
    <3>1. \A k \in 1 .. Depth' : stack'[k].at = "drawn" =>
            k \in 1 .. Depth /\ stack'[k] = stack[k]
      BY <1>2, <1>4
    <3> QED BY <3>1, DrawnKept DEF ClaimsOK
  <2> QED BY <2>1, <2>2 DEF ClaimsOK
<1>7. ScanCovers'
  <2>1. Top' = f
    BY <1>2 DEF Top, Last, Depth
  <2> QED BY <2>1 DEF ScanCovers
<1>8. Alert => Alert'
  <2>1. \A k \in 1 .. Depth : k \in 1 .. Depth'
    BY <1>2, <1>3
  <2> QED BY <1>2, <2>1 DEF Alert
<1>9. Holding = {k \in 1 .. Depth : Holds(stack[k])}
  BY <1>1, HoldingIs
<1>10. Holding' = {k \in 1 .. Depth' : Holds(stack'[k])}
  BY <1>2, HoldingIsNext DEF Holds
<1>11. Holding' = Holding \cup (IF Holds(f) THEN {Depth + 1} ELSE {})
  <2>1. 1 .. Depth' = (1 .. Depth) \cup {Depth + 1}
    BY <1>2, <1>3
  <2> QED BY <1>2, <1>9, <1>10, <2>1 DEF Holds
<1>12. Depth + 1 \notin Holding
  BY <1>3, <1>9
<1> QED BY <1>2, <1>3, <1>5, <1>6, <1>7, <1>8, <1>9, <1>11, <1>12

LEMMA CallReturns ==
  ASSUME Typed, StackOK, ClaimsOK, now' = now, Return,
         \A s \in Slots : timer'[s].id \in {0, timer[s].id},
         Top.at \notin {"main", "written", "scan", "woken"}
  PROVE  /\ stack' \in Seq(Frame) /\ Depth' \in Nat /\ Depth' > 0
         /\ StackOK' /\ ClaimsOK' /\ ScanCovers' /\ (Alert => Alert')
         /\ Holding' = Holding \ {Depth}
         /\ \A k \in Holding \ {Depth} : stack'[k] = stack[k]
<1>1. stack \in Seq(Frame) /\ Depth \in Nat \ {0} /\ Top = stack[Depth]
  BY TopFacts DEF Typed
<1>2. Depth > 1
  BY <1>1 DEF StackOK
<1>3. stack' \in Seq(Frame) /\ Depth' = Depth - 1
      /\ \A k \in 1 .. Depth - 1 : stack'[k] = stack[k]
  BY <1>1, Popped DEF Keeps
<1>4. Depth' \in Nat /\ Depth' > 0 /\ \A k \in 1 .. Depth' : k \in 1 .. Depth /\ k < Depth
  BY <1>1, <1>2, <1>3
<1>5. \A k \in 1 .. Depth : k # Depth => k \in 1 .. Depth'
  BY <1>1, <1>3
<1>6. StackOK'
  BY <1>3, <1>4 DEF StackOK
<1>7. ClaimsOK'
  <2>1. now' \in Nat /\ now <= now'
    BY DEF Typed
  <2>2. \A k \in 1 .. Depth' : k \in 1 .. Depth /\ stack'[k] = stack[k]
    BY <1>3, <1>4
  <2> QED BY <2>1, <2>2, ClaimsKept
<1>8. ScanCovers'
  <2>1. Top' = stack[Depth - 1] /\ Depth - 1 \in 1 .. Depth /\ Depth - 1 < Depth
    BY <1>1, <1>2, <1>3 DEF Top, Last, Depth
  <2> QED BY <2>1 DEF ScanCovers, StackOK
<1>9. Alert => Alert'
  BY <1>1, <1>3, <1>5 DEF Alert
<1>10. Holding = {k \in 1 .. Depth : Holds(stack[k])}
  BY <1>1, HoldingIs
<1>11. Holding' = {k \in 1 .. Depth' : Holds(stack'[k])}
  BY <1>3, HoldingIsNext DEF Holds
<1>12. \A k \in 1 .. Depth' : stack'[k] = stack[k] /\ k # Depth
  BY <1>3, <1>4
<1>13. \A k \in Holding : k # Depth => k \in Holding'
  BY <1>5, <1>10, <1>11, <1>12 DEF Holds
<1>14. \A k \in Holding' : k \in Holding /\ k # Depth
  BY <1>4, <1>10, <1>11, <1>12 DEF Holds
<1> QED BY <1>3, <1>4, <1>5, <1>6, <1>7, <1>8, <1>9, <1>10, <1>12, <1>13, <1>14

\* A set bit stays set, and the timers covered stay covered.
LEMMA AlarmKept ==
  ASSUME Typed, AlarmSet, stack' \in Seq(Frame), Alert => Alert', alarm' = alarm,
         \A s \in Slots : timer'[s].id # 0 => Armed(s) /\ timer'[s].expires = timer[s].expires
  PROVE  AlarmSet'
<1>1. Alert \/ Covered
  BY AlarmSetIs DEF Typed
<1>2. Covered => Covered'
  BY DEF Covered, Armed
<1> QED BY <1>1, <1>2, AlarmSetIsNext

-----------------------------------------------------------------------------
\* timTimerSetEx

LEMMA FreeSlotIs ==
  ASSUME Typed, valid # Slots
  PROVE  FreeSlot \in Slots /\ FreeSlot \notin valid
<1> DEFINE S == Slots \ valid
<1>1. S # {} /\ S \subseteq 0 .. NumSlots /\ NumSlots \in Nat
  <2>1. valid \subseteq Slots
    BY DEF Typed
  <2>2. S # {}
    BY <2>1
  <2>3. NumSlots \in Nat /\ Slots \subseteq 0 .. NumSlots
    BY TimerAssumption DEF Slots
  <2> QED BY <2>2, <2>3
<1>2. \E s \in S : \A o \in S : o <= s
  <2> HIDE DEF S
  <2> QED BY <1>1, Greatest
<1>3. FreeSlot \in S
  BY <1>2 DEF FreeSlot
<1> QED BY <1>3

\* A claimed slot has an owner, and nothing else changes.
LEMMA SetStartInv ==
  ASSUME TimerInv, NEW t \in Tasks, NEW len \in Nat \ {0}, NEW once \in BOOLEAN,
         SetStart(t, len, once)
  PROVE  TimerInv'
<1> DEFINE s == FreeSlot
           f == [at |-> "claimed", tid |-> t, slot |-> s, expires |-> now + len, id |-> 0,
                 period |-> IF once THEN 0 ELSE len, call |-> ~AppRuns(t),
                 start |-> now, len |-> len]
<1>1. s \in Slots /\ s \notin valid
  BY FreeSlotIs, Parts DEF SetStart
<1>2. now \in Nat /\ now' = now /\ t \in Nat /\ 0 \in Ids
  BY TimerAssumption, Parts DEF Typed, SetStart, Ids
<1>3. f \in ClaimedFrame /\ f.at = "claimed" /\ f.slot = s /\ Holds(f)
      /\ f.expires = f.start + f.len /\ f.start <= now /\ f.period \in {0, f.len}
  <2>1. (~AppRuns(t)) \in BOOLEAN /\ (IF once THEN 0 ELSE len) \in Nat /\ now + len \in Nat
    BY <1>2 DEF AppRuns
  <2> HIDE DEF s
  <2>2. /\ f.at = "claimed" /\ f.slot = s /\ f.expires = f.start + f.len /\ f.start <= now
        /\ f.period \in {0, f.len}
    BY <1>2
  <2>3. f \in ClaimedFrame
    BY <1>1, <1>2, <2>1 DEF ClaimedFrame
  <2> QED BY <2>2, <2>3 DEF Holds
<1>4. Call(f) /\ Top.at # "scan"
  BY DEF SetStart, Caller
<1> HIDE DEF s, f
<1>5. f \in Frame
  BY <1>3, FramesAre
<1>6. /\ stack' \in Seq(Frame) /\ Depth' > 0
      /\ StackOK' /\ ClaimsOK' /\ ScanCovers' /\ (Alert => Alert')
      /\ Holding' = Holding \cup {Depth + 1}
      /\ Depth + 1 \notin Holding /\ stack'[Depth + 1] = f
      /\ \A k \in Holding : stack'[k] = stack[k]
  <2>1. \A o \in Slots : timer'[o].id \in {0, timer[o].id}
    BY DEF SetStart
  <2> QED BY <1>2, <1>3, <1>4, <1>5, <2>1, CallMade, Parts
<1>7. Typed /\ Owned /\ stack \in Seq(Frame) /\ timer[s].id = 0
      /\ \A k \in Holding : stack[k].slot # s
  BY <1>1, Parts DEF Typed, Owned, Armed
<1>8. valid' = valid \cup {s} /\ UNCHANGED <<timer, now, alarm, events, log>>
  BY DEF SetStart, s
<1>9. \A o \in Slots \ {s} : timer'[o].id # 0 <=> Armed(o)
  BY <1>8 DEF Armed
<1>10. Owned'
  BY <1>1, <1>3, <1>6, <1>7, <1>8, <1>9, Taken
<1>11. Timers'
  BY <1>8, TimersKept, Parts
<1>12. AlarmSet'
  <2>1. \A o \in Slots : timer'[o].id # 0 => Armed(o) /\ timer'[o].expires = timer[o].expires
    BY <1>8 DEF Armed
  <2> QED BY <1>6, <1>7, <1>8, <2>1, AlarmKept, Parts
<1>13. Typed'
  BY <1>1, <1>6, <1>7, <1>8 DEF Typed
<1> QED BY <1>6, <1>10, <1>11, <1>12, <1>13, PartsNext

\* An id that no slot has and nobody has drawn, and nothing else changes.
LEMMA DrawInv ==
  ASSUME TimerInv, Draw
  PROVE  TimerInv'
<1>1. /\ stack \in Seq(Frame) /\ Depth \in Nat \ {0} /\ Top = stack[Depth]
      /\ Top.at = "claimed" /\ Top \in ClaimedFrame /\ Typed /\ Timers /\ Owned
      /\ StackOK /\ ClaimsTimed /\ DrawnApart /\ AlarmSet
  BY TopFacts, FrameKinds, Parts DEF Typed, Draw, ClaimsOK
<1>2. PICK id \in 1 .. MaxId : Fresh(id) /\ Become([Top EXCEPT !.at = "drawn", !.id = id])
  BY DEF Draw
<1> DEFINE g == [Top EXCEPT !.at = "drawn", !.id = id]
<1>3. /\ g \in ClaimedFrame /\ g.at = "drawn" /\ g.id = id /\ g.slot = Top.slot
      /\ g.expires = Top.expires /\ g.start = Top.start /\ g.len = Top.len
      /\ g.period = Top.period
  <2>1. id \in Ids
    BY TimerAssumption DEF Ids
  <2>2. /\ DOMAIN Top = {"at", "tid", "slot", "expires", "id", "period", "call", "start", "len"}
        /\ g = [Top EXCEPT !.at = "drawn", !.id = id]
    BY <1>1 DEF ClaimedFrame
  <2> HIDE DEF g
  <2>3. g = [at |-> "drawn", tid |-> Top.tid, slot |-> Top.slot, expires |-> Top.expires,
             id |-> id, period |-> Top.period, call |-> Top.call, start |-> Top.start,
             len |-> Top.len]
    BY <1>1, <2>1, <2>2 DEF ClaimedFrame
  <2>4. /\ Top.tid \in Nat /\ Top.slot \in Slots /\ Top.expires \in Nat /\ Top.period \in Nat
        /\ Top.call \in BOOLEAN /\ Top.start \in Nat /\ Top.len \in Nat \ {0}
    BY <1>1 DEF ClaimedFrame
  <2> QED BY <2>1, <2>3, <2>4 DEF ClaimedFrame
<1>4. Become(g)
  BY <1>2
<1> HIDE DEF g
<1>5. g \in Frame /\ Holds(g) /\ Holds(Top)
  BY <1>1, <1>3, FramesAre DEF Holds
<1>6. /\ stack' \in Seq(Frame) /\ Depth' = Depth /\ stack'[Depth] = g
      /\ \A k \in 1 .. Depth - 1 : stack'[k] = stack[k]
  BY <1>1, <1>4, <1>5, Replaced DEF Keeps
<1>7. \A k \in 1 .. Depth : k \in 1 .. Depth - 1 \/ k = Depth
  BY <1>1
<1>8. UNCHANGED <<timer, valid, now, alarm, events, log>>
  BY DEF Draw
<1>9. StackOK'
  BY <1>1, <1>3, <1>6, <1>7 DEF StackOK
<1>10. ClaimsOK'
  <2>1. ClaimsTimed'
    BY <1>1, <1>3, <1>6, <1>7, <1>8 DEF ClaimsTimed
  <2>2. id # 0 /\ (\A o \in Slots : timer[o].id # id)
        /\ \A k \in 1 .. Depth : stack[k].at = "drawn" => stack[k].id # id
    BY <1>1, <1>2 DEF Fresh, Drawn, Depth
  <2>3. DrawnApart'
    <3>1. \A k \in 1 .. Depth' : k \in 1 .. Depth /\ stack'[k] = IF k = Depth THEN g ELSE stack[k]
      BY <1>6, <1>7
    <3>2. \A k \in 1 .. Depth' : stack'[k].at = "drawn" =>
            stack'[k].id # 0 /\ \A s \in Slots : timer'[s].id # stack'[k].id
      BY <1>1, <1>3, <1>8, <2>2, <3>1 DEF DrawnApart
    <3>3. ASSUME NEW j \in 1 .. Depth', NEW k \in 1 .. Depth', stack'[j].at = "drawn",
                 stack'[k].at = "drawn", stack'[j].id = stack'[k].id, j # k
          PROVE  FALSE
      <4>1. CASE j = Depth
        BY <1>3, <2>2, <3>1, <3>3, <4>1
      <4>2. CASE k = Depth
        BY <1>3, <2>2, <3>1, <3>3, <4>2
      <4>3. CASE j # Depth /\ k # Depth
        BY <1>1, <3>1, <3>3, <4>3 DEF DrawnApart
      <4> QED BY <4>1, <4>2, <4>3
    <3> QED BY <3>2, <3>3 DEF DrawnApart
  <2> QED BY <2>1, <2>3 DEF ClaimsOK
<1>11. ScanCovers'
  <2>1. Top' = g
    BY <1>6 DEF Top, Last, Depth
  <2> QED BY <1>3, <2>1 DEF ScanCovers
<1>12. AlarmSet'
  <2>1. Alert => Alert'
    BY <1>1, <1>6, <1>7 DEF Alert
  <2>2. \A o \in Slots : timer'[o].id # 0 => Armed(o) /\ timer'[o].expires = timer[o].expires
    BY <1>8 DEF Armed
  <2> QED BY <1>1, <1>6, <1>8, <2>1, <2>2, AlarmKept
<1>13. Owned'
  <2>1. Holding = {k \in 1 .. Depth : Holds(stack[k])}
    BY <1>1, HoldingIs
  <2>2. Holding' = {k \in 1 .. Depth : Holds(stack'[k])}
    BY <1>6, HoldingIsNext DEF Holds
  <2>3. \A k \in 1 .. Depth : /\ Holds(stack'[k]) <=> Holds(stack[k])
                              /\ stack'[k].slot = stack[k].slot
    BY <1>1, <1>3, <1>5, <1>6, <1>7
  <2>4. Holding' = Holding /\ \A k \in Holding : stack'[k].slot = stack[k].slot
    BY <2>1, <2>2, <2>3
  <2> QED BY <1>1, <1>8, <2>4 DEF Owned, Armed
<1>14. Timers'
  BY <1>1, <1>8, TimersKept
<1>15. Typed'
  BY <1>1, <1>6, <1>8 DEF Typed
<1> QED BY <1>9, <1>10, <1>11, <1>12, <1>13, <1>14, <1>15, PartsNext

\* The claimed slot is written and has no owner from then on but its timer.
LEMMA SetWriteInv ==
  ASSUME TimerInv, SetWrite
  PROVE  TimerInv'
<1> DEFINE s == Top.slot
           id == Top.id
           r == [id |-> id, expires |-> Top.expires, period |-> Top.period,
                 tid |-> Top.tid, call |-> Top.call, sn |-> Len(log) + 1]
           e == [id |-> id, start |-> Top.start, len |-> Top.len,
                 once |-> Top.period = 0, fired |-> 0, end |-> "armed"]
           f == [at |-> "written", tid |-> Top.tid]
<1>1. /\ stack \in Seq(Frame) /\ Depth \in Nat \ {0} /\ Top = stack[Depth]
      /\ Top.at = "drawn" /\ Top \in ClaimedFrame /\ Typed /\ Timers /\ Owned
      /\ StackOK /\ ClaimsTimed /\ DrawnApart
  BY TopFacts, FrameKinds, Parts DEF Typed, SetWrite, ClaimsOK
<1>2. /\ s \in Slots /\ Top.tid \in Nat /\ Top.expires \in Nat /\ Top.period \in Nat
      /\ Top.call \in BOOLEAN /\ Top.start \in Nat /\ Top.len \in Nat \ {0}
  BY <1>1 DEF ClaimedFrame
<1>3. id \in Ids \ {0} /\ \A o \in Slots : timer[o].id # id
  BY <1>1 DEF ClaimedFrame, DrawnApart
<1>4. /\ Top.expires = Top.start + Top.len /\ Top.start <= now
      /\ Top.period \in {0, Top.len}
  BY <1>1 DEF ClaimsTimed
<1>5. /\ timer' = [timer EXCEPT ![s] = r] /\ log' = Append(log, e) /\ Become(f)
      /\ UNCHANGED <<valid, now, alarm, events>>
  BY DEF SetWrite
<1>6. /\ e \in Entry /\ e.id = id /\ e.fired = 0 /\ e.end = "armed" /\ e.start = Top.start
      /\ e.len = Top.len /\ e.once = (Top.period = 0)
  <2>1. (Top.period = 0) \in BOOLEAN
    OBVIOUS
  <2> HIDE DEF id
  <2> QED BY <1>2, <1>3, <2>1 DEF Entry
<1>7. r \in [id : Ids, expires : Nat, period : Nat, tid : Nat, call : BOOLEAN, sn : Nat]
      /\ r.id = id /\ r.sn = Len(log) + 1 /\ r.expires = Top.expires /\ r.period = Top.period
  <2>1. Len(log) + 1 \in Nat
    BY <1>1 DEF Typed
  <2> HIDE DEF id
  <2> QED BY <1>2, <1>3, <2>1
<1>8. f \in Frame /\ f.at = "written" /\ ~Holds(f)
  BY <1>2, FramesAre DEF Holds
<1> HIDE DEF s, id, r, e, f
<1>9. /\ Depth \in Holding /\ stack[Depth].slot = s /\ timer[s].id = 0 /\ s \in valid
  <2>1. Depth \in Holding
    BY <1>1, HoldingIs DEF Holds
  <2> QED BY <1>1, <2>1 DEF Owned, Armed, s
<1>10. /\ stack' \in Seq(Frame) /\ Depth' = Depth /\ stack'[Depth] = f
       /\ \A k \in 1 .. Depth - 1 : stack'[k] = stack[k]
  BY <1>1, <1>5, <1>8, Replaced DEF Keeps
<1>11. \A k \in 1 .. Depth : k \in 1 .. Depth - 1 \/ k = Depth
  BY <1>1
<1>12. StackOK'
  BY <1>1, <1>8, <1>10, <1>11 DEF StackOK
<1>13. ClaimsOK'
  <2>1. ClaimsTimed'
    BY <1>1, <1>5, <1>8, <1>10, <1>11 DEF ClaimsTimed
  <2>2. ASSUME NEW k \in 1 .. Depth', stack'[k].at = "drawn"
        PROVE  k \in 1 .. Depth /\ k # Depth /\ stack'[k] = stack[k]
    BY <1>1, <1>8, <1>10, <1>11, <2>2
  <2>3. \A k \in 1 .. Depth : stack[k].at = "drawn" /\ k # Depth => stack[k].id # id
    BY <1>1 DEF DrawnApart, id
  <2>4. \A o \in Slots : timer'[o].id \in {id, timer[o].id}
    BY <1>1, <1>2, <1>5, <1>7 DEF Typed
  <2>5. \A k \in 1 .. Depth' : stack'[k].at = "drawn" =>
          stack'[k].id # 0 /\ \A o \in Slots : timer'[o].id # stack'[k].id
    BY <1>1, <2>2, <2>3, <2>4 DEF DrawnApart
  <2>6. \A j, k \in 1 .. Depth' :
          stack'[j].at = "drawn" /\ stack'[k].at = "drawn" /\ stack'[j].id = stack'[k].id => j = k
    BY <1>1, <2>2 DEF DrawnApart
  <2> QED BY <2>1, <2>5, <2>6 DEF ClaimsOK, DrawnApart
<1>14. ScanCovers'
  <2>1. Top' = f
    BY <1>10 DEF Top, Last, Depth
  <2> QED BY <1>8, <2>1 DEF ScanCovers
<1>15. AlarmSet'
  <2>1. Alert'
    BY <1>1, <1>8, <1>10 DEF Alert
  <2> QED BY <1>10, <2>1, AlarmSetIsNext
<1>16. Holding' = Holding \ {Depth} /\ \A k \in Holding \ {Depth} : stack'[k] = stack[k]
  <2>1. Holding = {k \in 1 .. Depth : Holds(stack[k])}
    BY <1>1, HoldingIs
  <2>2. Holding' = {k \in 1 .. Depth : Holds(stack'[k])}
    BY <1>10, HoldingIsNext DEF Holds
  <2>3. \A k \in 1 .. Depth : k # Depth => stack'[k] = stack[k]
    BY <1>10, <1>11
  <2> QED BY <1>8, <1>10, <2>1, <2>2, <2>3 DEF Holds
<1>17. Owned'
  <2>1. timer'[s] = r /\ \A o \in Slots : o # s => timer'[o] = timer[o]
    BY <1>1, <1>2, <1>5 DEF Typed
  <2>2. s \in valid' /\ timer'[s].id # 0 /\ valid' \ {s} = valid \ {s}
    BY <1>3, <1>5, <1>7, <1>9, <2>1
  <2>3. \A o \in Slots \ {s} : timer'[o].id # 0 <=> Armed(o)
    BY <2>1 DEF Armed
  <2> QED BY <1>1, <1>9, <1>16, <2>2, <2>3, LetGo
<1>18. Timers'
  <2>1. r.period = IF e.once THEN 0 ELSE e.len
    BY <1>4, <1>6, <1>7
  <2>2. ~Armed(s)
    BY <1>9 DEF Armed
  <2>3. \A o \in Slots : timer[o].id # e.id
    BY <1>3, <1>6
  <2>4. r.id = e.id /\ r.sn = Len(log) + 1 /\ r.expires = e.start + e.len /\ e.start <= now
    BY <1>4, <1>6, <1>7
  <2> QED BY <1>1, <1>2, <1>5, <1>6, <2>1, <2>2, <2>3, <2>4, WrittenTimers
<1>19. Typed'
  <2>1. timer' \in [Slots -> [id : Ids, expires : Nat, period : Nat, tid : Nat,
                              call : BOOLEAN, sn : Nat]]
    BY <1>1, <1>2, <1>5, <1>7 DEF Typed
  <2>2. log' \in Seq(Entry)
    BY <1>1, <1>5, <1>6 DEF Typed
  <2>3. Depth' > 0
    BY <1>1, <1>10
  <2> QED BY <1>1, <1>3, <1>5, <1>10, <2>1, <2>2, <2>3 DEF Typed
<1> QED BY <1>12, <1>13, <1>14, <1>15, <1>17, <1>18, <1>19, PartsNext

-----------------------------------------------------------------------------
\* Slots are let go, at the end of a callback or of a cancellation.

LEMMA Released ==
  ASSUME TimerInv, Return, Top.at \in {"callback", "cancelled"}, Holds(Top),
         UNCHANGED <<timer, now, alarm, events, log>>,
         valid' = valid \ {Top.slot}
  PROVE  TimerInv'
<1>1. /\ stack \in Seq(Frame) /\ Depth \in Nat \ {0} /\ Top = stack[Depth]
      /\ Typed /\ Timers /\ Owned /\ StackOK /\ ClaimsOK /\ AlarmSet
  BY TopFacts, Parts DEF Typed
<1>2. /\ stack' \in Seq(Frame) /\ Depth' > 0
      /\ StackOK' /\ ClaimsOK' /\ ScanCovers' /\ (Alert => Alert')
      /\ Holding' = Holding \ {Depth}
      /\ \A k \in Holding \ {Depth} : stack'[k] = stack[k]
  <2>1. \A o \in Slots : timer'[o].id \in {0, timer[o].id}
    OBVIOUS
  <2> QED BY <1>1, <2>1, CallReturns
<1>3. Depth \in Holding
  BY <1>1, HoldingIs
<1> DEFINE s == Top.slot
<1>4. stack[Depth].slot = s /\ timer[s].id = 0
  BY <1>1, <1>3 DEF Owned, Armed
<1>5. s \notin valid' /\ timer'[s].id = 0 /\ valid' \ {s} = valid \ {s}
  BY <1>4
<1>6. \A o \in Slots : timer'[o].id # 0 <=> Armed(o)
  BY DEF Armed
<1> HIDE DEF s
<1>7. Owned'
  BY <1>1, <1>2, <1>3, <1>4, <1>5, <1>6, LetGo
<1>8. Timers'
  BY <1>1, TimersKept
<1>9. AlarmSet'
  BY <1>1, <1>2, <1>6, AlarmKept
<1>10. Typed'
  BY <1>1, <1>2 DEF Typed
<1> QED BY <1>2, <1>7, <1>8, <1>9, <1>10, PartsNext

\* A call returns that holds nothing.
LEMMA Dropped ==
  ASSUME TimerInv, Return, Top.at \in {"callback", "cancelled"}, ~Holds(Top),
         UNCHANGED <<timer, valid, now, alarm, events, log>>
  PROVE  TimerInv'
<1>1. /\ stack \in Seq(Frame) /\ Depth \in Nat \ {0} /\ Top = stack[Depth]
      /\ Typed /\ Timers /\ Owned /\ StackOK /\ ClaimsOK /\ AlarmSet
  BY TopFacts, Parts DEF Typed
<1>2. /\ stack' \in Seq(Frame) /\ Depth' > 0
      /\ StackOK' /\ ClaimsOK' /\ ScanCovers' /\ (Alert => Alert')
      /\ Holding' = Holding \ {Depth}
      /\ \A k \in Holding \ {Depth} : stack'[k] = stack[k]
  <2>1. \A o \in Slots : timer'[o].id \in {0, timer[o].id}
    OBVIOUS
  <2> QED BY <1>1, <2>1, CallReturns
<1>3. Depth \notin Holding
  BY <1>1, HoldingIs
<1>4. Holding' = Holding /\ \A k \in Holding : stack'[k] = stack[k]
  BY <1>2, <1>3
<1>5. Owned'
  BY <1>1, <1>4 DEF Owned, Armed
<1>6. Timers'
  BY <1>1, TimersKept
<1>7. AlarmSet'
  <2>1. \A o \in Slots : timer'[o].id # 0 => Armed(o) /\ timer'[o].expires = timer[o].expires
    BY DEF Armed
  <2> QED BY <1>1, <1>2, <2>1, AlarmKept
<1>8. Typed'
  BY <1>1, <1>2 DEF Typed
<1> QED BY <1>2, <1>5, <1>6, <1>7, <1>8, PartsNext

LEMMA CancelFreeInv ==
  ASSUME TimerInv, CancelFree
  PROVE  upset' \/ TimerInv'
<1>1. Top.at = "cancelled" /\ Return /\ UNCHANGED <<timer, now, alarm, events, log>>
      /\ valid' = valid \ {Top.slot} /\ upset' = (upset \/ (Top.none /\ Top.slot \in valid))
  BY DEF CancelFree
<1>2. CASE ~Top.none
  BY <1>1, <1>2, Released DEF Holds
<1>3. CASE Top.none /\ Top.slot \in valid
  BY <1>1, <1>3
<1>4. CASE Top.none /\ Top.slot \notin valid
  <2>1. valid' = valid
    BY <1>1, <1>4
  <2> QED BY <1>1, <1>4, <2>1, Dropped DEF Holds
<1> QED BY <1>2, <1>3, <1>4

LEMMA CallbackReturnInv ==
  ASSUME TimerInv, CallbackReturn
  PROVE  TimerInv'
<1>1. /\ stack \in Seq(Frame) /\ Depth \in Nat \ {0} /\ Top = stack[Depth]
      /\ Top.at = "callback" /\ Top \in CallbackFrame
      /\ Typed /\ Timers /\ Owned /\ StackOK /\ ClaimsOK /\ AlarmSet
  BY TopFacts, FrameKinds, Parts DEF Typed, CallbackReturn
<1>2. CASE Top.once
  <2>1. Depth \in Holding /\ Holds(Top)
    BY <1>1, <1>2, HoldingIs DEF Holds
  <2>2. Top.slot \in Slots /\ timer[Top.slot].id = 0
    BY <1>1, <2>1, HoldingIs DEF Owned, Armed
  <2>3. timer' = timer
    <3>1. timer' = [timer EXCEPT ![Top.slot].id = 0]
      BY <1>2 DEF CallbackReturn
    <3>2. [timer[Top.slot] EXCEPT !.id = 0] = timer[Top.slot]
      <4>1. timer[Top.slot] \in [id : Ids, expires : Nat, period : Nat, tid : Nat,
                                 call : BOOLEAN, sn : Nat]
        BY <1>1, <2>2 DEF Typed
      <4> QED BY <2>2, <4>1
    <3> QED BY <1>1, <2>2, <3>1, <3>2 DEF Typed
  <2> QED BY <1>1, <1>2, <2>1, <2>3, Released DEF CallbackReturn
<1>3. CASE ~Top.once
  BY <1>1, <1>3, Dropped DEF CallbackReturn, Holds
<1> QED BY <1>2, <1>3

-----------------------------------------------------------------------------
\* A timer that is due.

SlotRec == [id : Ids, expires : Nat, period : Nat, tid : Nat, call : BOOLEAN, sn : Nat]

\* The scan goes on, after it has fired the timer of the slot it is at.
LEMMA OnwardIs ==
  ASSUME TimerInv, Scanning, NEW t \in Nat
  PROVE  Onward(t) \in ScanFrame /\ Onward(t).at = "scan" /\ Onward(t).done
<1>0. Top \in ScanFrame /\ Top.at = "scan"
  BY ScanningFacts
<1>1. /\ DOMAIN Top = {"at", "tid", "i", "done", "any", "next", "open"}
      /\ Top.next \in Nat /\ Top.any \in BOOLEAN /\ Top.open = FALSE
      /\ Top.i + 1 \in Nat \ {0}
  <2>1. Top.i + 1 \in Nat \ {0}
    BY <1>0 DEF ScanFrame
  <2>2. DOMAIN Top = {"at", "tid", "i", "done", "any", "next", "open"}
    BY <1>0 DEF ScanFrame
  <2>3. Top.next \in Nat /\ Top.any \in BOOLEAN /\ Top.open = FALSE
    BY <1>0 DEF ScanFrame
  <2> QED BY <2>1, <2>2, <2>3
<1> DEFINE g == Onward(t)
<1>2. g = [Top EXCEPT !.at = "scan", !.tid = t, !.i = Top.i + 1, !.done = TRUE]
  BY DEF Onward
<1> HIDE DEF g
<1>3. g = [at |-> "scan", tid |-> t, i |-> Top.i + 1, done |-> TRUE,
           any |-> Top.any, next |-> Top.next, open |-> FALSE]
  BY <1>0, <1>1, <1>2 DEF ScanFrame
<1>4. g \in ScanFrame /\ g.at = "scan" /\ g.done
  BY <1>1, <1>3 DEF ScanFrame
<1> QED BY <1>4 DEF g

LEMMA DueFacts ==
  ASSUME TimerInv, Scanning, Due
  PROVE  /\ stack \in Seq(Frame) /\ Depth \in Nat \ {0} /\ Top = stack[Depth]
         /\ Top.at = "scan" /\ Depth > 1
         /\ Typed /\ Timers /\ Owned /\ StackOK /\ ClaimsOK /\ AlarmSet
         /\ Top.i \in Slots /\ Armed(Top.i) /\ Cur = timer[Top.i] /\ Cur \in SlotRec
         /\ Cur.expires <= now /\ now \in Nat /\ Top.i \in valid
         /\ Cur.sn \in 1 .. Len(log)
<1>1. /\ stack \in Seq(Frame) /\ Depth \in Nat \ {0} /\ Top = stack[Depth]
      /\ Typed /\ Timers /\ Owned /\ StackOK /\ ClaimsOK /\ AlarmSet
  BY TopFacts, Parts DEF Typed
<1>2. Top \in ScanFrame /\ Top.at = "scan" /\ Top.i \in Slots /\ Depth > 1
  BY ScanningFacts
<1>3. Armed(Top.i) /\ Cur = timer[Top.i] /\ Cur \in SlotRec /\ Cur.expires <= now
  BY <1>1, <1>2 DEF Due, Cur, Typed, SlotRec
<1>4. Top.i \in valid
  BY <1>1, <1>2, <1>3 DEF Owned
<1>5. Cur.sn \in 1 .. Len(log)
  BY <1>1, <1>2, <1>3, ArmedFacts
<1> QED BY <1>1, <1>2, <1>3, <1>4, <1>5 DEF Typed

LEMMA FireEventInv ==
  ASSUME TimerInv, FireEvent
  PROVE  TimerInv'
<1> DEFINE s == Top.i
           g == Onward(SystemTid)
           r == IF Cur.period > 0 THEN [Cur EXCEPT !.expires = @ + Cur.period]
                ELSE [Cur EXCEPT !.id = 0]
           ev == [id |-> Cur.id, sn |-> Cur.sn]
<1>1. /\ stack \in Seq(Frame) /\ Depth \in Nat \ {0} /\ Top = stack[Depth]
      /\ Top.at = "scan" /\ Depth > 1
      /\ Typed /\ Timers /\ Owned /\ StackOK /\ ClaimsOK /\ AlarmSet
  BY DueFacts DEF FireEvent
<1>2. /\ s \in Slots /\ Armed(s) /\ Cur = timer[s] /\ Cur \in SlotRec
      /\ Cur.expires <= now /\ now \in Nat /\ s \in valid /\ Cur.sn \in 1 .. Len(log)
  BY DueFacts DEF FireEvent
<1>3. g \in Frame /\ g.at = "scan" /\ g.done /\ ~Holds(g) /\ Become(g)
  BY OnwardIs, FramesAre DEF FireEvent, SystemTid
<1>4. Cur.period \in Nat /\ Cur.id \in Ids /\ Cur.sn \in Nat /\ Cur.expires \in Nat
  BY <1>2 DEF SlotRec
<1>5. /\ r \in SlotRec /\ r.sn = Cur.sn
      /\ r.id = IF Cur.period = 0 THEN 0 ELSE Cur.id
      /\ Cur.period # 0 => r.expires = Cur.expires + Cur.period /\ r.period = Cur.period
  <2>1. CASE Cur.period > 0
    <3>1. r = [Cur EXCEPT !.expires = @ + Cur.period] /\ Cur.expires + Cur.period \in Nat
      BY <1>4, <2>1
    <3> HIDE DEF r
    <3> QED BY <1>2, <2>1, <3>1 DEF SlotRec
  <2>2. CASE ~(Cur.period > 0)
    <3>1. r = [Cur EXCEPT !.id = 0] /\ Cur.period = 0 /\ 0 \in Ids
      BY <1>4, <2>2, TimerAssumption DEF Ids
    <3> HIDE DEF r
    <3> QED BY <1>2, <3>1 DEF SlotRec
  <2> QED BY <2>1, <2>2
<1>6. timer' = [timer EXCEPT ![s] = r] /\ valid' = (IF Cur.period > 0 THEN valid ELSE valid \ {s})
  <2>1. CASE Cur.period > 0
    BY <1>1, <1>2, <2>1 DEF FireEvent, Typed
  <2>2. CASE ~(Cur.period > 0)
    BY <1>1, <1>2, <2>2 DEF FireEvent, Typed
  <2> QED BY <2>1, <2>2
<1>7. UNCHANGED <<now, alarm, irqs>> /\ log' = Fired(Cur.sn, Cur.period = 0)
  BY DEF FireEvent
<1>8. /\ events' \in Seq(Event)
      /\ \A k \in 1 .. Len(events') :
           \/ \E j \in 1 .. Len(events) : events'[k] = events[j]
           \/ events'[k].id = Cur.id /\ events'[k].sn = Cur.sn
  <2>1. ev \in Event /\ ev.id = Cur.id /\ ev.sn = Cur.sn
    BY <1>4 DEF Event
  <2> HIDE DEF ev
  <2>2. CASE events' = events
    BY <1>1, <2>2 DEF Typed
  <2>3. CASE events' = Append(events, ev)
    <3>1. /\ events' \in Seq(Event) /\ Len(events') = Len(events) + 1 /\ Len(events) \in Nat
          /\ events'[Len(events) + 1] = ev /\ \A k \in 1 .. Len(events) : events'[k] = events[k]
      BY <1>1, <2>1, <2>3 DEF Typed
    <3>2. \A k \in 1 .. Len(events) + 1 : k \in 1 .. Len(events) \/ k = Len(events) + 1
      BY <3>1
    <3> QED BY <2>1, <3>1, <3>2
  <2> QED BY <2>2, <2>3 DEF FireEvent, Enqueued, ev
<1> HIDE DEF s, g, r, ev
<1>9. /\ stack' \in Seq(Frame) /\ Depth' = Depth /\ stack'[Depth] = g
      /\ \A k \in 1 .. Depth - 1 : stack'[k] = stack[k]
  BY <1>1, <1>3, Replaced DEF Keeps
<1>10. \A k \in 1 .. Depth : k \in 1 .. Depth - 1 \/ k = Depth
  BY <1>1
<1>11. StackOK'
  BY <1>1, <1>3, <1>9, <1>10 DEF StackOK
<1>12. ClaimsOK'
  <2>1. \A o \in Slots : timer'[o].id \in {0, timer[o].id}
    BY <1>1, <1>2, <1>5, <1>6 DEF Typed
  <2>2. \A k \in 1 .. Depth' : stack'[k].at \in {"claimed", "drawn"} =>
          k \in 1 .. Depth /\ stack'[k] = stack[k]
    BY <1>3, <1>9, <1>10
  <2> QED BY <1>1, <1>2, <1>7, <2>1, <2>2, ClaimsKept
<1>13. ScanCovers'
  <2>1. Top' = g
    BY <1>9 DEF Top, Last, Depth
  <2> QED BY <1>3, <2>1 DEF ScanCovers
<1>14. AlarmSet'
  <2>1. Alert'
    BY <1>1, <1>3, <1>9 DEF Alert
  <2> QED BY <1>9, <2>1, AlarmSetIsNext
<1>15. Holding' = Holding /\ \A k \in Holding : stack'[k].slot = stack[k].slot
  <2>1. Holding = {k \in 1 .. Depth : Holds(stack[k])}
    BY <1>1, HoldingIs
  <2>2. Holding' = {k \in 1 .. Depth : Holds(stack'[k])}
    BY <1>9, HoldingIsNext DEF Holds
  <2>3. \A k \in 1 .. Depth : k # Depth => stack'[k] = stack[k]
    BY <1>9, <1>10
  <2>4. ~Holds(stack[Depth])
    BY <1>1 DEF Holds
  <2>5. \A k \in 1 .. Depth : Holds(stack'[k]) <=> Holds(stack[k])
    BY <1>3, <1>9, <2>3, <2>4
  <2> QED BY <2>1, <2>2, <2>3, <2>4, <2>5
<1>16. timer'[s] = r /\ \A o \in Slots : o # s => timer'[o] = timer[o]
  BY <1>1, <1>2, <1>6 DEF Typed
<1>17. Owned'
  <2>1. timer'[s].id # 0 <=> Cur.period > 0
    BY <1>2, <1>4, <1>5, <1>16 DEF Armed
  <2>2. (s \in valid' <=> timer'[s].id # 0) /\ valid' \ {s} = valid \ {s}
    BY <1>2, <1>6, <2>1
  <2>3. \A o \in Slots \ {s} : timer'[o].id # 0 <=> Armed(o)
    BY <1>16 DEF Armed
  <2> QED BY <1>1, <1>2, <1>15, <2>2, <2>3, Freed
<1>18. Timers' /\ log' \in Seq(Entry)
  BY <1>1, <1>2, <1>5, <1>6, <1>7, <1>8, FiredTimers
<1>19. Typed'
  <2>1. timer' \in [Slots -> SlotRec]
    BY <1>1, <1>2, <1>5, <1>6 DEF Typed, SlotRec
  <2>2. valid' \subseteq Slots
    BY <1>1, <1>6 DEF Typed
  <2>3. Depth' > 0
    BY <1>1, <1>9
  <2> QED BY <1>1, <1>7, <1>8, <1>9, <1>18, <2>1, <2>2, <2>3 DEF Typed, SlotRec
<1> QED BY <1>11, <1>12, <1>13, <1>14, <1>17, <1>18, <1>19, PartsNext

LEMMA FireCallInv ==
  ASSUME TimerInv, FireCall
  PROVE  TimerInv'
<1> DEFINE s == Top.i
           g == Onward(Cur.tid)
           r == [Cur EXCEPT !.id = IF Cur.period = 0 THEN 0 ELSE @, !.expires = @ + Cur.period]
           once == Cur.period = 0
           f == [at |-> "callback", tid |-> Cur.tid, slot |-> s, once |-> once]
<1>0. Scanning /\ Due
  <2>1. Top.at # "due"
    BY TopFacts, FrameKinds DEF TimerInv, Typed
  <2> QED BY <2>1 DEF FireCall, Firing
<1>1. /\ stack \in Seq(Frame) /\ Depth \in Nat \ {0} /\ Top = stack[Depth]
      /\ Top.at = "scan" /\ Depth > 1
      /\ Typed /\ Timers /\ Owned /\ StackOK /\ ClaimsOK /\ AlarmSet
  BY <1>0, DueFacts
<1>2. /\ s \in Slots /\ Armed(s) /\ Cur = timer[s] /\ Cur \in SlotRec
      /\ Cur.expires <= now /\ now \in Nat /\ s \in valid /\ Cur.sn \in 1 .. Len(log)
  BY <1>0, DueFacts
<1>3. g \in ScanFrame /\ g \in Frame /\ g.at = "scan" /\ g.done /\ ~Holds(g)
  <2>1. Cur.tid \in Nat
    BY <1>2 DEF SlotRec
  <2> QED BY <1>0, <2>1, OnwardIs, FramesAre
<1>4. /\ Cur.period \in Nat /\ Cur.id \in Ids /\ Cur.sn \in Nat /\ Cur.expires \in Nat
      /\ Cur.tid \in Nat
  BY <1>2 DEF SlotRec
<1>5. /\ r \in SlotRec /\ r.sn = Cur.sn
      /\ r.id = IF Cur.period = 0 THEN 0 ELSE Cur.id
      /\ r.expires = Cur.expires + Cur.period /\ r.period = Cur.period
  <2> DEFINE x == [Cur EXCEPT !.id = IF Cur.period = 0 THEN 0 ELSE @]
  <2>1. (IF Cur.period = 0 THEN 0 ELSE Cur.id) \in Ids
    BY <1>4, TimerAssumption DEF Ids
  <2>2. /\ x \in SlotRec /\ x.id = (IF Cur.period = 0 THEN 0 ELSE Cur.id) /\ x.sn = Cur.sn
        /\ x.expires = Cur.expires /\ x.period = Cur.period
    BY <1>2, <2>1 DEF SlotRec
  <2>3. r = [x EXCEPT !.expires = Cur.expires + Cur.period]
    BY <1>2 DEF SlotRec
  <2> HIDE DEF x, r
  <2>4. Cur.expires + Cur.period \in Nat
    BY <1>4
  <2> QED BY <2>2, <2>3, <2>4 DEF SlotRec
<1>6. timer' = [timer EXCEPT ![s] = r]
  BY <1>1, <1>2 DEF FireCall, Typed, SlotRec
<1>7. UNCHANGED <<valid, now, alarm, events, irqs>> /\ log' = Fired(Cur.sn, once)
  BY DEF FireCall
<1>8. stack' = Append([stack EXCEPT ![Depth] = g], f)
  BY DEF FireCall
<1>9. /\ f \in Frame /\ f.at = "callback" /\ f.slot = s /\ (Holds(f) <=> once)
  <2>1. f \in CallbackFrame
    BY <1>2, <1>4 DEF CallbackFrame
  <2> QED BY <2>1, FramesAre DEF Holds
<1> HIDE DEF s, g, r, f, once
<1>10. /\ stack' \in Seq(Frame) /\ Depth' = Depth + 1 /\ stack'[Depth] = g
       /\ stack'[Depth + 1] = f /\ \A k \in 1 .. Depth - 1 : stack'[k] = stack[k]
  BY <1>1, <1>3, <1>8, <1>9, CalledBack DEF Keeps
<1>11. /\ \A k \in 1 .. Depth' : (k \in 1 .. Depth - 1 /\ k < Depth) \/ k = Depth \/ k = Depth + 1
       /\ \A k \in 1 .. Depth : k \in 1 .. Depth - 1 \/ k = Depth
       /\ Depth + 1 \in 1 .. Depth' /\ Depth \in 1 .. Depth' /\ 1 .. Depth - 1 \subseteq 1 .. Depth
       /\ 1 .. Depth \subseteq 1 .. Depth' /\ Depth + 1 \notin 1 .. Depth /\ Depth' > 0
  BY <1>1, <1>10
<1>12. StackOK'
  <2> SUFFICES ASSUME NEW k \in 1 .. Depth'
               PROVE  /\ stack'[k].at = "main" <=> k = 1
                      /\ stack'[k].at = "scan" /\ k < Depth' => stack'[k].done
                      /\ stack'[k].at \in {"idle", "asleep", "woken"} => k = 2
    BY DEF StackOK
  <2>1. CASE k \in 1 .. Depth - 1 /\ k < Depth
    <3>1. k \in 1 .. Depth /\ stack'[k] = stack[k]
      BY <1>10, <1>11, <2>1
    <3> QED BY <1>1, <2>1, <3>1 DEF StackOK
  <2>2. CASE k = Depth
    BY <1>1, <1>3, <1>10, <2>2
  <2>3. CASE k = Depth + 1
    BY <1>1, <1>9, <1>10, <2>3
  <2> QED BY <1>11, <2>1, <2>2, <2>3
<1>13. ClaimsOK'
  <2>1. ASSUME NEW k \in 1 .. Depth', stack'[k].at \in {"claimed", "drawn"}
        PROVE  k \in 1 .. Depth /\ stack'[k] = stack[k]
    BY <1>3, <1>9, <1>10, <1>11, <2>1
  <2>2. \A o \in Slots : timer'[o].id \in {0, timer[o].id}
    BY <1>1, <1>2, <1>5, <1>6 DEF Typed
  <2> QED BY <1>1, <1>2, <1>7, <2>1, <2>2, ClaimsKept
<1>14. ScanCovers'
  <2>1. Top' = f
    BY <1>10 DEF Top, Last, Depth
  <2> QED BY <1>9, <2>1 DEF ScanCovers
<1>15. AlarmSet'
  <2>1. Alert'
    BY <1>3, <1>10, <1>11 DEF Alert
  <2> QED BY <1>10, <2>1, AlarmSetIsNext
<1>16. /\ Holding' = Holding \cup (IF once THEN {Depth + 1} ELSE {})
       /\ \A k \in Holding : stack'[k] = stack[k]
       /\ Depth + 1 \notin Holding
  <2>1. Holding = {k \in 1 .. Depth : Holds(stack[k])}
    BY <1>1, HoldingIs
  <2>2. Holding' = {k \in 1 .. Depth' : Holds(stack'[k])}
    BY <1>10, HoldingIsNext DEF Holds
  <2>3. \A k \in 1 .. Depth : k # Depth => stack'[k] = stack[k]
    BY <1>10, <1>11
  <2>4. ~Holds(stack[Depth])
    BY <1>1 DEF Holds
  <2>5. \A k \in 1 .. Depth : Holds(stack'[k]) <=> Holds(stack[k])
    BY <1>3, <1>10, <2>3, <2>4
  <2>6. \A k \in 1 .. Depth' : k \in 1 .. Depth \/ k = Depth + 1
    BY <1>11
  <2>7. Holds(stack'[Depth + 1]) <=> once
    BY <1>9, <1>10
  <2>8. Depth + 1 \notin Holding
    BY <1>11, <2>1
  <2>9. \A k \in Holding : stack'[k] = stack[k]
    BY <2>1, <2>3, <2>4
  <2>10. Holding' = Holding \cup (IF once THEN {Depth + 1} ELSE {})
    BY <1>11, <2>1, <2>2, <2>5, <2>6, <2>7
  <2> QED BY <2>8, <2>9, <2>10
<1>17. timer'[s] = r /\ \A o \in Slots : o # s => timer'[o] = timer[o]
  BY <1>1, <1>2, <1>6 DEF Typed
<1>18. Owned'
  <2>1. \A o \in Slots \ {s} : timer'[o].id # 0 <=> Armed(o)
    BY <1>17 DEF Armed
  <2>2. CASE once
    <3>1. Holding' = Holding \cup {Depth + 1} /\ stack'[Depth + 1].slot = s
      BY <1>9, <1>10, <1>16, <2>2
    <3>2. timer'[s].id = 0 /\ valid' = valid \cup {s}
      BY <1>2, <1>5, <1>7, <1>17, <2>2 DEF once
    <3>3. \A k \in Holding : stack[k].slot # s
      BY <1>1, <1>2 DEF Owned
    <3> QED BY <1>1, <1>2, <1>16, <2>1, <3>1, <3>2, <3>3, Taken
  <2>3. CASE ~once
    <3>1. Holding' = Holding /\ \A k \in Holding : stack'[k].slot = stack[k].slot
      BY <1>16, <2>3
    <3>2. timer'[s].id # 0 /\ s \in valid' /\ valid' \ {s} = valid \ {s}
      BY <1>2, <1>5, <1>7, <1>17, <2>3 DEF once, Armed
    <3> QED BY <1>1, <1>2, <2>1, <3>1, <3>2, Freed
  <2> QED BY <2>2, <2>3
<1>19. Timers' /\ log' \in Seq(Entry)
  <2>1. /\ events' \in Seq(Event)
        /\ \A k \in 1 .. Len(events') : \E j \in 1 .. Len(events) : events'[k] = events[j]
    BY <1>1, <1>7 DEF Typed
  <2>2. /\ log' = Fired(timer[s].sn, timer[s].period = 0) /\ timer[s].expires <= now
        /\ r.id = IF timer[s].period = 0 THEN 0 ELSE timer[s].id
        /\ r.sn = timer[s].sn
        /\ r.expires = timer[s].expires + timer[s].period /\ r.period = timer[s].period
    BY <1>2, <1>5, <1>7 DEF once
  <2> QED BY <1>1, <1>2, <1>6, <1>7, <2>1, <2>2, FiredTimers
<1>20. Typed'
  <2>1. timer' \in [Slots -> SlotRec]
    BY <1>1, <1>2, <1>5, <1>6 DEF Typed, SlotRec
  <2> QED BY <1>1, <1>7, <1>10, <1>11, <1>19, <2>1 DEF Typed, SlotRec
<1> QED BY <1>12, <1>13, <1>14, <1>15, <1>18, <1>19, <1>20, PartsNext

-----------------------------------------------------------------------------
\* timTimerCancelEx and timTimerCancelAll

\* What evtQueueRemoveAllMatching leaves was there and has none of the ids.
LEMMA EvictedIs ==
  ASSUME Typed, NEW ids
  PROVE  /\ Evicted(ids) \in Seq(Event)
         /\ \A k \in 1 .. Len(Evicted(ids)) : \E j \in 1 .. Len(events) :
              Evicted(ids)[k] = events[j] /\ events[j].id \notin ids
<1> DEFINE N == Len(events)
           F(f, m) == f = [k \in 0 .. m |-> IF k = 0 THEN <<>>
                           ELSE IF events[k].id \in ids THEN f[k - 1]
                           ELSE Append(f[k - 1], events[k])]
           S == {m \in 0 .. N : \E f : F(f, m)}
           kept[k \in 0 .. N] ==
             IF k = 0 THEN <<>>
             ELSE IF events[k].id \in ids THEN kept[k - 1] ELSE Append(kept[k - 1], events[k])
           Left(s) == /\ s \in Seq(Event)
                      /\ \A k \in 1 .. Len(s) : \E j \in 1 .. N :
                           s[k] = events[j] /\ events[j].id \notin ids
           T == {m \in 0 .. N : Left(kept[m])}
<1>1. N \in Nat /\ \A k \in 1 .. N : events[k] \in Event
  BY EventFacts
<1>2. 0 \in S
  <2> DEFINE f == [k \in 0 .. 0 |-> <<>>]
  <2>1. \A k \in 0 .. 0 : k = 0
    OBVIOUS
  <2>2. \A k \in 0 .. 0 : f[k] =
           IF k = 0 THEN <<>> ELSE IF events[k].id \in ids THEN f[k - 1]
           ELSE Append(f[k - 1], events[k])
    BY <2>1
  <2>3. f = [k \in 0 .. 0 |-> f[k]]
    OBVIOUS
  <2> HIDE DEF f
  <2>4. F(f, 0)
    BY <2>2, <2>3
  <2> QED BY <1>1, <2>4
<1>3. ASSUME NEW m \in 0 .. (N - 1), m \in S PROVE m + 1 \in S
  <2>1. PICK f : F(f, m)
    BY <1>3
  <2> DEFINE new == IF events[m + 1].id \in ids THEN f[m] ELSE Append(f[m], events[m + 1])
             g == [k \in 0 .. (m + 1) |-> IF k = m + 1 THEN new ELSE f[k]]
  <2>2. m \in Nat /\ m + 1 \in 0 .. N
    BY <1>1
  <2>3. \A k \in 0 .. (m + 1) : g[k] =
           IF k = 0 THEN <<>> ELSE IF events[k].id \in ids THEN g[k - 1]
           ELSE Append(g[k - 1], events[k])
    <3> SUFFICES ASSUME NEW k \in 0 .. (m + 1)
                 PROVE  g[k] = IF k = 0 THEN <<>> ELSE IF events[k].id \in ids THEN g[k - 1]
                               ELSE Append(g[k - 1], events[k])
      OBVIOUS
    <3>1. CASE k = m + 1
      <4>1. g[k] = new /\ g[k - 1] = f[m] /\ k # 0
        BY <2>2, <3>1
      <4> QED BY <3>1, <4>1
    <3>2. CASE k \in 0 .. m
      <4>1. g[k] = f[k] /\ (k # 0 => k - 1 \in 0 .. m /\ g[k - 1] = f[k - 1])
        BY <2>2, <3>2
      <4>2. f[k] = IF k = 0 THEN <<>> ELSE IF events[k].id \in ids THEN f[k - 1]
                   ELSE Append(f[k - 1], events[k])
        BY <2>1, <3>2
      <4> HIDE DEF g
      <4> QED BY <4>1, <4>2
    <3> QED BY <2>2, <3>1, <3>2
  <2>4. F(g, m + 1)
    BY <2>3
  <2> QED BY <2>2, <2>4
<1>4. N \in S
  <2> HIDE DEF S, N
  <2> QED BY <1>1, <1>2, <1>3, Climb
<1>5. F(kept, N)
  <2>1. PICK f : F(f, N)
    BY <1>4
  <2> QED BY <2>1
<1> HIDE DEF kept
<1>6. 0 \in T
  BY <1>1, <1>5
<1>7. ASSUME NEW m \in 0 .. (N - 1), m \in T PROVE m + 1 \in T
  <2>1. m + 1 \in 1 .. N /\ m + 1 \in 0 .. N /\ m + 1 # 0 /\ (m + 1) - 1 = m
    BY <1>1
  <2>2. kept[m + 1] = IF events[m + 1].id \in ids THEN kept[m]
                      ELSE Append(kept[m], events[m + 1])
    BY <1>5, <2>1
  <2>3. Left(kept[m])
    BY <1>7
  <2>4. CASE events[m + 1].id \in ids
    BY <2>1, <2>2, <2>3, <2>4
  <2>5. CASE events[m + 1].id \notin ids
    <3> DEFINE s == kept[m]
               e == events[m + 1]
    <3>1. s \in Seq(Event) /\ e \in Event /\ e.id \notin ids /\ kept[m + 1] = Append(s, e)
      BY <1>1, <2>1, <2>2, <2>3, <2>5
    <3>2. \A k \in 1 .. Len(s) : \E j \in 1 .. N : s[k] = events[j] /\ events[j].id \notin ids
      BY <2>3
    <3>3. \E j \in 1 .. N : e = events[j] /\ events[j].id \notin ids
      BY <2>1, <2>5
    <3> HIDE DEF s, e, N
    <3>4. /\ Append(s, e) \in Seq(Event) /\ Len(Append(s, e)) = Len(s) + 1
          /\ Append(s, e)[Len(s) + 1] = e
          /\ \A k \in 1 .. Len(s) : Append(s, e)[k] = s[k]
          /\ \A k \in 1 .. Len(s) + 1 : k \in 1 .. Len(s) \/ k = Len(s) + 1
      BY <3>1
    <3>5. Left(Append(s, e))
      BY <3>2, <3>3, <3>4
    <3> QED BY <2>1, <3>1, <3>5
  <2> QED BY <2>4, <2>5
<1>8. N \in T
  <2> HIDE DEF T, N
  <2> QED BY <1>1, <1>6, <1>7, Climb
<1>9. Evicted(ids) = kept[N]
  BY DEF Evicted, kept
<1> QED BY <1>8, <1>9

LEMMA CancelInv ==
  ASSUME TimerInv, NEW t \in Tasks, NEW id \in Ids \ {0}, NEW pending \in BOOLEAN,
         Cancel(t, id, pending)
  PROVE  TimerInv'
<1> DEFINE end == IF pending THEN "evicted" ELSE "cancelled"
<1>1. /\ stack \in Seq(Frame) /\ Depth \in Nat \ {0} /\ Top = stack[Depth]
      /\ Typed /\ Timers /\ Owned /\ StackOK /\ ClaimsOK /\ AlarmSet
      /\ Top.at # "scan" /\ t \in Nat
  BY TopFacts, TimerAssumption, Parts DEF Typed, Cancel, Caller
<1>2. PICK s \in WithId(id) :
        /\ timer[s].tid = t
        /\ events' = IF pending THEN Evicted({id}) ELSE events
        /\ timer' = [timer EXCEPT ![s].id = 0]
        /\ log' = [log EXCEPT ![timer[s].sn].end = end]
        /\ Call([at |-> "cancelled", tid |-> t, slot |-> s, none |-> id = 0])
  BY DEF Cancel
<1>3. s \in Slots /\ timer[s].id = id /\ timer[s].id # 0
  BY <1>2 DEF WithId
<1>4. Armed(s) /\ s \in valid /\ timer[s] \in SlotRec
  BY <1>1, <1>3 DEF Armed, Owned, Typed, SlotRec
<1> DEFINE f == [at |-> "cancelled", tid |-> t, slot |-> s, none |-> id = 0]
           n == timer[s].sn
           r == [timer[s] EXCEPT !.id = 0]
<1>5. f \in Frame /\ Call(f) /\ f.at = "cancelled" /\ f.slot = s /\ Holds(f)
  <2>1. (id = 0) \in BOOLEAN
    OBVIOUS
  <2>2. f \in Frame
    BY <1>1, <1>3, <2>1, FramesAre
  <2> QED BY <1>2, <2>2 DEF Holds
<1>6. r \in SlotRec /\ r.id = 0 /\ timer' = [timer EXCEPT ![s] = r]
  <2>1. 0 \in Ids
    BY TimerAssumption DEF Ids
  <2> QED BY <1>1, <1>2, <1>3, <1>4, <2>1 DEF Typed, SlotRec
<1>7. n \in 1 .. Len(log) /\ log[n] \in Entry
  BY <1>1, <1>3, <1>4, ArmedFacts, LogFacts
<1>8. UNCHANGED <<valid, now, alarm, irqs>>
  BY DEF Cancel
<1> HIDE DEF f, r
<1>9. /\ timer'[s] = r /\ DOMAIN timer' = Slots
      /\ \A o \in Slots : o # s => timer'[o] = timer[o]
  BY <1>1, <1>3, <1>6 DEF Typed
<1>10. end \in {"cancelled", "evicted"} /\ (end = "evicted" <=> pending)
  OBVIOUS
<1>11. /\ log' \in Seq(Entry) /\ Len(log') = Len(log)
       /\ \A k \in 1 .. Len(log) :
            /\ log'[k].id = log[k].id /\ log'[k].start = log[k].start
            /\ log'[k].len = log[k].len /\ log'[k].once = log[k].once
            /\ log'[k].fired = log[k].fired
            /\ log'[k].end = IF k = n THEN end ELSE log[k].end
  <2> DEFINE e == [log[n] EXCEPT !.end = end]
  <2> HIDE DEF end
  <2>1. /\ e \in Entry /\ e.id = log[n].id /\ e.start = log[n].start /\ e.len = log[n].len
        /\ e.once = log[n].once /\ e.fired = log[n].fired /\ e.end = end
    BY <1>7, <1>10 DEF Entry
  <2>2. log' = [log EXCEPT ![n] = e]
    BY <1>1, <1>2, <1>7 DEF Typed
  <2> HIDE DEF e
  <2>3. /\ log' \in Seq(Entry) /\ Len(log') = Len(log) /\ log'[n] = e
        /\ \A k \in 1 .. Len(log) : k # n => log'[k] = log[k]
    BY <1>1, <1>7, <2>1, <2>2 DEF Typed
  <2> QED BY <2>1, <2>3
<1>12. /\ events' \in Seq(Event)
       /\ \A k \in 1 .. Len(events') : \E j \in 1 .. Len(events) :
            events'[k] = events[j] /\ (end = "evicted" => events[j].id # timer[s].id)
  <2>1. CASE pending
    <3> DEFINE ids == {timer[s].id}
    <3>1. events' = Evicted(ids)
      BY <1>2, <1>3, <2>1
    <3> HIDE DEF ids
    <3>2. /\ events' \in Seq(Event)
          /\ \A k \in 1 .. Len(events') : \E j \in 1 .. Len(events) :
               events'[k] = events[j] /\ events[j].id \notin ids
      BY <1>1, <3>1, EvictedIs
    <3> QED BY <3>2 DEF ids
  <2>2. CASE ~pending
    BY <1>1, <1>2, <1>10, <2>2 DEF Typed
  <2> QED BY <2>1, <2>2
<1> HIDE DEF end
<1>13. Timers'
  <2> DEFINE T == {s}
  <2>1. /\ \A o \in T : timer'[o].id = 0
        /\ \A o \in Slots \ T : timer'[o] = timer[o]
        /\ T \in SUBSET Slots
    BY <1>3, <1>6, <1>9
  <2>2. \A k \in 1 .. Len(log) : k = n <=> \E o \in T : Armed(o) /\ timer[o].sn = k
    BY <1>4
  <2>3. \A k \in 1 .. Len(log) :
          /\ log'[k].id = log[k].id /\ log'[k].start = log[k].start
          /\ log'[k].len = log[k].len /\ log'[k].once = log[k].once
          /\ log'[k].fired = log[k].fired
          /\ log'[k].end = IF \E o \in T : Armed(o) /\ timer[o].sn = k THEN end ELSE log[k].end
    BY <1>11, <2>2
  <2>4. \A k \in 1 .. Len(events') : \E j \in 1 .. Len(events) :
          /\ events'[k] = events[j]
          /\ end = "evicted" => \A o \in T : events[j].id # timer[o].id
    BY <1>12
  <2> HIDE DEF T
  <2>5. /\ now' = now /\ DOMAIN timer' = Slots /\ end \in {"cancelled", "evicted"}
        /\ log' \in Seq(Entry) /\ Len(log') = Len(log) /\ events' \in Seq(Event)
    BY <1>8, <1>9, <1>10, <1>11, <1>12
  <2> QED BY <1>1, <2>1, <2>3, <2>4, <2>5, DisarmedTimers
<1>14. /\ stack' \in Seq(Frame) /\ Depth' > 0
       /\ StackOK' /\ ClaimsOK' /\ ScanCovers' /\ (Alert => Alert')
       /\ Holding' = Holding \cup {Depth + 1}
       /\ Depth + 1 \notin Holding /\ stack'[Depth + 1] = f
       /\ \A k \in Holding : stack'[k] = stack[k]
  <2>1. \A o \in Slots : timer'[o].id \in {0, timer[o].id}
    BY <1>6, <1>9
  <2> QED BY <1>1, <1>5, <1>8, <2>1, CallMade
<1>15. Owned'
  <2>1. \A k \in Holding : stack[k].slot # s
    BY <1>1, <1>4 DEF Owned
  <2>2. timer'[s].id = 0 /\ valid' = valid \cup {s}
    BY <1>4, <1>6, <1>8, <1>9
  <2>3. \A o \in Slots \ {s} : timer'[o].id # 0 <=> Armed(o)
    BY <1>9 DEF Armed
  <2> QED BY <1>1, <1>3, <1>5, <1>14, <2>1, <2>2, <2>3, Taken
<1>16. AlarmSet'
  <2>1. \A o \in Slots : timer'[o].id # 0 => Armed(o) /\ timer'[o].expires = timer[o].expires
    BY <1>6, <1>9 DEF Armed
  <2> QED BY <1>1, <1>8, <1>14, <2>1, AlarmKept
<1>17. Typed'
  <2>1. timer' \in [Slots -> SlotRec]
    BY <1>1, <1>3, <1>6 DEF Typed, SlotRec
  <2> QED BY <1>1, <1>8, <1>11, <1>12, <1>14, <2>1 DEF Typed, SlotRec
<1> QED BY <1>13, <1>14, <1>15, <1>16, <1>17, PartsNext

\* Id 0 finds a slot whose timer is disabled: nothing is cancelled, and the
\* call that is to free the slot does not hold it.
LEMMA CancelZeroInv ==
  ASSUME TimerInv, NEW t \in Tasks, NEW pending \in BOOLEAN, Cancel(t, 0, pending)
  PROVE  TimerInv'
<1>1. /\ stack \in Seq(Frame) /\ Depth \in Nat \ {0} /\ Top = stack[Depth]
      /\ Typed /\ Timers /\ Owned /\ StackOK /\ ClaimsOK /\ AlarmSet
      /\ Top.at # "scan" /\ t \in Nat
  BY TopFacts, TimerAssumption, Parts DEF Typed, Cancel, Caller
<1>2. PICK s \in WithId(0) :
        /\ events' = IF pending THEN Evicted({0}) ELSE events
        /\ timer' = [timer EXCEPT ![s].id = 0]
        /\ log' = log
        /\ Call([at |-> "cancelled", tid |-> t, slot |-> s, none |-> TRUE])
  <2>1. (0 = 0) = TRUE
    OBVIOUS
  <2> QED BY <2>1 DEF Cancel
<1>3. s \in Slots /\ timer[s].id = 0
  BY <1>2 DEF WithId
<1>4. timer' = timer
  <2>1. [timer[s] EXCEPT !.id = 0] = timer[s]
    <3>1. timer[s] \in SlotRec
      BY <1>1, <1>3 DEF Typed, SlotRec
    <3> QED BY <1>3, <3>1 DEF SlotRec
  <2> QED BY <1>1, <1>2, <1>3, <2>1 DEF Typed
<1>5. UNCHANGED <<valid, now, alarm, irqs>>
  BY DEF Cancel
<1>6. /\ events' \in Seq(Event)
      /\ \A k \in 1 .. Len(events') : \E j \in 1 .. Len(events) : events'[k] = events[j]
  <2>1. CASE pending
    <3> DEFINE ids == {0}
    <3>1. events' = Evicted(ids)
      BY <1>2, <2>1
    <3> HIDE DEF ids
    <3> QED BY <1>1, <3>1, EvictedIs
  <2>2. CASE ~pending
    BY <1>1, <1>2, <2>2 DEF Typed
  <2> QED BY <2>1, <2>2
<1> DEFINE f == [at |-> "cancelled", tid |-> t, slot |-> s, none |-> TRUE]
<1>7. f \in Frame /\ Call(f) /\ f.at = "cancelled" /\ ~Holds(f)
  BY <1>1, <1>2, <1>3, FramesAre DEF Holds
<1> HIDE DEF f
<1>8. /\ stack' \in Seq(Frame) /\ Depth' > 0
      /\ StackOK' /\ ClaimsOK' /\ ScanCovers' /\ (Alert => Alert')
      /\ Holding' = Holding /\ \A k \in Holding : stack'[k] = stack[k]
  <2>1. \A o \in Slots : timer'[o].id \in {0, timer[o].id}
    BY <1>4
  <2> QED BY <1>1, <1>5, <1>7, <2>1, CallMade
<1>9. Owned'
  BY <1>1, <1>4, <1>5, <1>8 DEF Owned, Armed
<1>10. Timers'
  <2> DEFINE T == {s}
  <2>1. /\ \A o \in T : timer'[o].id = 0
        /\ \A o \in Slots \ T : timer'[o] = timer[o]
        /\ T \in SUBSET Slots
    BY <1>3, <1>4
  <2>2. \A k \in 1 .. Len(log) : ~\E o \in T : Armed(o) /\ timer[o].sn = k
    BY <1>3 DEF Armed
  <2> HIDE DEF T
  <2>3. PICK end : end = "cancelled"
    OBVIOUS
  <2>4. \A k \in 1 .. Len(log) :
          /\ log'[k].id = log[k].id /\ log'[k].start = log[k].start
          /\ log'[k].len = log[k].len /\ log'[k].once = log[k].once
          /\ log'[k].fired = log[k].fired
          /\ log'[k].end = IF \E o \in T : Armed(o) /\ timer[o].sn = k THEN end ELSE log[k].end
    BY <1>2, <2>2
  <2>5. \A k \in 1 .. Len(events') : \E j \in 1 .. Len(events) :
          /\ events'[k] = events[j]
          /\ end = "evicted" => \A o \in T : events[j].id # timer[o].id
    BY <1>6, <2>3
  <2>6. /\ now' = now /\ DOMAIN timer' = Slots /\ end \in {"cancelled", "evicted"}
        /\ log' \in Seq(Entry) /\ Len(log') = Len(log) /\ events' \in Seq(Event)
    BY <1>1, <1>2, <1>4, <1>5, <1>6, <2>3 DEF Typed
  <2> QED BY <1>1, <2>1, <2>4, <2>5, <2>6, DisarmedTimers
<1>11. AlarmSet'
  <2>1. \A o \in Slots : timer'[o].id # 0 => Armed(o) /\ timer'[o].expires = timer[o].expires
    BY <1>4 DEF Armed
  <2> QED BY <1>1, <1>5, <1>8, <2>1, AlarmKept
<1>12. Typed'
  BY <1>1, <1>2, <1>4, <1>5, <1>6, <1>8 DEF Typed
<1> QED BY <1>8, <1>9, <1>10, <1>11, <1>12, PartsNext

\* From the main loop, where no call is under way that holds a slot.
LEMMA CancelAllInv ==
  ASSUME TimerInv, NEW t \in Tasks, CancelAll(t)
  PROVE  TimerInv'
<1> DEFINE its == {s \in Slots : timer[s].tid = t}
           gone == {timer[s].sn : s \in {r \in its : Armed(r)}}
           ids == {timer[s].id : s \in its}
<1>1. /\ stack \in Seq(Frame) /\ Depth \in Nat \ {0} /\ Top = stack[Depth]
      /\ Typed /\ Timers /\ Owned /\ StackOK /\ ClaimsOK /\ AlarmSet
      /\ Top.at = "main"
  BY TopFacts, Parts DEF Typed, CancelAll
<1>2. /\ events' = Evicted(ids)
      /\ timer' = [s \in Slots |-> IF s \in its THEN [timer[s] EXCEPT !.id = 0] ELSE timer[s]]
      /\ valid' = valid \ its
      /\ log' = [n \in DOMAIN log |->
           IF n \in gone THEN [log[n] EXCEPT !.end = "evicted"] ELSE log[n]]
      /\ UNCHANGED <<now, alarm, stack, irqs>>
  BY DEF CancelAll
<1>3. \A s \in Slots : timer[s] \in SlotRec
  BY <1>1 DEF Typed, SlotRec
<1>4. /\ timer' \in [Slots -> SlotRec] /\ \A s \in its : timer'[s].id = 0
      /\ \A s \in Slots \ its : timer'[s] = timer[s]
  <2>1. \A x \in SlotRec : [x EXCEPT !.id = 0] \in SlotRec /\ [x EXCEPT !.id = 0].id = 0
    BY TimerAssumption DEF SlotRec, Ids
  <2>2. \A s \in Slots :
          timer'[s] = IF s \in its THEN [timer[s] EXCEPT !.id = 0] ELSE timer[s]
    BY <1>2
  <2>3. its \subseteq Slots /\ DOMAIN timer' = Slots
    BY <1>2
  <2>4. timer' = [s \in Slots |-> timer'[s]]
    BY <1>2
  <2> HIDE DEF its
  <2>5. \A s \in Slots : timer'[s] \in SlotRec
    BY <1>3, <2>1, <2>2
  <2>6. timer' \in [Slots -> SlotRec]
    BY <2>4, <2>5
  <2> QED BY <1>3, <2>1, <2>2, <2>3, <2>6
<1>5. /\ events' \in Seq(Event)
      /\ \A k \in 1 .. Len(events') : \E j \in 1 .. Len(events) :
           events'[k] = events[j] /\ events[j].id \notin ids
  <2> HIDE DEF ids
  <2> QED BY <1>1, <1>2, EvictedIs
<1>6. /\ log' \in Seq(Entry) /\ Len(log') = Len(log)
      /\ \A n \in 1 .. Len(log) :
           /\ log'[n].id = log[n].id /\ log'[n].start = log[n].start
           /\ log'[n].len = log[n].len /\ log'[n].once = log[n].once
           /\ log'[n].fired = log[n].fired
           /\ log'[n].end = IF n \in gone THEN "evicted" ELSE log[n].end
  <2> HIDE DEF gone
  <2>1. DOMAIN log = 1 .. Len(log) /\ Len(log) \in Nat /\ \A n \in 1 .. Len(log) : log[n] \in Entry
    BY <1>1, LogFacts
  <2>2. \A e \in Entry : LET d == [e EXCEPT !.end = "evicted"]
                         IN  /\ d \in Entry /\ d.id = e.id /\ d.start = e.start
                             /\ d.len = e.len /\ d.once = e.once /\ d.fired = e.fired
                             /\ d.end = "evicted"
    BY DEF Entry
  <2>3. log' = [n \in 1 .. Len(log) |->
           IF n \in gone THEN [log[n] EXCEPT !.end = "evicted"] ELSE log[n]]
    BY <1>2, <2>1
  <2>4. \A n \in 1 .. Len(log) :
          log'[n] = IF n \in gone THEN [log[n] EXCEPT !.end = "evicted"] ELSE log[n]
    BY <2>3
  <2>5. \A n \in 1 .. Len(log) : log'[n] \in Entry
    BY <2>1, <2>2, <2>4
  <2>6. log' \in Seq(Entry) /\ Len(log') = Len(log)
    <3>1. DOMAIN log' = 1 .. Len(log) /\ log' = [n \in 1 .. Len(log) |-> log'[n]]
      BY <2>3
    <3> QED BY <2>1, <2>5, <3>1
  <2>7. ASSUME NEW n \in 1 .. Len(log)
        PROVE  /\ log'[n].id = log[n].id /\ log'[n].start = log[n].start
               /\ log'[n].len = log[n].len /\ log'[n].once = log[n].once
               /\ log'[n].fired = log[n].fired
               /\ log'[n].end = IF n \in gone THEN "evicted" ELSE log[n].end
    <3>1. log[n] \in Entry /\ log'[n] = IF n \in gone
            THEN [log[n] EXCEPT !.end = "evicted"] ELSE log[n]
      BY <2>1, <2>4
    <3> QED BY <2>2, <3>1
  <2> QED BY <2>6, <2>7
<1>7. Timers'
  <2>1. its \in SUBSET Slots /\ DOMAIN timer' = Slots
    BY <1>4
  <2>2. \A n \in 1 .. Len(log) : n \in gone <=> \E s \in its : Armed(s) /\ timer[s].sn = n
    OBVIOUS
  <2>a. PICK end : end = "evicted"
    OBVIOUS
  <2>3. \A n \in 1 .. Len(log) :
          /\ log'[n].id = log[n].id /\ log'[n].start = log[n].start
          /\ log'[n].len = log[n].len /\ log'[n].once = log[n].once
          /\ log'[n].fired = log[n].fired
          /\ log'[n].end = IF \E s \in its : Armed(s) /\ timer[s].sn = n THEN end ELSE log[n].end
    BY <1>6, <2>a, <2>2
  <2>4. \A k \in 1 .. Len(events') : \E j \in 1 .. Len(events) :
          /\ events'[k] = events[j]
          /\ end = "evicted" => \A s \in its : events[j].id # timer[s].id
    BY <1>5
  <2>5. /\ now' = now /\ DOMAIN timer' = Slots /\ end \in {"cancelled", "evicted"}
        /\ log' \in Seq(Entry) /\ Len(log') = Len(log) /\ events' \in Seq(Event)
        /\ \A s \in its : timer'[s].id = 0
        /\ \A s \in Slots \ its : timer'[s] = timer[s]
    BY <1>2, <1>4, <1>5, <1>6, <2>a, <2>1
  <2> HIDE DEF its, gone, ids
  <2> QED BY <1>1, <2>1, <2>3, <2>4, <2>5, DisarmedTimers
<1>8. Holding = {} /\ Holding' = {}
  <2>1. Depth = 1 /\ \A k \in 1 .. Depth : stack[k].at = "main"
    BY <1>1 DEF StackOK
  <2>2. Holding = {}
    BY <1>1, <2>1, HoldingIs DEF Holds
  <2> QED BY <1>2, <2>2 DEF Holding
<1>9. Owned'
  <2>1. valid = {s \in Slots : Armed(s)}
    BY <1>1, <1>8 DEF Owned
  <2>2. \A s \in Slots : timer'[s].id # 0 <=> s \in valid /\ s \notin its
    BY <1>4, <2>1 DEF Armed
  <2>3. valid' = {s \in Slots : timer'[s].id # 0}
    BY <1>2, <2>1, <2>2
  <2> QED BY <1>8, <2>3 DEF Owned, Armed
<1>10. StackOK' /\ ClaimsOK' /\ Depth' = Depth
  <2>1. StackOK' /\ Depth' = Depth /\ stack' = stack
    BY <1>1, <1>2 DEF StackOK, Depth
  <2>2. \A s \in Slots : timer'[s].id \in {0, timer[s].id}
    BY <1>4
  <2>3. now' \in Nat /\ now <= now'
    BY <1>1, <1>2 DEF Typed
  <2> QED BY <1>1, <2>1, <2>2, <2>3, ClaimsKept
<1>11. ScanCovers'
  BY <1>1, <1>2 DEF ScanCovers, Top
<1>12. AlarmSet'
  <2>1. \A o \in Slots : timer'[o].id # 0 => Armed(o) /\ timer'[o].expires = timer[o].expires
    BY <1>4 DEF Armed
  <2>2. Alert' <=> Alert
    BY <1>2 DEF Alert, Depth
  <2> QED BY <1>1, <1>2, <2>1, <2>2, AlarmKept
<1>13. Typed'
  BY <1>1, <1>2, <1>4, <1>5, <1>6, <1>10 DEF Typed, SlotRec
<1> QED BY <1>7, <1>9, <1>10, <1>11, <1>12, <1>13, PartsNext

-----------------------------------------------------------------------------
\* The invariant is one.

LEMMA InitInv ==
  ASSUME Init
  PROVE  TimerInv
<1>1. /\ stack = <<[at |-> "main"]>> /\ Depth = 1 /\ stack[1].at = "main" /\ events = <<>>
      /\ log = <<>> /\ valid = {} /\ now = 0 /\ alarm = 0
  BY DEF Init, Depth
<1>2. timer \in [Slots -> [id : Ids, expires : Nat, period : Nat, tid : Nat,
                           call : BOOLEAN, sn : Nat]]
  BY TimerAssumption DEF Init, Ids
<1>3. stack \in Seq(Frame)
  <2>1. [at |-> "main"] \in Frame
    BY FramesAre
  <2> QED BY <1>1, <2>1
<1>4. Typed
  BY <1>1, <1>2, <1>3, TimerAssumption DEF Typed, Ids
<1>5. \A s \in Slots : ~Armed(s)
  BY DEF Init, Armed
<1>6. Holding = {}
  BY <1>1, <1>3, HoldingIs DEF Holds
<1>7. Owned
  BY <1>1, <1>5, <1>6 DEF Owned
<1>8. Timers
  BY <1>1, <1>5 DEF Timers, Registered, Named, Scheduled, Started, OnTime, EventsNamed,
                    NoneAfterCancel
<1>9. StackOK /\ ClaimsOK
  BY <1>1 DEF StackOK, ClaimsOK, ClaimsTimed, DrawnApart
<1>10. ScanCovers
  BY <1>1, <1>4, TopFacts DEF Typed, ScanCovers
<1>11. AlarmSet
  BY <1>3, <1>5, AlarmSetIs DEF Covered
<1> QED BY <1>4, <1>7, <1>8, <1>9, <1>10, <1>11, Parts

LEMMA StutterInv ==
  ASSUME TimerInv, UNCHANGED vars
  PROVE  TimerInv'
<1>1. /\ stack \in Seq(Frame) /\ Depth \in Nat \ {0} /\ stack' = stack
      /\ now' = now /\ now \in Nat
  BY DEF TimerInv, Typed, vars, Depth
<1>2. StackOK' /\ ScanCovers' /\ Keeps(Depth) /\ Depth' = Depth
  BY <1>1 DEF vars, TimerInv, StackOK, ScanCovers, Keeps, Top, Armed, Depth
<1> QED BY <1>1, <1>2, NoScan DEF vars

\* Once the module is upset it stays so.
LEMMA Sticky ==
  ASSUME upset, [Next]_vars
  PROVE  upset'
<1>1. CASE \E ask \in Asks : SetStart(ask[1], ask[2], ask[3])
  BY <1>1 DEF SetStart
<1>2. CASE \E t \in Tasks, id \in Ids, pending \in BOOLEAN : Cancel(t, id, pending)
  BY <1>2 DEF Cancel
<1>3. CASE \E t \in Tasks : CancelAll(t)
  BY <1>3 DEF CancelAll
<1>4. CASE \E t \in Tasks \cup {SystemTid} : Interrupt(t)
  BY <1>4 DEF Interrupt
<1>5. CASE Run
  BY <1>5 DEF Run, Draw, SetWrite, ScanOfSet, Pass, NotYet, Notice, FireEvent, Posted,
     FireCall, CallbackReturn, ScanAgain, ScanEnd, CancelFree, Handle, Idle, WakeByAlarm,
     Wake, HandlerReturn
<1>6. CASE PostEvent \/ Reopen \/ WakeByIrq \/ TimIntHandler \/ Tick
  BY <1>6 DEF PostEvent, Reopen, WakeByIrq, Wake, TimIntHandler, Tick
<1>7. CASE UNCHANGED vars
  BY <1>7 DEF vars
<1> QED BY <1>1, <1>2, <1>3, <1>4, <1>5, <1>6, <1>7 DEF Next

\* A scan that keeps its protection takes none of the steps of one that lost it.
LEMMA Protected ==
  ASSUME TimerInv
  PROVE  ~Notice /\ ~Posted
<1>1. Top \in Frame
  BY TopFacts DEF TimerInv, Typed
<1>2. Top.at # "posting"
  BY <1>1, FrameKinds
<1>3. Top.at = "scan" => ~Top.open
  BY <1>1, FrameKinds DEF Open
<1> QED BY <1>2, <1>3 DEF Notice, Posted, Scanning

LEMMA StepInv ==
  ASSUME upset \/ TimerInv, [Next]_vars
  PROVE  upset' \/ TimerInv'
<1> SUFFICES ASSUME TimerInv PROVE upset' \/ TimerInv'
  BY Sticky
<1>1. CASE \E ask \in Asks : SetStart(ask[1], ask[2], ask[3])
  <2>1. PICK ask \in Asks : SetStart(ask[1], ask[2], ask[3])
    BY <1>1
  <2>2. ask[1] \in Tasks /\ ask[2] \in Nat \ {0} /\ ask[3] \in BOOLEAN
    BY TimerAssumption
  <2> QED BY <2>1, <2>2, SetStartInv
<1>2. CASE \E t \in Tasks, id \in Ids, pending \in BOOLEAN : Cancel(t, id, pending)
  <2>1. PICK t \in Tasks, id \in Ids, pending \in BOOLEAN : Cancel(t, id, pending)
    BY <1>2
  <2>2. CASE id = 0
    BY <2>1, <2>2, CancelZeroInv
  <2>3. CASE id \in Ids \ {0}
    BY <2>1, <2>3, CancelInv
  <2> QED BY <2>2, <2>3
<1>3. CASE \E t \in Tasks : CancelAll(t)
  BY <1>3, CancelAllInv
<1>4. CASE \E t \in Tasks \cup {SystemTid} : Interrupt(t)
  BY <1>4, InterruptInv
<1>5. CASE Run
  BY <1>5, DrawInv, SetWriteInv, ScanOfSetInv, PassInv, NotYetInv, FireEventInv, FireCallInv,
     CallbackReturnInv, ScanAgainInv, ScanEndInv, CancelFreeInv, HandleInv, IdleInv,
     WakeInv, HandlerReturnInv, Protected DEF Run, WakeByAlarm
<1>6. CASE PostEvent \/ Reopen
  BY <1>6 DEF PostEvent, Reopen
<1>7. CASE WakeByIrq \/ TimIntHandler \/ Tick
  BY <1>7, WakeInv, TimIntHandlerInv, TickInv DEF WakeByIrq
<1>8. CASE UNCHANGED vars
  BY <1>8, StutterInv
<1> QED BY <1>1, <1>2, <1>3, <1>4, <1>5, <1>6, <1>7, <1>8 DEF Next

LEMMA Always == Spec => [](upset \/ TimerInv)
  BY InitInv, StepInv, PTL DEF Spec

\* No slot is lost, none has two owners and no id is in use twice, whatever
\* timers are set and cancelled while others fire, in callbacks and in
\* interrupts, until a scan loses its protection or the cancellation of id 0
\* frees a slot in use (os/core/timer.c, mTimersValid and the ids in mTimers).
THEOREM SlotsAreAccounted == Spec => []SlotsAccounted
<1>1. upset \/ TimerInv => SlotsAccounted
  BY DEF TimerInv, SlotsAccounted
<1> QED BY <1>1, Always, PTL

\* A timer never fires early or more often than the time that went by allows,
\* and one that fires once does so at most once, until a scan loses its
\* protection or the cancellation of id 0 frees a slot in use
\* (timFireAsNeededAndUpdateAlarms).
THEOREM TimersArePunctual == Spec => []Punctual
<1>1. upset \/ TimerInv => Punctual
  BY DEF TimerInv, Punctual
<1> QED BY <1>1, Always, PTL

\* A task that has cancelled a timer of its own with its events, or that has
\* ended, sees none of them any more (timTimerCancelEx, timTimerCancelAll),
\* until a scan loses its protection or the cancellation of id 0 frees a slot.
THEOREM NoEventAfterCancel == Spec => [](upset \/ NoneAfterCancel)
<1>1. upset \/ TimerInv => upset \/ NoneAfterCancel
  BY DEF TimerInv
<1> QED BY <1>1, Always, PTL

\* When the CPU neither scans the timers nor is about to, also when it sleeps,
\* the platform has been asked to wake it for the first that is due
\* (platSleepClockRequest), until a scan loses its protection or the
\* cancellation of id 0 frees a slot in use.
THEOREM AlarmIsInTime == Spec => [](upset \/ AlarmCovers)
<1>1. TimerInv /\ Top.at = "asleep" => Quiet
  <2> SUFFICES ASSUME TimerInv, Top.at = "asleep" PROVE Quiet
    OBVIOUS
  <2>1. stack \in Seq(Frame) /\ Depth \in Nat \ {0} /\ Top = stack[Depth]
        /\ DOMAIN stack = 1 .. Depth
    BY TopFacts DEF TimerInv, Typed
  <2>2. Depth = 2 /\ stack[1].at = "main" /\ stack[2].at = "asleep"
    BY <2>1 DEF TimerInv, StackOK
  <2> QED BY <2>1, <2>2 DEF Quiet, Frames
<1>2. upset \/ TimerInv => upset \/ AlarmCovers
  BY <1>1 DEF TimerInv, AlarmSet, AlarmCovers
<1> QED BY <1>2, Always, PTL
=============================================================================
