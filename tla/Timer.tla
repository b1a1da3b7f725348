------------------------------- MODULE Timer -------------------------------
(***************************************************************************)
(* The software timers of SEOS, os/core/timer.c, with the main loop that   *)
(* fires them when its queue is empty (os/core/eventQ.c, evtQueueDequeue). *)
(*                                                                         *)
(* There is one CPU.  `stack' holds what it runs, the innermost last: the  *)
(* main loop at the bottom, at most one interrupt handler, and the calls   *)
(* into timer.c each of them makes.  A scan of the timers turns interrupts *)
(* off; a timer's callback runs inside the scan and may set and cancel     *)
(* timers, so that scans nest.  A timer with a callback belongs to a       *)
(* driver, one without posts a private EVT_APP_TIMER event to its task.    *)
(* Only the clock of timGetTime is modelled (useRtc is FALSE).             *)
(*                                                                         *)
(* Two things upset the module, and `upset' says whether they have come to *)
(* pass.  A scan does not stay undisturbed when a callback, or the discard *)
(* of a queued event to make room for a timer's, calls the heap: heapAlloc *)
(* and heapFree turn interrupts on again, whatever they were.  And a       *)
(* client that cancels id 0 frees a slot that may be another's by then.    *)
(***************************************************************************)
EXTENDS Naturals, Sequences, FiniteSets, SequencesExt

CONSTANTS
  NumSlots,   \* MAX_TIMERS
  MaxId,      \* MAX_TIMER_ID, 0xFF in the code
  Tasks,      \* the tids that set timers
  Apps,       \* those of apps: their timers post events, drivers' call back
  Asks,       \* who asks for what: a tid, a length and whether to fire once
  EvtCap,     \* room for timer events in the queue and in mInternalEvents
  MaxTime,    \* bound of the clock
  MaxSets,    \* bound on timers set
  MaxIrqs     \* bound on interrupts

ASSUME TimerAssumption ==
  /\ NumSlots \in Nat \ {0}
  /\ MaxId \in Nat
  /\ Tasks \subseteq Nat /\ Apps \subseteq Tasks
  /\ Asks \subseteq Tasks \X (Nat \ {0}) \X BOOLEAN
  /\ EvtCap \in Nat /\ MaxTime \in Nat /\ MaxSets \in Nat /\ MaxIrqs \in Nat

VARIABLES
  timer,    \* mTimers: id (0 disabled), expires, period, tid, call; sn is history
  valid,    \* mTimersValid: the slots whose bit is set
  now,      \* platGetTicks()
  alarm,    \* mWakeupTime of the platform, 0 for none
  events,   \* the EVT_APP_TIMER events in the queue
  stack,    \* the calls the CPU is in
  irqs,     \* interrupts taken so far
  log,      \* history: one entry for each timer set, in that order
  upset     \* history: a scan lost its protection, or a slot its owner

vars == <<timer, valid, now, alarm, events, stack, irqs, log, upset>>

SystemTid == 0    \* OS_SYSTEM_TID

Slots == 1 .. NumSlots
Ids == 0 .. MaxId
Serials == 1 .. MaxSets

Armed(s) == timer[s].id # 0

-----------------------------------------------------------------------------
\* The stack.

Top == Last(stack)
Depth == Len(stack)
Frames == {stack[k] : k \in DOMAIN stack}

Call(f) == stack' = Append(stack, f)
Return == stack' = Front(stack)
Become(f) == stack' = [stack EXCEPT ![Depth] = f]

\* The calls that have turned interrupts off: scans, and the idle loop.
Section(f) == f.at \in {"scan", "due", "idle", "asleep", "woken"}

\* A scan whose section a call of the heap has ended.
Open(f) == f.at \in {"scan", "due"} /\ f.open

\* Each section puts back the state it found, so that the innermost decides.
IntsOff ==
  \E k \in DOMAIN stack :
    /\ Section(stack[k]) /\ ~Open(stack[k])
    /\ \A j \in DOMAIN stack : Section(stack[j]) => j <= k

\* Code that may call timer.c: a task in the main loop, a handler, a callback.
Caller == Top.at \in {"main", "handler", "callback"}

\* osGetCurrentTid(): the main loop runs whatever task it has events for, a
\* scan leaves the tid of the last timer it fired.
CurrentTids == IF Top.at = "main" THEN Tasks ELSE {Top.tid}

\* The caller is an app and not driver code that happens to have its tid.
AppRuns(t) == Top.at = "main" /\ t \in Apps

NewScan(t, any) ==
  [at |-> "scan", tid |-> t, i |-> 1, done |-> FALSE, any |-> any, next |-> 0, open |-> FALSE]

Init ==
  /\ timer = [s \in Slots |->
       [id |-> 0, expires |-> 0, period |-> 0, tid |-> 0, call |-> FALSE, sn |-> 0]]
  /\ valid = {}
  /\ now = 0
  /\ alarm = 0
  /\ events = <<>>
  /\ stack = <<[at |-> "main"]>>
  /\ irqs = 0
  /\ log = <<>>
  /\ upset = FALSE

-----------------------------------------------------------------------------
\* timTimerSetEx

\* atomicBitsetFindClearAndSet: the highest clear bit.
FreeSlot == CHOOSE s \in Slots \ valid : \A o \in Slots \ valid : o <= s

Claimed == {k \in DOMAIN stack : stack[k].at \in {"claimed", "drawn"}}

\* The clock is read, then a slot is claimed; none free: 0 is returned.
\* Apps set theirs through the syscalls of osApi.c and nanohub_chre.c.
SetStart(t, len, once) ==
  /\ Caller /\ t \in CurrentTids
  /\ Len(log) + Cardinality(Claimed) < MaxSets
  /\ valid # Slots
  /\ valid' = valid \cup {FreeSlot}
  /\ Call([at |-> "claimed", tid |-> t, slot |-> FreeSlot, expires |-> now + len, id |-> 0,
           period |-> IF once THEN 0 ELSE len, call |-> ~AppRuns(t), start |-> now, len |-> len])
  /\ UNCHANGED <<timer, now, alarm, events, irqs, log, upset>>

\* Ids drawn by calls that were preempted before they stored them: the code
\* does not look at these, the counter comes to them again only after
\* MAX_TIMER_ID more draws within one preemption (a bound).
Drawn == {stack[k].id : k \in {j \in DOMAIN stack : stack[j].at = "drawn"}}

Fresh(id) == id # 0 /\ (\A s \in Slots : timer[s].id # id) /\ id \notin Drawn

\* mNextTimerId is drawn from until its value is neither 0 nor in use.  Timers
\* that were set and are gone, and have no entry in the log, move it on: an id
\* may come again at any time, also while an event that names it is queued.
\* Ids are numbered in the order in which they first appear.
Draw ==
  /\ Top.at = "claimed"
  /\ \E id \in 1 .. MaxId :
       /\ Fresh(id)
       /\ \A j \in 1 .. (id - 1) : j \in Drawn \/ \E n \in DOMAIN log : log[n].id = j
       /\ Become([Top EXCEPT !.at = "drawn", !.id = id])
  /\ UNCHANGED <<timer, valid, now, alarm, events, irqs, log, upset>>

\* The structure is filled in, its id last: from here on it may fire.
SetWrite ==
  /\ Top.at = "drawn"
  /\ timer' = [timer EXCEPT ![Top.slot] =
       [id |-> Top.id, expires |-> Top.expires, period |-> Top.period,
        tid |-> Top.tid, call |-> Top.call, sn |-> Len(log) + 1]]
  /\ log' = Append(log, [id |-> Top.id, start |-> Top.start, len |-> Top.len,
                         once |-> Top.period = 0, fired |-> 0, end |-> "armed"])
  /\ Become([at |-> "written", tid |-> Top.tid])
  /\ UNCHANGED <<valid, now, alarm, events, irqs, upset>>

-----------------------------------------------------------------------------
\* timFireAsNeededAndUpdateAlarms

\* Interrupts go off and the scan starts; when it ends timTimerSetEx returns.
ScanOfSet ==
  /\ Top.at = "written"
  /\ Become(NewScan(Top.tid, FALSE))
  /\ UNCHANGED <<timer, valid, now, alarm, events, irqs, log, upset>>

Scanning == Top.at = "scan" /\ Top.i <= NumSlots
Cur == timer[Top.i]
Due == Armed(Top.i) /\ Cur.expires <= now

Pass ==
  /\ Scanning /\ ~Armed(Top.i)
  /\ Become([Top EXCEPT !.i = @ + 1])
  /\ UNCHANGED <<timer, valid, now, alarm, events, irqs, log, upset>>

NotYet ==
  /\ Scanning /\ Armed(Top.i) /\ Cur.expires > now
  /\ Become([Top EXCEPT !.i = @ + 1,
       !.next = IF @ = 0 \/ @ > Cur.expires THEN Cur.expires ELSE @])
  /\ UNCHANGED <<timer, valid, now, alarm, events, irqs, log, upset>>

Fired(sn, once) ==
  [log EXCEPT ![sn].fired = @ + 1, ![sn].end = IF once THEN "fired" ELSE @]

\* With interrupts on, handlers run between the look at a timer and its firing.
Notice ==
  /\ Scanning /\ Due /\ Top.open
  /\ Become([Top EXCEPT !.at = "due"])
  /\ UNCHANGED <<timer, valid, now, alarm, events, irqs, log, upset>>

Firing == (Scanning /\ Due /\ ~Top.open) \/ Top.at = "due"

\* The scan when it has fired, with the tid that is current from then on.
Onward(t) == [Top EXCEPT !.at = "scan", !.tid = t, !.i = @ + 1, !.done = TRUE]

Enqueued(id, sn) ==
  IF Len(events) < EvtCap THEN Append(events, [id |-> id, sn |-> sn]) ELSE events

\* An event that finds no room is dropped; a timer that fires once is freed.
FireEvent ==
  /\ Scanning /\ Due /\ ~Top.open /\ ~Cur.call
  /\ events' = Enqueued(Cur.id, Cur.sn)
  /\ IF Cur.period > 0
     THEN /\ timer' = [timer EXCEPT ![Top.i].expires = @ + Cur.period]
          /\ UNCHANGED valid
     ELSE /\ timer' = [timer EXCEPT ![Top.i].id = 0]
          /\ valid' = valid \ {Top.i}
  /\ log' = Fired(Cur.sn, Cur.period = 0)
  /\ Become(Onward(SystemTid))
  /\ UNCHANGED <<now, alarm, irqs, upset>>

\* The queue is full, and an event is discarded whose memory is heapFree'd; or
\* interrupts are on already.  The timer's id stays until its event is posted.
PostEvent ==
  /\ Firing /\ ~Cur.call
  /\ timer' = [timer EXCEPT ![Top.i].expires = @ + Cur.period]
  /\ log' = Fired(Cur.sn, Cur.period = 0)
  /\ stack' = Append([stack EXCEPT ![Depth] = [Onward(SystemTid) EXCEPT !.open = TRUE]],
       [at |-> "posting", tid |-> SystemTid, slot |-> Top.i, once |-> Cur.period = 0,
        id |-> Cur.id, sn |-> Cur.sn])
  /\ upset' = TRUE
  /\ UNCHANGED <<valid, now, alarm, events, irqs>>

Posted ==
  /\ Top.at = "posting"
  /\ events' = Enqueued(Top.id, Top.sn)
  /\ Become([Top EXCEPT !.at = "posted"])
  /\ UNCHANGED <<timer, valid, now, alarm, irqs, log, upset>>

\* Mutant of FireCall: the id is left for the scan to clear after the callback.
FireCallArmed ==
  /\ Firing /\ Cur.call
  /\ timer' = [timer EXCEPT ![Top.i].expires = @ + Cur.period]
  /\ log' = Fired(Cur.sn, Cur.period = 0)
  /\ stack' = Append([stack EXCEPT ![Depth] = Onward(Cur.tid)],
       [at |-> "callback", tid |-> Cur.tid, slot |-> Top.i, once |-> Cur.period = 0])
  /\ UNCHANGED <<valid, now, alarm, events, irqs, upset>>

\* A callback sees a timer that fires once already disabled, its slot not free.
FireCall ==
  /\ Firing /\ Cur.call
  /\ timer' = [timer EXCEPT
       ![Top.i].id = IF Cur.period = 0 THEN 0 ELSE @,
       ![Top.i].expires = @ + Cur.period]
  /\ log' = Fired(Cur.sn, Cur.period = 0)
  /\ stack' = Append([stack EXCEPT ![Depth] = Onward(Cur.tid)],
       [at |-> "callback", tid |-> Cur.tid, slot |-> Top.i, once |-> Cur.period = 0])
  /\ UNCHANGED <<valid, now, alarm, events, irqs, upset>>

\* A callback frees or allocates memory: the section of its scan is over.
Reopen ==
  /\ Top.at = "callback"
  /\ ~stack[Depth - 1].open
  /\ stack' = [stack EXCEPT ![Depth - 1].open = TRUE]
  /\ upset' = TRUE
  /\ UNCHANGED <<timer, valid, now, alarm, events, irqs, log>>

\* Mutant of CallbackReturn: a slot is freed only by a cancellation.
CallbackReturnKeep ==
  /\ Top.at \in {"callback", "posted"}
  /\ Return
  /\ UNCHANGED <<timer, valid, now, alarm, events, irqs, log, upset>>

CallbackReturn ==
  /\ Top.at \in {"callback", "posted"}
  /\ IF Top.once
     THEN /\ timer' = [timer EXCEPT ![Top.slot].id = 0]
          /\ valid' = valid \ {Top.slot}
     ELSE UNCHANGED <<timer, valid>>
  /\ Return
  /\ UNCHANGED <<now, alarm, events, irqs, log, upset>>

Scanned == Top.at = "scan" /\ Top.i > NumSlots

\* Mutant of Another: what callbacks set in a slot already passed is not seen.
AnotherIfDue == Top.next # 0 /\ now >= Top.next

\* Again while something was done, or the next timer is due by now.
Another == Top.done \/ (Top.next # 0 /\ now >= Top.next)

ScanAgain ==
  /\ Scanned /\ Another
  /\ Become([NewScan(Top.tid, Top.any \/ Top.done) EXCEPT !.open = Top.open])
  /\ UNCHANGED <<timer, valid, now, alarm, events, irqs, log, upset>>

\* Mutant of NextWake: the request for no alarm is made in any case.
NextWakeNone == 0

\* platSleepClockRequest: the platform is told when to wake.
NextWake == Top.next

\* The idle loop sleeps if nothing fired.
ScanEnd ==
  /\ Scanned /\ ~Another
  /\ alarm' = NextWake
  /\ LET below == stack[Depth - 1].at
     IN stack' = CASE below = "idle" /\ ~Top.any ->
                        Append(SubSeq(stack, 1, Depth - 2), [at |-> "asleep"])
                   [] below = "woken" \/ (below = "idle" /\ Top.any) ->
                        SubSeq(stack, 1, Depth - 2)
                   [] OTHER -> Front(stack)
  /\ UNCHANGED <<timer, valid, now, events, irqs, log, upset>>

-----------------------------------------------------------------------------
\* timTimerCancelEx and timTimerCancelAll

WithId(id) == {s \in Slots : timer[s].id = id}

\* Mutant of Evicted: the type is compared with EVT_APP_TIMER, which is inside.
EvictedNone(ids) == events

\* evtQueueRemoveAllMatching with timerEventMatch, from the oldest event on.
Evicted(ids) ==
  LET kept[k \in 0 .. Len(events)] ==
        IF k = 0 THEN <<>>
        ELSE IF events[k].id \in ids THEN kept[k - 1] ELSE Append(kept[k - 1], events[k])
  IN kept[Len(events)]

\* Interrupts are off from the search, which finds the first slot with that
\* id, to the end of these two steps but the last: the bit of the slot is
\* cleared when they are on again.  Id 0 finds a slot that is disabled.
Cancel(t, id, pending) ==
  /\ Caller /\ t \in CurrentTids
  /\ pending => AppRuns(t)
  /\ \E s \in WithId(id) :
       /\ \A o \in WithId(id) : s <= o
       /\ timer[s].tid = t
       /\ events' = IF pending THEN Evicted({id}) ELSE events
       /\ timer' = [timer EXCEPT ![s].id = 0]
       /\ log' = IF id = 0 THEN log
                 ELSE [log EXCEPT ![timer[s].sn].end = IF pending THEN "evicted" ELSE "cancelled"]
       /\ Call([at |-> "cancelled", tid |-> t, slot |-> s, none |-> id = 0])
  /\ UNCHANGED <<valid, now, alarm, irqs, upset>>

CancelFree ==
  /\ Top.at = "cancelled"
  /\ valid' = valid \ {Top.slot}
  /\ upset' = (upset \/ (Top.none /\ Top.slot \in valid))
  /\ Return
  /\ UNCHANGED <<timer, now, alarm, events, irqs, log>>

\* osTaskRelease, from the main loop: every slot that has the task's tid.
CancelAll(t) ==
  LET its == {s \in Slots : timer[s].tid = t}
      gone == {timer[s].sn : s \in {r \in its : Armed(r)}}
  IN /\ Top.at = "main"
     /\ events' = Evicted({timer[s].id : s \in its})
     /\ timer' = [s \in Slots |-> IF s \in its THEN [timer[s] EXCEPT !.id = 0] ELSE timer[s]]
     /\ valid' = valid \ its
     /\ log' = [n \in DOMAIN log |->
          IF n \in gone THEN [log[n] EXCEPT !.end = "evicted"] ELSE log[n]]
     /\ UNCHANGED <<now, alarm, stack, irqs, upset>>

-----------------------------------------------------------------------------
\* The main loop, the handlers and the clock

Handle ==
  /\ Top.at = "main" /\ events # <<>>
  /\ events' = Tail(events)
  /\ UNCHANGED <<timer, valid, now, alarm, stack, irqs, log, upset>>

\* An empty queue: interrupts stay off while the timers are looked at.
Idle ==
  /\ Top.at = "main" /\ events = <<>>
  /\ stack' = stack \o <<[at |-> "idle"], NewScan(SystemTid, FALSE)>>
  /\ UNCHANGED <<timer, valid, now, alarm, events, irqs, log, upset>>

\* wfi returns, interrupts still off, and the timers are looked at again.
Wake ==
  /\ Top.at = "asleep"
  /\ stack' = Append(Front(stack), [at |-> "woken"]) \o <<NewScan(SystemTid, FALSE)>>
  /\ UNCHANGED <<timer, valid, now, alarm, events, log, upset>>

WakeByAlarm == alarm # 0 /\ now >= alarm /\ Wake /\ UNCHANGED irqs
WakeByIrq == irqs < MaxIrqs /\ Wake /\ irqs' = irqs + 1

\* A handler keeps the tid of what it interrupted; it may be timerIRQHandler.
Interrupt(t) ==
  /\ irqs < MaxIrqs /\ ~IntsOff
  /\ \A f \in Frames : f.at # "handler"
  /\ t \in CurrentTids
  /\ irqs' = irqs + 1
  /\ Call([at |-> "handler", tid |-> t])
  /\ UNCHANGED <<timer, valid, now, alarm, events, log, upset>>

TimIntHandler ==
  /\ Top.at = "handler"
  /\ Become(NewScan(Top.tid, FALSE))
  /\ UNCHANGED <<timer, valid, now, alarm, events, irqs, log, upset>>

HandlerReturn ==
  /\ Top.at = "handler"
  /\ Return
  /\ UNCHANGED <<timer, valid, now, alarm, events, irqs, log, upset>>

\* The clock moves where the code is about to read it; the reads of one pass
\* over the slots give the same time, and the one after the pass a later one.
Tick ==
  /\ now < MaxTime
  /\ Caller \/ Scanned \/ Top.at = "asleep"
  /\ now' = now + 1
  /\ UNCHANGED <<timer, valid, alarm, events, stack, irqs, log, upset>>

\* What the CPU does next when it is not asked for anything.
Run ==
  \/ Draw \/ SetWrite \/ ScanOfSet
  \/ Pass \/ NotYet \/ Notice \/ FireEvent \/ Posted \/ FireCall \/ CallbackReturn
  \/ ScanAgain \/ ScanEnd
  \/ CancelFree
  \/ Handle \/ Idle \/ WakeByAlarm
  \/ HandlerReturn

Next ==
  \/ \E ask \in Asks : SetStart(ask[1], ask[2], ask[3])
  \/ \E t \in Tasks, id \in Ids, pending \in BOOLEAN : Cancel(t, id, pending)
  \/ \E t \in Tasks : CancelAll(t)
  \/ \E t \in Tasks \cup {SystemTid} : Interrupt(t)
  \/ Run \/ PostEvent \/ Reopen \/ WakeByIrq \/ TimIntHandler \/ Tick

\* A task has handled its event, a handler or a callback has come to its end.
Ends == Handle \/ Idle \/ HandlerReturn \/ CallbackReturn

\* The CPU never stops for good, nobody cancels timers for ever, and the clock
\* advances; nobody has to set or cancel a timer, and no interrupt has to come.
Spec ==
  Init /\ [][Next]_vars /\ WF_vars(Run \/ PostEvent) /\ SF_vars(Ends) /\ WF_vars(Tick)
-----------------------------------------------------------------------------
\* Properties

\* Every variable holds a value of the kind the code gives it, and slots,
\* stack and log refer to what exists.
TypeOK ==
  /\ timer \in [Slots -> [id : Ids, expires : Nat, period : Nat, tid : Nat,
                          call : BOOLEAN, sn : 0 .. MaxSets]]
  /\ valid \subseteq Slots
  /\ now \in 0 .. MaxTime /\ alarm \in Nat /\ irqs \in 0 .. MaxIrqs
  /\ Len(log) <= MaxSets
  /\ \A k \in DOMAIN log :
       log[k].id \in Ids \ {0} /\ log[k].end \in {"armed", "fired", "cancelled", "evicted"}
  /\ \A k \in DOMAIN events : events[k].id \in Ids /\ events[k].sn \in DOMAIN log
  /\ Depth > 0 /\ \A k \in DOMAIN stack : stack[k].at = "main" <=> k = 1
  /\ upset \in BOOLEAN

\* The frames that own a slot whose timer is not, or no longer, armed.
Holding == {k \in DOMAIN stack : \/ stack[k].at \in {"claimed", "drawn"}
                                 \/ stack[k].at = "cancelled" /\ ~stack[k].none
                                 \/ stack[k].at = "callback" /\ stack[k].once}

\* A set bit means an armed timer or one call that still holds the slot, and
\* each timer that was set and neither fired nor was cancelled is in exactly
\* one slot, under an id of its own.
OneOwner ==
  /\ valid = {s \in Slots : Armed(s)} \cup {stack[k].slot : k \in Holding}
  /\ \A k \in Holding : ~Armed(stack[k].slot)
  /\ \A j, k \in Holding : stack[j].slot = stack[k].slot => j = k
  /\ \A s, o \in Slots : Armed(s) /\ timer[s].id = timer[o].id => s = o
  /\ \A s \in Slots : Armed(s) => log[timer[s].sn].end = "armed"
  /\ \A n \in DOMAIN log : log[n].end = "armed" =>
       \E s \in Slots : Armed(s) /\ timer[s].sn = n /\ timer[s].id = log[n].id

\* No slot is lost or has two owners and no id is in use twice, also when the
\* ids wrap, unless a scan lost its protection (heap.c) or the cancellation of
\* id 0 freed a slot in use.
SlotsAccounted == upset \/ OneOwner

\* What a timer has fired fits the time that went by, and its end.
OnTime ==
  \A n \in DOMAIN log :
    /\ log[n].fired * log[n].len <= now - log[n].start
    /\ log[n].once => log[n].fired <= 1
    /\ log[n].once /\ log[n].end # "armed" => (log[n].fired = 1 <=> log[n].end = "fired")

\* A timer never fires before its time or more often than the time that went
\* by allows, and one that is set to fire once does so once, also when its
\* callback sets and cancels timers and scans nest; unless, as before, a scan
\* lost its protection or the cancellation of id 0 freed a slot in use.
Punctual == upset \/ OnTime

\* chreTimerCancel and the end of a task (inc/chre/re.h, timTimerCancelEx and
\* timTimerCancelAll): once they have cancelled a timer, none of its events
\* is left for the task to see.
NoneAfterCancel ==
  \A k \in DOMAIN events : log[events[k].sn].end # "evicted"

Covered == \A s \in Slots : Armed(s) => alarm # 0 /\ alarm <= timer[s].expires

\* Nobody scans the timers, or is about to.
Quiet == \A f \in Frames : f.at \notin {"written", "scan", "due", "woken"}

\* When the hub sleeps, and outside of scans, the platform has been told to
\* wake no later than the first timer is due.  A scan that lost its protection
\* can overwrite an earlier alarm that a handler asked for meanwhile, but the
\* hub does not sleep before it has looked at the timers again.
AlarmCovers == (Top.at = "asleep" \/ (Quiet /\ ~upset)) => Covered

IsDue(n) == \E s \in Slots : Armed(s) /\ timer[s].sn = n /\ timer[s].expires <= now

\* A timer that is due fires, or is cancelled: the hub does not sleep past it.
DueTimersFire == \A n \in Serials : IsDue(n) ~> ~IsDue(n)
=============================================================================
