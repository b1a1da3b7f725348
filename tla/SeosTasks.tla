------------------------------ MODULE SeosTasks ------------------------------
(***************************************************************************)
(* Tasks and events of SEOS, os/core/seos.c: the pool of tasks with its    *)
(* two lists, starting, stopping and aborting apps, subscriptions, and the *)
(* main loop that takes an event, hands it to tasks and frees it.          *)
(*                                                                         *)
(* The main loop and everything it calls is one thread.  Its stack is a    *)
(* variable: kernel frames, and frames of app code, in which the app calls *)
(* the OS any number of times and returns.  Interrupt handlers defer work  *)
(* in the name of whatever task they preempt.  The event queue is what     *)
(* BoundedEvtQueue promises; what osTaskRelease frees, timers, sensors and *)
(* heap blocks, is not part of this module.                                *)
(***************************************************************************)
EXTENDS Integers, Sequences, FiniteSets

CONSTANTS
  MaxTasks,        \* MAX_TASKS, the size of mTaskPool
  Counter,         \* the values of a TID's counter (256)
  IoWidth,         \* the values of ioCount (256)
  Embedded,        \* MAX_EMBEDDED_EVT_SUBS
  Capacity,        \* records of mEvtsInternal (512)
  Slab,            \* items of mMiscInternalThingsSlab (64)
  Apps, Evts,      \* apps to start; the events apps publish and subscribe to
  APP_STARTED, APP_STOPPED,
  Faults,          \* what apps may do besides (see Misdeeds)
  MaxCalls, MaxIrqs,  \* bounds: calls of apps, interrupts that defer
  NULL

\* Fail to load or to initialise (before any call), abort themselves, later or
\* while they initialise (in a free callback that runs meanwhile, too), send
\* messages after they were told to stop or to other apps (without: only to
\* themselves).
Misdeeds == {"load", "init", "abort", "abort in init", "late", "to others"}

ASSUME SeosAssumption ==
  /\ MaxTasks \in Nat \ {0} /\ Counter \in Nat \ {0} /\ IoWidth \in Nat \ {0}
  /\ Embedded \in Nat \ {0} /\ Capacity \in Nat /\ Slab \in Nat
  /\ MaxCalls \in Nat /\ MaxIrqs \in Nat
  /\ Faults \subseteq Misdeeds
  /\ NULL \notin Apps \cup Evts /\ IsFiniteSet(Apps)

VARIABLES
  list,        \* the prev and next of each task, of mTasks and of mFreeTasks
  task,        \* the other fields of the tasks
  queue,       \* mEvtsInternal
  stack,       \* what the main loop is in the middle of, innermost first
  calls, irqs, \* calls and commands so far
  wanted,      \* history: the events each task asked for, in effect or pending
  callbacks    \* history: how often the callback of the i-th call ran, if it has one

vars == <<list, task, queue, stack, calls, irqs, wanted, callbacks>>

NO_NODE == -1
Tasks == -2      \* mTasks
FreeTasks == -3  \* mFreeTasks
NO_CALLBACK == -1
Slots == 0 .. MaxTasks - 1
Nodes == Slots \cup {Tasks, FreeTasks}
System == 0      \* mSystemTask

Tid(s) == [idx |-> s, ctr |-> task[s].ctr]
SystemTid == [idx |-> System, ctr |-> 0]

\* What memset leaves of a task.
Cleared == [app |-> NULL, ctr |-> 0, loaded |-> FALSE, flags |-> {}, io |-> 0,
            subs |-> {}, sz |-> Embedded, short |-> FALSE]

Evt(type, to, evt) ==
  [type |-> type, org |-> SystemTid, by |-> SystemTid, to |-> to, evt |-> evt, id |-> 0]

Frame(do, ev, cur) == [do |-> do, ev |-> ev, cur |-> cur, at |-> NO_NODE, due |-> {}]
Command(type) == Frame("host", Evt(type, SystemTid, NULL), System)

-----------------------------------------------------------------------------
\* osStartTasks: all tasks are free but the one that stands for the system.
Init ==
  /\ list = [n \in Nodes |->
       CASE n = System -> [prev |-> 0, next |-> 0]
         [] n = Tasks -> [prev |-> NO_NODE, next |-> NO_NODE]
         [] n = FreeTasks -> IF MaxTasks = 1 THEN [prev |-> NO_NODE, next |-> NO_NODE]
                             ELSE [prev |-> MaxTasks - 1, next |-> 1]
         [] OTHER -> [prev |-> IF n = 1 THEN NO_NODE ELSE n - 1,
                      next |-> IF n = MaxTasks - 1 THEN NO_NODE ELSE n + 1]]
  /\ task = [s \in Slots |-> Cleared]
  /\ queue = <<>>
  /\ stack = [i \in 1 .. Cardinality(Apps) |-> Command("boot")]
  /\ calls = 0 /\ irqs = 0
  /\ wanted = [s \in Slots |-> {}]
  /\ callbacks = [i \in 1 .. MaxCalls |-> NO_CALLBACK]

\* The node a link of h's list leads to: NO_NODE stands for the list's head.
Node(h, i) == IF i = NO_NODE THEN h ELSE i

\* Mutant of ListRemove: the task behind keeps its prev.
ListRemoveOneWay(l, h, s) ==
  [l EXCEPT ![s] = [prev |-> NO_NODE, next |-> NO_NODE],
            ![Node(h, l[s].prev)].next = l[s].next]

\* osTaskListRemoveTask and osTaskListAddTail.
ListRemove(l, h, s) ==
  [l EXCEPT ![s] = [prev |-> NO_NODE, next |-> NO_NODE],
            ![Node(h, l[s].prev)].next = l[s].next,
            ![Node(h, l[s].next)].prev = l[s].prev]

ListAddTail(l, h, s) ==
  [l EXCEPT ![s] = [prev |-> l[h].prev, next |-> NO_NODE],
            ![Node(h, l[h].prev)].next = s,
            ![h].prev = s]

\* The tasks for_each_task visits.
Reached(h) ==
  LET at[i \in 0 .. MaxTasks] ==
        IF i = 0 THEN h
        ELSE IF at[i - 1] = NO_NODE THEN NO_NODE ELSE list[at[i - 1]].next
  IN {at[i] : i \in 1 .. MaxTasks} \ {NO_NODE}

Subscribers(v) == {s \in Reached(Tasks) : v \in task[s].subs}

-----------------------------------------------------------------------------
Top == stack[1]
At(label) == stack # <<>> /\ Top.do = label
Replace(f) == stack' = <<f>> \o Tail(stack)
Label(l) == Replace([Top EXCEPT !.do = l])
Return == stack' = Tail(stack)

\* App code of task s runs, as that task; afterwards frame f goes on.
Enter(why, s) == Frame(why, Evt("none", SystemTid, NULL), s)
CallThen(f, why, s) == stack' = <<Enter(why, s), f>> \o Tail(stack)
Call(why, s, l) == CallThen([Top EXCEPT !.do = l], why, s)

AppFrames == {"init", "handle", "stop", "end", "free"}
InApp == stack # <<>> /\ Top.do \in AppFrames

\* osGetCurrentTask
Current == IF stack = <<>> THEN System ELSE Top.cur

Stopped(s) == "STOPPED" \in task[s].flags

\* Mutant of Accepted: a task that is stopped may go on posting.
AcceptedAlways(c) == Len(queue) < Capacity

\* osEnqueueEvtCommon in the name of c takes nothing when c is stopped or the
\* queue is full.
Accepted(c) == ~Stopped(c) /\ Len(queue) < Capacity

\* Mutant of Charge: a count of one bit.
ChargeBit(t, c, n) == [t EXCEPT ![c].io = (@ + n) % 2]

\* osTaskAddIoCount
Charge(t, c, n) == [t EXCEPT ![c].io = (@ + n) % IoWidth]

\* Post e as c, when the tasks have become t with c's flags as they were.
PostAs(t, c, e, urgent) ==
  LET f == [e EXCEPT !.org = Tid(c)]
  IN IF Accepted(c)
     THEN /\ queue' = IF urgent THEN <<f>> \o queue ELSE Append(queue, f)
          /\ task' = Charge(t, c, 1)
     ELSE queue' = queue /\ task' = t

SlabTypes == {"sub", "unsub", "defer", "private"}
HoldsSlab(f) == f.ev.type \in SlabTypes /\ f.do \notin {"freed", "dropped"}

\* The records of mMiscInternalThingsSlab in use, and whether there is one left.
SlabUsed ==
  Cardinality({i \in DOMAIN queue : queue[i].type \in SlabTypes})
  + Cardinality({i \in DOMAIN stack : HoldsSlab(stack[i])})
SlabLeft == SlabUsed < Slab

-----------------------------------------------------------------------------
(* The main loop.                                                          *)

Walk(e) == [Frame("walk", e, IF e.type = "user" THEN System ELSE e.org.idx) EXCEPT
              !.at = list[Tasks].next,
              !.due = Subscribers(e.evt) \ {e.to.idx}]

\* osMainDequeueLoop takes an event: one for the tasks, or one of its own, which
\* it handles as the task it comes from.
Dequeue ==
  /\ stack = <<>> /\ queue # <<>>
  /\ queue' = Tail(queue)
  /\ LET e == Head(queue)
     IN stack' = << IF e.type = "user" THEN Walk(e) ELSE Frame("event", e, e.org.idx) >>
  /\ UNCHANGED <<list, task, calls, irqs, wanted, callbacks>>

Event(type) == At("event") /\ Top.ev.type = type

\* Mutant of Added: no check for space after the list was to be enlarged.
AddedBeyond(s, v, grown) == [task EXCEPT ![s].subs = @ \cup {v}]

\* s with v on its list, which is enlarged when it is full and the heap allows;
\* v is dropped when there is no space.
Added(s, v, grown) ==
  LET full == Cardinality(task[s].subs) = task[s].sz
  IN CASE v \in task[s].subs -> task
       [] v \notin task[s].subs /\ full /\ ~grown -> [task EXCEPT ![s].short = TRUE]
       [] OTHER -> [task EXCEPT ![s].subs = @ \cup {v},
                                ![s].sz = IF full THEN (@ * 3 + 1) \div 2 ELSE @]

\* EVT_SUBSCRIBE_TO_EVT and EVT_UNSUBSCRIBE_TO_EVT
ApplySubscribe ==
  /\ Event("sub")
  /\ \E grown \in BOOLEAN : task' = Added(Top.ev.to.idx, Top.ev.evt, grown)
  /\ Label("done")
  /\ UNCHANGED <<list, queue, calls, irqs, wanted, callbacks>>

ApplyUnsubscribe ==
  /\ Event("unsub")
  /\ task' = [task EXCEPT ![Top.ev.to.idx].subs = @ \ {Top.ev.evt}]
  /\ Label("done")
  /\ UNCHANGED <<list, queue, calls, irqs, wanted, callbacks>>

\* EVT_APP_BEGIN, EVT_DEFERRED_CALLBACK, EVT_PRIVATE_EVT and, for a task that
\* has to be told, EVT_APP_END up to the return of the app.
Dispatch ==
  /\ \/ Event("begin") /\ Replace(Walk(Top.ev))
     \/ Event("defer") /\ Label("host")
     \/ Event("private") /\ Call("handle", Top.ev.to.idx, "done")
     \/ /\ Event("end")
        /\ IF "ABORTED" \in task[Top.ev.to.idx].flags
           THEN Label("ended")
           ELSE Call("end", Top.ev.to.idx, "ended")
  /\ UNCHANGED <<list, task, queue, calls, irqs, wanted, callbacks>>

\* Mutant of Freed: the flags stay.
FreedFlagged(s) == [task EXCEPT ![s].io = 0, ![s].loaded = FALSE]

\* osFreeTask
Freed(s) == [task EXCEPT ![s].flags = {}, ![s].io = 0, ![s].loaded = FALSE]

\* osTaskRelease, osUnloadApp and the start of the broadcast of EVT_APP_STOPPED.
EndTask ==
  /\ At("ended")
  /\ LET s == Top.ev.to.idx
     IN /\ task' = Freed(s)
        /\ list' = ListAddTail(list, FreeTasks, s)
  /\ Replace(Walk(Top.ev))
  /\ UNCHANGED <<queue, calls, irqs, wanted, callbacks>>

\* One step of for_each_task.  A task may have left the list while it handled
\* the event: its next link is read after its return.
Visit ==
  /\ At("walk")
  /\ LET s == Top.at
         next == [Top EXCEPT !.at = list[s].next]
     IN IF s = NO_NODE THEN Label("done")
        ELSE IF Top.ev.evt \in task[s].subs /\ s # Top.ev.to.idx
             THEN CallThen([Top EXCEPT !.do = "visited", !.due = @ \ {s}], "handle", s)
             ELSE Replace(next)
  /\ UNCHANGED <<list, task, queue, calls, irqs, wanted, callbacks>>

\* Mutant of Visited: the break leaves both loops.
VisitedBreak ==
  /\ At("visited")
  /\ Label("done")
  /\ UNCHANGED <<list, task, queue, calls, irqs, wanted, callbacks>>

Visited ==
  /\ At("visited")
  /\ Replace([Top EXCEPT !.do = "walk", !.at = list[Top.at].next])
  /\ UNCHANGED <<list, task, queue, calls, irqs, wanted, callbacks>>

\* Whom handleEventFreeing or osPrivateEvtFreeF tells that an event is done with.
Owner(e) == CASE e.type = "private" -> e.by.idx
              [] e.type = "user" -> e.org.idx
              [] OTHER -> System

Free ==
  /\ At("done")
  /\ LET f == [Top EXCEPT !.do = "freed", !.cur = System]
     IN IF Top.ev.id = 0
        THEN Replace(f) /\ UNCHANGED callbacks
        ELSE /\ callbacks' = [callbacks EXCEPT ![Top.ev.id] = @ + 1]
             /\ CallThen(f, "free", Owner(Top.ev))
  /\ UNCHANGED <<list, task, queue, calls, irqs, wanted>>

\* Mutant of Uncharge: the sender of a message stays charged.
UnchargeOrigin(e) == Charge(task, e.org.idx, -1)

Uncharge(e) ==
  LET t == Charge(task, e.org.idx, -1)
  IN IF e.type = "private" THEN Charge(t, e.by.idx, -1) ELSE t

Finish ==
  /\ At("freed")
  /\ Return
  /\ task' = IF Top.ev.type = "boot" THEN task ELSE Uncharge(Top.ev)
  /\ UNCHANGED <<list, queue, calls, irqs, wanted, callbacks>>

-----------------------------------------------------------------------------
(* What apps do while they run.                                            *)

Me == Top.cur
AppCall == InApp /\ calls < MaxCalls /\ calls' = calls + 1

\* osEnqueueEvt with a free callback.
Publish(v) ==
  /\ AppCall
  /\ PostAs(task, Me, [Evt("user", SystemTid, v) EXCEPT !.id = calls + 1], FALSE)
  /\ callbacks' = [callbacks EXCEPT ![calls + 1] = IF Accepted(Me) THEN 0 ELSE @]
  /\ UNCHANGED <<list, stack, irqs, wanted>>

\* Mutant of Ask: requests overtake each other.
AskUrgent(type, v, wish) ==
  IF SlabLeft
  THEN /\ PostAs(task, Me, Evt(type, Tid(Me), v), TRUE)
       /\ wanted' = [wanted EXCEPT ![Me] = IF Accepted(Me) THEN wish ELSE @]
  ELSE UNCHANGED <<queue, task, wanted>>

\* osEventsSubscribeUnsubscribeV for one event.
Ask(type, v, wish) ==
  IF SlabLeft
  THEN /\ PostAs(task, Me, Evt(type, Tid(Me), v), FALSE)
       /\ wanted' = [wanted EXCEPT ![Me] = IF Accepted(Me) THEN wish ELSE @]
  ELSE UNCHANGED <<queue, task, wanted>>

Subscribe(v) ==
  /\ AppCall
  /\ Ask("sub", v, wanted[Me] \cup {v})
  /\ UNCHANGED <<list, stack, irqs, callbacks>>

Unsubscribe(v) ==
  /\ AppCall
  /\ ~Stopped(Me)
  /\ Ask("unsub", v, wanted[Me] \ {v})
  /\ UNCHANGED <<list, stack, irqs, callbacks>>

\* Mutant of Refused: a full slab goes unnoticed.
RefusedByQueue == SlabLeft /\ ~Accepted(System)

\* A private event goes nowhere.
Refused == ~SlabLeft \/ ~Accepted(System)

\* osEnqueuePrivateEvtNew: posted by the system, charged to the app as well.  When
\* the event is refused the app is told at once, by osEnqueuePrivateEvtNew and, if
\* it was the queue that refused, before that by osPrivateEvtFreeF.
SendPrivate(to) ==
  /\ AppCall
  /\ Stopped(Me) => "late" \in Faults
  /\ to = Me \/ ("to others" \in Faults /\ task[to].loaded)
  /\ LET e == [Evt("private", Tid(to), NULL) EXCEPT !.by = Tid(Me), !.id = calls + 1]
     IN /\ callbacks' = [callbacks EXCEPT ![e.id] = IF Refused THEN 1 ELSE 0]
        /\ IF SlabLeft THEN PostAs(Charge(task, Me, 1), System, e, FALSE)
                       ELSE UNCHANGED <<queue, task>>
        /\ stack' = (IF Refused THEN <<Enter("free", Me)>> ELSE <<>>)
                    \o (IF SlabLeft /\ Refused THEN <<Frame("dropped", e, System)>> ELSE <<>>)
                    \o stack
  /\ UNCHANGED <<list, irqs, wanted>>

\* Mutant of Dropped: the charge stays.
DroppedKept ==
  /\ At("dropped")
  /\ callbacks' = [callbacks EXCEPT ![Top.ev.id] = @ + 1]
  /\ Replace(Enter("free", Top.ev.by.idx))
  /\ UNCHANGED <<list, task, queue, calls, irqs, wanted>>

\* The second half of a private event the queue refused.
Dropped ==
  /\ At("dropped")
  /\ task' = Charge(task, Top.ev.by.idx, -1)
  /\ callbacks' = [callbacks EXCEPT ![Top.ev.id] = @ + 1]
  /\ Replace(Enter("free", Top.ev.by.idx))
  /\ UNCHANGED <<list, queue, calls, irqs, wanted>>

Leave(s, flags) ==
  /\ list' = ListRemove(list, Tasks, s)
  /\ PostAs([task EXCEPT ![s].flags = flags], System, Evt("end", Tid(s), APP_STOPPED), FALSE)

\* osChreAbort, which returns to the app.
Abort ==
  /\ AppCall
  /\ ~Stopped(Me)
  /\ IF \E i \in DOMAIN stack : stack[i].do = "init"
     THEN "abort in init" \in Faults ELSE "abort" \in Faults
  /\ Leave(Me, {"STOPPED", "ABORTED"})
  /\ UNCHANGED <<stack, irqs, wanted, callbacks>>

AppReturn ==
  /\ InApp
  /\ \/ Top.do # "init" /\ Return
     \/ Top.do = "init" /\ stack' = <<[stack[2] EXCEPT !.do = "started"]>> \o SubSeq(stack, 3, Len(stack))
     \/ /\ Top.do = "init" /\ "init" \in Faults /\ Top.at = calls
        /\ stack' = <<[stack[2] EXCEPT !.do = "failed"]>> \o SubSeq(stack, 3, Len(stack))
  /\ UNCHANGED <<list, task, queue, calls, irqs, wanted, callbacks>>

-----------------------------------------------------------------------------
(* Starting and stopping apps, at boot and for the host.                   *)

\* osStartApp up to the app's init function.
StartApp(a) ==
  /\ At("host")
  /\ list[FreeTasks].next # NO_NODE
  /\ \A s \in Reached(Tasks) : task[s].app # a
  /\ LET s == list[FreeTasks].next
         taken == [ListRemove(list, FreeTasks, s) EXCEPT ![s] = [prev |-> 0, next |-> 0]]
         new == [Cleared EXCEPT !.app = a, !.ctr = task[s].ctr]
     IN \/ /\ "load" \in Faults
           /\ list' = ListAddTail(taken, FreeTasks, s)
           /\ task' = [task EXCEPT ![s] = new]
           /\ Label("done")
           /\ UNCHANGED wanted
        \/ /\ list' = taken
           /\ task' = [task EXCEPT ![s] = [new EXCEPT !.loaded = TRUE,
                                                      !.ctr = (@ + 1) % Counter]]
           /\ stack' = << [Enter("init", s) EXCEPT !.at = calls],
                          [Top EXCEPT !.do = "starting", !.at = s] >> \o Tail(stack)
           /\ wanted' = [wanted EXCEPT ![s] = {}]
  /\ UNCHANGED <<queue, calls, irqs, callbacks>>

\* Its end when init succeeded, and when it did not.
Started ==
  /\ At("started")
  /\ list' = ListAddTail(list, Tasks, Top.at)
  /\ PostAs(task, Current, Evt("begin", Tid(Top.at), APP_STARTED), FALSE)
  /\ Replace([Top EXCEPT !.do = "done", !.at = NO_NODE])
  /\ UNCHANGED <<calls, irqs, wanted, callbacks>>

Failed ==
  /\ At("failed")
  /\ list' = ListAddTail(list, FreeTasks, Top.at)
  /\ task' = Freed(Top.at)
  /\ Replace([Top EXCEPT !.do = "done", !.at = NO_NODE])
  /\ UNCHANGED <<queue, calls, irqs, wanted, callbacks>>

\* osStopTask.  A task with events under way is told before its end is posted.
StopApp(s) ==
  /\ At("host") /\ Top.ev.type = "defer"
  /\ s \in Reached(Tasks) /\ ~Stopped(s)
  /\ IF task[s].io = 0
     THEN Leave(s, {"STOPPED"}) /\ Label("done")
     ELSE /\ list' = ListRemove(list, Tasks, s)
          /\ task' = [task EXCEPT ![s].flags = {"STOPPED"}]
          /\ CallThen([Top EXCEPT !.do = "stopping", !.at = s, !.cur = System], "stop", s)
          /\ UNCHANGED queue
  /\ UNCHANGED <<calls, irqs, wanted, callbacks>>

\* Mutant of Stopping: the end is posted only for a task that needs no telling.
StoppingForgets ==
  /\ At("stopping")
  /\ Replace([Top EXCEPT !.do = "done", !.at = NO_NODE, !.cur = Top.ev.org.idx])
  /\ UNCHANGED <<list, task, queue, calls, irqs, wanted, callbacks>>

Stopping ==
  /\ At("stopping")
  /\ PostAs(task, System, Evt("end", Tid(Top.at), APP_STOPPED), FALSE)
  /\ Replace([Top EXCEPT !.do = "done", !.at = NO_NODE, !.cur = Top.ev.org.idx])
  /\ UNCHANGED <<list, calls, irqs, wanted, callbacks>>

OtherWork ==
  /\ At("host") /\ Label("done")
  /\ UNCHANGED <<list, task, queue, calls, irqs, wanted, callbacks>>

\* osDefer by an interrupt handler, urgent, in the name of the task it preempts.
Interrupt ==
  /\ irqs < MaxIrqs /\ irqs' = irqs + 1
  /\ SlabLeft
  /\ PostAs(task, Current, Evt("defer", SystemTid, NULL), TRUE)
  /\ UNCHANGED <<list, stack, calls, wanted, callbacks>>

-----------------------------------------------------------------------------
Kernel ==
  \/ Dequeue \/ ApplySubscribe \/ ApplyUnsubscribe \/ Dispatch
  \/ EndTask \/ Visit \/ Visited \/ Free \/ Finish \/ Dropped

App ==
  \/ \E v \in Evts : Publish(v)
  \/ \E v \in Evts \cup {APP_STARTED, APP_STOPPED} : Subscribe(v) \/ Unsubscribe(v)
  \/ \E s \in Slots \ {System} : SendPrivate(s)
  \/ Abort \/ AppReturn

Host ==
  \/ \E a \in Apps : StartApp(a)
  \/ \E s \in Slots : StopApp(s)
  \/ Started \/ Failed \/ Stopping \/ OtherWork

MainLoop == Kernel \/ App \/ Host
Next == MainLoop \/ Interrupt

Spec == Init /\ [][Next]_vars

\* The main loop never sleeps while there is an event (evtQueueDequeue), and
\* apps return: the hub has one thread and no way to leave one that does not.
FairSpec == Spec /\ WF_vars(MainLoop)

-----------------------------------------------------------------------------
(* Properties.                                                             *)

TypeOK ==
  /\ list \in [Nodes -> [prev : Slots \cup {NO_NODE}, next : Slots \cup {NO_NODE}]]
  /\ \A s \in Slots :
       /\ task[s].app \in Apps \cup {NULL} /\ task[s].ctr \in 0 .. Counter - 1
       /\ task[s].flags \subseteq {"STOPPED", "ABORTED"} /\ task[s].io \in 0 .. IoWidth - 1
       /\ task[s].subs \subseteq Evts \cup {APP_STARTED, APP_STOPPED}
       /\ Cardinality(task[s].subs) <= task[s].sz
       /\ wanted[s] \subseteq Evts \cup {APP_STARTED, APP_STOPPED}
  /\ Len(queue) <= Capacity /\ SlabUsed <= Slab
  /\ calls \in 0 .. MaxCalls /\ irqs \in 0 .. MaxIrqs

\* The two lists of tasks are well linked in both directions, and no task is on
\* both: what an abort in the middle of a broadcast, a start or an app's end
\* must not break.
Linked(h) ==
  \A n \in Reached(h) \cup {h} :
    /\ list[Node(h, list[n].next)].prev = (IF n = h THEN NO_NODE ELSE n)
    /\ list[Node(h, list[n].prev)].next = (IF n = h THEN NO_NODE ELSE n)

ListsOK ==
  /\ Linked(Tasks) /\ Linked(FreeTasks)
  /\ Reached(Tasks) \cap Reached(FreeTasks) = {}

\* The ends of s that are to come: posted, being handled, or about to be posted.
EndsOf(s) ==
  Cardinality({i \in DOMAIN queue : queue[i].type = "end" /\ queue[i].to.idx = s})
  + Cardinality({i \in DOMAIN stack :
       \/ stack[i].do \in {"event", "ended"} /\ stack[i].ev.type = "end" /\ stack[i].ev.to.idx = s
       \/ stack[i].do = "stopping" /\ stack[i].at = s})

Starting(s) ==
  \E i \in DOMAIN stack : stack[i].do \in {"starting", "started", "failed"} /\ stack[i].at = s

\* No task is lost: each is free, or running, or just being started, or has left
\* the list of tasks for good and exactly one EVT_APP_END will free it.
SlotAccounted ==
  \A s \in Slots \ {System} :
    LET Is(c) == IF c THEN 1 ELSE 0
    IN /\ Is(s \in Reached(FreeTasks)) + Is(s \in Reached(Tasks))
          + Is(Starting(s)) + Is(Stopped(s)) = 1
       /\ EndsOf(s) = Is(Stopped(s))

\* A request of s about v.
Asks(e, s, v) == e.type \in {"sub", "unsub"} /\ e.to.idx = s /\ e.evt = v

\* A running task is subscribed to what it asked for, once the requests before
\* it in the queue are applied: the last one about an event decides, and no request
\* of another task, earlier or later in the same slot, changes that (only a list
\* that cannot grow does).
Subscribed ==
  \A s \in Reached(Tasks), v \in Evts \cup {APP_STARTED, APP_STOPPED} :
    LET asked == {i \in DOMAIN queue : Asks(queue[i], s, v)}
        now == At("event") /\ Asks(Top.ev, s, v)
        pending == CASE asked # {} -> \E i \in asked : queue[i].type = "sub" /\ \A j \in asked : j <= i
                     [] asked = {} /\ now -> Top.ev.type = "sub"
                     [] OTHER -> v \in task[s].subs
    IN task[s].short \/ (v \in wanted[s] <=> pending)

\* seos.c:1211, "send this event to all tasks who want it": when a broadcast
\* ends, none of the tasks it was for is still running and was passed over.
DeliveredToAll == At("done") => Top.due \cap Reached(Tasks) = {}

\* The events of s that are not done with: the ones in its name, and its messages
\* to tasks.
InName(f, s) == f.do \notin AppFrames \cup {"dropped"} /\ f.ev.type # "boot" /\ f.ev.org.idx = s
Sent(e, s) == e.type = "private" /\ e.by.idx = s

EventsOf(s) ==
  Cardinality({i \in DOMAIN queue : queue[i].org.idx = s})
  + Cardinality({i \in DOMAIN queue : Sent(queue[i], s)})
  + Cardinality({i \in DOMAIN stack : InName(stack[i], s)})
  + Cardinality({i \in DOMAIN stack : Sent(stack[i].ev, s)})

\* A task's ioCount is the number of its events that are not done with: every way
\* an event can end gives back exactly what posting it took.
IoAccounted == \A s \in Slots : task[s].io = EventsOf(s) % IoWidth

\* No code of an app runs after the app was unloaded, if apps send their messages
\* before they are told to stop and to themselves only (Faults without "late" and
\* "to others").  seos.c:1398 accepts the other messages, and then it does.
OnlyLoadedRun == InApp => task[Me].loaded

\* inc/chre/event.h:376, the free callback is invoked when the event is done with,
\* and inc/chre/event.h:382, when it was not taken: exactly once.
FreedOnce ==
  LET waiting == {queue[i].id : i \in DOMAIN queue}
                 \cup {stack[i].ev.id : i \in {j \in DOMAIN stack : stack[j].do # "freed"}}
  IN \A i \in 1 .. MaxCalls :
       callbacks[i] \in {NO_CALLBACK, IF i \in waiting THEN 0 ELSE 1}

\* inc/eventnums.h:134, EVT_APP_STOP "notifies app that have outstanding IO": the
\* host does not end a task with events under way without telling it.
ToldToStop ==
  [][\A s \in Slots :
       ~Stopped(s) /\ task'[s].flags = {"STOPPED"} /\ EventsOf(s) > 0 =>
         stack'[1].do = "stop" /\ stack'[1].cur = s]_vars

\* seos.c:747, osUnloadApp "is called on task that has stopped running, or had
\* never run".
UnloadsStopped ==
  [][\A s \in Slots : task[s].loaded /\ ~task'[s].loaded => s \notin Reached(Tasks)]_vars

\* inc/seos_priv.h:65, TIDs eliminate the ambiguity of a task pointer that is used
\* again: a message is handled by the task it was sent to, and while that runs.
RightInstance ==
  InApp /\ Top.do = "handle" /\ stack[2].ev.type = "private" =>
    task[Me].loaded /\ Tid(Me) = stack[2].ev.to

\* inc/eventnums.h:140: a task that was told to stop, or aborted, ends.
Ended == \A s \in Slots : Stopped(s) ~> ~Stopped(s)
=============================================================================
