# Verification of the context hub kernel (SEOS)

TLA+ models, TLC configurations and TLAPS proofs for the operating system that
runs on the sensor hub of Samsung's application processors,
`src/contexthub/firmware/os/core`. Paths below are relative to
`src/contexthub/firmware/os` unless they start with `src/`.

The repository holds many other parts: the hardware abstraction layers of
Android for camera, audio, codecs, graphics and so on. They wrap drivers and
services that are not in the repository, and keep little state of their own.
The hub's kernel is a complete program with its own scheduler, allocator, event
system and application life cycle, shared between interrupts and a main loop;
that is why the project is about it.

How to run things, in this directory:

    tlc -workers 2 -config Heap.cfg HeapMC        # any run of PROJECT.json
    tlapm Heap_proofs.tla                         # the proofs of one module

## 1. The system

One CPU, one thread (`osMainDequeueLoop`) that takes events from one queue and
hands them to apps by calling them, and interrupt handlers that preempt it
and put events into that queue. Apps run to completion on the kernel's stack.
Interrupts have priorities; a critical section turns all of them off.

| Part | State | Operations | Talks to |
|---|---|---|---|
| Event queue (core/eventQ.c) | a ring of records through a head node, ordered | enqueue (front or back, with a search for a victim when full), dequeue, removal of all that match | slab below it; main loop, interrupts and timers above |
| Slab (core/slab.c) | a bit per item | allocate, free | event queue, seos.c, sensors, timers |
| Heap (core/heap.c) | chunks with headers, tail pointer, flag for pending merges | heapAlloc, heapFree, heapFreeAll | everything; heapFreeAll when a task ends |
| Tasks and events (core/seos.c) | task pool with two linked lists, TID counters, flags, ioCount, subscriptions, current task | start, stop, end and abort of apps; subscribe, publish, private events, deferred calls; the main loop | event queue, heap, timers, sensors, apps |
| Flash segments (core/seos.c 472-940) | a chain of segments, each with a state that only loses bits | create, close, erase, find apps, start them | uploads; bootloader's flash routines |
| Timers (core/timer.c) | slots with id, expiry, owner; the hardware alarm | set, cancel, cancel all of a task, fire | interrupts, event queue, sensors |
| Sensor manager (core/sensors.c) | per sensor a power and rate state, a matrix of clients' requests | request, change, release, flush, answers of drivers | drivers (apps), tasks, events |
| Host interface (core/hostIntf.c) | the packet exchange (idle, writing, restart), retransmission buffer, interrupt bits, blocks of sensor data | receive, acknowledge, respond, flush, config commands | bus drivers at interrupt level, commands, output queue |
| Output queue (core/simpleQ.c) | index linked list and free list | enqueue with discard, dequeue | host interface |
| Nanohub commands (core/nanohubCommand.c) | upload state, packets prefetched for the host, time synchronisation | upload start, chunk, finish; read and write events; management | host interface, flash segments, appSec |
| App images (core/appSec.c) | state of a stream decoder | receive data, finish | uploads |
| CHRE API (core/nanohub_chre.c, osApi.c, syscall.c) | little; frees events for apps | system calls | tasks, sensors, timers |
| SPI (core/spi.c) | one transaction | start, next packet, done | drivers, timers |
| Boot loader (core/bl.c), platform/, cpu/, drivers/, algos/ | hardware | | below or above the kernel |

### What is hard here, and what has to hold

- **Preemption.** Enqueueing takes a record, fills it and links it in three
  steps, and an interrupt can do the same between any two. No record may leak or
  be used twice, the ring must stay one ring, and no accepted event may be lost.
- **Sections that do not hold.** `heapFree` ends with an unconditional
  `__enable_irq` (core/heap.c:259). A section opened by `cpuIntsOff` in which a
  free callback reaches the heap ends there: the walk for a victim of the event queue
  and the scan of the timers are such sections, and are modelled with what runs in them then.
- **Re-entrance.** While the main loop hands an event to apps, they subscribe,
  publish, send, abort, and so change the lists the loop is walking over.
- **Deferred effects.** Subscriptions, stops and messages take effect when their
  event is handled, and the task they name may have been replaced by then.
- **Limits.** The queue has 512 records, the slab for internal events 64,
  ioCount 8 bits, a TID counter 8 bits. Every post can fail, and most callers
  have already changed something when it does.
- **Ends.** A task must end when it is told to, after its events, and its slot,
  memory and timers must come back.
- **Resets.** Flash writes happen one after the other; the chain of segments
  must make sense after a reset between any two.
- **Retries.** The host repeats commands it got no answer to.

`PROJECT.json` lists these hazards line by line, with the properties that
are about them.

Per component, correct means:

- Event queue: the ring is well linked and single, records are accounted for, an
  accepted event is delivered or removed exactly once, in order, eventually.
- Heap: chunks tile the heap, live blocks are disjoint, stay as long as asked
  for, and are freed only by their owner; every call returns.
- Tasks: every task slot is in exactly one place; a task's subscriptions
  are what it asked for; a broadcast reaches all subscribers; ioCount counts;
  free callbacks run once; nothing of an unloaded app runs; stopped tasks end.
- Flash segments: a valid segment holds a complete image; after a reset the area
  can be walked and used.
- Timers: a timer that is set fires unless it is cancelled; one that is cancelled
  does not fire later and no event of it arrives; slots and ids are not confused.
- Sensors: the hardware rate serves every client; a sensor without clients is
  off; a client's end leaves no request behind; the state machine cannot hang.
- Host interface: a command is executed once however often it is sent; each
  request is answered once; the receiver is always re-armed.
- Output queue: both lists are disjoint and complete; the counters of waiting
  blocks agree with the blocks.
- Uploads: the state is not used after it was freed; a segment is closed once.

## 2. The modules

| Module | What it is | Models |
|---|---|---|
| EvtQueue | event queue and slab under preemption | core/eventQ.c, core/slab.c |
| BoundedEvtQueue | what the queue promises | inc/eventQ.h |
| EvtQueueMC | instances for TLC | |
| EvtQueue_proofs | proofs, the refinement of BoundedEvtQueue among them | |
| Heap | the heap, loop by loop | core/heap.c |
| Allocator | what the heap promises | inc/heap.h |
| HeapMC, Heap_proofs | instance; proofs | |
| SeosTasks | tasks, events, main loop, apps | core/seos.c |
| SeosTasksMC | instances for TLC | |
| SeosTasks_proofs | proofs | |
| Timer | slots, ids, the scan with its callbacks, the alarm, the idle loop | core/timer.c, end of core/eventQ.c |
| TimerMC, Timer_proofs | instance; proofs | |
| HostLink | packet exchange with the host, the two prefetched buffers | core/hostIntf.c, core/nanohubCommand.c |
| HostLink_proofs | proofs | |
| SimpleQueue | the output queue's array of linked entries | core/simpleQ.c |
| DiscardQueue | what that queue promises | inc/simpleQ.h |
| SimpleQueue_proofs | proofs | |
| SeosCounts_proofs | proofs of SeosTasks about callbacks, ends, ioCount, space, requests and broadcasts | |
| Sensors | one sensor, its clients' requests, its driver | core/sensors.c |
| SensorsMC, Sensors_proofs | instance; proofs | |

Definitions whose comment says "Mutant of X" are faulty variants of X; they
show that a property notices a plausible bug, and nothing else uses them.

### EvtQueue

A *context* is the main loop (0) or the interrupt handler of a priority level;
`pc`, `ev`, `front` and `item` are the locals of its `evtQueueEnqueue`, `cons`
those of the main loop in `evtQueueDequeue`, in `evtQueueRemoveAllMatching`, or
in a handler. `Runs(c)` is the rule of preemption: nothing above c is under way.
What the code does with interrupts off and without calling anything is one step;
everything else is a step per shared access. The walk for a victim calls a free callback, so
that what follows it in the walk is not covered by `cpuIntsOff` any more, and evtListDel of
the victim is a step for each of its four stores:

| Action | Code |
|---|---|
| Offer, Alloc, Fill, Link | the normal path of `evtQueueEnqueue`, slabAllocatorAlloc being one exclusive store |
| Scan, ScanNext, Refuse, Discard | its walk for a victim when the slab is full, the victim's callback |
| Unlink, StoreBack, StoreFore, ClearPrev, ClearNext | `evtListDel` of the victim: its two links are read (words side by side, one step), then one step per store |
| StrayFault, StrayReturn | the walk going on from the cleared link |
| Pop, Read, Release, Finish | `evtQueueDequeue` and the end of a turn of the main loop |
| RemoveBegin, RemoveMatch, RemoveSkip, RemoveEnd | `evtQueueRemoveAllMatching` |

`primask` is the CPU's interrupt mask. `HeapFreed` names the events whose free
callback ends in `heapFree`; discarding one of those turns interrupts on in the
middle of the walk. The walk itself goes on after its victim through a link it has
cleared: a read through NULL, whose outcomes (a fault, or a value that leads
back to the head) are the two Stray actions. `halted` is a CPU that took a fault.

While an unlinking is half done the links in memory do not make a ring; `ahead` and `behind` are
the links that its remaining stores leave, and the properties of the ring are about them. A
handler that links its record between two stores is covered by that. One that chooses a victim
of its own there is not: it unlinks a neighbour of the half unlinked record, whose
old links the interrupted stores then write, and the ring is torn for good. The history variable
`torn` records that this has happened; RingOK, SlabAccounted and OneRing say nothing from then
on, and without that excuse TLC finds each of them violated in event_queue_discard. `Fault` is a
CPU that follows a NULL link of a torn ring. The rest of the module needs no excuse.

`fate` and `frees` are history: what became of each event, and how often its free
callback ran. Events are offered once each, which keeps the state space finite
without limiting the order or the context they come from.

Not modelled: `evtQueueFree` (nobody calls it), a failing `evtQueueAlloc`
(there is no system then), enqueueing with interrupts already off (that is one
uninterrupted enqueue, which the model has).

### Heap

Addresses are numbers, `nodes` is the set of headers reached from the first one,
and `size`, `used`, `tidx`, `prev` are the header's fields. `After(a)` is
`heapPrvGetNext`. `op` is the call under way: each of the loops of
`heapMergeFreeChunks` and `heapFree` takes one action per round, so the
invariants are about every intermediate state, which matters since the chunk a
loop stands on can absorb others and the tail can disappear. `heapAlloc`'s search
is one action, since it only reads. Calls run with interrupts off from end to end
(`__disable_irq` is their first statement), so one is under way at a time, and
their trylock is always granted. Requests are rounded up modulo 2^32, as in the
code. `live` is history: the blocks handed out.

HEAP_DEBUG is off in the models, as it is in the build.

### SeosTasks

The main loop and everything it calls is one thread, and `stack` is its call
stack: kernel frames (`event`, `walk`, `host`, ...) and frames of app code
(`init`, `handle`, `stop`, `end`, `free`). While a frame of app code is on top, the
app makes any number of calls and returns; a call that itself calls an app pushes
further frames, as it does in C. An app in its init is on the stack until it returns, so an
abort in a callback that runs meanwhile is one in its init, too. `Interrupt` is a handler that calls `osDefer`; it
can come at any time and posts in the name of the task it preempts. `Faults` says
what apps may do besides; a run that leaves one out says nothing about it.

| Action | Code |
|---|---|
| Dequeue, Dispatch, Visit, Visited, Free, Finish | `osMainDequeueLoop`, `osInternalEvtHandle`, `osExtEvtHandle`'s walk, `handleEventFreeing` |
| ApplySubscribe, ApplyUnsubscribe | EVT_SUBSCRIBE_TO_EVT, EVT_UNSUBSCRIBE_TO_EVT |
| EndTask | EVT_APP_END: `osUnloadApp`, then the slot is free |
| Publish, Subscribe, Unsubscribe, SendPrivate, Dropped | `osEnqueueEvt`, `osEventsSubscribeUnsubscribeV`, `osEnqueuePrivateEvtNew` |
| Abort, AppReturn | `osChreAbort`, return of the app |
| StartApp, Started, Failed | `osStartApp` before and after the app's init |
| StopApp, Stopping | `osStopTask` before and after EVT_APP_STOP |
| OtherWork | deferred work that touches no task |

`list` holds the links exactly as the code does, indices with NO_NODE for "none"
and the zeros that memset leaves in a task that is on no list; `ListRemove` on such a
task does what the code does to task 0. The event queue is the one of
BoundedEvtQueue: a sequence with a capacity (events here are never discardable,
and no timers remove any). The slab of internal events is counted: its items in use are
those of the events that hold one, in the queue and on the stack.

`wanted` (the events each task asked for) and `callbacks` (how often the
callback of the i-th call ran) are history.

Left out: retained events (`osRetainCurrentEvent`), the broadcast of EVT_APP_START
at the end of booting, what `osTaskRelease` frees in other parts (timers, sensors,
heap), host commands that name several apps at once (each deferred call names
one), subscribing to several events in one call (one each), and the search for
images in flash (the set Apps instead).

### Timer

`stack` is what the CPU runs: the main loop at the bottom, at most one interrupt handler,
and the calls into timer.c that each of them and each callback makes. A scan
(`timFireAsNeededAndUpdateAlarms`) turns interrupts off and takes one slot a step; a
driver's callback runs on top of the scan and may set and cancel timers, whose own
scans then nest on top of it.

The section of a scan does not hold. A callback that allocates or frees memory turns interrupts
on (core/heap.c:206 and 259, `Reopen`), and so does a timer's event that finds the queue full and
has another one discarded whose memory is freed (`PostEvent`). From there on the scan is `open`: a
handler, with a scan of its own, may come between any two of its steps, also between
the look at a timer and its firing (`Notice`) and between the drawing of an id and its
storing.

| Action | Code |
|---|---|
| SetStart, Draw, SetWrite, ScanOfSet | `timTimerSetEx`: slot claimed, id drawn, structure filled in with the id last, scan |
| Pass, NotYet, Notice, FireEvent, FireCall, CallbackReturn | one slot of the scan |
| PostEvent, Posted, Reopen | an event posted with interrupts coming on, or on already; a callback that uses the heap |
| ScanAgain, ScanEnd | its end: once more, or the alarm is set |
| Cancel, CancelFree | `timTimerCancelEx`, the bit being cleared with interrupts on again; id 0, which finds a disabled slot, included |
| CancelAll | `timTimerCancelAll`, from `osTaskRelease` |
| Idle, WakeByAlarm, WakeByIrq | the empty queue in `evtQueueDequeue`: scan, sleep, scan |
| Interrupt, TimIntHandler, HandlerReturn | a handler, of the timer or of a driver |
| Tick | the clock, wherever the code is about to read it |

`upset` is history: a scan has lost its section, or the cancellation of id 0 has freed a slot that
somebody held (`timTimerCancelEx` finds a disabled slot with the caller's TID, one just claimed
or whose callback runs, and clears its bit; drivers/lpd/lpd.c:97 makes such calls). What
survives that and what does not:

| Property | After that |
|---|---|
| NoneAfterCancel, DueTimersFire, AlarmCovers while the hub sleeps | checked without an excuse |
| SlotsAccounted, Punctual, AlarmCovers outside of scans and of sleep | excused, and violated without the excuse |

Two scans can fire one timer twice, one of them can free a slot that the other's callback has set
again, and an outer scan can overwrite the earlier alarm of one that ran in it. The hub
still sleeps past no timer: before it sleeps it scans again, with interrupts off and no
callback allowed to have run.

An id may be any that no armed slot has and nobody has just drawn: timers of which no trace is
left move the counter on between any two draws, so that a new timer may get the id of an old
one while an event of it is in the queue (`Draw`). Ids are numbered in the order of their first use.
The code skips ids in use, not those drawn by a call that was preempted
before it stored them; for two calls to draw one id, 255 timers would have to be set while one
call is preempted (the bound in `Drawn`). A timer with a callback belongs to a driver; a timer of
an app posts a private event, which may find no room and is then dropped. `log` is history:
one entry per timer set. Left out: jitter and drift (they only choose the platform's clock), the RTC
variant of `timGetTime`, and the double free of a slab item when the event of an
expired timer is refused (see 5).

### HostLink

The receiver, the sender's completion and the wake line are interrupts that run to their
end; `main` says where the main loop stands in `nanohubPrefetchTx`, which they may
interrupt between any two of its steps. A packet is what its kind, sequence number and
blocks say; a block is its number.

| Action | Code |
|---|---|
| Add | `hostIntfAddBlock` |
| Check ... Update | the statements of `nanohubPrefetchTx` that share state with interrupts |
| PrefetchDefer, GenerateResponse | the deferred `nanohubPrefetchTxDefer`, `hostIntfGenerateResponse` |
| RxDone | `hostIntfRxDone` with `hostIntfGenerateAck`: a repeated sequence number is answered from the retransmission buffer, a busy hub says NAK, or `readEventFast` |
| TxDone | `hostIntfTxAckDone`, `hostIntfTxPayloadDone` after success, after a loss that the hub does not notice, and after an error (AckError, and what Acknowledged and the payload's end share with it) |
| WakeLine in HostWake, HostSleep, Timeout | `hostIntfRxPacket` |
| SetBusy, ClearBusy | `hostIntfSetBusy` |

The host is external, modelled from the checks that the hub makes of it: it
keeps a sequence number until it has the response to it. Faults are counted: a packet lost
either way, a transmission that ends in an error, a timeout while the hub is still at work, a
refused `osDefer`, a busy hub. `ackFailed` is history: an acknowledgement ended in an error.
hostIntf.c:489-490 then keeps sequence number and command, starts no response, and answers each
repetition of the request as it answers one that is being worked on. Nothing is lost
or sent twice by that, but the exchange stops, so Delivered excuses it (and is violated
without the excuse).
Left out: commands other than reading events, several blocks in one packet, the
non-wakeup interrupt (same code as the wakeup one, with the other bit), clock
synchronisation, and a packet received with an error (`hostIntf.c:408`, see 5).

### SimpleQueue and DiscardQueue

`next`, `head`, `tail` and `freeHead` are the code's indices, none being
SIMPLE_QUEUE_IDX_NONE. `EnqueueDiscarding` is the walk for a victim: the callback
agrees to lose any subset of the entries. DiscardQueue says what a caller sees: a bounded
sequence that gives up its oldest entry that is marked and agreed to. Only the main
loop calls the queue (blocks are added there, and with interrupts off in HostLink's
Fill), so each call is one step.

### Sensors

One sensor, since the manager treats each on its own: its record, the slots of
`mCliSensMatrix`, the handlers deferred by `sensorSignalInternalEvt`, and the driver.
Everything runs in the main loop, so each function is one step; what interleaves is the
clients' calls with the driver's answers.

| Action | Code |
|---|---|
| Register, RegisterInitComplete, InitFails, OwnerEnds | `sensorRegisterAsApp`, `sensorRegisterInitComplete`, `sensorUnregister`, the owner's part of `sensorFreeAll` |
| Request, RequestRateChange, Release, End | `sensorRequest`, `sensorRequestRateChange`, `sensorRelease`, the client's part of `sensorFreeAll` |
| Reconfig in all of them | `sensorReconfig` with the call to the driver, which may be refused (PowerRefused, FwRefused, RateRefused) |
| PowerDone, FwDone, FwFailed, RateDone | the driver ends a call (Powered, Loaded, AtRate); its signal is deferred or lost |
| PowerStateChanged, FwStateChanged, RateChanged | the deferred handlers |

`currentRate` holds a rate, on-demand and on-change as the large numbers they are, or a state of
the machine (powering on, loading firmware, powering off); `CalcHwRate` is
`sensorCalcHwRate` with its special cases: a sensor that declares no list (`HasList`
FALSE) takes the two special rates and no other, and one-shot is a rate like any. The driver stands
for those in drivers/: it finishes power and firmware calls in order and has one
rate to go to. A call that it refuses has done nothing, or has acted and could not signal it:
drivers/hall/hall.c:136-154 switches the hardware and returns what
`sensorSignalInternalEvt` returns. `astray` is history: a power call acted and was
refused, and none has ended since. `twice`, `gaveUp`, `faults` and `fwFails` are history and
bounds. Nobody asks for rate 0, by which sensors.c:663 and 703 would divide: what
follows is undefined. Handles are 8 bits that count the registrations of all sensors, and
stale ones may meet a new sensor after 256; the model has at most that many. Left out: calls that only pass through
(flush, trigger, calibration, configuration), the events that announce a new rate to the
clients, and `sensorGetTime` and the like.

## 3. The runs

All sizes are chosen so that every action happens and every limit is hit.

| Run | Instance | States | Shows |
|---|---|---|---|
| event_queue | 2 records, 1 interrupt level, 4 events of which a timer may remove one | 48 000 | types, no loss, callbacks once, refinement of BoundedEvtQueue, and that accepted events are served |
| event_queue_discard | 2 records, 2 levels, 4 events, two discardable, one of them freed through the heap | 244 000 | the ring and the slab survive the walk for a victim with handlers between the stores of `evtListDel`, until an unlinking is torn |
| event_queue_victim | 2 records, 1 level, one discardable event | | finding: an accepted event is lost |
| heap | 22 units with headers of 4 and alignment 2, requests of 0, 1 and 4 units, two tasks | 81 000 | chain, live blocks, refinement of Allocator, calls return |
| seos_events | 3 slots, 2 apps, 3 app calls, 1 interrupt, slab of 3, queue that never fills | 751 000 | subscriptions, broadcasts, ioCount, callbacks, notice before a stop |
| seos_lifecycle | 3 slots, 2 apps that may fail in init or abort in a handler, 2 app calls, 1 interrupt | 249 000 | lists, slots, nothing of an unloaded app runs, stopped tasks end |
| seos_full | 3 slots, 2 apps that may abort, queue of 2, 3 calls, 1 interrupt | 116 000 | refused posts leave no trace in the counts |
| seos_abort_init | 1 app | | finding: an app that aborts in its init is unloaded while it is linked |
| timer | 2 slots, ids 1 and 2, a driver's and an app's timers, once and periodic, 2 sets, clock up to 2, 1 interrupt | 864 000 | slots and ids, punctuality and the alarm while the scan's section holds; no event of a cancelled timer, no timer slept past and due timers fire, even after it was lost |
| host_link | 3 blocks, 2 faults (transmissions that end in an error among them), 2 sequence numbers | 213 000 | no block lost, repeated or reordered; one side answers; what was announced arrives |
| simple_queue | 3 entries, 2 items | 2 300 | the chains partition the entries; refinement of DiscardQueue |
| sensors | 2 clients, 4 wishes, a list of two plain rates and a special one, 2 slots in the matrix, 2 registrations, 2 deferred handlers, 1 fault | 664 000 | one call at a time, currentRate is true unless a refused call acted, only declared rates and no special one for a plain request, no request of ended clients, the sensor settles |

Why the bounds are enough. Event queue: two records are the fewest with a first and
a last one; four events are enough to fill both, to have one in the hands of the
main loop and one offered from an interrupt; two levels let a handler preempt a
handler that preempted the main loop. Heap: 22 units hold five chunks of minimal size,
so that a merge can have free neighbours on both sides and used ones beyond
them; the sizes force both a split and a fit that is not worth splitting, and 0 is the
size at which rounding matters most. Tasks: three slots are the system's and two of
apps, so that a list has a first, a middle (when starting) and a last task and a slot is
used again within the run; two apps suffice for one that aborts and one
behind it. Two calls are what it takes to subscribe and then abort in the handler of the event
that arrives. `Counter` is 4, more than the starts in a run. `IoWidth` is 256 and the
queue shorter, see below.

Timer: two slots let a callback set a timer behind and in front of the scan's position. An id
comes again within two sets: the first timer has fired, its event waits in the queue (which
holds one, so that a second one is refused or has it discarded) and the second timer draws the
same id. Two ids are all that two slots can have in use at a time. Lengths of 1 and 2 order the
timers either way, and two ticks let both expire. Two sets are one timer that fires and one that
its callback, or a handler in an open scan, sets in the same slot. HostLink: `mTxCurr`,
`mTxNext` and the queue hold a block each with three; a sequence number comes back after two
exchanges; two faults are a lost response followed by a lost retransmission, or a
timeout that crosses the wake of the next request, or an acknowledgement that ends in an error
and the repetition it causes. SimpleQueue: three entries are a first, a
middle and a last one, and each of them can be the victim; the run is complete, with
no bound beside it. Sensors: of four wishes one is plain and above the slower of two plain rates, so that
a special rate taken for the fastest, and the slower rate taken for enough, would show; one is
special and in the list, one special and not, and one-shot is refused as a plain rate above all
others. The faster wish is not the one with the smaller latency, so that rates and
latencies come from different clients; two registrations make old signals and old
requests meet a new handle. A sensor without a list is not a run of its own: what differs is
which wishes are granted, and the theorem covers it. Signals are bounded below MAX_INTERNAL_EVENTS (32), since two
outstanding answers and a rate are all that one sensor can have at a time by OneCall.

Deadlock is not checked where events, calls, blocks, registrations or the clock are
bounded: the hub sleeps once they are used up. It is checked for the heap and
for the output queue, which can always go on.

Which run leaves out what, and why:

- seos_events has no failing inits and no aborts. An abort ends a broadcast early and an
  interrupt's deferred call that is charged to an app whose init then fails wraps its
  ioCount (`osFreeTask` clears it, freeing the event later decrements it); both are
  in the hazards.
- seos_lifecycle and seos_full let apps abort in handlers but not in init, where a
  task is not on the list it is then removed from (finding).
- seos_full checks the counts alone. The lists of tasks are seos_lifecycle's, since a full queue
  has no path of its own into them. Subscriptions, broadcasts and callbacks are left out: with a full queue a message
  that is refused has its callback run twice, and a stop that is refused never ends (see 5).
  seos_events checks them with a queue that never fills.
- No passing run lets apps send messages after they were told to stop ("late"): the
  code accepts such messages, handles them in a slot that was unloaded, and
  inc/eventnums.h:136 promises that it does not. OnlyLoadedRun is violated then.
- No run lets apps send to each other ("to others"), which is when a TID is looked up that
  may be of a task that is gone; RightInstance states what should hold and is violated
  then (see 5).
- ToldToStop and IoAccounted are checked with an ioCount that does not wrap, by
  giving it more values than the queue has records. The code has 256 values and 512
  records; a task with 256 events under way would count 0.
- The properties of event_queue_discard, SlotsAccounted, Punctual and a part of AlarmCovers,
  Delivered, and InStep each excuse one history the code does not survive (`torn`, `upset`,
  `ackFailed`, `astray`; section 2). These histories do occur in the runs, and what is
  checked without the excuse goes on to be checked in them.
- FreedOnce of the event queue is checked without discardable events. With one that is
  freed through the heap, an interrupt in the middle of the walk can find the same
  victim and free it again.

### Fairness

- EvtQueue: a context that is in `evtQueueEnqueue` goes on when it is its turn (weak
  fairness), and the main loop does (strong fairness: it is preempted again and again,
  and each time resumed). There is one CPU that executes instructions, and the
  handlers modelled are finite. No interrupt and no new event is assumed to come.
- Heap: weak fairness of the loops of a call; nothing can preempt them.
- SeosTasks: weak fairness of the main loop, of which apps are a part: it sleeps only
  while the queue is empty (`evtQueueDequeue`), and an app that does not return stops
  the hub, which the watchdog then resets. Interrupts are not fair.
- Timer: weak fairness of what the CPU does next by itself (`Run`, or `PostEvent` in its
  place) and of the clock; strong fairness of `Ends`: a task, a handler or a callback that sets and
  cancels timers comes to its end and does not do so for ever. Nobody has to set or cancel a timer and no
  interrupt has to come: DueTimersFire rests on the alarm alone.
- HostLink: the main loop runs, a packet on its way arrives or is lost, the transport
  completes what it sends, and the host follows its protocol: each is
  weakly fair, and how often the link fails is bounded (otherwise nothing need ever
  arrive). No block has to be added.
- Sensors: the main loop runs the first deferred handler (weak fairness of `RunDeferred`), and a
  driver finishes something of what it took on (weak fairness of its three answers
  together). Clients and owner need not do anything; Settles is about their stopping.
- SimpleQueue: none, it has no liveness property.

## 4. The proofs

TLAPS checks them for every value of the constants, from the assumptions named in the
modules (`EvtQueueAssumption`, `HeapAssumption`, `SeosAssumption`, `TimerAssumption`,
`HostLinkAssumption`, `SimpleQueueAssumption`, `SensorsAssumption`): finitely many records, any number of
interrupt levels and of events; a heap of any size with headers of any size; any
number of tasks, apps, events, records, calls and interrupts; any number of
timer slots and ids, any lengths, any depth of nested scans, all until `upset`; any number of blocks and
faults of the link; any number of entries of the output queue; any clients, any wishes
within the units of sensors.c, any list of supported rates or none, any matrix and any number of
faults.

**Induction.** The library states induction for an operator, which the provers cannot
instantiate. Three lemmas state it for sets instead (Least, Greatest, Climb; each proof
module states the ones it uses): a set of numbers has a least
element, a bounded one a greatest, and one that holds 0 and goes on to the next number
holds all. Whatever a recursive *function* computes (Along in SimpleQueue, the `kept` of
Timer's Evicted) can be proved about with them, by the set of the numbers for which it holds.

**EvtQueue_proofs.** TypeInv == TypeOK /\ Framed is inductive by itself, on a torn ring too:
TypeCorrect has no excuse. What the ring and the slab owe to the code is

    RingInv == TypeInv /\ Firm
    Firm    == WellLinked /\ OneCycle /\ SlabAgrees /\ FramesOK /\ WalksAlone
               /\ Full /\ Below /\ Marked /\ Bare /\ Apart

and the inductive invariant is TypeInv /\ (torn \/ Firm), `torn` being for good. The first three
parts are what RingOK, OneRing and SlabAccounted say unless the ring is torn, about the links
`ahead` and `behind` that the remaining stores of unlinkings leave. OneCycle says without recursion
that the ring is one cycle: every set of nodes that holds the head and is closed under `ahead`
holds every linked node. It is what lets one argue about walks. The others are the strengthening.
FramesOK and WalksAlone: a walk stands on a linked node, or on the one whose unlinking it
interrupted, and whoever walks has the interrupt mask set and no handler running
above it. Full, Below, Marked, Bare and Apart are about unlinkings of which some stores are done:
no record is allocated meanwhile, whoever interrupts one gets no further than its own walk (or
the ring is torn), the stores to come write links of nodes that are still linked, and no two
contexts take one record out.

StoresKeepLinks says that a store of evtListDel moves the ring in memory and not the one seen
through `ahead` and `behind`; UnlinkStep is the moment at which the victim leaves it, LinkInserts
the insertion between stores, and ListDelUnlinks the unlinking in one go by those who have
interrupts off. ListDelKeepsRing, InsertKeepsRing and their OneRing counterparts say what
unlinking and linking do to any ring. Theorems: LinksAgree, RingCorrect and RecordsAccounted, until
`torn`, for any number of records and of nested handlers.

NothingLost and FreedOnlyOnce assume that no event is discardable: that is the case the code
handles correctly. Nobody then chooses a victim, nothing is ever torn, and `ahead` and `behind`
are the links in memory (Plain, PlainSeen). The theorems need EventsInFrames and EventsInRecords
besides, which say that an event is in one record or in one hand, and FreesOK, that
whoever is about to run a free callback holds an event whose callback has not run.

QueueIsBounded, under the same assumption, is the refinement of BoundedEvtQueue. The mapping
walks the ring with the recursive function NodeAt; the proof follows the ring as a sequence q
of records instead. Ordered(q, ahead) says that along the links each record of q leads to the one
behind it and the last to the head, that none comes twice and that no other record is linked.
NodeAtIs (the function unfolded) and WalkIs tie the two together by the lemmas on sets of
numbers, LinkedAre counts the linked records. PutLast, PutFirst and Shortened say what linking
and unlinking do to q (DelTakes ties the latter to evtListDel), ShownLast, ShownFirst and ShownWithout what that does to the events
shown. LinkPuts, PopTakes and RemoveDrops are the three steps that the abstract queue sees; of
all others OthersStay shows that they are none, among them the write to a record that is
allocated and not yet linked (Fill), and the copying out of one that no longer is (Read).
Nothing had to be added to the invariant of NothingLost but that the ring has an order.

**Heap_proofs.** The inductive invariant is

    HeapInv == TypeOK /\ ChainOK /\ OpOK /\ LiveIntact

ChainOK: each node's successor is a node that points back to it, or the end of the
heap for the tail, and a chunk ends at or before every later node. That last conjunct
makes chunks disjoint without induction over the chain. OpOK says where the call under
way stands: on a node, and, while merging in heapFree, on a free one.
AbsorbKeepsChain and SplitKeepsChain are the two lemmas all steps rest on. Every
theorem assumes NoWrap, that no request is so close to 2^32 that rounding it
up wraps around: with one, heapAlloc hands out an empty block (see the hazards).
Theorems: HeapTypeCorrect, ChainCorrect, BlocksIntact, and HeapRefines: the heap
implements Allocator. Its heart is FitGrants: the chunk chosen is free, those of
live blocks are not, and chunks do not overlap.

**SeosTasks_proofs.** The inductive invariant is

    TaskInv == Good(Running, Spare, list, task, queue, stack, calls)

Good is a relation between values, with R and F for the tasks on the two lists:

- TwoLists: there are two sequences of different tasks, without a common one, that the links
  of `list` spell out in both directions. The zeros that memset leaves in a task that is
  being started are therefore never followed. Visits ties `for_each_task` (Reached, a
  recursive function) to the sequence, by the lemmas on sets of numbers above.
- StatusOK: a task is loaded when it is not free; a stopped one is on neither list; each is
  free, running, stopped, or being started by a frame on the stack.
- QueueOK: an event that will run code of a task (its free callback, a message) finds the
  task loaded; there is at most one end of a task in the queue, it is of a stopped task,
  and nothing that runs code of this task comes behind it. This is why a task can
  be unloaded when its end is handled.
- Shape: frames of app code lie on one frame of the main loop, under which there are only starts at
  boot; an init lies on the frame that starts its task.
- FrameOK: what each frame relies on. The walk of a broadcast stands on a running task;
  while an app runs in it, this task may leave the list, and then its link is NO_NODE,
  so that the walk ends early (the divergence of section 5) but never goes astray. A task that is
  being started is on no list and not stopped. Whoever handles an end knows that
  nothing of this task is left in the queue. An init that may yet fail (`osStartApp` calls
  `osUnloadApp` at once, without an end) has not posted anything whose callback is its own.

The third part of QueueOK is what a model checker shows only for small queues, and the last
of FrameOK is what makes the case of a failed init inductive. "The moves" are lemmas about Good for
what several actions do (an event is posted, charged, taken, a frame is replaced,
pushed, popped, a task leaves a list, is put on one); each action is then a sequence of moves, and
has one lemma of its own (PublishKeeps, AbortKeeps, ...). Theorems: ListsWellLinked,
UnloadedCodeRests and OnlyStoppedUnload. They assume that `Faults` holds nothing but
"load", "init" and "abort", as in the passing runs. For UnloadedCodeRests these are three real
restrictions that the code does not enforce: no app sends messages after it was told to stop
("late": seos.c:1398 accepts them, and its code then runs in a slot that was unloaded), none sends to
another ("to others"), and none aborts in its init. What the theorem says is that for
apps that keep to them no order of posts, stops, aborts and restarts runs unloaded code. With "abort in init" OnlyStoppedUnload is what
the run seos_abort_init refutes, and the invariant breaks where that run does: the
aborted task is on no list, yet on the frame that is about to link it.

**SeosCounts_proofs.** What SeosTasks keeps account of is proved on top of TaskInv. The first
half is about numbers. Each is `Tally(X, Y, queue, stack)`, how many entries of the queue are in X
and how many frames of the stack are in Y: the events with a given free callback, the
ends of a task, the events in its name, its messages, the records of the slab. One
lemma per action (DequeueDoes, VisitDoes, ...) says what it does to the queue and to the
stack: it posts at one end, takes the head, or turns, pushes or pops frames (StackStep). The Counted
lemmas say what each of these does to a tally, once for all.

- FreedInv: the callback of a call has run exactly when no event and no frame carries the
  call. FreedJustOnce assumes that the queue is never full, because a private event that
  a full queue refuses has its callback run twice (seos.c:1411, section 5).
- SlotInv: a task has one end under way if it is stopped and none otherwise. NoTaskLost
  makes the same assumption: seos.c:800 drops an end that the queue refuses.
- PaidInv, with OrderInv: each ioCount is the tally of the task's events, modulo its
  width (ModPlus is the arithmetic). The step that is not routine is the end
  of a task, where `osFreeTask` sets ioCount to 0 whatever it was: OrderInv says that
  no event in the name of a stopped task is posted behind its end, so that nothing of it
  is left then. IoIsAccounted leaves out failing inits: an interrupt that preempts
  one defers work in the name of a task that is then freed without an end. StopIsTold
  adds that no task has more events than ioCount can count; with 256 of them
  `osStopTask` reads 0 and does not tell the task.
- RoomInv, SizedInv: the queue and the slab hold no more than they can, since no action
  but Dequeue makes a frame hold a record that none held before (Eases), and what is posted
  was checked for room; no list of subscriptions outgrows its space. With TaskInv they
  give TypeOK (TasksTyped).

The second half is about who gets what.

- SubsInv: Wish says what the requests in the queue, and the one being handled, make of
  what the task is subscribed to now; it is what the task asked for. Posting a request
  changes Wish only for its task and event (WishPut, WishPush), and taking or applying one changes
  nothing (WishTail, SubsApply). That no request survives the task it is from, QueueOK,
  is what makes the start of another task in the slot keep it. SubscribedAsAsked covers
  every running task, full lists excepted (`short`).
- DueInv: whom the event of a walk is still for is behind the task the walk stands on.
  Behind says so without recursion: in every set of running tasks that has that
  task, and with a task the one it links to. Lists and subscriptions change only in steps of the
  main loop under which there are frames of boot alone (TurnedDue), hence never
  in the middle of a walk, but for aborts. BroadcastsReachAll therefore assumes that no app
  aborts; one that does ends the broadcast for the tasks behind it (seos.c:1212, section 5).

**Sensors_proofs.** The inductive invariant, SensorsInv, has two parts that do not depend on
each other, LinkOK and PossibleIn, and a few that tie handles together.

LinkOK is about the sensor and its driver: in each state of currentRate at most one call
of that state's own kind is under way, or the one answer to it is among the deferred
handlers, not both; the answer to a power call says what the hardware did; a
sensor that loads firmware is powered; a rate means powered and loaded, and off means not
powered, unless a refused power call acted (`astray`). It is what OneCall and InStep follow from, and
it is stronger than both: without the content of the answers a handler could switch off
what the driver switched on. ReconfigLink is the lemma all steps rest on:
whatever the caller wants, `sensorReconfig` keeps LinkOK, the calls refused after they acted
included (LinkAstray).

PossibleIn is about the requests: special rates among them are supported, and some supported
rate is at least as fast as all plain ones. For a sensor without a list the supported rates are the two
special ones (`Declared`). RateServes: PossibleIn makes `sensorCalcHwRate` answer with a declared rate
that is fast enough. RateGranted says that the check in
`sensorRequest` and `sensorRequestRateChange` establishes it, although the latter compares
rates and not clients when it takes the old request out of account (PossibleMore: the
request it leaves out may be another client's with the same rate). PossibleFewer: it
survives every release, so that the results of `sensorCalcHwRate` that the code does not
check, in `sensorRelease`, `sensorFreeAll` and the deferred handlers, are never
SENSOR_RATE_IMPOSSIBLE.

The remaining conjuncts tie handles together: no signal and no request has a handle that
is still to be given out, a sensor that is not registered has an idle driver, and a
client that asked once has one slot. Theorems: SensorsTypes, SensorsOneCall,
SensorsInStep, SensorsOnlySupported, SensorsNoneLeft. Nothing is assumed of the order of
answers, of refused calls, whether they acted or not, or of lost signals; wishes have a rate
other than 0, and no handle comes back.

**Timer_proofs.** The inductive invariant is `upset \/ TimerInv`: `upset` is for good
(Sticky), and until then the scan's section holds. TimerInv has the four properties and what they need
of each other:

- StackOK: a scan below another frame has called back (`done`), so that it goes round once
  more. That is why a callback may set a timer in a slot the scan has passed.
- OneOwner, Named, Scheduled, OnTime, Started: a slot in use has one owner, an armed one is about
  one entry of the history, carries its id, and expires one length after the last time it fired.
- ClaimsOK: so will a timer that is being set (ClaimsTimed), and an id that was drawn and is not
  stored yet is in no slot and was drawn once (DrawnApart).
- EventsNamed, NoneAfterCancel: an event in the queue carries the id of the timer it came from.
- ScanCovers, AlarmSet: what the scan on top has passed is covered by the earliest time it found so
  far. With StackOK this makes the alarm inductive.

The lemmas about steps follow the shapes that several actions have: ScanMoves (the scan goes to
another slot), WrittenTimers, FiredTimers and DisarmedTimers (a slot is armed, fires, is
freed), CallMade and CallReturns (the stack). EvictedIs says which entries of the
history the removal of events by their id marks. The case that is not routine is
NoneAfterCancel: ids are used again, and an old event may carry the id of a new
timer; the code removes events by id, so cancelling removes more than the events of this
timer and never fewer. Protected and StepInv put the actions together: one that opens a scan sets `upset`, and
all others keep TimerInv. Theorems: SlotsAreAccounted, TimersArePunctual, NoEventAfterCancel,
AlarmIsInTime, all until `upset`; of NoneAfterCancel and of the alarm while the hub sleeps the run
checks more than is proved here, namely that they survive it. No bound of the run enters: MaxId,
the number of slots, the room for events and the clock are arbitrary.

**SimpleQueue_proofs.** The inductive invariant says that there are two sequences u and f
such that Split(u, f): u is the chain from `head`, f the one from `freeHead`, no entry is
in both or twice in one, each is in one of them, and `tail` is the last of u. Each operation
is then one on sequences (Append, Tail, or the removal of the entry in the middle that the
walk of `simpleQueueAllocWithDiscard` has chosen), and WalkIs ties Along, the walk along nextIdx
that the properties use, to the sequence. Theorems: EntriesArePartitioned, and
QueueKeepsItsPromise, the refinement of DiscardQueue: the sequence of what the entries of u hold is
its `queue`, and the victim the walk finds is the oldest that both callers agree to lose.

**HostLink_proofs.** The inductive invariant is

    HostInv == Shapes /\ Receiver /\ OneSide /\ Sequence /\ OnAir /\ Kept /\ Conserved

Conserved is not inductive alone: whether a response may be dropped from the
retransmission buffer depends on what the host still waits for. Sequence says what the hub
knows of it: only the host's open request is worked on, a request with another number is the one
answered last and finds nobody else answering, and a response in the buffer belongs to
the number it was made for. OnAir: what is being sent is that response, or an acknowledgement
after which the response is still to come. Kept: buffer and sequence number
go together but while the main loop is to fill it (readEventFast during a prefetch).
OneSide, from which OneAnswer follows, is what makes all of that local: whoever is to answer is
alone, and the receiver is off. BufferStep is the lemma for all steps of
nanohubPrefetchTx, which cut the same sequence of blocks elsewhere; FilledIs is
fillBuffer. An acknowledgement that ends in an error (AckError) keeps the number and leaves nobody to
answer; neither theorem excuses it. Theorems: OneSideAnswers, BlocksAreConserved.

**Only model-checked.** Served, Returns, Ended, DueTimersFire, Delivered and Settles: liveness
is out of the prover's reach, and so is ENABLED. All three refinements the runs check are
proved. Of Timer, what holds after `upset`: NoneAfterCancel, and that the hub does not sleep past a
timer. Of EvtQueue and SeosTasks nothing but liveness is left; the assumptions of their
theorems about discardable events, faults and full queues are those under which the code
is right. The types of HostLink, Timer and SimpleQueue as far as they bound counters by the
bounds of the runs (what the variables are is part of each inductive invariant).

## 5. Findings

Each of the first two is a run in which TLC finds the violation; quotes are in
PROJECT.json.

1. eventQ.c:116 (event_queue_victim): the walk for a victim goes on after unlinking it,
   through a cleared link. The event that was to take the place is lost although
   the call reports success.
2. seos.c:793 (seos_abort_init): an app that aborts in its init is linked into the
   running tasks afterwards and then unloaded there.

Met while modelling; the models do what the code does, and no run is spent on them:

- seos.c:1212: an app that aborts in a handler ends the broadcast for the tasks behind it.
- seos.c:1411: a private event refused by a full queue has its free callback run twice.
- seos.c:800: a stop whose EVT_APP_END is refused by a full queue leaves a task that
  never ends and cannot be stopped again.
- seos.c:298: a TID is looked up by its index bits only, so a message can reach an
  unloaded task or its successor in the slot.
- `heapFreeAll` sets gNeedFreeMerge to whether *it* freed something and so can cancel a
  merge that an earlier call left pending (the heap stays correct, only more fragmented).
- sensors.c:742: `sensorFreeAll` takes one request of a client from each sensor. A client that
  asked twice leaves one, which holds the sensor on. (NoneLeft excuses such clients.)
- sensors.c, `sensorUnregister`: the requests of clients stay in the matrix when the owner goes,
  and their slots are lost, since handles are not used again.
- sensors.c:485: after a failed firmware upload the sensor is switched off and the requests
  stay; the next change of any request starts it again (`gaveUp`, excused by Settles).
- A refused power or firmware call, or a lost answer, leaves currentRate in
  POWERING_ON, POWERING_OFF or FW_UPLOADING for good: the next request only waits. That
  is why Settles excuses faults; InStep and OneCall do not.
- sensors.c:208: a refused private event has its payload freed by
  osEnqueuePrivateEvt and by the caller.
- hostIntf.c:408: a packet received with an error is dropped without starting the next
  reception.
- hostIntf.c:489-490: when an acknowledgement ends in an error, its sequence number and command are
  kept, unlike in the neighbouring branches, and no response is started; each repetition of the
  request is then answered from the buffer, and never with a response (`ackFailed`, excused by Delivered).
  A NAK sent meanwhile leaves its own length there, so that a retransmission can be cut short;
  the host asks again (the "cut" packet of Retransmit).
- eventQ.c:120-121 with core/heap.c:259: the callback of a discarded event can turn interrupts on;
  a handler that then discards another event, between the stores that unlink the first, tears the
  ring (`torn`, excused by RingOK, SlabAccounted and OneRing).
- timer.c:99 and 105 with core/heap.c:206 and 259: a driver's callback, or the event that is
  discarded for a timer's, can turn interrupts on in the scan, of which timer.c:123 says "protect from
  concurrent execution". A timer can then fire twice, a slot be freed that was set
  again, and the alarm be set later than the first timer, until the next scan (`upset`).
- drivers/lpd/lpd.c:97 cancels timer id 0 when nothing was started; `timTimerCancelEx` finds a
  disabled slot and frees it, although a call may just be setting a timer there.
- timer.c:229: the eviction compares ids, so it can also take an event of another timer that
  had, or has, the same id.
- drivers/hall/hall.c:136-154 powers the sensor on or off, and reports that it did not when its
  signal is refused; currentRate and the hardware then differ (`astray`, excused by InStep).
- sensors.c:663 and 703 divide by the rate a client asked for, and nothing refuses 0.
- timer.c:105: an item of the slab is freed twice when the event of a timer is refused.
- An interrupt handler that cancels its driver's timer does so under the TID of the task
  it preempted and is refused (timTimerCancelEx compares owners).
- nanohubCommand.c:562 and 597: deferred flash work uses mDownloadState after it
  was freed.

## 6. What is done and what remains

Done: EvtQueue, Heap, SeosTasks, Timer, HostLink, SimpleQueue, Sensors, in this order because
later ones rest on what earlier ones promise: SeosTasks uses the queue of
BoundedEvtQueue, Timer's events and Sensors' deferred handlers are a queue that may
refuse, HostLink's queue is the one of DiscardQueue without discards.

What remains, in order of what is at stake:

1. SeosTasks with Timer and Sensors: what `osTaskRelease` releases, as one system.
   Timer's CancelAll and Sensors' End are those calls seen from the part that is called.
2. Retained events (`osRetainCurrentEvent`).

## 7. Not modelled, and why

- Drivers, algorithms, platform and CPU code: register accesses, and arithmetic on
  floats. What the kernel relies on (masking of interrupts, exclusive stores)
  enters the models as its guarantee.
- Flash segments and uploads (core/seos.c 472-940, core/nanohubCommand.c 300-720): the routines
  of the boot loader that they call are compiled under SUPPORT_EXT_APP, which is commented out in
  the makefile of every variant, and the call that erases the shared flash is commented out
  too, so that an upload cannot succeed in what is built from this source. A model would be
  of code that does not run. The hazards in it are listed nonetheless.
- core/appSec.c: decryption and signatures, of use to uploads only.
- core/spi.c and the other transports: one transaction at a time on registers; HostLink has what
  the exchange relies on.
- The boot loader: runs alone, before the kernel, on flash registers.
- printf.c, floatRt.c, syscall tables, osApi.c: no state.
- `src/contexthub_r`: nearly a copy of `src/contexthub` for another release.
- The HALs on the Android side (`src/exynos*`, `src/codec2`, `src/openmax`,
  `src/graphics`, `src/libbt`, `src/modules`, `src/scsc_wifibt`, ...): listed in
  PROJECT.json with a reason each.
