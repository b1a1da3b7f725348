------------------------------- MODULE Sensors -------------------------------
(***************************************************************************)
(* The sensor manager, os/core/sensors.c, for one sensor, the tasks that   *)
(* use it and the driver behind it: the matrix of the clients' requests,   *)
(* the rate the hardware needs for all of them, and the state machine in   *)
(* currentRate that brings the sensor there through calls that the driver  *)
(* answers later.                                                          *)
(*                                                                         *)
(* Every function runs in the main loop to its end.  The driver is one of  *)
(* those under os/drivers seen from outside: it takes a call or refuses    *)
(* it (and may have acted all the same), finishes power and firmware calls *)
(* in order, has one rate to go to (a newer call replaces it), and reports *)
(* each end with sensorSignalInternalEvt, which defers the handler.  The   *)
(* calls that only pass through to the driver (flush, trigger,             *)
(* calibrate...) are left out.                                             *)
(***************************************************************************)
EXTENDS Naturals, Sequences, FiniteSets, FiniteSetsExt

CONSTANTS
  Clients,    \* the tasks that use the sensor
  Wishes,     \* the rates they ask for, with the latencies that are recorded for them
  HasList,    \* si->supportedRates # NULL
  Supported,  \* si->supportedRates, in ascending order
  MatrixSize, \* MAX_CLI_SENS_MATRIX_SZ
  MaxSignals, \* bound on the deferred handlers at a time, below MAX_INTERNAL_EVENTS
  MaxRegs,    \* bound on the registrations: no handle is used again (newSensorHandle
              \* counts all sensors in 8 bits)
  MaxFaults   \* bound on refused calls, lost signals and failed firmware uploads

Off == 0            \* SENSOR_RATE_OFF
FwRate == 1         \* what drivers report with SENSOR_INTERNAL_EVT_FW_STATE_CHG
OnDemand == 90      \* SENSOR_RATE_ONDEMAND
OnChange == 91      \* SENSOR_RATE_ONCHANGE
OneShot == 92       \* SENSOR_RATE_ONESHOT, a rate like any other for this code
PoweringOn == 100   \* SENSOR_RATE_POWERING_ON
PoweringOff == 101  \* SENSOR_RATE_POWERING_OFF
FwUploading == 102  \* SENSOR_RATE_FW_UPLOADING
Impossible == 103   \* SENSOR_RATE_IMPOSSIBLE
Invalid == 1000     \* SENSOR_LATENCY_INVALID

Levels == 1..OneShot

\* Nobody asks for rate 0: sensorRequest would divide by it, which is undefined.
ASSUME SensorsAssumption ==
  /\ Wishes \subseteq [rate : Levels, latency : 1..(Invalid - 1)]
  /\ HasList \in BOOLEAN
  /\ Supported \subseteq Levels /\ (~HasList => Supported = {})
  /\ MatrixSize \in Nat /\ MaxSignals \in Nat /\ MaxRegs \in 0..256 /\ MaxFaults \in Nat

VARIABLES
  sensor,   \* struct Sensor: handle (0: not registered), initComplete, currentRate, currentLatency
  matrix,   \* mCliSensMatrix
  signals,  \* the handlers that sensorSignalInternalEvt deferred, with their arguments
  driver,   \* power and firmware calls to do, the rate to go to, what the hardware does;
            \* astray (history): a refused power call has acted, and none has ended since
  regs,     \* how often the sensor was registered
  ended,    \* the clients that have ended
  twice,    \* history: the clients that asked for the sensor when they had it
  gaveUp,   \* history: no firmware, and nobody has had it switched on since
  faults, fwFails

vars == <<sensor, matrix, signals, driver, regs, ended, twice, gaveUp, faults, fwFails>>

Free == [handle |-> 0]
Slots == 1..MatrixSize
Config(rate, latency) == [rate |-> rate, latency |-> latency]
Signal(kind, rate, latency) ==
  [kind |-> kind, handle |-> sensor.handle, rate |-> rate, latency |-> latency]
NoSensor == [handle |-> 0, ready |-> FALSE, rate |-> Off, latency |-> Invalid]
IdleDriver == [calls |-> <<>>, goal |-> Config(Off, Invalid),
               on |-> FALSE, fw |-> FALSE, config |-> Config(Off, Invalid), astray |-> FALSE]

Init ==
  /\ sensor = NoSensor
  /\ matrix = [i \in Slots |-> Free]
  /\ signals = <<>>
  /\ driver = IdleDriver
  /\ regs = 0
  /\ ended = {}
  /\ twice = {}
  /\ gaveUp = FALSE
  /\ faults = 0
  /\ fwFails = 0

Fault == faults + fwFails < MaxFaults /\ faults' = faults + 1

-----------------------------------------------------------------------------
\* What the requests add up to

\* The requests for the sensor, and those of one client.
Requests(m) == {i \in Slots : m[i] # Free /\ m[i].handle = sensor.handle}
RequestsOf(m, client) == {i \in Requests(m) : m[i].client = client}

\* sensorClientRequestFind
First(client) == Min(RequestsOf(matrix, client))

\* A special rate without hasOnchange or hasOndemand.  A sensor without a list
\* takes both.
Unknown(rate) == HasList /\ rate \in {OnDemand, OnChange} \ Supported

\* Mutant of Plain: a special rate is a very fast one.
PlainAll(rates) == rates

\* The rates that are numbers.
Plain(rates) == rates \ {OnDemand, OnChange}

\* sensorCalcHwRate(s, extraReqedRate, removedRate), the first rate of the
\* list that is high enough.  A special rate is a high number, so that the loop
\* takes it for a rate above every plain one.
CalcHwRate(m, extra, removed) ==
  LET same == {i \in Requests(m) : m[i].rate = removed}
      kept == Requests(m) \ (IF same = {} THEN {} ELSE {Min(same)})
      rates == {m[i].rate : i \in kept} \cup ({extra} \ {Off})
      plain == Plain(rates)
      enough == {r \in Supported : \A p \in plain : r >= p}
  IN IF Unknown(extra) THEN Impossible
     ELSE IF rates = {} THEN Off
     ELSE IF plain # {} THEN (IF enough = {} THEN Impossible ELSE Min(enough))
     ELSE IF OnChange \in rates THEN OnChange ELSE OnDemand

\* sensorCalcHwLatency(s)
CalcHwLatency(m) == Min({m[i].latency : i \in Requests(m)} \cup {Invalid})

-----------------------------------------------------------------------------
\* Calls to the driver.  One may fail: no internal event, a full event queue,
\* or the driver says no.

Power(on) == driver' = [driver EXCEPT !.calls = Append(@, IF on THEN "on" ELSE "off")]
FwUpld == driver' = [driver EXCEPT !.calls = Append(@, "fw")]
SetRate(rate, latency) == driver' = [driver EXCEPT !.goal = Config(rate, latency)]

\* The driver with what a call asks for done.
Powered(on) == [driver EXCEPT !.on = on, !.fw = @ /\ on,
                              !.config = IF on THEN @ ELSE Config(Off, Invalid)]
Loaded == [driver EXCEPT !.fw = TRUE, !.config = Config(FwRate, 0)]
AtRate(config) == [driver EXCEPT !.config = IF driver.on THEN config ELSE @]

\* A driver that refuses a call has not acted, or it has and then could not
\* signal it (hallPower returns what sensorSignalInternalEvt returns).
Done == UNCHANGED faults
PowerRefused(on) ==
  Fault /\ (UNCHANGED driver \/ driver' = [Powered(on) EXCEPT !.astray = TRUE])
FwRefused == Fault /\ (UNCHANGED driver \/ driver' = Loaded)
RateRefused(rate, latency) ==
  Fault /\ (UNCHANGED driver \/ driver' = AtRate(Config(rate, latency)))

\* A call whose result is not looked at.
TryPower(on) == (Power(on) /\ Done) \/ PowerRefused(on)
TryFwUpld == (FwUpld /\ Done) \/ FwRefused
TrySetRate(rate, latency) == (SetRate(rate, latency) /\ Done) \/ RateRefused(rate, latency)

To(s, rate) == sensor' = [s EXCEPT !.rate = rate, !.latency = Invalid]

\* Mutant of BackOn: it does not wait for the driver to be off.
BackOnNow(s) == Power(TRUE) /\ To(s, PoweringOn) /\ gaveUp' = FALSE /\ Done

\* On its way off: the handler of the answer will switch it on again.
BackOn(s) == To(s, PoweringOn) /\ gaveUp' = FALSE /\ UNCHANGED <<driver, faults>>

\* sensorReconfig(s, newHwRate, newHwLatency), on s as the caller has left it.
Reconfig(s, rate, latency) ==
  \/ /\ s.rate = rate /\ s.latency = latency
     /\ sensor' = s /\ UNCHANGED <<driver, gaveUp, faults>>
  \/ /\ s.rate # rate \/ s.latency # latency
     /\ \/ /\ s.rate = Off
           /\ \/ Power(TRUE) /\ To(s, PoweringOn) /\ gaveUp' = FALSE /\ Done
              \/ PowerRefused(TRUE) /\ sensor' = s /\ UNCHANGED gaveUp
        \/ s.rate = PoweringOff /\ BackOn(s)
        \/ /\ s.rate \in {PoweringOn, FwUploading}
           /\ sensor' = s /\ UNCHANGED <<driver, gaveUp, faults>>
        \/ /\ s.rate \notin {Off, PoweringOff, PoweringOn, FwUploading}
           /\ rate > Off \/ latency < Invalid
           /\ TrySetRate(rate, latency)
           /\ sensor' = s /\ UNCHANGED gaveUp
        \/ /\ s.rate \notin {Off, PoweringOff, PoweringOn, FwUploading}
           /\ rate = Off /\ latency = Invalid
           /\ \/ Power(FALSE) /\ To(s, PoweringOff) /\ Done
              \/ PowerRefused(FALSE) /\ sensor' = s
           /\ UNCHANGED gaveUp

\* Towards what all requests need.
Reconcile(s, m) == Reconfig(s, CalcHwRate(m, Off, Off), CalcHwLatency(m))

-----------------------------------------------------------------------------
\* The driver registers, gets ready, gives up before that, or ends

\* sensorRegister, sensorRegisterAsApp
Register(ready) ==
  /\ sensor.handle = 0
  /\ regs < MaxRegs
  /\ regs' = regs + 1
  /\ sensor' = [NoSensor EXCEPT !.handle = regs + 1, !.ready = ready]
  /\ UNCHANGED <<matrix, signals, driver, ended, twice, gaveUp, faults, fwFails>>

RegisterInitComplete ==
  /\ sensor.handle # 0 /\ ~sensor.ready
  /\ sensor' = [sensor EXCEPT !.ready = TRUE]
  /\ UNCHANGED <<matrix, signals, driver, regs, ended, twice, gaveUp, faults, fwFails>>

\* sensorUnregister
Unregister ==
  /\ sensor.handle # 0
  /\ sensor' = NoSensor
  /\ driver' = IdleDriver
  /\ twice' = {} /\ gaveUp' = FALSE
  /\ UNCHANGED <<matrix, signals, regs, ended, faults, fwFails>>

\* A driver that finds no hardware.
InitFails == ~sensor.ready /\ Unregister

\* The task that owns the sensor ends: sensorFreeAll with its tid.  Its driver
\* is gone with it.
OwnerEnds == sensor.ready /\ Unregister

-----------------------------------------------------------------------------
\* The clients

\* sensorRequest
Request(client, wish) ==
  /\ client \notin ended
  /\ sensor.handle # 0 /\ sensor.ready
  /\ CalcHwRate(matrix, wish.rate, Off) # Impossible
  /\ \E i \in Slots :
       /\ matrix[i] = Free
       /\ \A j \in Slots : matrix[j] = Free => i <= j
       /\ matrix' = [matrix EXCEPT ![i] = [handle |-> sensor.handle, client |-> client,
                                           rate |-> wish.rate, latency |-> wish.latency]]
  /\ twice' = IF RequestsOf(matrix, client) = {} THEN twice ELSE twice \cup {client}
  /\ Reconfig(sensor, CalcHwRate(matrix, wish.rate, Off), CalcHwLatency(matrix'))
  /\ UNCHANGED <<signals, regs, ended, fwFails>>

\* sensorRequestRateChange
RequestRateChange(client, wish) ==
  /\ client \notin ended
  /\ sensor.handle # 0
  /\ RequestsOf(matrix, client) # {}
  /\ LET i == First(client)
         new == CalcHwRate(matrix, wish.rate, matrix[i].rate)
     IN /\ new # Impossible
        /\ matrix' = [matrix EXCEPT ![i].rate = wish.rate, ![i].latency = wish.latency]
        /\ Reconfig(sensor, new, CalcHwLatency(matrix'))
  /\ UNCHANGED <<signals, regs, ended, twice, fwFails>>

\* sensorDeleteRequestor
Deleted(client) == [matrix EXCEPT ![First(client)] = Free]

\* sensorRelease
Release(client) ==
  /\ client \notin ended
  /\ sensor.handle # 0
  /\ RequestsOf(matrix, client) # {}
  /\ matrix' = Deleted(client)
  /\ Reconcile(sensor, matrix')
  /\ UNCHANGED <<signals, regs, ended, twice, fwFails>>

\* Mutant of FreeAll: only the sensors that are on are looked at.
FreeAllOn(client) ==
  IF sensor.handle # 0 /\ sensor.rate # Off /\ RequestsOf(matrix, client) # {}
  THEN matrix' = Deleted(client) /\ Reconcile(sensor, matrix')
  ELSE UNCHANGED <<matrix, sensor, driver, gaveUp, faults>>

\* A client ends: sensorFreeAll takes one request of it from each sensor.
FreeAll(client) ==
  IF sensor.handle # 0 /\ RequestsOf(matrix, client) # {}
  THEN matrix' = Deleted(client) /\ Reconcile(sensor, matrix')
  ELSE UNCHANGED <<matrix, sensor, driver, gaveUp, faults>>

End(client) ==
  /\ client \notin ended
  /\ ended' = ended \cup {client}
  /\ FreeAll(client)
  /\ UNCHANGED <<signals, regs, twice, fwFails>>

-----------------------------------------------------------------------------
\* The driver finishes a call and signals it, or cannot.

Signalled(signal) ==
  /\ Len(signals) < MaxSignals
  /\ \/ signals' = Append(signals, signal) /\ Done
     \/ Fault /\ UNCHANGED signals

Finish == driver' = [driver EXCEPT !.calls = Tail(@)]
OutsideDriver == <<sensor, matrix, regs, ended, twice, gaveUp>>

PowerDone ==
  /\ driver.calls # <<>> /\ Head(driver.calls) # "fw"
  /\ LET on == Head(driver.calls) = "on"
     IN /\ driver' = [Powered(on) EXCEPT !.calls = Tail(@), !.astray = FALSE]
        /\ Signalled(Signal("power", IF on THEN 1 ELSE 0, 0))
  /\ UNCHANGED fwFails /\ UNCHANGED OutsideDriver

FwDone ==
  /\ driver.calls # <<>> /\ Head(driver.calls) = "fw"
  /\ driver' = [Loaded EXCEPT !.calls = Tail(@)]
  /\ Signalled(Signal("fw", FwRate, 0))
  /\ UNCHANGED fwFails /\ UNCHANGED OutsideDriver

FwFailed ==
  /\ driver.calls # <<>> /\ Head(driver.calls) = "fw"
  /\ faults + fwFails < MaxFaults
  /\ fwFails' = fwFails + 1
  /\ Finish
  /\ Len(signals) < MaxSignals
  /\ signals' = Append(signals, Signal("fw", Off, 0))
  /\ UNCHANGED faults
  /\ UNCHANGED OutsideDriver

RateDone ==
  /\ driver.goal.rate # Off
  /\ driver' = [AtRate(driver.goal) EXCEPT !.goal = Config(Off, Invalid)]
  /\ Signalled(Signal("rate", driver.goal.rate, driver.goal.latency))
  /\ UNCHANGED fwFails /\ UNCHANGED OutsideDriver

-----------------------------------------------------------------------------
\* The deferred handlers

\* The main loop calls the first of them.
RunDeferred == signals # <<>> /\ signals' = Tail(signals)

Handle(kind) ==
  /\ RunDeferred
  /\ Head(signals).kind = kind
  /\ UNCHANGED <<matrix, regs, ended, twice, fwFails>>
Mine == Head(signals).handle = sensor.handle  \* sensorFindByHandle
Unmoved == UNCHANGED <<sensor, gaveUp>>
Dropped == UNCHANGED <<sensor, driver, gaveUp, faults>>

\* Mutant of PowerChanged: any answer is taken for the one that was waited for.
PowerChangedAny(on) ==
  \/ sensor.rate = PoweringOn /\ To(sensor, FwUploading) /\ TryFwUpld /\ UNCHANGED gaveUp
  \/ sensor.rate = PoweringOff /\ To(sensor, Off) /\ UNCHANGED <<driver, gaveUp, faults>>
  \/ sensor.rate \notin {PoweringOn, PoweringOff} /\ Dropped

\* sensorInternalPowerStateChanged
PowerChanged(on) ==
  \/ sensor.rate = PoweringOn /\ on /\ To(sensor, FwUploading) /\ TryFwUpld /\ UNCHANGED gaveUp
  \/ sensor.rate = PoweringOff /\ ~on /\ To(sensor, Off) /\ UNCHANGED <<driver, gaveUp, faults>>
  \/ sensor.rate = PoweringOn /\ ~on /\ TryPower(TRUE) /\ Unmoved
  \/ sensor.rate = PoweringOff /\ on /\ TryPower(FALSE) /\ Unmoved
  \/ sensor.rate \notin {PoweringOn, PoweringOff} /\ Dropped

PowerStateChanged ==
  /\ Handle("power")
  /\ IF Mine THEN PowerChanged(Head(signals).rate # 0) ELSE Dropped

\* Mutant of Reached: the requests made meanwhile are not looked at.
ReachedOnly(signal) ==
  /\ sensor' = [sensor EXCEPT !.rate = signal.rate, !.latency = signal.latency]
  /\ UNCHANGED <<driver, gaveUp, faults>>

\* At a rate and latency: on to what the requests need by now.
Reached(signal) ==
  Reconcile([sensor EXCEPT !.rate = signal.rate, !.latency = signal.latency], matrix)

\* sensorInternalFwStateChanged
FwChanged(signal) ==
  \/ signal.rate = Off /\ To(sensor, PoweringOff) /\ TryPower(FALSE) /\ gaveUp' = TRUE
  \/ signal.rate # Off /\ sensor.rate = FwUploading /\ Reached(signal)
  \/ signal.rate # Off /\ sensor.rate = PoweringOff /\ TryPower(FALSE) /\ Unmoved
  \/ signal.rate # Off /\ sensor.rate \notin {FwUploading, PoweringOff} /\ Dropped

FwStateChanged ==
  /\ Handle("fw")
  /\ IF Mine THEN FwChanged(Head(signals)) ELSE Dropped

\* sensorInternalRateChanged
RateChanged ==
  /\ Handle("rate")
  /\ IF Mine /\ sensor.rate # Off /\ sensor.rate < PoweringOn
     THEN Reached(Head(signals))
     ELSE Dropped

Clientele ==
  \E c \in Clients :
    \/ \E wish \in Wishes : Request(c, wish) \/ RequestRateChange(c, wish)
    \/ Release(c) \/ End(c)
Registration == (\E ready \in BOOLEAN : Register(ready)) \/ RegisterInitComplete
                \/ InitFails \/ OwnerEnds
DriverStep == PowerDone \/ FwDone \/ FwFailed \/ RateDone
Handler == PowerStateChanged \/ FwStateChanged \/ RateChanged

Next == Clientele \/ Registration \/ DriverStep \/ Handler

\* The main loop runs what was deferred; a driver finishes what it took on.
Fairness == WF_signals(RunDeferred) /\ WF_vars(PowerDone \/ FwDone \/ RateDone)
Spec == Init /\ [][Next]_vars /\ Fairness

-----------------------------------------------------------------------------
\* Properties

States == {Off, PoweringOn, PoweringOff, FwUploading}
Requested == [handle : 1..MaxRegs, client : Clients,
              rate : Levels, latency : 1..(Invalid - 1)]

\* The types of the variables, in the units of sensors.c.
TypeOK ==
  /\ sensor \in [handle : 0..MaxRegs, ready : BOOLEAN,
                 rate : Levels \cup States, latency : 0..Invalid]
  /\ matrix \in [Slots -> Requested \cup {Free}]
  /\ signals \in Seq([kind : {"power", "fw", "rate"}, handle : 1..MaxRegs,
                      rate : Levels \cup {Off}, latency : 0..Invalid])
  /\ driver \in [calls : Seq({"on", "off", "fw"}), on : BOOLEAN, fw : BOOLEAN,
                 goal : [rate : Levels \cup {Off}, latency : 1..Invalid],
                 config : [rate : Levels \cup {Off}, latency : 0..Invalid],
                 astray : BOOLEAN]
  /\ regs \in 0..MaxRegs /\ sensor.handle \in {0, regs}
  /\ ended \subseteq Clients /\ twice \subseteq Clients
  /\ gaveUp \in BOOLEAN
  /\ faults \in 0..MaxFaults /\ fwFails \in 0..MaxFaults

\* The answers to power and firmware calls that the sensor still has to hear.
Answers == {i \in DOMAIN signals : signals[i].kind # "rate" /\ signals[i].handle = sensor.handle}

\* The driver has at most one power or firmware call to deal with, and gets no
\* other before its answer was heard: drivers remember one (pConfig of
\* drivers/bosch_bmi160), whatever the clients ask for in between, and whatever
\* is refused or lost.
OneCall == Len(driver.calls) + Cardinality(Answers) <= 1

\* currentRate tells the truth about the hardware.  At a rate the sensor is
\* powered and has its firmware, and no call under way can take that from it;
\* off, it is not powered and nothing is under way that would power it.  Only a
\* power call that acted and was refused all the same can come between them.
InStep ==
  sensor.handle # 0 =>
    /\ sensor.rate \in Levels \cup {Off} => driver.calls = <<>> /\ Answers = {}
    /\ sensor.rate \in Levels => driver.astray \/ (driver.on /\ driver.fw)
    /\ sensor.rate = Off => driver.astray \/ ~driver.on

\* The rates that the sensor may be sent to: those of its list, or the special
\* ones if it has none.
Declared == IF HasList THEN Supported ELSE {OnDemand, OnChange}

\* Whatever the clients ask for, change and drop, the driver is only told to go
\* to a rate it has declared: the checks of sensorRequest and
\* sensorRequestRateChange cover every combination of requests that is left.
\* The rate is as fast as every request that is a number, and a special rate,
\* which is a higher number than those, is not taken for the fastest one where
\* a rate of the list is enough.
OnlySupported ==
  LET rate == CalcHwRate(matrix, Off, Off)
      numbers == {matrix[i].rate : i \in Requests(matrix)} \ {OnDemand, OnChange}
  IN /\ driver.goal.rate \in Declared \cup {Off}
     /\ rate \in Declared \cup {Off}
     /\ \A n \in numbers : rate >= n
     /\ (numbers # {} /\ \E r \in Supported : r < OnDemand /\ \A n \in numbers : r >= n)
          => rate < OnDemand

\* A client that has ended keeps no request for the sensor that would hold it
\* on, if it never asked for the sensor a second time (sensorFreeAll takes one
\* request per sensor).
NoneLeft == \A c \in ended \ twice : sensor.handle # 0 => RequestsOf(matrix, c) = {}

\* When the requests no longer change, the sensor gets to the rate and latency
\* that all of them need and stays there, in fact and in currentRate, unless its firmware could not be
\* loaded, or a call was refused or a signal lost.
Settled ==
  \/ gaveUp \/ faults > 0
  \/ /\ driver.config = Config(CalcHwRate(matrix, Off, Off), CalcHwLatency(matrix))
     /\ driver.config = Config(sensor.rate, sensor.latency)
Settles == <>[][UNCHANGED <<matrix, sensor.handle>>]_vars => <>[]Settled
=============================================================================
