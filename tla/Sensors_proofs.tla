---------------------------- MODULE Sensors_proofs ----------------------------
(***************************************************************************)
(* Proofs about Sensors, for any clients, rates, size of the matrix and    *)
(* number of faults.  OneCall and InStep rest on LinkOK: each state of     *)
(* currentRate goes with one call of its own kind or with the answer to    *)
(* it, and the answer says what the hardware did.  OnlySupported rests on  *)
(* PossibleIn: each request was let in only if all can be served together, *)
(* and taking a request away cannot change that.                           *)
(***************************************************************************)
EXTENDS Sensors, FiniteSetTheorems, WellFoundedInduction, TLAPS

USE DEF Off, FwRate, OnDemand, OnChange, OneShot, PoweringOn, PoweringOff, FwUploading,
        Impossible, Invalid, Config

Special == {OnDemand, OnChange}
Sensor == [handle : 0..MaxRegs, ready : BOOLEAN, rate : Levels \cup States, latency : 0..Invalid]
Driver == [calls : Seq({"on", "off", "fw"}), on : BOOLEAN, fw : BOOLEAN,
           goal : [rate : Levels \cup {Off}, latency : 1..Invalid],
           config : [rate : Levels \cup {Off}, latency : 0..Invalid], astray : BOOLEAN]
SignalSet == [kind : {"power", "fw", "rate"}, handle : 1..MaxRegs,
              rate : Levels \cup {Off}, latency : 0..Invalid]
Matrix == [Slots -> Requested \cup {Free}]

\* The answers in q that a sensor with this handle has to hear.
AnswersIn(h, q) == {i \in DOMAIN q : q[i].kind # "rate" /\ q[i].handle = h}

\* What a sensor record, a driver and the signals under way have in common:
\* one call or one answer, of the kind the state waits for, and an answer that
\* says what the hardware does, unless a call that was refused has changed it.
LinkOK(s, d, q) ==
  LET A == AnswersIn(s.handle, q)
  IN /\ \A i, j \in A : i = j
     /\ d.calls # <<>> => A = {}
     /\ s.rate \notin {PoweringOn, PoweringOff, FwUploading} => d.calls = <<>> /\ A = {}
     /\ s.rate \in {PoweringOn, PoweringOff} =>
          /\ d.calls \in {<<>>, <<"on">>, <<"off">>}
          /\ \A i \in A : q[i].kind = "power" /\ d.on = (q[i].rate # 0)
     /\ s.rate = FwUploading =>
          /\ d.on
          /\ d.calls \in {<<>>, <<"fw">>}
          /\ \A i \in A : q[i].kind = "fw" /\ (q[i].rate # Off => d.fw)
     /\ s.rate \in Levels => d.astray \/ (d.on /\ d.fw)
     /\ s.rate = Off => d.astray \/ ~d.on

\* The requests of m for a handle, all and those of a client.
RequestsIn(m, h) == {i \in Slots : m[i] # Free /\ m[i].handle = h}
OfClient(m, h, c) == {i \in RequestsIn(m, h) : m[i].client = c}

\* The requests can be served together.
PossibleIn(m, h) ==
  /\ \A i \in RequestsIn(m, h) : m[i].rate \in Special => m[i].rate \in Declared
  /\ (\E i \in RequestsIn(m, h) : m[i].rate \notin Special) =>
       \E r \in Supported : \A i \in RequestsIn(m, h) : m[i].rate \notin Special => r >= m[i].rate

\* A client that never asked twice has one request at most, and none once it has ended.
SingleIn(m, h, t) == \A c \in Clients \ t : \A i, j \in OfClient(m, h, c) : i = j
NoneIn(m, h, gone) == h # 0 => \A c \in gone : OfClient(m, h, c) = {}

Typed ==
  /\ sensor \in Sensor /\ matrix \in Matrix /\ signals \in Seq(SignalSet) /\ driver \in Driver
  /\ regs \in 0..MaxRegs /\ sensor.handle \in {0, regs}
  /\ ended \subseteq Clients /\ twice \subseteq Clients
  /\ gaveUp \in BOOLEAN
  /\ faults \in 0..MaxFaults /\ fwFails \in 0..MaxFaults

\* A registration starts with an idle driver.
Fresh == sensor.handle = 0 => sensor = NoSensor /\ driver = IdleDriver
\* No signal and no request has a later handle, and no rate was reached at which
\* the sensor is off.
SignalsOld ==
  \A i \in DOMAIN signals :
    signals[i].handle <= regs /\ (signals[i].kind = "rate" => signals[i].rate # Off)
MatrixOld(m) == \A i \in Slots : m[i].handle <= regs

SensorsInv ==
  /\ Typed
  /\ LinkOK(sensor, driver, signals)
  /\ Fresh
  /\ SignalsOld
  /\ MatrixOld(matrix)
  /\ PossibleIn(matrix, sensor.handle)
  /\ driver.goal.rate \in Declared \cup {Off}
  /\ SingleIn(matrix, sensor.handle, twice)
  /\ NoneIn(matrix, sensor.handle, ended \ twice)

-----------------------------------------------------------------------------
\* A set of naturals has a smallest element.
LEMMA MinFact ==
  ASSUME NEW S \in SUBSET Nat, S # {}
  PROVE  Min(S) \in S /\ \A x \in S : Min(S) <= x
<1> DEFINE R == {ss \in Nat \X Nat : ss[1] < ss[2]}
<1>1. IsWellFoundedOn(R, Nat)
  BY NatLessThanWellFounded DEF OpToRel
<1>2. \E x \in S : \A y \in S : ~(<<y, x>> \in R)
  <2> HIDE DEF R
  <2> QED BY <1>1, WFMin
<1>3. PICK x \in S : \A y \in S : ~(<<y, x>> \in R)
  BY <1>2
<1>4. ASSUME NEW y \in S PROVE x <= y
  <2>1. x \in Nat /\ y \in Nat /\ ~(<<y, x>> \in R)
    BY <1>3
  <2>2. <<y, x>> \in Nat \X Nat /\ <<y, x>>[1] = y /\ <<y, x>>[2] = x
    BY <2>1
  <2>3. ~(y < x)
    BY <2>1, <2>2
  <2> QED BY <2>1, <2>3
<1> QED BY <1>4 DEF Min

\* Rates are naturals above SENSOR_RATE_OFF.
LEMMA SupportedFact ==
  /\ Supported \subseteq Levels /\ Supported \subseteq Nat
  /\ Levels \subseteq Nat /\ Off \notin Levels /\ Impossible \notin Levels
BY SensorsAssumption DEF Levels

\* What a request says.
LEMMA RequestFacts ==
  ASSUME NEW m \in Matrix, NEW h, NEW i \in RequestsIn(m, h)
  PROVE  /\ i \in Slots /\ m[i] \in Requested
         /\ m[i].rate \in Levels /\ m[i].latency \in 1..(Invalid - 1)
         /\ m[i].client \in Clients /\ m[i].handle = h
BY DEF RequestsIn, Matrix, Requested, Levels

\* The same for all requests for the sensor.
LEMMA RequestsFacts ==
  ASSUME NEW m \in Matrix
  PROVE  \A i \in Requests(m) :
           /\ i \in Slots /\ m[i] \in Requested
           /\ m[i].rate \in Levels /\ m[i].latency \in 1..(Invalid - 1)
BY DEF Requests, Matrix, Requested, Levels

\* The requests that Sensors looks at, by handle.
LEMMA RequestsAre == \A m : Requests(m) = RequestsIn(m, sensor.handle)
BY DEF Requests, RequestsIn

\* The latency that all requests need.
LEMMA LatencyFact ==
  ASSUME NEW m \in Matrix
  PROVE  CalcHwLatency(m) \in 1..Invalid
<1> DEFINE S == {m[i].latency : i \in Requests(m)} \cup {Invalid}
<1>1. S \subseteq 1..Invalid /\ S # {}
  BY RequestsFacts
<1>2. CalcHwLatency(m) = Min(S)
  BY DEF CalcHwLatency
<1> HIDE DEF S
<1>3. Min(S) \in S
  BY <1>1, MinFact
<1> HIDE DEF Invalid
<1> QED BY <1>1, <1>2, <1>3

\* The requests without one that has the removed rate.
Kept(m, removed) ==
  LET same == {i \in Requests(m) : m[i].rate = removed}
  IN Requests(m) \ (IF same = {} THEN {} ELSE {Min(same)})

\* A rate that is granted is supported, and so is all of what is asked for then.
LEMMA RateGranted ==
  ASSUME NEW m \in Matrix, PossibleIn(m, sensor.handle),
         NEW extra \in Levels \cup {Off}, NEW removed,
         CalcHwRate(m, extra, removed) # Impossible
  PROVE  /\ CalcHwRate(m, extra, removed) \in Declared \cup {Off}
         /\ extra \in Special => extra \in Declared
         /\ (extra \in Levels \ Special \/ \E i \in Kept(m, removed) : m[i].rate \notin Special) =>
              \E r \in Supported :
                /\ extra \in Levels \ Special => r >= extra
                /\ \A i \in Kept(m, removed) : m[i].rate \notin Special => r >= m[i].rate
<1>a. PICK kept : kept = Kept(m, removed)
  OBVIOUS
<1> DEFINE rates == {m[i].rate : i \in kept} \cup ({extra} \ {Off})
           plain == Plain(rates)
           enough == {r \in Supported : \A p \in plain : r >= p}
           result == IF Unknown(extra) THEN Impossible
                     ELSE IF rates = {} THEN Off
                     ELSE IF plain # {} THEN (IF enough = {} THEN Impossible ELSE Min(enough))
                     ELSE IF OnChange \in rates THEN OnChange ELSE OnDemand
<1>1. CalcHwRate(m, extra, removed) = result
  BY <1>a DEF CalcHwRate, Kept
<1>2. ~Unknown(extra) /\ (extra \in Special => extra \in Declared)
  BY <1>1 DEF Unknown, Special, Declared
<1>0. kept \subseteq Requests(m)
  BY <1>a DEF Kept
<1>3. rates \subseteq Levels
  <2>1. \A i \in kept : m[i].rate \in Levels
    BY <1>0, RequestsFacts
  <2> QED BY <2>1
<1>4. \A p \in rates : p \in Special => p \in Declared
  <2>1. \A i \in kept : m[i].rate \in Special => m[i].rate \in Declared
    BY <1>0, RequestsAre DEF PossibleIn
  <2> QED BY <1>2, <2>1
<1>5. \A i \in kept : m[i].rate \in rates /\ m[i].rate \in Levels
  BY <1>3
<1>6. extra # Off => extra \in rates
  OBVIOUS
<1>7. plain \subseteq rates /\ \A p \in rates : p \notin Special => p \in plain
  BY DEF Special, Plain
<1>8. Levels \subseteq Nat /\ Supported \subseteq Nat /\ Off \notin Levels
  BY SupportedFact
<1>9. enough \subseteq Supported /\ \A r \in enough : \A p \in plain : r >= p
  OBVIOUS
<1>10. plain = {} => rates \subseteq Special
  BY <1>7
<1> HIDE DEF rates, plain, enough
<1>11. result # Impossible
  <2> HIDE DEF result
  <2> QED BY <1>1
<1>12. CASE plain # {}
  <2>1. enough # {} /\ result = Min(enough)
    BY <1>2, <1>7, <1>11, <1>12
  <2>2. Min(enough) \in enough
    BY <2>1, <1>8, <1>9, MinFact
  <2>3. result \in Declared
    BY <2>1, <2>2, <1>9, SensorsAssumption DEF Declared
  <2>4. \A p \in plain : Min(enough) >= p
    BY <2>2, <1>9
  <2>5. /\ extra \in Levels \ Special => Min(enough) >= extra
        /\ \A i \in kept : m[i].rate \notin Special => Min(enough) >= m[i].rate
    BY <2>4, <1>5, <1>6, <1>7, <1>8
  <2>6. Min(enough) \in Supported
    BY <2>2, <1>9
  <2> HIDE DEF result
  <2> QED BY <1>a, <1>1, <1>2, <2>3, <2>5, <2>6
<1>13. CASE plain = {}
  <2>1. result \in Declared \cup {Off}
    BY <1>2, <1>4, <1>10, <1>13 DEF Special
  <2>2. ~(extra \in Levels \ Special) /\ \A i \in kept : m[i].rate \in Special
    BY <1>5, <1>6, <1>8, <1>10, <1>13
  <2> HIDE DEF result
  <2> QED BY <1>a, <1>1, <1>2, <2>1, <2>2
<1> QED BY <1>12, <1>13

\* The requests that can be served together are served at a supported rate.
LEMMA RatePossible ==
  ASSUME NEW m \in Matrix, PossibleIn(m, sensor.handle)
  PROVE  CalcHwRate(m, Off, Off) \in Declared \cup {Off}
<1> DEFINE same == {i \in Requests(m) : m[i].rate = Off}
           kept == Requests(m) \ (IF same = {} THEN {} ELSE {Min(same)})
           rates == {m[i].rate : i \in kept} \cup ({Off} \ {Off})
           plain == Plain(rates)
           enough == {r \in Supported : \A p \in plain : r >= p}
<1>1. same = {} /\ kept = Requests(m)
  <2> HIDE DEF Off
  <2>1. \A i \in Requests(m) : m[i].rate # Off
    BY RequestsFacts, SupportedFact
  <2> QED BY <2>1
<1>2. ~Unknown(Off)
  BY DEF Unknown
<1>3. plain # {} => enough # {}
  BY <1>1, RequestsAre DEF PossibleIn, Special, Plain
<1>4. CalcHwRate(m, Off, Off) # Impossible
  <2>1. enough # {} => Min(enough) \in Supported
    <3>1. enough \subseteq Supported
      OBVIOUS
    <3> HIDE DEF enough
    <3> QED BY <3>1, SupportedFact, MinFact
  <2>2. Min(enough) \in Supported => Min(enough) # Impossible
    BY SupportedFact
  <2>3. CalcHwRate(m, Off, Off) =
          IF Unknown(Off) THEN Impossible
          ELSE IF rates = {} THEN Off
          ELSE IF plain # {} THEN (IF enough = {} THEN Impossible ELSE Min(enough))
          ELSE IF OnChange \in rates THEN OnChange ELSE OnDemand
    BY DEF CalcHwRate
  <2> HIDE DEF rates, plain, enough
  <2> QED BY <1>2, <1>3, <2>1, <2>2, <2>3
<1> QED BY <1>4, RateGranted DEF Levels

\* That rate is as fast as every request that is a number, and is a number if
\* one of the list is enough.
LEMMA RateServes ==
  ASSUME NEW m \in Matrix, PossibleIn(m, sensor.handle)
  PROVE  LET rate == CalcHwRate(m, Off, Off)
             numbers == {m[i].rate : i \in Requests(m)} \ {OnDemand, OnChange}
         IN /\ \A n \in numbers : rate >= n
            /\ (numbers # {} /\ \E r \in Supported : r < OnDemand /\ \A n \in numbers : r >= n)
                 => rate < OnDemand
<1> DEFINE same == {i \in Requests(m) : m[i].rate = Off}
           kept == Requests(m) \ (IF same = {} THEN {} ELSE {Min(same)})
           rates == {m[i].rate : i \in kept} \cup ({Off} \ {Off})
           plain == Plain(rates)
           enough == {r \in Supported : \A p \in plain : r >= p}
           numbers == {m[i].rate : i \in Requests(m)} \ {OnDemand, OnChange}
<1>1. same = {} /\ kept = Requests(m)
  <2> HIDE DEF Off
  <2>1. \A i \in Requests(m) : m[i].rate # Off
    BY RequestsFacts, SupportedFact
  <2> QED BY <2>1
<1>2. plain = numbers /\ (plain # {} => rates # {})
  BY <1>1 DEF Plain
<1>3. ~Unknown(Off)
  BY DEF Unknown
<1>4. CalcHwRate(m, Off, Off) =
        IF Unknown(Off) THEN Impossible
        ELSE IF rates = {} THEN Off
        ELSE IF plain # {} THEN (IF enough = {} THEN Impossible ELSE Min(enough))
        ELSE IF OnChange \in rates THEN OnChange ELSE OnDemand
  BY DEF CalcHwRate
<1>5. plain # {} => enough # {}
  BY <1>1, RequestsAre DEF PossibleIn, Special, Plain
<1>6. enough \subseteq Supported /\ (\A r \in enough : \A p \in plain : r >= p)
      /\ \A r \in Supported : (\A p \in plain : r >= p) => r \in enough
  OBVIOUS
<1> HIDE DEF rates, plain, enough, numbers
<1>7. ASSUME plain # {}
      PROVE  /\ CalcHwRate(m, Off, Off) \in enough
             /\ \A r \in enough : CalcHwRate(m, Off, Off) <= r
  <2>1. Min(enough) \in enough /\ \A r \in enough : Min(enough) <= r
    BY <1>5, <1>6, <1>7, SupportedFact, MinFact
  <2>2. CalcHwRate(m, Off, Off) = Min(enough)
    BY <1>2, <1>3, <1>4, <1>5, <1>7
  <2> QED BY <2>1, <2>2
<1>8. \A n \in numbers : CalcHwRate(m, Off, Off) >= n
  BY <1>2, <1>6, <1>7
<1>9. ASSUME numbers # {}, NEW r \in Supported, r < OnDemand, \A n \in numbers : r >= n
      PROVE  CalcHwRate(m, Off, Off) < OnDemand
  <2>1. CalcHwRate(m, Off, Off) \in Nat /\ r \in Nat /\ CalcHwRate(m, Off, Off) <= r
    BY <1>2, <1>6, <1>7, <1>9, SupportedFact
  <2> QED BY <1>9, <2>1
<1> QED BY <1>8, <1>9 DEF numbers

-----------------------------------------------------------------------------
\* The names of this module for what Sensors states.
LEMMA TypedIs == TypeOK <=> Typed
BY DEF TypeOK, Typed, Sensor, Driver, SignalSet, Matrix

\* Those of one client.
LEMMA OfClientIs == \A m, c : RequestsOf(m, c) = OfClient(m, sensor.handle, c)
BY DEF RequestsOf, Requests, OfClient, RequestsIn

\* The answers that Sensors counts, by handle.
LEMMA AnswersAre == Answers = AnswersIn(sensor.handle, signals)
BY DEF Answers, AnswersIn

\* What the invariant says of one state: the properties of Sensors.
LEMMA InvImplies ==
  ASSUME SensorsInv
  PROVE  TypeOK /\ OneCall /\ InStep /\ OnlySupported /\ NoneLeft
<1> DEFINE A == AnswersIn(sensor.handle, signals)
<1>1. TypeOK
  BY TypedIs DEF SensorsInv
<1>2. /\ \A i, j \in A : i = j
      /\ driver.calls # <<>> => A = {}
      /\ Len(driver.calls) <= 1
  <2>1. driver.calls \in {<<>>, <<"on">>, <<"off">>, <<"fw">>}
    BY DEF SensorsInv, LinkOK, Typed, Sensor, States, Levels
  <2>2. /\ Len(<<>>) <= 1
        /\ Len(<<"on">>) <= 1 /\ Len(<<"off">>) <= 1 /\ Len(<<"fw">>) <= 1
    OBVIOUS
  <2>3. Len(driver.calls) <= 1
    <3> HIDE DEF A
    <3> QED BY <2>1, <2>2, Zenon
  <2> QED BY <2>3 DEF SensorsInv, LinkOK
<1>3. OneCall
  <2>1. CASE A = {}
    BY <1>2, <2>1, FS_EmptySet, AnswersAre DEF OneCall
  <2>2. CASE A # {}
    <3>1. PICK i : A = {i}
      BY <1>2, <2>2
    <3>2. Cardinality(A) = 1
      BY <3>1, FS_Singleton
    <3>3. Len(driver.calls) = 0
      BY <1>2, <2>2
    <3> QED BY <3>2, <3>3, AnswersAre DEF OneCall
  <2> QED BY <2>1, <2>2
<1>4. InStep
  <2>1. /\ sensor.rate \in Levels \cup {Off} => driver.calls = <<>> /\ A = {}
        /\ sensor.rate \in Levels => driver.astray \/ (driver.on /\ driver.fw)
        /\ sensor.rate = Off => driver.astray \/ ~driver.on
    <3>1. LinkOK(sensor, driver, signals)
      BY DEF SensorsInv
    <3>2. /\ sensor.rate \in Levels => sensor.rate \notin {PoweringOn, PoweringOff, FwUploading}
          /\ sensor.rate = Off => sensor.rate \notin {PoweringOn, PoweringOff, FwUploading}
      BY DEF Levels
    <3> HIDE DEF Off, PoweringOn, PoweringOff, FwUploading
    <3> QED BY <3>1, <3>2, Zenon DEF LinkOK
  <2> QED BY <2>1, AnswersAre DEF InStep
<1>5. OnlySupported
  BY RatePossible, RateServes DEF SensorsInv, Typed, OnlySupported
<1>6. NoneLeft
  BY OfClientIs DEF SensorsInv, NoneIn, NoneLeft
<1> QED BY <1>1, <1>3, <1>4, <1>5, <1>6

-----------------------------------------------------------------------------
\* Signals that come and go
LEMMA Added ==
  ASSUME NEW q \in Seq(SignalSet), NEW x \in SignalSet, NEW h
  PROVE  /\ Append(q, x) \in Seq(SignalSet)
         /\ DOMAIN Append(q, x) = DOMAIN q \cup {Len(q) + 1}
         /\ \A i \in DOMAIN q : Append(q, x)[i] = q[i]
         /\ Append(q, x)[Len(q) + 1] = x
         /\ AnswersIn(h, Append(q, x)) =
              AnswersIn(h, q) \cup (IF x.kind # "rate" /\ x.handle = h THEN {Len(q) + 1} ELSE {})
<1>1. /\ Append(q, x) \in Seq(SignalSet)
      /\ DOMAIN Append(q, x) = DOMAIN q \cup {Len(q) + 1}
      /\ \A i \in DOMAIN q : Append(q, x)[i] = q[i]
      /\ Append(q, x)[Len(q) + 1] = x
      /\ Len(q) + 1 \notin DOMAIN q
  OBVIOUS
<1> DEFINE p == Append(q, x)
<1> HIDE DEF p
<1> QED BY <1>1 DEF AnswersIn

\* The queue without its head.
LEMMA Removed ==
  ASSUME NEW q \in Seq(SignalSet), q # <<>>, NEW h
  PROVE  /\ Head(q) \in SignalSet /\ Head(q) = q[1] /\ 1 \in DOMAIN q
         /\ Tail(q) \in Seq(SignalSet)
         /\ \A i \in DOMAIN Tail(q) : i + 1 \in DOMAIN q /\ Tail(q)[i] = q[i + 1] /\ i \in Nat /\ i # 0
         /\ \A i \in AnswersIn(h, Tail(q)) : i + 1 \in AnswersIn(h, q)
<1>1. /\ Head(q) \in SignalSet /\ Head(q) = q[1] /\ 1 \in DOMAIN q
      /\ Tail(q) \in Seq(SignalSet)
      /\ \A i \in DOMAIN Tail(q) : i + 1 \in DOMAIN q /\ Tail(q)[i] = q[i + 1] /\ i \in Nat /\ i # 0
  OBVIOUS
<1>2. \A i \in AnswersIn(h, Tail(q)) : i + 1 \in AnswersIn(h, q)
  BY <1>1 DEF AnswersIn
<1> QED BY <1>1, <1>2

\* A signal that is no answer for the sensor changes nothing between the two.
LEMMA LinkTail ==
  ASSUME NEW s, NEW d, NEW q \in Seq(SignalSet), q # <<>>, LinkOK(s, d, q)
  PROVE  LinkOK(s, d, Tail(q))
<1> DEFINE t == Tail(q)
           A == AnswersIn(s.handle, q)
           B == AnswersIn(s.handle, t)
<1>1. \A i \in B : i + 1 \in A /\ t[i] = q[i + 1] /\ i \in Nat
  BY Removed DEF AnswersIn
<1>2. A = {} => B = {}
  BY <1>1
<1>3. \A i, j \in B : i = j
  <2> TAKE i, j \in B
  <2>1. i + 1 = j + 1 /\ i \in Nat /\ j \in Nat
    BY <1>1 DEF LinkOK
  <2> QED BY <2>1
<1> HIDE DEF t
<1>4. /\ \A i \in A : (s.rate \in {PoweringOn, PoweringOff} => q[i].kind = "power" /\ d.on = (q[i].rate # 0))
                      /\ (s.rate = FwUploading => q[i].kind = "fw" /\ (q[i].rate # Off => d.fw))
  BY DEF LinkOK
<1>5. /\ \A i \in B : (s.rate \in {PoweringOn, PoweringOff} => t[i].kind = "power" /\ d.on = (t[i].rate # 0))
                      /\ (s.rate = FwUploading => t[i].kind = "fw" /\ (t[i].rate # Off => d.fw))
  BY <1>1, <1>4
<1>6. LinkOK(s, d, t)
  BY <1>2, <1>3, <1>5 DEF LinkOK
<1> QED BY <1>6 DEF t

\* The answer that a sensor waited for.
LEMMA Heard ==
  ASSUME NEW s, NEW d, NEW q \in Seq(SignalSet), q # <<>>, LinkOK(s, d, q),
         Head(q).kind # "rate", Head(q).handle = s.handle
  PROVE  /\ AnswersIn(s.handle, Tail(q)) = {}
         /\ d.calls = <<>>
         /\ s.rate \in {PoweringOn, PoweringOff, FwUploading}
         /\ s.rate \in {PoweringOn, PoweringOff} =>
              Head(q).kind = "power" /\ d.on = (Head(q).rate # 0)
         /\ s.rate = FwUploading =>
              Head(q).kind = "fw" /\ d.on /\ (Head(q).rate # Off => d.fw)
<1>1. 1 \in AnswersIn(s.handle, q) /\ Head(q) = q[1]
  BY Removed DEF AnswersIn
<1>2. AnswersIn(s.handle, Tail(q)) = {}
  <2> SUFFICES ASSUME NEW i \in AnswersIn(s.handle, Tail(q)) PROVE FALSE
    OBVIOUS
  <2>1. i + 1 \in AnswersIn(s.handle, q) /\ i \in Nat /\ i # 0
    BY Removed DEF AnswersIn
  <2>2. i + 1 = 1
    BY <1>1, <2>1 DEF LinkOK
  <2> QED BY <2>1, <2>2
<1> QED BY <1>1, <1>2 DEF LinkOK

-----------------------------------------------------------------------------
\* Single changes of the two records
\* The records that To, Power, FwUpld and SetRate make.
Moved(s, r, l) == [s EXCEPT !.rate = r, !.latency = l]
Called(d, c) == [d EXCEPT !.calls = Append(@, c)]
Sent(d, r, l) == [d EXCEPT !.goal = [rate |-> r, latency |-> l]]

\* The sensor at another rate and latency.
LEMMA SensorTo ==
  ASSUME NEW s \in Sensor, NEW r \in Levels \cup States, NEW l \in 0..Invalid
  PROVE  LET t == Moved(s, r, l) IN
         t \in Sensor /\ t.handle = s.handle /\ t.ready = s.ready /\ t.rate = r /\ t.latency = l
<1> DEFINE t == Moved(s, r, l)
           X == Levels \cup States
           Y == 0..Invalid
           Z == 0..MaxRegs
<1>1. s \in [handle : Z, ready : BOOLEAN, rate : X, latency : Y] /\ r \in X /\ l \in Y
  BY DEF Sensor
<1> HIDE DEF X, Y, Z
<1>2. /\ t \in [handle : Z, ready : BOOLEAN, rate : X, latency : Y]
      /\ t.handle = s.handle /\ t.ready = s.ready /\ t.rate = r /\ t.latency = l
  BY <1>1 DEF Moved
<1> QED BY <1>2 DEF Sensor, X, Y, Z

\* The sensor in a state of its own machine.
LEMMA ToState ==
  ASSUME NEW s \in Sensor, NEW r \in States, To(s, r)
  PROVE  sensor' \in Sensor /\ sensor'.handle = s.handle /\ sensor'.rate = r
<1>1. sensor' = Moved(s, r, Invalid) /\ Invalid \in 0..Invalid
  BY DEF To, Moved
<1>2. r \in Levels \cup States
  OBVIOUS
<1> DEFINE t == Moved(s, r, Invalid)
<1>3. t \in Sensor /\ t.handle = s.handle /\ t.rate = r
  <2> HIDE DEF Invalid
  <2> QED BY <1>1, <1>2, SensorTo
<1> QED BY <1>1, <1>3

\* An idle driver that is called.
LEMMA DriverCall ==
  ASSUME NEW d \in Driver, NEW c \in {"on", "off", "fw"}, d.calls = <<>>
  PROVE  LET e == Called(d, c) IN
         /\ e \in Driver /\ e.calls = <<c>>
         /\ e.on = d.on /\ e.fw = d.fw /\ e.goal = d.goal /\ e.config = d.config
         /\ e.astray = d.astray
<1> DEFINE e == Called(d, c)
           C == Seq({"on", "off", "fw"})
           G == [rate : Levels \cup {Off}, latency : 1..Invalid]
           K == [rate : Levels \cup {Off}, latency : 0..Invalid]
<1>1. d \in [calls : C, on : BOOLEAN, fw : BOOLEAN, goal : G, config : K, astray : BOOLEAN]
  BY DEF Driver
<1>2. Append(d.calls, c) = <<c>> /\ <<c>> \in C
  OBVIOUS
<1>3. e = [d EXCEPT !.calls = <<c>>]
  BY <1>2 DEF Called
<1> HIDE DEF e, C, G, K
<1>4. /\ e \in [calls : C, on : BOOLEAN, fw : BOOLEAN, goal : G, config : K, astray : BOOLEAN]
      /\ e.calls = <<c>>
      /\ e.on = d.on /\ e.fw = d.fw /\ e.goal = d.goal /\ e.config = d.config
      /\ e.astray = d.astray
  BY <1>1, <1>2, <1>3
<1> QED BY <1>4 DEF Driver, C, G, K, e

\* A driver that is sent to a rate.
LEMMA DriverGoal ==
  ASSUME NEW d \in Driver, NEW r \in Levels \cup {Off}, NEW l \in 1..Invalid
  PROVE  LET e == Sent(d, r, l) IN
         /\ e \in Driver /\ e.goal.rate = r
         /\ e.calls = d.calls /\ e.on = d.on /\ e.fw = d.fw /\ e.config = d.config
         /\ e.astray = d.astray
<1> DEFINE e == Sent(d, r, l)
           C == Seq({"on", "off", "fw"})
           G == [rate : Levels \cup {Off}, latency : 1..Invalid]
           K == [rate : Levels \cup {Off}, latency : 0..Invalid]
           g == [rate |-> r, latency |-> l]
<1>1. d \in [calls : C, on : BOOLEAN, fw : BOOLEAN, goal : G, config : K, astray : BOOLEAN]
  BY DEF Driver
<1>2. g \in G /\ g.rate = r
  OBVIOUS
<1>3. e = [d EXCEPT !.goal = g]
  BY DEF Sent
<1> HIDE DEF e, C, G, K, g
<1>4. /\ e \in [calls : C, on : BOOLEAN, fw : BOOLEAN, goal : G, config : K, astray : BOOLEAN]
      /\ e.goal = g
      /\ e.on = d.on /\ e.fw = d.fw /\ e.calls = d.calls /\ e.config = d.config
      /\ e.astray = d.astray
  BY <1>1, <1>2, <1>3
<1> QED BY <1>2, <1>4 DEF Driver, C, G, K, e

\* The states in currentRate are not rates.
LEMMA Disjoint ==
  /\ \A r \in {PoweringOn, PoweringOff} : r \notin Levels /\ r # FwUploading /\ r # Off
  /\ FwUploading \notin Levels /\ FwUploading \notin {PoweringOn, PoweringOff} /\ FwUploading # Off
  /\ Off \notin Levels /\ Off \notin {PoweringOn, PoweringOff} /\ Off # FwUploading
BY DEF Levels

\* A sensor that waits for power is in step with a driver that has heard everything or is called.
LEMMA LinkPower ==
  ASSUME NEW s, NEW d, NEW q, AnswersIn(s.handle, q) = {}, s.rate \in {PoweringOn, PoweringOff},
         d.calls \in {<<>>, <<"on">>, <<"off">>}
  PROVE  LinkOK(s, d, q)
<1> HIDE DEF Off, PoweringOn, PoweringOff, FwUploading
<1>1. s.rate \notin Levels /\ s.rate # FwUploading /\ s.rate # Off
  BY Disjoint, Zenon
<1> QED BY <1>1, Zenon DEF LinkOK

\* So is one that waits for its firmware,
LEMMA LinkFw ==
  ASSUME NEW s, NEW d, NEW q, AnswersIn(s.handle, q) = {}, s.rate = FwUploading,
         d.calls \in {<<>>, <<"fw">>}, d.on
  PROVE  LinkOK(s, d, q)
<1> HIDE DEF Off, PoweringOn, PoweringOff, FwUploading
<1>1. s.rate \notin Levels /\ s.rate \notin {PoweringOn, PoweringOff} /\ s.rate # Off
  BY Disjoint, Zenon
<1> QED BY <1>1, Zenon DEF LinkOK

\* one that is off,
LEMMA LinkOff ==
  ASSUME NEW s, NEW d, NEW q, AnswersIn(s.handle, q) = {}, s.rate = Off, d.calls = <<>>, ~d.on
  PROVE  LinkOK(s, d, q)
<1> HIDE DEF Off, PoweringOn, PoweringOff, FwUploading
<1>1. s.rate \notin Levels /\ s.rate \notin {PoweringOn, PoweringOff} /\ s.rate # FwUploading
  BY Disjoint, Zenon
<1> QED BY <1>1, Zenon DEF LinkOK

\* and any whose rate, power, firmware and calls stay the same.
LEMMA LinkSame ==
  ASSUME NEW s, NEW d, NEW q, LinkOK(s, d, q),
         NEW t, t.handle = s.handle, t.rate = s.rate,
         NEW e, e.calls = d.calls, e.on = d.on, e.fw = d.fw, e.astray = d.astray
  PROVE  LinkOK(t, e, q)
BY DEF LinkOK

\* So is one that has nothing to wait for, after a refused call.
LEMMA LinkAstray ==
  ASSUME NEW s, NEW d, NEW q, s.rate \notin {PoweringOn, PoweringOff, FwUploading},
         AnswersIn(s.handle, q) = {}, d.calls = <<>>, d.astray
  PROVE  LinkOK(s, d, q)
<1> HIDE DEF Off, PoweringOn, PoweringOff, FwUploading
<1> QED BY Zenon DEF LinkOK

\* The drivers that a refused call leaves when it has acted.
Astray(d, on) ==
  [d EXCEPT !.on = on, !.fw = @ /\ on, !.config = IF on THEN @ ELSE Config(Off, Invalid),
            !.astray = TRUE]
Ready(d) == [d EXCEPT !.fw = TRUE, !.config = Config(FwRate, 0)]
Set(d, r, l) == [d EXCEPT !.config = IF d.on THEN Config(r, l) ELSE @]

\* Their types and what they keep.
LEMMA DriverActed ==
  ASSUME NEW d \in Driver, NEW on \in BOOLEAN
  PROVE  /\ /\ Astray(d, on) \in Driver /\ Astray(d, on).calls = d.calls
            /\ Astray(d, on).astray /\ Astray(d, on).goal = d.goal
         /\ /\ Ready(d) \in Driver /\ Ready(d).calls = d.calls
            /\ Ready(d).on = d.on /\ Ready(d).goal = d.goal
<1> DEFINE C == Seq({"on", "off", "fw"})
           G == [rate : Levels \cup {Off}, latency : 1..Invalid]
           K == [rate : Levels \cup {Off}, latency : 0..Invalid]
           idle == Config(Off, Invalid)
           fresh == Config(FwRate, 0)
<1>1. d \in [calls : C, on : BOOLEAN, fw : BOOLEAN, goal : G, config : K, astray : BOOLEAN]
  BY DEF Driver
<1>2. idle \in K /\ fresh \in K
  BY DEF Levels
<1> HIDE DEF C, G, K, idle, fresh
<1>3. LET e == Astray(d, on) IN
        /\ e \in [calls : C, on : BOOLEAN, fw : BOOLEAN, goal : G, config : K, astray : BOOLEAN]
        /\ e.calls = d.calls /\ e.astray /\ e.goal = d.goal
  <2> DEFINE f == d.fw /\ on
             k == IF on THEN d.config ELSE idle
  <2>1. f \in BOOLEAN /\ k \in K
    BY <1>1, <1>2
  <2>2. Astray(d, on) = [d EXCEPT !.on = on, !.fw = f, !.config = k, !.astray = TRUE]
    BY <1>1 DEF Astray, idle
  <2> HIDE DEF f, k
  <2> QED BY <1>1, <2>1, <2>2
<1>4. LET e == Ready(d) IN
        /\ e \in [calls : C, on : BOOLEAN, fw : BOOLEAN, goal : G, config : K, astray : BOOLEAN]
        /\ e.calls = d.calls /\ e.on = d.on /\ e.goal = d.goal
  BY <1>1, <1>2 DEF Ready, fresh
<1> QED BY <1>3, <1>4 DEF Driver, C, G, K

\* The same of a rate.
LEMMA DriverSet ==
  ASSUME NEW d \in Driver, NEW r \in Levels \cup {Off}, NEW l \in 1..Invalid
  PROVE  LET e == Set(d, r, l) IN
         /\ e \in Driver /\ e.calls = d.calls
         /\ e.on = d.on /\ e.fw = d.fw /\ e.goal = d.goal /\ e.astray = d.astray
<1> DEFINE C == Seq({"on", "off", "fw"})
           G == [rate : Levels \cup {Off}, latency : 1..Invalid]
           K == [rate : Levels \cup {Off}, latency : 0..Invalid]
           there == Config(r, l)
<1>1. d \in [calls : C, on : BOOLEAN, fw : BOOLEAN, goal : G, config : K, astray : BOOLEAN]
  BY DEF Driver
<1>2. there \in K
  OBVIOUS
<1> HIDE DEF C, G, K, there
<1>3. LET e == Set(d, r, l) IN
        /\ e \in [calls : C, on : BOOLEAN, fw : BOOLEAN, goal : G, config : K, astray : BOOLEAN]
        /\ e.calls = d.calls /\ e.on = d.on /\ e.fw = d.fw /\ e.goal = d.goal
        /\ e.astray = d.astray
  <2> DEFINE k == IF d.on THEN there ELSE d.config
  <2>1. k \in K
    BY <1>1, <1>2
  <2>2. Set(d, r, l) = [d EXCEPT !.config = k]
    BY <1>1 DEF Set, there
  <2> HIDE DEF k
  <2> QED BY <1>1, <2>1, <2>2
<1> QED BY <1>3 DEF Driver, C, G, K

\* What a refused call leaves, in these names.
LEMMA RefusedIs ==
  ASSUME faults \in 0..MaxFaults, fwFails \in 0..MaxFaults
  PROVE  /\ Done => faults' \in 0..MaxFaults
         /\ \A on : PowerRefused(on) =>
              faults' \in 0..MaxFaults /\ (driver' = driver \/ driver' = Astray(driver, on))
         /\ FwRefused => faults' \in 0..MaxFaults /\ (driver' = driver \/ driver' = Ready(driver))
         /\ \A r, l : RateRefused(r, l) =>
              faults' \in 0..MaxFaults /\ (driver' = driver \/ driver' = Set(driver, r, l))
<1>1. MaxFaults \in Nat
  BY SensorsAssumption
<1>2. /\ Done => faults' \in 0..MaxFaults
      /\ Fault => faults' \in 0..MaxFaults
  BY <1>1 DEF Done, Fault
<1>3. \A on : [Powered(on) EXCEPT !.astray = TRUE] = Astray(driver, on)
  BY DEF Powered, Astray
<1>4. Loaded = Ready(driver) /\ \A r, l : AtRate(Config(r, l)) = Set(driver, r, l)
  BY DEF Loaded, Ready, AtRate, Set
<1> QED BY <1>2, <1>3, <1>4, Zenon DEF PowerRefused, FwRefused, RateRefused

-----------------------------------------------------------------------------
\* sensorReconfig keeps the sensor and its driver in step, and tells the driver
\* nothing but the rate that it was given.
LEMMA ReconfigLink ==
  ASSUME NEW s \in Sensor, NEW rate \in Declared \cup {Off}, NEW latency \in 1..Invalid,
         NEW q, Reconfig(s, rate, latency), LinkOK(s, driver, q),
         driver \in Driver, driver.goal.rate \in Declared \cup {Off}, gaveUp \in BOOLEAN,
         faults \in 0..MaxFaults, fwFails \in 0..MaxFaults
  PROVE  /\ sensor' \in Sensor /\ sensor'.handle = s.handle
         /\ driver' \in Driver /\ driver'.goal.rate \in Declared \cup {Off}
         /\ gaveUp' \in BOOLEAN /\ faults' \in 0..MaxFaults
         /\ LinkOK(sensor', driver', q)
<1>1. rate \in Levels \cup {Off}
  BY SupportedFact DEF Declared, Levels
<1>3. Done => faults' \in 0..MaxFaults
  BY RefusedIs
<1>4. CASE sensor' = s /\ UNCHANGED <<driver, gaveUp>> /\ faults' \in 0..MaxFaults
  BY <1>4
<1>5. CASE s.rate = Off /\ Power(TRUE) /\ To(s, PoweringOn) /\ gaveUp' = FALSE /\ Done
  <2>1. driver.calls = <<>> /\ AnswersIn(s.handle, q) = {}
    BY <1>5 DEF LinkOK
  <2>2. driver' = Called(driver, "on")
    BY <1>5 DEF Power, Called
  <2>3. driver' \in Driver /\ driver'.goal = driver.goal /\ driver'.calls = <<"on">>
    BY <2>1, <2>2, DriverCall
  <2>4. sensor' \in Sensor /\ sensor'.handle = s.handle /\ sensor'.rate = PoweringOn
    BY <1>5, ToState DEF States
  <2>5. LinkOK(sensor', driver', q)
    BY <2>1, <2>3, <2>4, LinkPower
  <2> QED BY <1>3, <1>5, <2>3, <2>4, <2>5
<1>6. CASE s.rate = PoweringOff /\ BackOn(s)
  <2>1. sensor' \in Sensor /\ sensor'.handle = s.handle /\ sensor'.rate = PoweringOn
    BY <1>6, ToState DEF States, BackOn
  <2>2. driver' = driver /\ gaveUp' = FALSE /\ faults' = faults
    BY <1>6 DEF BackOn
  <2>3. LinkOK(sensor', driver, q)
    BY <1>6, <2>1 DEF LinkOK, Levels
  <2> QED BY <2>1, <2>2, <2>3
<1>7. CASE SetRate(rate, latency) /\ Done /\ sensor' = s /\ UNCHANGED gaveUp
  <2>1. driver' = Sent(driver, rate, latency)
    BY <1>7 DEF SetRate, Sent
  <2>2. /\ driver' \in Driver /\ driver'.goal.rate = rate
        /\ driver'.calls = driver.calls /\ driver'.on = driver.on /\ driver'.fw = driver.fw
        /\ driver'.astray = driver.astray
    <3> HIDE DEF Off, Invalid
    <3> QED BY <1>1, <2>1, DriverGoal
  <2>3. LinkOK(s, driver', q)
    BY <2>2, LinkSame
  <2> QED BY <1>3, <1>7, <2>2, <2>3
<1>8. CASE /\ s.rate \notin {Off, PoweringOff, PoweringOn, FwUploading}
           /\ Power(FALSE) /\ To(s, PoweringOff) /\ Done /\ UNCHANGED gaveUp
  <2>1. driver.calls = <<>> /\ AnswersIn(s.handle, q) = {}
    BY <1>8 DEF LinkOK
  <2>2. driver' = Called(driver, "off")
    BY <1>8 DEF Power, Called
  <2>3. driver' \in Driver /\ driver'.goal = driver.goal /\ driver'.calls = <<"off">>
    BY <2>1, <2>2, DriverCall
  <2>4. sensor' \in Sensor /\ sensor'.handle = s.handle /\ sensor'.rate = PoweringOff
    BY <1>8, ToState DEF States
  <2>5. LinkOK(sensor', driver', q)
    BY <2>1, <2>3, <2>4, LinkPower
  <2> QED BY <1>3, <1>8, <2>3, <2>4, <2>5
<1>10. ASSUME NEW on \in BOOLEAN, s.rate \notin {PoweringOff, PoweringOn, FwUploading},
              PowerRefused(on), sensor' = s, UNCHANGED gaveUp
       PROVE  /\ driver' \in Driver /\ driver'.goal = driver.goal
              /\ faults' \in 0..MaxFaults /\ LinkOK(s, driver', q)
  <2>1. driver.calls = <<>> /\ AnswersIn(s.handle, q) = {}
    BY <1>10 DEF LinkOK
  <2>2. faults' \in 0..MaxFaults /\ (driver' = driver \/ driver' = Astray(driver, on))
    BY <1>10, RefusedIs
  <2>3. CASE driver' = driver
    BY <2>2, <2>3
  <2>4. CASE driver' = Astray(driver, on)
    <3>1. /\ driver' \in Driver /\ driver'.calls = driver.calls
          /\ driver'.astray /\ driver'.goal = driver.goal
      BY <2>4, <1>1, DriverActed
    <3> QED BY <1>10, <2>1, <2>2, <3>1, LinkAstray
  <2> QED BY <2>2, <2>3, <2>4
<1>11. ASSUME RateRefused(rate, latency), sensor' = s, UNCHANGED gaveUp
       PROVE  /\ driver' \in Driver /\ driver'.goal = driver.goal
              /\ faults' \in 0..MaxFaults /\ LinkOK(s, driver', q)
  <2>1. faults' \in 0..MaxFaults /\ (driver' = driver \/ driver' = Set(driver, rate, latency))
    BY <1>11, RefusedIs
  <2>2. CASE driver' = driver
    BY <2>1, <2>2
  <2>3. CASE driver' = Set(driver, rate, latency)
    <3>1. /\ driver' \in Driver /\ driver'.calls = driver.calls /\ driver'.on = driver.on
          /\ driver'.fw = driver.fw /\ driver'.goal = driver.goal
          /\ driver'.astray = driver.astray
      <4> HIDE DEF Off, Invalid
      <4> QED BY <2>3, <1>1, DriverSet
    <3> QED BY <2>1, <3>1, LinkSame
  <2> QED BY <2>1, <2>2, <2>3
<1>9. \/ sensor' = s /\ UNCHANGED <<driver, gaveUp>> /\ faults' \in 0..MaxFaults
      \/ s.rate = Off /\ Power(TRUE) /\ To(s, PoweringOn) /\ gaveUp' = FALSE /\ Done
      \/ s.rate = PoweringOff /\ BackOn(s)
      \/ SetRate(rate, latency) /\ Done /\ sensor' = s /\ UNCHANGED gaveUp
      \/ /\ s.rate \notin {Off, PoweringOff, PoweringOn, FwUploading}
         /\ Power(FALSE) /\ To(s, PoweringOff) /\ Done /\ UNCHANGED gaveUp
      \/ \E on \in BOOLEAN : /\ s.rate \notin {PoweringOff, PoweringOn, FwUploading}
                             /\ PowerRefused(on) /\ sensor' = s /\ UNCHANGED gaveUp
      \/ RateRefused(rate, latency) /\ sensor' = s /\ UNCHANGED gaveUp
  <2>1. Off \notin {PoweringOff, PoweringOn, FwUploading}
    OBVIOUS
  <2>2. TRUE \in BOOLEAN /\ FALSE \in BOOLEAN
    OBVIOUS
  <2> HIDE DEF Off, PoweringOn, PoweringOff, FwUploading, Invalid, Config
  <2>3. UNCHANGED <<driver, gaveUp, faults>> => UNCHANGED <<driver, gaveUp>> /\ faults' = faults
    OBVIOUS
  <2>4. CASE s.rate = rate /\ s.latency = latency
    BY <2>3, <2>4, Zenon DEF Reconfig
  <2>5. CASE s.rate \in {Off, PoweringOff, PoweringOn, FwUploading} /\ ~(s.rate = rate /\ s.latency = latency)
    <3>1. \/ s.rate = Off /\ Power(TRUE) /\ To(s, PoweringOn) /\ gaveUp' = FALSE /\ Done
          \/ s.rate = Off /\ PowerRefused(TRUE) /\ sensor' = s /\ UNCHANGED gaveUp
          \/ s.rate = PoweringOff /\ BackOn(s)
          \/ sensor' = s /\ UNCHANGED <<driver, gaveUp, faults>>
      BY <2>5, Zenon DEF Reconfig
    <3> QED BY <2>1, <2>2, <2>3, <3>1, Zenon
  <2>6. CASE s.rate \notin {Off, PoweringOff, PoweringOn, FwUploading} /\ ~(s.rate = rate /\ s.latency = latency)
    <3>1. \/ SetRate(rate, latency) /\ Done /\ sensor' = s /\ UNCHANGED gaveUp
          \/ RateRefused(rate, latency) /\ sensor' = s /\ UNCHANGED gaveUp
          \/ Power(FALSE) /\ To(s, PoweringOff) /\ Done /\ UNCHANGED gaveUp
          \/ PowerRefused(FALSE) /\ sensor' = s /\ UNCHANGED gaveUp
      BY <2>6, Zenon DEF Reconfig, TrySetRate
    <3> QED BY <2>2, <2>6, <3>1, Zenon
  <2> QED BY <2>4, <2>5, <2>6
<1>12. CASE \E on \in BOOLEAN : /\ s.rate \notin {PoweringOff, PoweringOn, FwUploading}
                               /\ PowerRefused(on) /\ sensor' = s /\ UNCHANGED gaveUp
  <2>1. PICK on \in BOOLEAN : /\ s.rate \notin {PoweringOff, PoweringOn, FwUploading}
                              /\ PowerRefused(on) /\ sensor' = s /\ UNCHANGED gaveUp
    BY <1>12
  <2>2. /\ driver' \in Driver /\ driver'.goal = driver.goal
        /\ faults' \in 0..MaxFaults /\ LinkOK(s, driver', q)
    BY <1>10, <2>1
  <2> QED BY <2>1, <2>2
<1>13. CASE RateRefused(rate, latency) /\ sensor' = s /\ UNCHANGED gaveUp
  <2>1. /\ driver' \in Driver /\ driver'.goal = driver.goal
        /\ faults' \in 0..MaxFaults /\ LinkOK(s, driver', q)
    BY <1>11, <1>13
  <2> QED BY <1>13, <2>1
<1> HIDE DEF Off, PoweringOn, PoweringOff, FwUploading, Invalid, Config
<1> QED BY <1>4, <1>5, <1>6, <1>7, <1>8, <1>9, <1>12, <1>13, Zenon

-----------------------------------------------------------------------------
\* Slots that are taken, changed and freed
LEMMA FreeFact ==
  /\ Free.handle = 0 /\ Free \notin Requested
  /\ \A x \in Requested : x # Free /\ x.handle \in 1..MaxRegs /\ x.handle # 0
BY DEF Free, Requested

\* The matrix with another record in a slot.
Filled(m, i, x) == [m EXCEPT ![i] = x]

\* A slot of the matrix is written.
LEMMA Put ==
  ASSUME NEW m \in Matrix, NEW i \in Slots, NEW x \in Requested \cup {Free}
  PROVE  LET n == Filled(m, i, x) IN
         n \in Matrix /\ n[i] = x /\ \A j \in Slots \ {i} : n[j] = m[j]
<1> DEFINE R == Requested \cup {Free}
<1>1. m \in [Slots -> R] /\ x \in R
  BY DEF Matrix
<1> HIDE DEF R
<1>2. LET n == Filled(m, i, x) IN
      n \in [Slots -> R] /\ n[i] = x /\ \A j \in Slots \ {i} : n[j] = m[j]
  BY <1>1 DEF Filled
<1> QED BY <1>2 DEF Matrix, R

\* sensorClientRequestFind finds a request of the client.
LEMMA FirstFact ==
  ASSUME NEW c, RequestsOf(matrix, c) # {}
  PROVE  First(c) \in OfClient(matrix, sensor.handle, c)
<1>1. RequestsOf(matrix, c) \subseteq Nat
  BY DEF RequestsOf, Requests, Slots
<1>2. Min(RequestsOf(matrix, c)) \in RequestsOf(matrix, c)
  BY <1>1, MinFact
<1> QED BY <1>2, OfClientIs DEF First

\* The invariant holds at first.
LEMMA InitInv ==
  ASSUME Init
  PROVE  SensorsInv
<1>1. sensor \in Sensor /\ sensor.handle = 0 /\ sensor.rate = Off
  BY SensorsAssumption DEF Init, NoSensor, Sensor, States
<1>2. matrix \in Matrix /\ \A i \in Slots : matrix[i] = Free
  BY DEF Init, Matrix
<1>3. signals = <<>> /\ signals \in Seq(SignalSet) /\ DOMAIN signals = {}
  BY DEF Init
<1>4. driver \in Driver /\ driver.calls = <<>> /\ ~driver.on /\ driver.goal.rate = Off
  BY DEF Init, IdleDriver, Driver
<1>5. Typed
  <2>1. MaxRegs \in Nat /\ MaxFaults \in Nat
    BY SensorsAssumption
  <2>2. /\ regs = 0 /\ faults = 0 /\ fwFails = 0
        /\ ended = {} /\ twice = {} /\ gaveUp = FALSE
    BY DEF Init
  <2>3. regs \in 0..MaxRegs /\ faults \in 0..MaxFaults /\ fwFails \in 0..MaxFaults
    BY <2>1, <2>2
  <2>4. ended \subseteq Clients /\ twice \subseteq Clients /\ gaveUp \in BOOLEAN
    BY <2>2
  <2>5. sensor.handle \in {0, regs}
    BY <1>1
  <2> QED BY <1>1, <1>2, <1>3, <1>4, <2>3, <2>4, <2>5, Zenon DEF Typed
<1>6. AnswersIn(sensor.handle, signals) = {}
  BY <1>3 DEF AnswersIn
<1>7. LinkOK(sensor, driver, signals)
  BY <1>1, <1>4, <1>6, LinkOff
<1>8. Fresh /\ SignalsOld
  BY <1>3 DEF Init, Fresh, SignalsOld
<1>9. MatrixOld(matrix)
  BY <1>2, FreeFact DEF MatrixOld, Init
<1>10. \A h : RequestsIn(matrix, h) = {}
  BY <1>2 DEF RequestsIn
<1>11. PossibleIn(matrix, sensor.handle)
  BY <1>10 DEF PossibleIn
<1>12. \A h, c : OfClient(matrix, h, c) = {}
  BY <1>10 DEF OfClient
<1>13. SingleIn(matrix, sensor.handle, twice) /\ NoneIn(matrix, sensor.handle, ended \ twice)
  BY <1>12 DEF SingleIn, NoneIn
<1> QED BY <1>4, <1>5, <1>7, <1>8, <1>9, <1>11, <1>13 DEF SensorsInv

-----------------------------------------------------------------------------
\* What is left to show of a step of a client, of the driver, and of a handler.
LEMMA ClientStep ==
  ASSUME SensorsInv, sensor.handle # 0,
         matrix' \in Matrix, MatrixOld(matrix'), PossibleIn(matrix', sensor.handle),
         NEW rate \in Declared \cup {Off}, NEW latency \in 1..Invalid,
         Reconfig(sensor, rate, latency),
         UNCHANGED <<signals, regs, fwFails>>, ended' \subseteq Clients, twice' \subseteq Clients,
         SingleIn(matrix', sensor.handle, twice'),
         NoneIn(matrix', sensor.handle, ended' \ twice')
  PROVE  SensorsInv'
<1>1. /\ sensor' \in Sensor /\ sensor'.handle = sensor.handle
      /\ driver' \in Driver /\ driver'.goal.rate \in Declared \cup {Off}
      /\ gaveUp' \in BOOLEAN /\ faults' \in 0..MaxFaults
      /\ LinkOK(sensor', driver', signals)
  <2>1. /\ sensor \in Sensor /\ driver \in Driver /\ driver.goal.rate \in Declared \cup {Off}
        /\ gaveUp \in BOOLEAN /\ faults \in 0..MaxFaults /\ fwFails \in 0..MaxFaults
        /\ LinkOK(sensor, driver, signals)
    BY DEF SensorsInv, Typed
  <2> HIDE DEF Off, Invalid
  <2> QED BY <2>1, ReconfigLink
<1>2. Typed'
  BY <1>1 DEF SensorsInv, Typed
<1>3. Fresh' /\ SignalsOld' /\ MatrixOld(matrix)'
  BY <1>1 DEF SensorsInv, Fresh, SignalsOld, MatrixOld
<1>4. PossibleIn(matrix, sensor.handle)' /\ LinkOK(sensor, driver, signals)'
      /\ SingleIn(matrix, sensor.handle, twice)' /\ NoneIn(matrix, sensor.handle, ended \ twice)'
  BY <1>1
<1> QED BY <1>1, <1>2, <1>3, <1>4 DEF SensorsInv

\* The driver finishes a call, and its signal is deferred or lost.
LEMMA SignalStep ==
  ASSUME SensorsInv, NEW x \in SignalSet, x.handle = sensor.handle, x.kind = "rate" => x.rate # Off,
         Signalled(x), UNCHANGED fwFails, UNCHANGED OutsideDriver,
         driver' \in Driver, driver'.goal.rate \in Declared \cup {Off},
         LinkOK(sensor, driver', Append(signals, x)), LinkOK(sensor, driver', signals),
         sensor.handle # 0
  PROVE  SensorsInv'
<1>1. UNCHANGED <<sensor, matrix, regs, ended, twice, gaveUp, fwFails>>
  BY DEF OutsideDriver
<1>2. (signals' = Append(signals, x) \/ signals' = signals) /\ faults' \in 0..MaxFaults
  <2>1. MaxFaults \in Nat
    BY SensorsAssumption
  <2>2. faults \in 0..MaxFaults /\ fwFails \in 0..MaxFaults
    BY DEF SensorsInv, Typed
  <2>3. CASE signals' = Append(signals, x) /\ Done
    BY <2>2, <2>3 DEF Done
  <2>4. CASE Fault /\ UNCHANGED signals
    BY <2>1, <2>2, <2>4 DEF Fault
  <2> QED BY <2>3, <2>4 DEF Signalled
<1>3. signals' \in Seq(SignalSet) /\ LinkOK(sensor, driver', signals')
  <2>1. signals \in Seq(SignalSet)
    BY DEF SensorsInv, Typed
  <2>2. Append(signals, x) \in Seq(SignalSet)
    BY <2>1, Added
  <2> QED BY <1>2, <2>1, <2>2
<1>4. Typed'
  BY <1>1, <1>2, <1>3 DEF SensorsInv, Typed
<1>5. sensor.handle <= regs
  BY DEF SensorsInv, Typed
<1>6. SignalsOld'
  <2>1. CASE signals' = signals
    BY <1>1, <2>1 DEF SensorsInv, SignalsOld
  <2>2. CASE signals' = Append(signals, x)
    <3>1. \A i \in DOMAIN signals' : (i \in DOMAIN signals /\ signals'[i] = signals[i]) \/ signals'[i] = x
      BY <2>2, Added DEF SensorsInv, Typed
    <3> QED BY <1>1, <1>5, <3>1 DEF SensorsInv, SignalsOld
  <2> QED BY <1>2, <2>1, <2>2
<1>7. Fresh' /\ MatrixOld(matrix)'
  BY <1>1 DEF SensorsInv, Fresh, MatrixOld
<1>8. PossibleIn(matrix, sensor.handle)' /\ LinkOK(sensor, driver, signals)'
      /\ SingleIn(matrix, sensor.handle, twice)' /\ NoneIn(matrix, sensor.handle, ended \ twice)'
  BY <1>1, <1>3 DEF SensorsInv
<1> QED BY <1>4, <1>6, <1>7, <1>8 DEF SensorsInv

\* A handler takes the first signal.
LEMMA HandlerStep ==
  ASSUME SensorsInv, NEW kind, Handle(kind),
         sensor.handle # 0 \/ UNCHANGED <<sensor, driver>>,
         sensor' \in Sensor, sensor'.handle = sensor.handle,
         driver' \in Driver, driver'.goal.rate \in Declared \cup {Off},
         gaveUp' \in BOOLEAN, faults' \in 0..MaxFaults,
         LinkOK(sensor', driver', Tail(signals))
  PROVE  SensorsInv'
<1>1. signals # <<>> /\ signals' = Tail(signals) /\ UNCHANGED <<matrix, regs, ended, twice, fwFails>>
  BY DEF Handle, RunDeferred
<1>2. signals' \in Seq(SignalSet)
  BY <1>1, Removed DEF SensorsInv, Typed
<1>3. Typed'
  BY <1>1, <1>2 DEF SensorsInv, Typed
<1>4. \A i \in DOMAIN signals' : i + 1 \in DOMAIN signals /\ signals'[i] = signals[i + 1]
  BY <1>1, Removed DEF SensorsInv, Typed
<1>5. SignalsOld'
  BY <1>1, <1>4 DEF SensorsInv, SignalsOld
<1>6. Fresh' /\ MatrixOld(matrix)'
  BY <1>1 DEF SensorsInv, Fresh, MatrixOld
<1>7. PossibleIn(matrix, sensor.handle)' /\ LinkOK(sensor, driver, signals)'
      /\ SingleIn(matrix, sensor.handle, twice)' /\ NoneIn(matrix, sensor.handle, ended \ twice)'
  BY <1>1 DEF SensorsInv
<1> QED BY <1>3, <1>5, <1>6, <1>7 DEF SensorsInv

-----------------------------------------------------------------------------
\* Each action keeps the invariant: registration
LEMMA NothingAsked ==
  ASSUME NEW m \in Matrix, NEW h, \A i \in Slots : m[i].handle # h \/ m[i] = Free, NEW t, NEW gone
  PROVE  PossibleIn(m, h) /\ SingleIn(m, h, t) /\ NoneIn(m, h, gone)
<1>1. RequestsIn(m, h) = {}
  BY DEF RequestsIn
<1>2. \A c : OfClient(m, h, c) = {}
  BY <1>1 DEF OfClient
<1> QED BY <1>1, <1>2 DEF PossibleIn, SingleIn, NoneIn

\* No answers for a handle that no signal carries.
LEMMA NoAnswers ==
  ASSUME NEW q \in Seq(SignalSet), NEW h, \A i \in DOMAIN q : q[i].handle # h
  PROVE  AnswersIn(h, q) = {}
BY DEF AnswersIn

\* A sensor as it is registered.
LEMMA NewSensor ==
  ASSUME NEW h \in 0..MaxRegs, NEW ready \in BOOLEAN
  PROVE  LET t == [NoSensor EXCEPT !.handle = h, !.ready = ready] IN
         t \in Sensor /\ t.handle = h /\ t.rate = Off
<1> DEFINE X == Levels \cup States
           Y == 0..Invalid
           Z == 0..MaxRegs
           t == [NoSensor EXCEPT !.handle = h, !.ready = ready]
<1>1. NoSensor \in [handle : Z, ready : BOOLEAN, rate : X, latency : Y] /\ NoSensor.rate = Off
  <2>1. MaxRegs \in Nat
    BY SensorsAssumption
  <2> QED BY <2>1 DEF NoSensor, States
<1> HIDE DEF X, Y, Z
<1>2. t \in [handle : Z, ready : BOOLEAN, rate : X, latency : Y] /\ t.handle = h
      /\ t.rate = NoSensor.rate
  <2>1. h \in Z
    BY DEF Z
  <2> QED BY <1>1, <2>1
<1> QED BY <1>1, <1>2 DEF Sensor, X, Y, Z

\* Every signal carries the handle of some registration.
LEMMA SignalFact ==
  ASSUME NEW q \in Seq(SignalSet)
  PROVE  \A i \in DOMAIN q : q[i] \in SignalSet /\ q[i].handle \in 1..MaxRegs /\ q[i].handle # 0
<1>1. \A i \in DOMAIN q : q[i] \in SignalSet
  OBVIOUS
<1>2. \A x \in SignalSet : x.handle \in 1..MaxRegs
  BY DEF SignalSet
<1>3. \A x \in 1..MaxRegs : x # 0
  <2>1. MaxRegs \in Nat
    BY SensorsAssumption
  <2> QED BY <2>1
<1>4. \A x \in SignalSet : x.handle \in 1..MaxRegs /\ x.handle # 0
  BY <1>2, <1>3
<1> HIDE DEF SignalSet
<1> QED BY <1>1, <1>4

\* The driver before anything was asked of it.
LEMMA Idle ==
  /\ IdleDriver \in Driver /\ IdleDriver.calls = <<>> /\ ~IdleDriver.on
  /\ IdleDriver.goal.rate = Off
BY DEF IdleDriver, Driver

\* A new handle: no old signal and no old request is for it.
LEMMA RegisterInv ==
  ASSUME SensorsInv, NEW ready \in BOOLEAN, Register(ready)
  PROVE  SensorsInv'
<1> DEFINE h == regs + 1
<1>1. /\ sensor.handle = 0 /\ regs' = regs + 1 /\ regs < MaxRegs
      /\ sensor' = [NoSensor EXCEPT !.handle = h, !.ready = ready]
      /\ UNCHANGED <<matrix, signals, driver, ended, twice, gaveUp, faults, fwFails>>
  BY DEF Register
<1>2. regs \in Nat /\ MaxRegs \in Nat /\ h \in 0..MaxRegs /\ h # 0
  <2>1. MaxRegs \in Nat
    BY SensorsAssumption
  <2>2. regs \in 0..MaxRegs
    BY DEF SensorsInv, Typed
  <2> QED BY <1>1, <2>1, <2>2
<1>3. sensor' \in Sensor /\ sensor'.handle = h /\ sensor'.rate = Off
  BY <1>1, <1>2, NewSensor
<1>4. driver = IdleDriver
  BY <1>1 DEF SensorsInv, Fresh
<1>5. matrix \in Matrix /\ signals \in Seq(SignalSet)
  BY DEF SensorsInv, Typed
<1>6. \A i \in DOMAIN signals : signals[i].handle \in 1..MaxRegs
  BY <1>5, SignalFact
<1>7. AnswersIn(h, signals) = {}
  <2>1. \A i \in DOMAIN signals : signals[i].handle # h
    BY <1>2, <1>6 DEF SensorsInv, SignalsOld
  <2> QED BY <1>5, <2>1, NoAnswers
<1>8. LinkOK(sensor', driver, signals)
  BY <1>3, <1>4, <1>7, LinkOff, Idle
<1>9. \A i \in Slots : matrix[i].handle \in 0..MaxRegs
  BY <1>2, <1>5, FreeFact DEF Matrix
<1>10. \A i \in Slots : matrix[i].handle # h
  BY <1>2, <1>9 DEF SensorsInv, MatrixOld
<1>11. /\ PossibleIn(matrix, h) /\ SingleIn(matrix, h, twice) /\ NoneIn(matrix, h, ended \ twice)
  BY <1>5, <1>10, NothingAsked
<1>12. Typed'
  BY <1>1, <1>2, <1>3 DEF SensorsInv, Typed
<1>13. SignalsOld'
  BY <1>1, <1>2, <1>6 DEF SensorsInv, SignalsOld
<1>14. MatrixOld(matrix)'
  BY <1>1, <1>2, <1>9 DEF SensorsInv, MatrixOld
<1>15. Fresh'
  BY <1>2, <1>3 DEF Fresh
<1>16. PossibleIn(matrix, sensor.handle)' /\ LinkOK(sensor, driver, signals)'
       /\ SingleIn(matrix, sensor.handle, twice)' /\ NoneIn(matrix, sensor.handle, ended \ twice)'
       /\ (driver.goal.rate \in Declared \cup {Off})'
  BY <1>1, <1>3, <1>8, <1>11 DEF SensorsInv
<1> QED BY <1>12, <1>13, <1>14, <1>15, <1>16 DEF SensorsInv

\* sensorRegisterInitComplete.
LEMMA InitCompleteInv ==
  ASSUME SensorsInv, RegisterInitComplete
  PROVE  SensorsInv'
<1>1. /\ sensor' = [sensor EXCEPT !.ready = TRUE] /\ sensor.handle # 0
      /\ UNCHANGED <<matrix, signals, driver, regs, ended, twice, gaveUp, faults, fwFails>>
  BY DEF RegisterInitComplete
<1>2. /\ sensor' \in Sensor /\ sensor'.handle = sensor.handle /\ sensor'.rate = sensor.rate
  <2>1. sensor \in Sensor
    BY DEF SensorsInv, Typed
  <2> DEFINE X == Levels \cup States
             Y == 0..Invalid
             Z == 0..MaxRegs
  <2>2. sensor \in [handle : Z, ready : BOOLEAN, rate : X, latency : Y]
    BY <2>1 DEF Sensor
  <2> HIDE DEF X, Y, Z
  <2>3. /\ sensor' \in [handle : Z, ready : BOOLEAN, rate : X, latency : Y]
        /\ sensor'.handle = sensor.handle /\ sensor'.rate = sensor.rate
    BY <1>1, <2>2
  <2> QED BY <2>3 DEF Sensor, X, Y, Z
<1>3. LinkOK(sensor', driver, signals)
  BY <1>2, LinkSame DEF SensorsInv
<1>4. Typed' /\ Fresh' /\ SignalsOld' /\ MatrixOld(matrix)'
  BY <1>1, <1>2 DEF SensorsInv, Typed, Fresh, SignalsOld, MatrixOld
<1>5. PossibleIn(matrix, sensor.handle)' /\ LinkOK(sensor, driver, signals)'
      /\ SingleIn(matrix, sensor.handle, twice)' /\ NoneIn(matrix, sensor.handle, ended \ twice)'
      /\ (driver.goal.rate \in Declared \cup {Off})'
  BY <1>1, <1>2, <1>3 DEF SensorsInv
<1> QED BY <1>4, <1>5 DEF SensorsInv

\* sensorUnregister: nothing is left that the invariant is about.
LEMMA UnregisterInv ==
  ASSUME SensorsInv, Unregister
  PROVE  SensorsInv'
<1>1. /\ sensor' = NoSensor /\ driver' = IdleDriver /\ twice' = {} /\ gaveUp' = FALSE
      /\ UNCHANGED <<matrix, signals, regs, ended, faults, fwFails>>
  BY DEF Unregister
<1>2. sensor' \in Sensor /\ sensor'.handle = 0 /\ sensor'.rate = Off
  BY <1>1, SensorsAssumption DEF NoSensor, Sensor, States
<1>3. matrix \in Matrix /\ signals \in Seq(SignalSet)
  BY DEF SensorsInv, Typed
<1>4. AnswersIn(0, signals) = {}
  <2>1. \A i \in DOMAIN signals : signals[i].handle # 0
    BY <1>3, SignalFact
  <2> QED BY <1>3, <2>1, NoAnswers
<1>5. LinkOK(sensor', driver', signals)
  BY <1>1, <1>2, <1>4, LinkOff, Idle
<1>6. \A i \in Slots : matrix[i].handle # 0 \/ matrix[i] = Free
  BY <1>3, FreeFact DEF Matrix
<1>7. PossibleIn(matrix, 0) /\ SingleIn(matrix, 0, {}) /\ NoneIn(matrix, 0, ended \ {})
  BY <1>3, <1>6, NothingAsked
<1>8. Typed'
  BY <1>1, <1>2, Idle DEF SensorsInv, Typed
<1>9. Fresh' /\ SignalsOld' /\ MatrixOld(matrix)'
  BY <1>1 DEF SensorsInv, Fresh, SignalsOld, MatrixOld
<1>10. PossibleIn(matrix, sensor.handle)' /\ LinkOK(sensor, driver, signals)'
       /\ SingleIn(matrix, sensor.handle, twice)' /\ NoneIn(matrix, sensor.handle, ended \ twice)'
       /\ (driver.goal.rate \in Declared \cup {Off})'
  BY <1>1, <1>2, <1>5, <1>7, Idle
<1> QED BY <1>8, <1>9, <1>10 DEF SensorsInv

-----------------------------------------------------------------------------
\* Each action keeps the invariant: the clients
LEMMA WishFact ==
  ASSUME NEW wish \in Wishes
  PROVE  wish.rate \in Levels /\ wish.latency \in 1..(Invalid - 1)
<1>1. wish \in [rate : Levels, latency : 1..(Invalid - 1)]
  BY SensorsAssumption
<1> QED BY <1>1 DEF Levels

\* What the request of a further rate leaves can be served.
LEMMA PossibleMore ==
  ASSUME NEW m \in Matrix, NEW n \in Matrix, NEW h, h = sensor.handle, PossibleIn(m, h),
         NEW extra \in Levels, NEW removed, NEW i \in Slots,
         CalcHwRate(m, extra, removed) # Impossible,
         RequestsIn(n, h) \subseteq RequestsIn(m, h) \cup {i},
         \A j \in Slots \ {i} : n[j] = m[j],
         n[i].rate = extra,
         IF i \in RequestsIn(m, h) THEN m[i].rate = removed ELSE removed = Off
  PROVE  PossibleIn(n, h)
<1> DEFINE same == {j \in Requests(m) : m[j].rate = removed}
           kept == Requests(m) \ (IF same = {} THEN {} ELSE {Min(same)})
<1>1. Requests(m) = RequestsIn(m, h) /\ RequestsIn(m, h) \subseteq Slots
  BY RequestsAre DEF RequestsIn
<1>2. /\ extra \in Special => extra \in Declared
      /\ (extra \in Levels \ Special \/ \E j \in kept : m[j].rate \notin Special) =>
           \E r \in Supported :
             /\ extra \in Levels \ Special => r >= extra
             /\ \A j \in kept : m[j].rate \notin Special => r >= m[j].rate
  <2>1. extra \in Levels \cup {Off} /\ PossibleIn(m, sensor.handle)
    OBVIOUS
  <2>2. kept = Kept(m, removed)
    BY DEF Kept
  <2> HIDE DEF kept, Off, Impossible
  <2> QED BY <2>1, <2>2, RateGranted
<1>3. \A j \in RequestsIn(n, h) \ {i} :
        j \in RequestsIn(m, h) /\ n[j] = m[j] /\ \E k \in kept : m[k].rate = n[j].rate
  <2> TAKE j \in RequestsIn(n, h) \ {i}
  <2>1. j \in RequestsIn(m, h) /\ n[j] = m[j]
    BY DEF RequestsIn
  <2>2. CASE j \in kept
    BY <2>1, <2>2
  <2>3. CASE j \notin kept
    <3>1. same # {} /\ j = Min(same)
      BY <1>1, <2>1, <2>3
    <3>2. same \subseteq Nat
      BY DEF Requests, Slots
    <3>3. j \in same
      <4> HIDE DEF same
      <4> QED BY <3>1, <3>2, MinFact
    <3>4. m[j].rate = removed /\ removed # Off
      BY <3>3, RequestsFacts, SupportedFact
    <3>5. i \in RequestsIn(m, h) /\ m[i].rate = removed
      BY <3>4
    <3>6. i \in kept
      BY <1>1, <3>1, <3>5
    <3> QED BY <2>1, <3>4, <3>5, <3>6
  <2> QED BY <2>2, <2>3
<1> HIDE DEF same, kept
<1>4. ASSUME NEW j \in RequestsIn(n, h), n[j].rate \in Special
      PROVE  n[j].rate \in Declared
  <2>1. CASE j = i
    BY <1>2, <1>4, <2>1
  <2>2. CASE j # i
    BY <1>3, <1>4, <2>2 DEF PossibleIn
  <2> QED BY <2>1, <2>2
<1>5. ASSUME NEW j \in RequestsIn(n, h), n[j].rate \notin Special
      PROVE  \E r \in Supported : \A k \in RequestsIn(n, h) : n[k].rate \notin Special => r >= n[k].rate
  <2>1. extra \in Levels \ Special \/ \E k \in kept : m[k].rate \notin Special
    BY <1>3, <1>5
  <2>2. PICK r \in Supported :
          /\ extra \in Levels \ Special => r >= extra
          /\ \A k \in kept : m[k].rate \notin Special => r >= m[k].rate
    BY <1>2, <2>1
  <2>3. ASSUME NEW k \in RequestsIn(n, h), n[k].rate \notin Special
        PROVE  r >= n[k].rate
    BY <1>3, <2>2, <2>3
  <2> QED BY <2>3
<1> QED BY <1>4, <1>5 DEF PossibleIn

\* So can what fewer requests leave.
LEMMA PossibleFewer ==
  ASSUME NEW m, NEW n, NEW h, PossibleIn(m, h),
         RequestsIn(n, h) \subseteq RequestsIn(m, h),
         \A j \in RequestsIn(n, h) : n[j] = m[j]
  PROVE  PossibleIn(n, h)
<1>1. \A i \in RequestsIn(n, h) : n[i].rate \in Special => n[i].rate \in Declared
  BY DEF PossibleIn
<1>2. ASSUME NEW i \in RequestsIn(n, h), n[i].rate \notin Special
      PROVE  \E r \in Supported : \A k \in RequestsIn(n, h) : n[k].rate \notin Special => r >= n[k].rate
  <2>1. PICK r \in Supported : \A k \in RequestsIn(m, h) : m[k].rate \notin Special => r >= m[k].rate
    BY <1>2 DEF PossibleIn
  <2> QED BY <2>1
<1> QED BY <1>1, <1>2 DEF PossibleIn

\* sensorRequest fills a slot.
LEMMA RequestInv ==
  ASSUME SensorsInv, NEW client \in Clients, NEW wish \in Wishes, Request(client, wish)
  PROVE  SensorsInv'
<1> DEFINE h == sensor.handle
           x == [handle |-> h, client |-> client, rate |-> wish.rate, latency |-> wish.latency]
<1>1. /\ client \notin ended /\ h # 0
      /\ CalcHwRate(matrix, wish.rate, Off) # Impossible
      /\ twice' = IF RequestsOf(matrix, client) = {} THEN twice ELSE twice \cup {client}
      /\ Reconfig(sensor, CalcHwRate(matrix, wish.rate, Off), CalcHwLatency(matrix'))
      /\ UNCHANGED <<signals, regs, ended, fwFails>>
  <2> HIDE DEF Off, Impossible
  <2> QED BY DEF Request
<1>2. PICK i \in Slots : matrix[i] = Free /\ matrix' = Filled(matrix, i, x)
  <2> HIDE DEF Off, Impossible
  <2> QED BY DEF Request, Filled
<1>3. matrix \in Matrix /\ h \in 1..MaxRegs /\ h <= regs
  <2>1. h \in 0..MaxRegs /\ matrix \in Matrix /\ h = regs
    BY <1>1 DEF SensorsInv, Typed, Sensor
  <2> QED BY <1>1, <2>1
<1>4. wish.rate \in Levels /\ wish.latency \in 1..(Invalid - 1)
  BY WishFact
<1>5. x \in Requested /\ x # Free /\ x.handle = h /\ x.client = client /\ x.rate = wish.rate
  <2>1. x \in Requested /\ x.handle = h /\ x.client = client /\ x.rate = wish.rate
    BY <1>3, <1>4 DEF Requested, Levels
  <2> QED BY <2>1, FreeFact
<1> HIDE DEF x
<1>6. /\ matrix' \in Matrix /\ matrix'[i] = x /\ \A j \in Slots \ {i} : matrix'[j] = matrix[j]
  BY <1>2, <1>3, <1>5, Put
<1>7. RequestsIn(matrix', h) = RequestsIn(matrix, h) \cup {i} /\ i \notin RequestsIn(matrix, h)
  BY <1>2, <1>5, <1>6 DEF RequestsIn
<1>8. PossibleIn(matrix', h)
  <2> HIDE DEF Off, Impossible
  <2>1. matrix'[i].rate = wish.rate
    BY <1>5, <1>6
  <2>2. PossibleIn(matrix, h)
    BY DEF SensorsInv
  <2> QED BY <1>1, <1>3, <1>4, <1>6, <1>7, <2>1, <2>2, PossibleMore
<1>9. MatrixOld(matrix')
  <2>1. \A j \in Slots : matrix'[j].handle <= regs
    <3> TAKE j \in Slots
    <3>1. CASE j = i
      BY <1>3, <1>5, <1>6, <3>1
    <3>2. CASE j # i
      BY <1>6, <3>2 DEF SensorsInv, MatrixOld
    <3> QED BY <3>1, <3>2
  <2> QED BY <2>1 DEF MatrixOld
<1>10. /\ \A c : c # client => OfClient(matrix', h, c) = OfClient(matrix, h, c)
       /\ OfClient(matrix', h, client) = OfClient(matrix, h, client) \cup {i}
  <2>1. \A j \in RequestsIn(matrix, h) : matrix'[j] = matrix[j]
    BY <1>6, <1>7 DEF RequestsIn
  <2> QED BY <1>5, <1>6, <1>7, <2>1 DEF OfClient
<1>11. twice \subseteq twice' /\ twice' \subseteq Clients
       /\ (client \notin twice' => OfClient(matrix, h, client) = {})
  BY <1>1, OfClientIs DEF SensorsInv, Typed
<1>12. SingleIn(matrix', h, twice')
  <2> SUFFICES ASSUME NEW c \in Clients \ twice', NEW a \in OfClient(matrix', h, c),
                      NEW b \in OfClient(matrix', h, c)
               PROVE  a = b
    BY DEF SingleIn
  <2>1. CASE c = client
    BY <1>10, <1>11, <2>1
  <2>2. CASE c # client
    BY <1>10, <1>11, <2>2 DEF SensorsInv, SingleIn
  <2> QED BY <2>1, <2>2
<1>13. NoneIn(matrix', h, ended' \ twice')
  BY <1>1, <1>10, <1>11 DEF SensorsInv, NoneIn
<1>14. CalcHwRate(matrix, wish.rate, Off) \in Declared \cup {Off}
  <2>1. PossibleIn(matrix, h)
    BY DEF SensorsInv
  <2>2. wish.rate \in Levels \cup {Off}
    BY <1>4
  <2> HIDE DEF Off, Impossible
  <2> QED BY <1>1, <1>3, <2>1, <2>2, RateGranted
<1>15. CalcHwLatency(matrix') \in 1..Invalid
  BY <1>6, LatencyFact
<1>16. ended' \subseteq Clients
  BY <1>1 DEF SensorsInv, Typed
<1> HIDE DEF Off, Invalid, Impossible, h
<1> QED BY <1>1, <1>6, <1>8, <1>9, <1>11, <1>12, <1>13, <1>14, <1>15, <1>16, ClientStep DEF h

\* sensorRequestRateChange overwrites the client's slot.
LEMMA RequestRateChangeInv ==
  ASSUME SensorsInv, NEW client \in Clients, NEW wish \in Wishes, RequestRateChange(client, wish)
  PROVE  SensorsInv'
<1> DEFINE h == sensor.handle
           i == First(client)
           x == [matrix[i] EXCEPT !.rate = wish.rate, !.latency = wish.latency]
<1>1. /\ client \notin ended /\ h # 0
      /\ RequestsOf(matrix, client) # {}
      /\ CalcHwRate(matrix, wish.rate, matrix[i].rate) # Impossible
      /\ Reconfig(sensor, CalcHwRate(matrix, wish.rate, matrix[i].rate), CalcHwLatency(matrix'))
      /\ UNCHANGED <<signals, regs, ended, twice, fwFails>>
  <2> HIDE DEF Off, Impossible
  <2> QED BY DEF RequestRateChange
<1>2. matrix' = Filled(matrix, i, x)
  BY DEF RequestRateChange, Filled
<1>3. matrix \in Matrix /\ PossibleIn(matrix, h)
  BY DEF SensorsInv, Typed
<1>4. wish.rate \in Levels /\ wish.latency \in 1..(Invalid - 1)
  BY WishFact
<1>5. i \in OfClient(matrix, h, client)
  BY <1>1, FirstFact
<1>6. i \in RequestsIn(matrix, h) /\ i \in Slots /\ matrix[i].client = client
      /\ matrix[i] \in Requested /\ matrix[i].handle = h /\ matrix[i].rate \in Levels
  <2>1. i \in RequestsIn(matrix, h) /\ matrix[i].client = client
    BY <1>5 DEF OfClient
  <2> QED BY <1>3, <2>1, RequestFacts
<1> HIDE DEF i
<1>7. x \in Requested /\ x # Free /\ x.handle = h /\ x.client = client /\ x.rate = wish.rate
  <2> DEFINE H == 1..MaxRegs
             R == Levels
             L == 1..(Invalid - 1)
  <2>a. matrix[i] \in [handle : H, client : Clients, rate : R, latency : L]
        /\ wish.rate \in R /\ wish.latency \in L
    BY <1>4, <1>6 DEF Requested, Levels
  <2> HIDE DEF H, R, L
  <2>b. /\ x \in [handle : H, client : Clients, rate : R, latency : L]
        /\ x.handle = h /\ x.client = client /\ x.rate = wish.rate
    BY <1>6, <2>a
  <2>1. x \in Requested /\ x.handle = h /\ x.client = client /\ x.rate = wish.rate
    BY <2>b DEF Requested, H, R, L
  <2> QED BY <2>1, FreeFact
<1> HIDE DEF x
<1>8. /\ matrix' \in Matrix /\ matrix'[i] = x /\ \A j \in Slots \ {i} : matrix'[j] = matrix[j]
  BY <1>2, <1>3, <1>6, <1>7, Put
<1>9. RequestsIn(matrix', h) = RequestsIn(matrix, h)
  BY <1>6, <1>7, <1>8 DEF RequestsIn
<1>10. PossibleIn(matrix', h)
  <2>1. matrix'[i].rate = wish.rate
    BY <1>7, <1>8
  <2>2. IF i \in RequestsIn(matrix, h) THEN matrix[i].rate = matrix[i].rate ELSE matrix[i].rate = Off
    BY <1>6
  <2>3. RequestsIn(matrix', h) \subseteq RequestsIn(matrix, h) \cup {i}
    BY <1>9
  <2> HIDE DEF Off, Impossible
  <2> QED BY <1>1, <1>3, <1>4, <1>6, <1>8, <2>1, <2>2, <2>3, PossibleMore
<1>11. MatrixOld(matrix')
  <2>1. matrix[i].handle <= regs
    BY <1>6 DEF SensorsInv, MatrixOld
  <2>2. \A j \in Slots : matrix'[j].handle <= regs
    <3> TAKE j \in Slots
    <3>1. CASE j = i
      BY <1>6, <1>7, <1>8, <2>1, <3>1
    <3>2. CASE j # i
      BY <1>8, <3>2 DEF SensorsInv, MatrixOld
    <3> QED BY <3>1, <3>2
  <2> QED BY <2>2 DEF MatrixOld
<1>12. \A c : OfClient(matrix', h, c) = OfClient(matrix, h, c)
  <2>1. \A j \in RequestsIn(matrix, h) : matrix'[j].client = matrix[j].client
    BY <1>6, <1>7, <1>8 DEF RequestsIn
  <2> QED BY <1>9, <2>1 DEF OfClient
<1>13. SingleIn(matrix', h, twice') /\ NoneIn(matrix', h, ended' \ twice')
  BY <1>1, <1>12 DEF SensorsInv, SingleIn, NoneIn
<1>14. CalcHwRate(matrix, wish.rate, matrix[i].rate) \in Declared \cup {Off}
  <2>1. wish.rate \in Levels \cup {Off}
    BY <1>4
  <2> HIDE DEF Off, Impossible
  <2> QED BY <1>1, <1>3, <2>1, RateGranted
<1>15. CalcHwLatency(matrix') \in 1..Invalid
  BY <1>8, LatencyFact
<1>16. ended' \subseteq Clients /\ twice' \subseteq Clients
  BY <1>1 DEF SensorsInv, Typed
<1> HIDE DEF Off, Invalid, Impossible, h
<1> QED BY <1>1, <1>8, <1>10, <1>11, <1>13, <1>14, <1>15, <1>16, ClientStep DEF h

\* Release and End both delete a request and reconcile.
LEMMA DeleteInv ==
  ASSUME SensorsInv, NEW client \in Clients, sensor.handle # 0,
         RequestsOf(matrix, client) # {}, matrix' = Deleted(client), Reconcile(sensor, matrix'),
         UNCHANGED <<signals, regs, twice, fwFails>>,
         ended' = ended \/ ended' = ended \cup {client}
  PROVE  SensorsInv'
<1> DEFINE h == sensor.handle
           i == First(client)
<1>1. matrix' = Filled(matrix, i, Free)
  BY DEF Deleted, Filled
<1>2. matrix \in Matrix /\ PossibleIn(matrix, h)
  BY DEF SensorsInv, Typed
<1>3. i \in OfClient(matrix, h, client)
  BY FirstFact
<1>4. i \in RequestsIn(matrix, h) /\ i \in Slots
  BY <1>3 DEF OfClient, RequestsIn
<1> HIDE DEF i
<1>5. /\ matrix' \in Matrix /\ matrix'[i] = Free /\ \A j \in Slots \ {i} : matrix'[j] = matrix[j]
  BY <1>1, <1>2, <1>4, Put
<1>6. /\ RequestsIn(matrix', h) = RequestsIn(matrix, h) \ {i}
      /\ \A j \in RequestsIn(matrix', h) : matrix'[j] = matrix[j]
  BY <1>4, <1>5 DEF RequestsIn
<1>7. PossibleIn(matrix', h)
  BY <1>2, <1>6, PossibleFewer
<1>8. MatrixOld(matrix')
  <2>1. 0 <= regs
    BY DEF SensorsInv, Typed
  <2> QED BY <1>5, <2>1, FreeFact DEF SensorsInv, MatrixOld
<1>9. \A c : OfClient(matrix', h, c) = OfClient(matrix, h, c) \ {i}
  BY <1>6 DEF OfClient
<1>10. SingleIn(matrix', h, twice')
  BY <1>9 DEF SensorsInv, SingleIn
<1>11. NoneIn(matrix', h, ended' \ twice')
  <2> SUFFICES ASSUME NEW c \in ended' \ twice' PROVE OfClient(matrix', h, c) = {}
    BY DEF NoneIn
  <2>1. CASE c = client
    <3>1. \A a, b \in OfClient(matrix, h, c) : a = b
      BY <2>1 DEF SensorsInv, SingleIn
    <3> QED BY <1>3, <1>9, <2>1, <3>1
  <2>2. CASE c # client
    BY <1>9, <2>2 DEF SensorsInv, NoneIn
  <2> QED BY <2>1, <2>2
<1>12. PICK rate, latency : rate = CalcHwRate(matrix', Off, Off) /\ latency = CalcHwLatency(matrix')
  OBVIOUS
<1>13. rate \in Declared \cup {Off}
  BY <1>5, <1>7, <1>12, RatePossible
<1>14. latency \in 1..Invalid
  BY <1>5, <1>12, LatencyFact
<1>15. Reconfig(sensor, rate, latency)
  BY <1>12 DEF Reconcile
<1>16. ended' \subseteq Clients /\ twice' \subseteq Clients
  BY DEF SensorsInv, Typed
<1> HIDE DEF Off, Invalid, Impossible, h
<1> QED BY <1>5, <1>7, <1>8, <1>10, <1>11, <1>13, <1>14, <1>15, <1>16, ClientStep DEF h

\* sensorRelease.
LEMMA ReleaseInv ==
  ASSUME SensorsInv, NEW client \in Clients, Release(client)
  PROVE  SensorsInv'
BY DeleteInv DEF Release

\* sensorFreeAll for a client.
LEMMA EndInv ==
  ASSUME SensorsInv, NEW client \in Clients, End(client)
  PROVE  SensorsInv'
<1>1. UNCHANGED <<signals, regs, twice, fwFails>> /\ ended' = ended \cup {client}
      /\ FreeAll(client)
  BY DEF End
<1>2. CASE sensor.handle # 0 /\ RequestsOf(matrix, client) # {}
  BY <1>1, <1>2, DeleteInv DEF FreeAll
<1>3. CASE ~(sensor.handle # 0 /\ RequestsOf(matrix, client) # {})
  <2>1. UNCHANGED <<matrix, sensor, driver, gaveUp, faults>>
    BY <1>1, <1>3 DEF FreeAll
  <2>2. NoneIn(matrix, sensor.handle, ended' \ twice)
    BY <1>1, <1>3, OfClientIs DEF SensorsInv, NoneIn
  <2>3. Typed' /\ Fresh' /\ SignalsOld' /\ MatrixOld(matrix)'
    BY <1>1, <2>1 DEF SensorsInv, Typed, Fresh, SignalsOld, MatrixOld
  <2>4. PossibleIn(matrix, sensor.handle)' /\ LinkOK(sensor, driver, signals)'
        /\ SingleIn(matrix, sensor.handle, twice)' /\ NoneIn(matrix, sensor.handle, ended \ twice)'
        /\ (driver.goal.rate \in Declared \cup {Off})'
    BY <1>1, <2>1, <2>2 DEF SensorsInv
  <2> QED BY <2>3, <2>4 DEF SensorsInv
<1> QED BY <1>2, <1>3

-----------------------------------------------------------------------------
\* Each action keeps the invariant: the driver.  Switched(d, on) is the driver
\* after a power call, Uploaded(d) after a firmware upload, Arrived(d) at a rate.
Switched(d, on) ==
  [d EXCEPT !.calls = Tail(@), !.on = on, !.fw = @ /\ on,
            !.config = IF on THEN @ ELSE Config(Off, Invalid), !.astray = FALSE]
Uploaded(d) == [d EXCEPT !.calls = Tail(@), !.fw = TRUE, !.config = Config(FwRate, 0)]
Given(d) == [d EXCEPT !.calls = Tail(@)]
Arrived(d) == [d EXCEPT !.goal = Config(Off, Invalid), !.config = IF d.on THEN d.goal ELSE @]

\* The four ways in which a driver gets on.
LEMMA DriverDone ==
  ASSUME NEW d \in Driver, NEW on \in BOOLEAN
  PROVE  /\ d.calls # <<>> =>
              /\ Switched(d, on) \in Driver /\ Switched(d, on).calls = Tail(d.calls)
              /\ Switched(d, on).on = on /\ Switched(d, on).goal = d.goal
         /\ d.calls # <<>> =>
              /\ Uploaded(d) \in Driver /\ Uploaded(d).calls = Tail(d.calls)
              /\ Uploaded(d).on = d.on /\ Uploaded(d).fw = TRUE /\ Uploaded(d).goal = d.goal
         /\ d.calls # <<>> =>
              /\ Given(d) \in Driver /\ Given(d).calls = Tail(d.calls)
              /\ Given(d).on = d.on /\ Given(d).fw = d.fw /\ Given(d).goal = d.goal
         /\ /\ Arrived(d) \in Driver /\ Arrived(d).calls = d.calls
            /\ Arrived(d).on = d.on /\ Arrived(d).fw = d.fw /\ Arrived(d).goal.rate = Off
            /\ Arrived(d).astray = d.astray
<1> DEFINE C == Seq({"on", "off", "fw"})
           G == [rate : Levels \cup {Off}, latency : 1..Invalid]
           K == [rate : Levels \cup {Off}, latency : 0..Invalid]
           idle == Config(Off, Invalid)
           fresh == Config(FwRate, 0)
<1>1. d \in [calls : C, on : BOOLEAN, fw : BOOLEAN, goal : G, config : K, astray : BOOLEAN]
  BY DEF Driver
<1>2. d.calls # <<>> => Tail(d.calls) \in C
  BY <1>1
<1>3. idle \in G /\ idle \in K /\ idle.rate = Off /\ fresh \in K
  BY DEF Levels
<1>4. G \subseteq K
  OBVIOUS
<1> HIDE DEF C, G, K, idle, fresh
<1>5. d.calls # <<>> =>
        LET e == Switched(d, on) IN
        /\ e \in [calls : C, on : BOOLEAN, fw : BOOLEAN, goal : G, config : K, astray : BOOLEAN]
        /\ e.calls = Tail(d.calls) /\ e.on = on /\ e.goal = d.goal
  <2> DEFINE f == d.fw /\ on
             k == IF on THEN d.config ELSE idle
  <2>1. f \in BOOLEAN /\ k \in K
    BY <1>1, <1>3
  <2>2. Switched(d, on) = [d EXCEPT !.calls = Tail(d.calls), !.on = on, !.fw = f, !.config = k,
                              !.astray = FALSE]
    BY <1>1 DEF Switched, idle
  <2> HIDE DEF f, k
  <2> QED BY <1>1, <1>2, <2>1, <2>2
<1>6. d.calls # <<>> =>
        LET e == Uploaded(d) IN
        /\ e \in [calls : C, on : BOOLEAN, fw : BOOLEAN, goal : G, config : K, astray : BOOLEAN]
        /\ e.calls = Tail(d.calls) /\ e.on = d.on /\ e.fw = TRUE /\ e.goal = d.goal
  BY <1>1, <1>2, <1>3 DEF Uploaded, fresh
<1>7. d.calls # <<>> =>
        LET e == Given(d) IN
        /\ e \in [calls : C, on : BOOLEAN, fw : BOOLEAN, goal : G, config : K, astray : BOOLEAN]
        /\ e.calls = Tail(d.calls) /\ e.on = d.on /\ e.fw = d.fw /\ e.goal = d.goal
  BY <1>1, <1>2 DEF Given
<1>8. LET e == Arrived(d) IN
        /\ e \in [calls : C, on : BOOLEAN, fw : BOOLEAN, goal : G, config : K, astray : BOOLEAN]
        /\ e.calls = d.calls /\ e.on = d.on /\ e.fw = d.fw /\ e.goal = idle
        /\ e.astray = d.astray
  <2> DEFINE k == IF d.on THEN d.goal ELSE d.config
  <2>1. k \in K
    BY <1>1, <1>4
  <2>2. Arrived(d) = [d EXCEPT !.goal = idle, !.config = k]
    BY <1>1 DEF Arrived, idle
  <2> HIDE DEF k
  <2> QED BY <1>1, <1>3, <2>1, <2>2
<1> QED BY <1>3, <1>5, <1>6, <1>7, <1>8 DEF Driver, C, G, K

\* The names of this module for what PowerDone and RateDone write.
LEMMA DriverIs ==
  ASSUME driver \in Driver
  PROVE  /\ \A on : [Powered(on) EXCEPT !.calls = Tail(@), !.astray = FALSE] = Switched(driver, on)
         /\ [AtRate(driver.goal) EXCEPT !.goal = Config(Off, Invalid)] = Arrived(driver)
<1> DEFINE C == Seq({"on", "off", "fw"})
           G == [rate : Levels \cup {Off}, latency : 1..Invalid]
           K == [rate : Levels \cup {Off}, latency : 0..Invalid]
           idle == Config(Off, Invalid)
<1>1. driver \in [calls : C, on : BOOLEAN, fw : BOOLEAN, goal : G, config : K, astray : BOOLEAN]
  BY DEF Driver
<1> HIDE DEF C, G, K, idle
<1>2. ASSUME NEW on
      PROVE  [Powered(on) EXCEPT !.calls = Tail(@), !.astray = FALSE] = Switched(driver, on)
  <2> DEFINE k == IF on THEN driver.config ELSE idle
             f == driver.fw /\ on
  <2>1. Powered(on) = [driver EXCEPT !.on = on, !.fw = f, !.config = k]
    BY <1>1 DEF Powered, idle
  <2>2. Switched(driver, on) =
          [driver EXCEPT !.calls = Tail(driver.calls), !.on = on, !.fw = f, !.config = k,
                         !.astray = FALSE]
    BY <1>1 DEF Switched, idle
  <2> HIDE DEF k, f
  <2> QED BY <1>1, <2>1, <2>2
<1>3. [AtRate(driver.goal) EXCEPT !.goal = idle] = Arrived(driver)
  <2> DEFINE k == IF driver.on THEN driver.goal ELSE driver.config
  <2>1. AtRate(driver.goal) = [driver EXCEPT !.config = k]
    BY <1>1 DEF AtRate
  <2>2. Arrived(driver) = [driver EXCEPT !.goal = idle, !.config = k]
    BY <1>1 DEF Arrived, idle
  <2> HIDE DEF k
  <2> QED BY <1>1, <2>1, <2>2
<1> QED BY <1>2, <1>3 DEF idle

\* A call under way, and what it says of the sensor.
LEMMA Busy ==
  ASSUME SensorsInv, driver.calls # <<>>
  PROVE  /\ sensor.handle \in 1..MaxRegs /\ sensor.handle # 0
         /\ AnswersIn(sensor.handle, signals) = {}
         /\ Tail(driver.calls) = <<>>
         /\ Head(driver.calls) \in {"on", "off", "fw"}
         /\ Head(driver.calls) # "fw" => sensor.rate \in {PoweringOn, PoweringOff}
         /\ Head(driver.calls) = "fw" => sensor.rate = FwUploading /\ driver.on
<1>1. LinkOK(sensor, driver, signals)
  BY DEF SensorsInv
<1>2. sensor.handle # 0
  BY Idle DEF SensorsInv, Fresh
<1>3. sensor.handle \in 1..MaxRegs
  BY <1>2 DEF SensorsInv, Typed, Sensor
<1>4. /\ AnswersIn(sensor.handle, signals) = {}
      /\ sensor.rate \in {PoweringOn, PoweringOff} \/ sensor.rate = FwUploading
      /\ sensor.rate \in {PoweringOn, PoweringOff} => driver.calls \in {<<"on">>, <<"off">>}
      /\ sensor.rate = FwUploading => driver.calls = <<"fw">> /\ driver.on
  <2> HIDE DEF PoweringOn, PoweringOff, FwUploading, Off
  <2> QED BY <1>1, Zenon DEF LinkOK
<1>5. /\ Tail(<<"on">>) = <<>> /\ Head(<<"on">>) = "on"
      /\ Tail(<<"off">>) = <<>> /\ Head(<<"off">>) = "off"
      /\ Tail(<<"fw">>) = <<>> /\ Head(<<"fw">>) = "fw"
      /\ "on" # "fw" /\ "off" # "fw"
  OBVIOUS
<1> HIDE DEF PoweringOn, PoweringOff, FwUploading
<1>6. CASE sensor.rate = FwUploading
  BY <1>2, <1>3, <1>4, <1>5, <1>6, Disjoint, Zenon
<1>7. CASE sensor.rate \in {PoweringOn, PoweringOff}
  BY <1>2, <1>3, <1>4, <1>5, <1>7, Disjoint, Zenon
<1> QED BY <1>4, <1>6, <1>7

\* The answer on its way.
LEMMA LinkAnswered ==
  ASSUME NEW s, NEW d, NEW q \in Seq(SignalSet), NEW x \in SignalSet,
         AnswersIn(s.handle, q) = {}, d.calls = <<>>,
         \/ s.rate \in {PoweringOn, PoweringOff} /\ x.kind = "power" /\ d.on = (x.rate # 0)
         \/ s.rate = FwUploading /\ x.kind = "fw" /\ d.on /\ (x.rate # Off => d.fw)
  PROVE  LinkOK(s, d, Append(q, x))
<1> DEFINE p == Append(q, x)
           A == AnswersIn(s.handle, p)
<1>1. \A i \in A : i = Len(q) + 1 /\ p[i] = x
  BY Added
<1>2. \A i, j \in A : i = j
  BY <1>1
<1> HIDE DEF p, A
<1>3. CASE s.rate \in {PoweringOn, PoweringOff} /\ x.kind = "power" /\ d.on = (x.rate # 0)
  <2>1. \A i \in A : p[i].kind = "power" /\ d.on = (p[i].rate # 0)
    BY <1>1, <1>3
  <2>2. s.rate \notin Levels /\ s.rate # FwUploading /\ s.rate # Off
    BY <1>3, Disjoint
  <2> HIDE DEF PoweringOn, PoweringOff, FwUploading
  <2>3. LinkOK(s, d, p)
    BY <1>2, <1>3, <2>1, <2>2 DEF LinkOK, A
  <2> QED BY <2>3 DEF p
<1>4. CASE s.rate = FwUploading /\ x.kind = "fw" /\ d.on /\ (x.rate # Off => d.fw)
  <2>1. \A i \in A : p[i].kind = "fw" /\ (p[i].rate # Off => d.fw)
    BY <1>1, <1>4
  <2>2. s.rate \notin Levels /\ s.rate \notin {PoweringOn, PoweringOff} /\ s.rate # Off
    BY <1>4, Disjoint
  <2> HIDE DEF PoweringOn, PoweringOff, FwUploading
  <2>3. LinkOK(s, d, p)
    BY <1>2, <1>4, <2>1, <2>2 DEF LinkOK, A
  <2> QED BY <2>3 DEF p
<1> QED BY <1>3, <1>4

\* A rate that was reached on its way.
LEMMA LinkRate ==
  ASSUME NEW s, NEW d, NEW q \in Seq(SignalSet), NEW x \in SignalSet, x.kind = "rate",
         LinkOK(s, d, q)
  PROVE  LinkOK(s, d, Append(q, x))
<1> DEFINE p == Append(q, x)
<1>1. AnswersIn(s.handle, p) = AnswersIn(s.handle, q)
  <2>1. /\ DOMAIN p = DOMAIN q \cup {Len(q) + 1}
        /\ \A i \in DOMAIN q : p[i] = q[i]
        /\ p[Len(q) + 1] = x
    BY Added
  <2>2. Len(q) + 1 \notin DOMAIN q
    OBVIOUS
  <2> HIDE DEF p
  <2> QED BY <2>1, <2>2 DEF AnswersIn
<1>2. \A i \in AnswersIn(s.handle, q) : p[i] = q[i]
  BY Added DEF AnswersIn
<1> HIDE DEF p
<1>3. LinkOK(s, d, p)
  BY <1>1, <1>2 DEF LinkOK
<1> QED BY <1>3 DEF p

\* A power call ends.
LEMMA PowerDoneInv ==
  ASSUME SensorsInv, PowerDone
  PROVE  SensorsInv'
<1> DEFINE on == Head(driver.calls) = "on"
           x == Signal("power", IF on THEN 1 ELSE 0, 0)
<1>1. /\ driver.calls # <<>> /\ Head(driver.calls) # "fw"
      /\ driver' = Switched(driver, on) /\ Signalled(x)
      /\ UNCHANGED fwFails /\ UNCHANGED OutsideDriver
  <2>1. [Powered(on) EXCEPT !.calls = Tail(@), !.astray = FALSE] = Switched(driver, on)
    BY DriverIs DEF SensorsInv, Typed
  <2> QED BY <2>1 DEF PowerDone
<1>2. /\ sensor.handle \in 1..MaxRegs /\ sensor.handle # 0
      /\ AnswersIn(sensor.handle, signals) = {}
      /\ Tail(driver.calls) = <<>> /\ sensor.rate \in {PoweringOn, PoweringOff}
  <2> HIDE DEF PoweringOn, PoweringOff
  <2> QED BY <1>1, Busy
<1>3. /\ driver' \in Driver /\ driver'.calls = <<>> /\ driver'.on = on /\ driver'.goal = driver.goal
  BY <1>1, <1>2, DriverDone DEF SensorsInv, Typed
<1>4. /\ x \in SignalSet /\ x.kind = "power" /\ on = (x.rate # 0)
      /\ x.handle = sensor.handle
  <2> DEFINE r == IF on THEN 1 ELSE 0
  <2>1. r \in Levels \cup {Off} /\ on = (r # 0)
    BY DEF Levels
  <2>2. x = [kind |-> "power", handle |-> sensor.handle, rate |-> r, latency |-> 0]
    BY DEF Signal
  <2> HIDE DEF r, x, on
  <2> QED BY <1>2, <2>1, <2>2 DEF SignalSet
<1> HIDE DEF x, on
<1>5. signals \in Seq(SignalSet)
  BY DEF SensorsInv, Typed
<1>6. LinkOK(sensor, driver', Append(signals, x))
  BY <1>2, <1>3, <1>4, <1>5, LinkAnswered
<1>7. LinkOK(sensor, driver', signals)
  BY <1>2, <1>3, LinkPower
<1>8. driver'.goal.rate \in Declared \cup {Off} /\ (x.kind = "rate" => x.rate # Off)
  BY <1>3, <1>4 DEF SensorsInv
<1> QED BY <1>1, <1>2, <1>3, <1>4, <1>6, <1>7, <1>8, SignalStep

\* A firmware upload ends.
LEMMA FwDoneInv ==
  ASSUME SensorsInv, FwDone
  PROVE  SensorsInv'
<1> DEFINE x == Signal("fw", FwRate, 0)
<1>1. /\ driver.calls # <<>> /\ Head(driver.calls) = "fw"
      /\ driver' = Uploaded(driver) /\ Signalled(x)
      /\ UNCHANGED fwFails /\ UNCHANGED OutsideDriver
  BY DEF FwDone, Loaded, Uploaded
<1>2. /\ sensor.handle \in 1..MaxRegs /\ sensor.handle # 0
      /\ AnswersIn(sensor.handle, signals) = {}
      /\ Tail(driver.calls) = <<>> /\ sensor.rate = FwUploading /\ driver.on
  <2> HIDE DEF FwUploading
  <2> QED BY <1>1, Busy
<1>3. /\ driver' \in Driver /\ driver'.calls = <<>> /\ driver'.on /\ driver'.fw
      /\ driver'.goal = driver.goal
  BY <1>1, <1>2, DriverDone DEF SensorsInv, Typed
<1>4. /\ x \in SignalSet /\ x.kind = "fw" /\ x.rate # Off
      /\ x.handle = sensor.handle
  BY <1>2 DEF Signal, SignalSet, Levels
<1> HIDE DEF x
<1>5. signals \in Seq(SignalSet)
  BY DEF SensorsInv, Typed
<1>6. LinkOK(sensor, driver', Append(signals, x))
  BY <1>2, <1>3, <1>4, <1>5, LinkAnswered
<1>7. LinkOK(sensor, driver', signals)
  BY <1>2, <1>3, LinkFw
<1>8. driver'.goal.rate \in Declared \cup {Off}
  BY <1>3 DEF SensorsInv
<1> QED BY <1>1, <1>2, <1>3, <1>4, <1>6, <1>7, <1>8, SignalStep

\* The driver reaches the rate it was sent to.
LEMMA RateDoneInv ==
  ASSUME SensorsInv, RateDone
  PROVE  SensorsInv'
<1> DEFINE x == Signal("rate", driver.goal.rate, driver.goal.latency)
<1>1. /\ driver.goal.rate # Off
      /\ driver' = Arrived(driver) /\ Signalled(x)
      /\ UNCHANGED fwFails /\ UNCHANGED OutsideDriver
  <2>1. [AtRate(driver.goal) EXCEPT !.goal = Config(Off, Invalid)] = Arrived(driver)
    BY DriverIs DEF SensorsInv, Typed
  <2> QED BY <2>1 DEF RateDone
<1>2. sensor.handle # 0
  BY <1>1, Idle DEF SensorsInv, Fresh
<1>3. sensor.handle \in 1..MaxRegs
  BY <1>2 DEF SensorsInv, Typed, Sensor
<1>4. driver \in Driver /\ signals \in Seq(SignalSet)
  BY DEF SensorsInv, Typed
<1>5. /\ driver' \in Driver /\ driver'.calls = driver.calls /\ driver'.on = driver.on
      /\ driver'.fw = driver.fw /\ driver'.goal.rate = Off /\ driver'.astray = driver.astray
  BY <1>1, <1>4, DriverDone
<1>6. /\ x \in SignalSet /\ x.kind = "rate" /\ x.rate # Off
      /\ x.handle = sensor.handle
  BY <1>1, <1>3, <1>4 DEF Signal, SignalSet, Driver
<1> HIDE DEF x
<1>7. LinkOK(sensor, driver', signals)
  BY <1>5, LinkSame DEF SensorsInv
<1>8. LinkOK(sensor, driver', Append(signals, x))
  BY <1>4, <1>6, <1>7, LinkRate
<1> QED BY <1>1, <1>2, <1>5, <1>6, <1>7, <1>8, SignalStep

\* A firmware upload fails.
LEMMA FwFailedInv ==
  ASSUME SensorsInv, FwFailed
  PROVE  SensorsInv'
<1> DEFINE x == Signal("fw", Off, 0)
<1>1. /\ driver.calls # <<>> /\ Head(driver.calls) = "fw"
      /\ driver' = Given(driver) /\ signals' = Append(signals, x)
      /\ faults + fwFails < MaxFaults /\ fwFails' = fwFails + 1 /\ UNCHANGED faults
      /\ UNCHANGED <<sensor, matrix, regs, ended, twice, gaveUp>>
  BY DEF FwFailed, Finish, Given, OutsideDriver
<1>2. /\ sensor.handle \in 1..MaxRegs /\ sensor.handle # 0
      /\ AnswersIn(sensor.handle, signals) = {}
      /\ Tail(driver.calls) = <<>> /\ sensor.rate = FwUploading /\ driver.on
  <2> HIDE DEF FwUploading
  <2> QED BY <1>1, Busy
<1>3. /\ driver' \in Driver /\ driver'.calls = <<>> /\ driver'.on
      /\ driver'.goal = driver.goal
  BY <1>1, <1>2, DriverDone DEF SensorsInv, Typed
<1>4. /\ x \in SignalSet /\ x.kind = "fw" /\ x.rate = Off
      /\ x.handle = sensor.handle
  BY <1>2 DEF Signal, SignalSet
<1> HIDE DEF x
<1>5. signals \in Seq(SignalSet)
  BY DEF SensorsInv, Typed
<1>6. LinkOK(sensor, driver', Append(signals, x))
  BY <1>2, <1>3, <1>4, <1>5, LinkAnswered
<1>7. fwFails' \in 0..MaxFaults
  <2>1. MaxFaults \in Nat /\ faults \in 0..MaxFaults /\ fwFails \in 0..MaxFaults
    BY SensorsAssumption DEF SensorsInv, Typed
  <2> QED BY <1>1, <2>1
<1>8. signals' \in Seq(SignalSet)
  BY <1>1, <1>4, <1>5, Added
<1>9. Typed'
  BY <1>1, <1>3, <1>7, <1>8 DEF SensorsInv, Typed
<1>10. SignalsOld'
  <2>1. \A i \in DOMAIN signals' : (i \in DOMAIN signals /\ signals'[i] = signals[i]) \/ signals'[i] = x
    BY <1>1, <1>4, <1>5, Added
  <2>2. x.handle <= regs
    BY <1>2, <1>4 DEF SensorsInv, Typed
  <2> QED BY <1>1, <1>4, <2>1, <2>2 DEF SensorsInv, SignalsOld
<1>11. Fresh' /\ MatrixOld(matrix)'
  BY <1>1, <1>2 DEF SensorsInv, Fresh, MatrixOld
<1>12. PossibleIn(matrix, sensor.handle)' /\ LinkOK(sensor, driver, signals)'
       /\ SingleIn(matrix, sensor.handle, twice)' /\ NoneIn(matrix, sensor.handle, ended \ twice)'
       /\ (driver.goal.rate \in Declared \cup {Off})'
  BY <1>1, <1>3, <1>6 DEF SensorsInv
<1> QED BY <1>9, <1>10, <1>11, <1>12 DEF SensorsInv

-----------------------------------------------------------------------------
\* Each action keeps the invariant: the deferred handlers
LEMMA FaultFact ==
  ASSUME SensorsInv
  PROVE  /\ Done => faults' \in 0..MaxFaults
         /\ \A on \in BOOLEAN : PowerRefused(on) =>
              /\ driver' \in Driver /\ driver'.goal = driver.goal /\ driver'.calls = driver.calls
              /\ faults' \in 0..MaxFaults
         /\ FwRefused =>
              /\ driver' \in Driver /\ driver'.goal = driver.goal /\ driver'.calls = driver.calls
              /\ driver'.on = driver.on /\ faults' \in 0..MaxFaults
<1>1. driver \in Driver /\ faults \in 0..MaxFaults /\ fwFails \in 0..MaxFaults
  BY DEF SensorsInv, Typed
<1>2. /\ \A on \in BOOLEAN :
           /\ Astray(driver, on) \in Driver /\ Astray(driver, on).calls = driver.calls
           /\ Astray(driver, on).goal = driver.goal
      /\ Ready(driver) \in Driver /\ Ready(driver).calls = driver.calls
      /\ Ready(driver).on = driver.on /\ Ready(driver).goal = driver.goal
  BY <1>1, DriverActed
<1> QED BY <1>1, <1>2, RefusedIs

\* A signal that the sensor does not act on.
LEMMA DroppedInv ==
  ASSUME SensorsInv, NEW kind, Handle(kind), Dropped
  PROVE  SensorsInv'
<1>1. LinkOK(sensor', driver', Tail(signals))
  BY LinkTail DEF SensorsInv, Typed, Handle, RunDeferred, Dropped
<1> QED BY <1>1, HandlerStep DEF SensorsInv, Typed, Dropped

\* A signal with which the sensor is at a rate.
LEMMA ReachedInv ==
  ASSUME SensorsInv, NEW kind, Handle(kind), sensor.handle # 0,
         NEW x \in SignalSet, x.rate # Off, Reached(x),
         NEW s, s = Moved(sensor, x.rate, x.latency),
         LinkOK(s, driver, Tail(signals))
  PROVE  SensorsInv'
<1>1. /\ sensor \in Sensor /\ matrix \in Matrix /\ driver \in Driver
      /\ gaveUp \in BOOLEAN /\ faults \in 0..MaxFaults /\ fwFails \in 0..MaxFaults
  BY DEF SensorsInv, Typed
<1>2. s \in Sensor /\ s.handle = sensor.handle
  <2>1. x.rate \in Levels \cup States /\ x.latency \in 0..Invalid
    BY DEF SignalSet
  <2> HIDE DEF Invalid
  <2> QED BY <1>1, <2>1, SensorTo
<1>3. PICK rate, latency : rate = CalcHwRate(matrix, Off, Off) /\ latency = CalcHwLatency(matrix)
  OBVIOUS
<1>4. rate \in Declared \cup {Off} /\ latency \in 1..Invalid
  BY <1>1, <1>3, RatePossible, LatencyFact DEF SensorsInv
<1>5. Reconfig(s, rate, latency)
  BY <1>3 DEF Reached, Reconcile, Moved
<1>6. /\ sensor' \in Sensor /\ sensor'.handle = sensor.handle
      /\ driver' \in Driver /\ driver'.goal.rate \in Declared \cup {Off}
      /\ gaveUp' \in BOOLEAN /\ faults' \in 0..MaxFaults
      /\ LinkOK(sensor', driver', Tail(signals))
  <2>1. driver.goal.rate \in Declared \cup {Off}
    BY DEF SensorsInv
  <2>2. LinkOK(s, driver, Tail(signals))
    OBVIOUS
  <2> HIDE DEF Off, Invalid
  <2> QED BY <1>1, <1>2, <1>4, <1>5, <2>1, <2>2, ReconfigLink
<1> QED BY <1>6, HandlerStep

\* sensorInternalPowerStateChanged.
LEMMA PowerStateChangedInv ==
  ASSUME SensorsInv, PowerStateChanged
  PROVE  SensorsInv'
<1> DEFINE x == Head(signals)
           t == Tail(signals)
<1>1. Handle("power") /\ signals # <<>> /\ x.kind = "power" /\ signals \in Seq(SignalSet)
  BY DEF PowerStateChanged, Handle, RunDeferred, SensorsInv, Typed
<1>2. CASE Dropped
  BY <1>1, <1>2, DroppedInv
<1>3. CASE x.handle = sensor.handle /\ ~Dropped
  <2>1. /\ AnswersIn(sensor.handle, t) = {} /\ driver.calls = <<>>
        /\ sensor.rate \in {PoweringOn, PoweringOff}
        /\ driver.on = (x.rate # 0)
    <3>1. LinkOK(sensor, driver, signals) /\ x.kind # "rate" /\ x.kind # "fw"
      BY <1>1 DEF SensorsInv
    <3> HIDE DEF PoweringOn, PoweringOff, FwUploading
    <3>2. sensor.rate \in {PoweringOn, PoweringOff, FwUploading} /\ sensor.rate # FwUploading
          /\ AnswersIn(sensor.handle, t) = {} /\ driver.calls = <<>>
          /\ (sensor.rate \in {PoweringOn, PoweringOff} => driver.on = (x.rate # 0))
      BY <1>1, <1>3, <3>1, Heard
    <3> QED BY <3>2
  <2>2. sensor.handle # 0 /\ x \in SignalSet
    <3>1. x \in SignalSet
      BY <1>1, Removed
    <3> QED BY <1>3, <3>1, SensorsAssumption DEF SignalSet
  <2>3. sensor \in Sensor /\ driver \in Driver /\ driver.goal.rate \in Declared \cup {Off}
        /\ gaveUp \in BOOLEAN /\ faults \in 0..MaxFaults
    BY DEF SensorsInv, Typed
  <2>4. PowerChanged(x.rate # 0)
    BY <1>3 DEF PowerStateChanged, Mine
  <2> HIDE DEF x, t
  <2>5. CASE sensor.rate = PoweringOn /\ driver.on /\ To(sensor, FwUploading)
             /\ TryFwUpld /\ UNCHANGED gaveUp
    <3>1. sensor' \in Sensor /\ sensor'.handle = sensor.handle /\ sensor'.rate = FwUploading
      BY <2>3, <2>5, ToState DEF States
    <3>2. FwUpld => driver' = Called(driver, "fw")
      BY DEF FwUpld, Called
    <3>3. /\ driver' \in Driver /\ driver'.goal = driver.goal /\ driver'.on
          /\ driver'.calls \in {<<>>, <<"fw">>} /\ faults' \in 0..MaxFaults
      <4>1. CASE FwUpld /\ Done
        <5>1. driver' = Called(driver, "fw") /\ faults' \in 0..MaxFaults
          BY <3>2, <4>1, FaultFact
        <5>2. driver' \in Driver /\ driver'.goal = driver.goal /\ driver'.on = driver.on
              /\ driver'.calls = <<"fw">>
          BY <2>1, <2>3, <5>1, DriverCall
        <5> QED BY <2>5, <5>1, <5>2
      <4>2. CASE FwRefused
        BY <2>1, <2>5, <4>2, FaultFact
      <4> QED BY <2>5, <4>1, <4>2 DEF TryFwUpld
    <3>4. LinkOK(sensor', driver', t)
      BY <2>1, <3>1, <3>3, LinkFw
    <3> QED BY <1>1, <2>2, <2>3, <2>5, <3>1, <3>3, <3>4, HandlerStep DEF t
  <2>6. CASE sensor.rate = PoweringOff /\ ~driver.on /\ To(sensor, Off)
             /\ UNCHANGED <<driver, gaveUp, faults>>
    <3>1. sensor' \in Sensor /\ sensor'.handle = sensor.handle /\ sensor'.rate = Off
      BY <2>3, <2>6, ToState DEF States
    <3>2. LinkOK(sensor', driver', t)
      BY <2>1, <2>6, <3>1, LinkOff
    <3> QED BY <1>1, <2>2, <2>3, <2>6, <3>1, <3>2, HandlerStep DEF t
  <2>7. ASSUME NEW on \in BOOLEAN, TryPower(on), Unmoved
        PROVE  SensorsInv'
    <3>1. sensor' = sensor /\ gaveUp' = gaveUp
      BY <2>7 DEF Unmoved
    <3>2. Power(on) => driver' = Called(driver, IF on THEN "on" ELSE "off")
      BY DEF Power, Called
    <3>3. /\ driver' \in Driver /\ driver'.goal = driver.goal
          /\ driver'.calls \in {<<>>, <<"on">>, <<"off">>} /\ faults' \in 0..MaxFaults
      <4>1. CASE Power(on) /\ Done
        <5>1. /\ driver' = Called(driver, IF on THEN "on" ELSE "off")
              /\ faults' \in 0..MaxFaults
          BY <3>2, <4>1, FaultFact
        <5>2. CASE on
          <6>1. driver' = Called(driver, "on")
            BY <5>1, <5>2
          <6>2. driver' \in Driver /\ driver'.goal = driver.goal /\ driver'.calls = <<"on">>
            BY <2>1, <2>3, <6>1, DriverCall
          <6> QED BY <5>1, <6>2
        <5>3. CASE ~on
          <6>1. driver' = Called(driver, "off")
            BY <5>1, <5>3
          <6>2. driver' \in Driver /\ driver'.goal = driver.goal /\ driver'.calls = <<"off">>
            BY <2>1, <2>3, <6>1, DriverCall
          <6> QED BY <5>1, <6>2
        <5> QED BY <5>2, <5>3
      <4>2. CASE PowerRefused(on)
        BY <2>1, <4>2, FaultFact
      <4> QED BY <2>7, <4>1, <4>2 DEF TryPower
    <3>4. LinkOK(sensor', driver', t)
      BY <2>1, <3>1, <3>3, LinkPower
    <3> QED BY <1>1, <2>2, <2>3, <3>1, <3>3, <3>4, HandlerStep DEF t
  <2>8. \/ sensor.rate = PoweringOn /\ driver.on /\ To(sensor, FwUploading)
           /\ TryFwUpld /\ UNCHANGED gaveUp
        \/ sensor.rate = PoweringOff /\ ~driver.on /\ To(sensor, Off)
           /\ UNCHANGED <<driver, gaveUp, faults>>
        \/ \E on \in BOOLEAN : TryPower(on) /\ Unmoved
    <3> HIDE DEF PoweringOn, PoweringOff, FwUploading, Off
    <3> QED BY <1>3, <2>1, <2>4 DEF PowerChanged
  <2> QED BY <2>5, <2>6, <2>7, <2>8
<1>4. Dropped \/ x.handle = sensor.handle
  BY DEF PowerStateChanged, Mine
<1> QED BY <1>2, <1>3, <1>4

\* sensorInternalFwStateChanged.
LEMMA FwStateChangedInv ==
  ASSUME SensorsInv, FwStateChanged
  PROVE  SensorsInv'
<1> DEFINE x == Head(signals)
           t == Tail(signals)
<1>1. Handle("fw") /\ signals # <<>> /\ x.kind = "fw" /\ signals \in Seq(SignalSet)
  BY DEF FwStateChanged, Handle, RunDeferred, SensorsInv, Typed
<1>2. CASE Dropped
  BY <1>1, <1>2, DroppedInv
<1>3. CASE x.handle = sensor.handle /\ ~Dropped
  <2>1. /\ AnswersIn(sensor.handle, t) = {} /\ driver.calls = <<>>
        /\ sensor.rate = FwUploading /\ driver.on /\ (x.rate # Off => driver.fw)
    <3>1. LinkOK(sensor, driver, signals) /\ x.kind # "rate" /\ x.kind # "power"
      BY <1>1 DEF SensorsInv
    <3> HIDE DEF PoweringOn, PoweringOff, FwUploading
    <3>2. sensor.rate \in {PoweringOn, PoweringOff, FwUploading}
          /\ sensor.rate \notin {PoweringOn, PoweringOff}
          /\ AnswersIn(sensor.handle, t) = {} /\ driver.calls = <<>>
          /\ (sensor.rate = FwUploading => driver.on /\ (x.rate # Off => driver.fw))
      BY <1>1, <1>3, <3>1, Heard
    <3> QED BY <3>2
  <2>2. sensor.handle # 0 /\ x \in SignalSet
    <3>1. x \in SignalSet
      BY <1>1, Removed
    <3> QED BY <1>3, <3>1, SensorsAssumption DEF SignalSet
  <2>3. sensor \in Sensor /\ driver \in Driver /\ driver.goal.rate \in Declared \cup {Off}
        /\ gaveUp \in BOOLEAN /\ faults \in 0..MaxFaults
    BY DEF SensorsInv, Typed
  <2>4. FwChanged(x)
    BY <1>3 DEF FwStateChanged, Mine
  <2> HIDE DEF x, t
  <2>5. CASE To(sensor, PoweringOff) /\ TryPower(FALSE) /\ gaveUp' = TRUE
    <3>1. sensor' \in Sensor /\ sensor'.handle = sensor.handle /\ sensor'.rate = PoweringOff
      BY <2>3, <2>5, ToState DEF States
    <3>2. Power(FALSE) => driver' = Called(driver, "off")
      BY DEF Power, Called
    <3>3. /\ driver' \in Driver /\ driver'.goal = driver.goal
          /\ driver'.calls \in {<<>>, <<"on">>, <<"off">>} /\ faults' \in 0..MaxFaults
      <4>1. CASE Power(FALSE) /\ Done
        <5>1. driver' = Called(driver, "off") /\ faults' \in 0..MaxFaults
          BY <3>2, <4>1, FaultFact
        <5>2. driver' \in Driver /\ driver'.goal = driver.goal /\ driver'.calls = <<"off">>
          BY <2>1, <2>3, <5>1, DriverCall
        <5> QED BY <5>1, <5>2
      <4>2. CASE PowerRefused(FALSE)
        BY <2>1, <4>2, FaultFact
      <4> QED BY <2>5, <4>1, <4>2 DEF TryPower
    <3>4. LinkOK(sensor', driver', t)
      BY <2>1, <3>1, <3>3, LinkPower
    <3> QED BY <1>1, <2>2, <2>3, <2>5, <3>1, <3>3, <3>4, HandlerStep DEF t
  <2>6. CASE x.rate # Off /\ Reached(x)
    <3>1. PICK s : s = Moved(sensor, x.rate, x.latency)
      OBVIOUS
    <3>2. x.rate \in Levels /\ x.latency \in 0..Invalid
      BY <2>2, <2>6 DEF SignalSet
    <3>3. s.handle = sensor.handle /\ s.rate = x.rate
      <4>1. x.rate \in Levels \cup States
        BY <3>2
      <4> HIDE DEF Invalid
      <4> QED BY <2>3, <3>1, <3>2, <4>1, SensorTo
    <3>4. LinkOK(s, driver, t)
      <4>1. s.rate \notin {PoweringOn, PoweringOff} /\ s.rate # FwUploading /\ s.rate # Off
        BY <3>2, <3>3, Disjoint
      <4> HIDE DEF PoweringOn, PoweringOff, FwUploading, Off
      <4> QED BY <2>1, <2>6, <3>3, <4>1 DEF LinkOK
    <3> QED BY <1>1, <2>2, <2>6, <3>1, <3>4, ReachedInv DEF t
  <2>7. \/ To(sensor, PoweringOff) /\ TryPower(FALSE) /\ gaveUp' = TRUE
        \/ x.rate # Off /\ Reached(x)
    <3>1. FwUploading # PoweringOff
      OBVIOUS
    <3> HIDE DEF PoweringOn, PoweringOff, FwUploading, Off
    <3> QED BY <1>3, <2>1, <2>4, <3>1 DEF FwChanged
  <2> QED BY <2>5, <2>6, <2>7
<1>4. Dropped \/ x.handle = sensor.handle
  BY DEF FwStateChanged, Mine
<1> QED BY <1>2, <1>3, <1>4

\* sensorInternalRateChanged.
LEMMA RateChangedInv ==
  ASSUME SensorsInv, RateChanged
  PROVE  SensorsInv'
<1> DEFINE x == Head(signals)
           t == Tail(signals)
<1>1. Handle("rate") /\ signals # <<>> /\ x.kind = "rate" /\ signals \in Seq(SignalSet)
  BY DEF RateChanged, Handle, RunDeferred, SensorsInv, Typed
<1>2. CASE Dropped
  BY <1>1, <1>2, DroppedInv
<1>3. CASE x.handle = sensor.handle /\ sensor.rate # Off /\ sensor.rate < PoweringOn /\ Reached(x)
  <2>1. x \in SignalSet /\ x = signals[1] /\ 1 \in DOMAIN signals
    BY <1>1, Removed
  <2>2. x.rate # Off
    BY <1>1, <2>1 DEF SensorsInv, SignalsOld
  <2>3. sensor.handle # 0
    BY <1>3, <2>1, SensorsAssumption DEF SignalSet
  <2>4. sensor \in Sensor
    BY DEF SensorsInv, Typed
  <2>5. sensor.rate \in Levels
    BY <1>3, <2>4 DEF Sensor, States
  <2>6. LinkOK(sensor, driver, t)
    BY <1>1, LinkTail DEF SensorsInv
  <2>7. /\ driver.astray \/ (driver.on /\ driver.fw)
        /\ driver.calls = <<>>
        /\ AnswersIn(sensor.handle, t) = {}
    <3>1. sensor.rate \notin {PoweringOn, PoweringOff, FwUploading}
      BY <2>5, Disjoint
    <3> HIDE DEF PoweringOn, PoweringOff, FwUploading, Off, t
    <3> QED BY <2>5, <2>6, <3>1 DEF LinkOK
  <2> HIDE DEF x, t
  <2>8. PICK s : s = Moved(sensor, x.rate, x.latency)
    OBVIOUS
  <2>9. x.rate \in Levels /\ x.latency \in 0..Invalid
    BY <2>1, <2>2 DEF SignalSet
  <2>10. s.handle = sensor.handle /\ s.rate = x.rate
    <3>1. x.rate \in Levels \cup States
      BY <2>9
    <3> HIDE DEF Invalid
    <3> QED BY <2>4, <2>8, <2>9, <3>1, SensorTo
  <2>11. LinkOK(s, driver, t)
    <3>1. s.rate \notin {PoweringOn, PoweringOff} /\ s.rate # FwUploading /\ s.rate # Off
      BY <2>9, <2>10, Disjoint
    <3> HIDE DEF PoweringOn, PoweringOff, FwUploading, Off
    <3> QED BY <2>7, <2>10, <3>1 DEF LinkOK
  <2> QED BY <1>1, <1>3, <2>1, <2>2, <2>3, <2>8, <2>11, ReachedInv DEF t
<1>4. Dropped \/ (x.handle = sensor.handle /\ sensor.rate # Off /\ sensor.rate < PoweringOn /\ Reached(x))
  BY DEF RateChanged, Mine
<1> QED BY <1>2, <1>3, <1>4

-----------------------------------------------------------------------------
\* Theorems
LEMMA NextInv ==
  ASSUME SensorsInv, [Next]_vars
  PROVE  SensorsInv'
<1>1. CASE UNCHANGED vars
  <2>1. Typed' /\ Fresh' /\ SignalsOld' /\ MatrixOld(matrix)'
    BY <1>1 DEF vars, SensorsInv, Typed, Fresh, SignalsOld, MatrixOld
  <2>2. PossibleIn(matrix, sensor.handle)' /\ LinkOK(sensor, driver, signals)'
        /\ SingleIn(matrix, sensor.handle, twice)' /\ NoneIn(matrix, sensor.handle, ended \ twice)'
        /\ (driver.goal.rate \in Declared \cup {Off})'
    BY <1>1 DEF vars, SensorsInv
  <2> QED BY <2>1, <2>2 DEF SensorsInv
<1>2. ASSUME NEW c \in Clients, NEW wish \in Wishes, Request(c, wish)
      PROVE  SensorsInv'
  BY <1>2, RequestInv
<1>3. ASSUME NEW c \in Clients, NEW wish \in Wishes, RequestRateChange(c, wish)
      PROVE  SensorsInv'
  BY <1>3, RequestRateChangeInv
<1>4. ASSUME NEW c \in Clients, Release(c) \/ End(c)
      PROVE  SensorsInv'
  BY <1>4, ReleaseInv, EndInv
<1>5. CASE Clientele
  BY <1>2, <1>3, <1>4, <1>5 DEF Clientele
<1>6. CASE Registration
  BY <1>6, RegisterInv, InitCompleteInv, UnregisterInv DEF Registration, InitFails, OwnerEnds
<1>7. CASE DriverStep
  BY <1>7, PowerDoneInv, FwDoneInv, FwFailedInv, RateDoneInv DEF DriverStep
<1>8. CASE Handler
  BY <1>8, PowerStateChangedInv, FwStateChangedInv, RateChangedInv DEF Handler
<1> QED BY <1>1, <1>5, <1>6, <1>7, <1>8 DEF Next

\* The invariant that the theorems rest on.
THEOREM Invariance == Spec => []SensorsInv
<1>1. Init => SensorsInv
  BY InitInv
<1>2. SensorsInv /\ [Next]_vars => SensorsInv'
  BY NextInv
<1> QED BY <1>1, <1>2, PTL DEF Spec

\* The types of the variables, in the units of sensors.c.
THEOREM SensorsTypes == Spec => []TypeOK
<1>1. SensorsInv => TypeOK
  BY InvImplies
<1> QED BY <1>1, Invariance, PTL

\* The driver of a sensor has one power or firmware call to deal with at most,
\* its answer included, whatever the clients do and whatever is refused or lost.
THEOREM SensorsOneCall == Spec => []OneCall
<1>1. SensorsInv => OneCall
  BY InvImplies
<1> QED BY <1>1, Invariance, PTL

\* A currentRate that is a rate means power and firmware, and off means neither,
\* unless the last power call acted and was refused; nothing is under way then.
THEOREM SensorsInStep == Spec => []InStep
<1>1. SensorsInv => InStep
  BY InvImplies
<1> QED BY <1>1, Invariance, PTL

\* Any set of clients with any wishes but rate 0 is served at a rate that the
\* sensor has declared, with a list of rates and without one, and fast enough.
THEOREM SensorsOnlySupported == Spec => []OnlySupported
<1>1. SensorsInv => OnlySupported
  BY InvImplies
<1> QED BY <1>1, Invariance, PTL

\* Ended clients hold no request, if they asked once.
THEOREM SensorsNoneLeft == Spec => []NoneLeft
<1>1. SensorsInv => NoneLeft
  BY InvImplies
<1> QED BY <1>1, Invariance, PTL
===============================================================================
