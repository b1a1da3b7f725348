-------------------------- MODULE SeosCounts_proofs --------------------------
(* What SeosTasks keeps account of: free callbacks, the ends of tasks, ioCount,*)
(* the room in the queue and in the slab, requests to subscribe, and the tasks *)
(* a broadcast is for.  The first four are numbers of events, those in the     *)
(* queue and those that a frame of the stack stands for, and each action is    *)
(* shown to change them by what it posts, takes and finishes.                  *)
EXTENDS SeosTasks_proofs

-----------------------------------------------------------------------------
(* Counting modulo the width of a counter.                                  *)

LEMMA ModIs ==
  ASSUME NEW a \in Int, NEW w \in Nat \ {0}
  PROVE  a % w \in 0 .. w - 1 /\ a = w * (a \div w) + (a % w) /\ a \div w \in Int
<1>1. w \in Int /\ w > 0
  OBVIOUS
<1>2. a % w \in 0 .. w - 1 /\ a \div w \in Int
  BY <1>1
<1>3. a = w * (a \div w) + (a % w)
  BY <1>1, Z3
<1> QED BY <1>2, <1>3

LEMMA ModUnique ==
  ASSUME NEW w \in Nat \ {0}, NEW k \in Int, NEW r \in 0 .. w - 1
  PROVE  (w * k + r) % w = r
<1> DEFINE a == w * k + r
<1>1. a \in Int
  OBVIOUS
<1>2. a % w \in 0 .. w - 1 /\ a = w * (a \div w) + (a % w) /\ a \div w \in Int
  BY <1>1, ModIs
<1>3. PICK m \in Int : m = a \div w
  BY <1>2
<1>4. PICK s \in 0 .. w - 1 : s = a % w
  BY <1>2
<1>5. w * k + r = w * m + s
  BY <1>2, <1>3, <1>4
<1> HIDE DEF a
<1>6. w * (k - m) = s - r
  BY <1>5
<1>7. PICK d \in Int : d = k - m
  OBVIOUS
<1>8. w * d = s - r
  BY <1>6, <1>7
<1>9. d >= 1 => w * d >= w
  OBVIOUS
<1>10. d <= -1 => w * d <= -w
  OBVIOUS
<1>11. d = 0
  BY <1>8, <1>9, <1>10
<1>12. s = r
  BY <1>8, <1>11
<1> QED BY <1>4, <1>12 DEF a

LEMMA ModPlus ==
  ASSUME NEW a \in Int, NEW b \in Int, NEW w \in Nat \ {0}
  PROVE  ((a % w) + b) % w = (a + b) % w
<1>1. PICK k \in Int, r \in 0 .. w - 1 : a = w * k + r /\ r = a % w
  BY ModIs
<1>5. r + b \in Int
  OBVIOUS
<1>2. PICK m \in Int, s \in 0 .. w - 1 : r + b = w * m + s /\ s = (r + b) % w
  BY <1>5, ModIs
<1>3. a + b = w * (k + m) + s
  BY <1>1, <1>2
<1>4. (w * (k + m) + s) % w = s
  BY ModUnique
<1> QED BY <1>1, <1>2, <1>3, <1>4

-----------------------------------------------------------------------------
(* Counting the entries of a sequence.                                      *)

\* How many entries of q are in X, and what one entry adds to that.
Count(X, q) == Cardinality({i \in DOMAIN q : q[i] \in X})
Weighs(X, f) == IF f \in X THEN 1 ELSE 0

LEMMA Counted ==
  ASSUME NEW X, NEW S, NEW q \in Seq(S)
  PROVE  /\ IsFiniteSet({i \in DOMAIN q : q[i] \in X}) /\ Count(X, q) \in Nat
         /\ DOMAIN q = 1 .. Len(q)
<1>1. DOMAIN q = 1 .. Len(q) /\ Len(q) \in Int
  OBVIOUS
<1>2. IsFiniteSet(1 .. Len(q))
  BY <1>1, FS_Interval
<1>3. {i \in DOMAIN q : q[i] \in X} \in SUBSET (1 .. Len(q))
  BY <1>1
<1>4. IsFiniteSet({i \in DOMAIN q : q[i] \in X})
  BY <1>2, <1>3, FS_Subset
<1> QED BY <1>1, <1>4, FS_CardinalityType DEF Count

LEMMA CountedNone ==
  ASSUME NEW X, NEW S, NEW q \in Seq(S)
  PROVE  Count(X, q) = 0 <=> \A i \in 1 .. Len(q) : q[i] \notin X
<1>1. Count(X, q) = 0 <=> {i \in DOMAIN q : q[i] \in X} = {}
  BY Counted, FS_EmptySet DEF Count
<1>2. DOMAIN q = 1 .. Len(q)
  OBVIOUS
<1> QED BY <1>1, <1>2

LEMMA CountedNothing ==
  ASSUME NEW X
  PROVE  Count(X, <<>>) = 0
<1>1. <<>> \in Seq({}) /\ Len(<<>>) = 0
  OBVIOUS
<1>2. \A i \in 1 .. Len(<<>>) : FALSE
  BY <1>1
<1> QED BY <1>1, <1>2, CountedNone

\* One more entry in front, or behind.
LEMMA CountedShift ==
  ASSUME NEW X, NEW S, NEW q \in Seq(S), NEW r \in Seq(S),
         Len(r) = Len(q) + 1, \A i \in 2 .. Len(q) + 1 : r[i] = q[i - 1]
  PROVE  Count(X, r) = Weighs(X, r[1]) + Count(X, q)
<1> DEFINE A == {i \in DOMAIN q : q[i] \in X}
           B == {i \in DOMAIN r : r[i] \in X}
           C == B \ {1}
           f == [i \in A |-> i + 1]
<1>1. IsFiniteSet(A) /\ IsFiniteSet(B) /\ Count(X, q) = Cardinality(A) /\ Count(X, r) = Cardinality(B)
      /\ Count(X, q) \in Nat /\ Count(X, r) \in Nat
  BY Counted DEF Count
<1>2. DOMAIN q = 1 .. Len(q) /\ DOMAIN r = 1 .. Len(q) + 1 /\ Len(q) \in Nat
  OBVIOUS
<1>3. \A i : i \in A <=> i \in 1 .. Len(q) /\ q[i] \in X
  BY <1>2
<1>4. \A i : i \in C <=> i \in 2 .. Len(q) + 1 /\ q[i - 1] \in X
  BY <1>2
<1>5. 1 \in B <=> r[1] \in X
  BY <1>2
<1>6. Cardinality(C) = IF 1 \in B THEN Cardinality(B) - 1 ELSE Cardinality(B)
  BY <1>1, FS_RemoveElement
<1> HIDE DEF A, B, C
<1>7. ExistsBijection(A, C)
  <2>4. ASSUME NEW i \in A PROVE i + 1 \in C /\ i \in Int
    <3>1. i \in 1 .. Len(q) /\ q[i] \in X
      BY <1>3
    <3>2. i + 1 \in 2 .. Len(q) + 1 /\ (i + 1) - 1 = i
      BY <1>2, <3>1
    <3> QED BY <1>4, <3>1, <3>2
  <2>1. f \in [A -> C]
    BY <2>4
  <2>2. \A a, b \in A : f[a] = f[b] => a = b
    BY <2>4
  <2>3. ASSUME NEW c \in C PROVE \E a \in A : f[a] = c
    <3>1. c \in 2 .. Len(q) + 1 /\ q[c - 1] \in X
      BY <1>4
    <3>2. c - 1 \in 1 .. Len(q) /\ (c - 1) + 1 = c
      BY <1>2, <3>1
    <3>3. c - 1 \in A
      BY <1>3, <3>1, <3>2
    <3> QED BY <3>2, <3>3
  <2> HIDE DEF f
  <2> QED BY <2>1, <2>2, <2>3 DEF ExistsBijection, Bijection, Injection, Surjection, IsInjective
<1>8. Cardinality(C) = Cardinality(A)
  BY <1>1, <1>7, FS_Bijection
<1> QED BY <1>1, <1>5, <1>6, <1>8 DEF Weighs

LEMMA CountedPut ==
  ASSUME NEW X, NEW S, NEW q \in Seq(S), NEW e \in S
  PROVE  Count(X, Put(q, e)) = Count(X, q) + Weighs(X, e)
<1> DEFINE n == Len(q) + 1
           A == {i \in DOMAIN q : q[i] \in X}
<1>1. PICK r \in Seq(S) : 
           /\ r = Put(q, e) /\ Len(r) = Len(q) + 1 /\ r[Len(q) + 1] = e
           /\ \A i \in 1 .. Len(q) : r[i] = q[i]
  BY Appended
<1> DEFINE B == {i \in DOMAIN r : r[i] \in X}
<1>2. IsFiniteSet(A) /\ Count(X, q) = Cardinality(A) /\ Count(X, r) = Cardinality(B)
      /\ Count(X, q) \in Nat
  BY Counted DEF Count
<1>3. DOMAIN q = 1 .. Len(q) /\ DOMAIN r = 1 .. Len(q) + 1 /\ Len(q) \in Nat
  BY <1>1
<1>4. n \notin A /\ B = IF e \in X THEN A \cup {n} ELSE A
  BY <1>1, <1>3
<1>5. Cardinality(A \cup {n}) = Cardinality(A) + 1
  <2> HIDE DEF A, n
  <2> QED BY <1>2, <1>4, FS_AddElement
<1> HIDE DEF A, B, n
<1>6. CASE e \in X
  BY <1>1, <1>2, <1>4, <1>5, <1>6 DEF Weighs
<1>7. CASE e \notin X
  BY <1>1, <1>2, <1>4, <1>7 DEF Weighs
<1> QED BY <1>6, <1>7

LEMMA CountedPush ==
  ASSUME NEW X, NEW S, NEW q \in Seq(S), NEW f \in S
  PROVE  Count(X, Push(f, q)) = Weighs(X, f) + Count(X, q)
<1>1. PICK r \in Seq(S) : /\ r = Push(f, q) /\ Len(r) = Len(q) + 1 /\ r[1] = f
                          /\ \A i \in 2 .. Len(q) + 1 : r[i] = q[i - 1]
  BY Pushed
<1> QED BY <1>1, CountedShift

LEMMA CountedTail ==
  ASSUME NEW X, NEW S, NEW q \in Seq(S), q # <<>>
  PROVE  /\ Count(X, q) = Weighs(X, q[1]) + Count(X, Tail(q))
         /\ Count(X, Tail(q)) = Count(X, q) - Weighs(X, q[1])
<1>1. PICK r \in Seq(S) :
           /\ r = Tail(q) /\ Len(r) = Len(q) - 1 /\ Len(q) \in Nat /\ Len(q) > 0
           /\ \A i \in 1 .. Len(q) - 1 : r[i] = q[i + 1]
  BY Popped
<1>2. Len(q) = Len(r) + 1 /\ \A i \in 2 .. Len(r) + 1 : q[i] = r[i - 1]
  BY <1>1
<1>3. Count(X, q) = Weighs(X, q[1]) + Count(X, r)
  BY <1>2, CountedShift
<1>4. Count(X, r) \in Nat /\ Weighs(X, q[1]) \in Nat
  BY Counted DEF Weighs
<1> QED BY <1>1, <1>3, <1>4

LEMMA CountedReplaced ==
  ASSUME NEW X, NEW S, NEW q \in Seq(S), q # <<>>, NEW f \in S
  PROVE  Count(X, <<f>> \o Tail(q)) = Count(X, q) - Weighs(X, q[1]) + Weighs(X, f)
<1>1. Tail(q) \in Seq(S)
  BY Popped
<1>2. Count(X, Push(f, Tail(q))) = Weighs(X, f) + Count(X, Tail(q))
  BY <1>1, CountedPush
<1>3. Count(X, Tail(q)) = Count(X, q) - Weighs(X, q[1])
  BY CountedTail
<1>4. Count(X, q) \in Nat /\ Weighs(X, f) \in Nat /\ Weighs(X, q[1]) \in Nat
  BY Counted DEF Weighs
<1> QED BY <1>2, <1>3, <1>4 DEF Push

LEMMA CountedTwo ==
  ASSUME NEW X, NEW S, NEW q \in Seq(S), q # <<>>, NEW f \in S, NEW g \in S
  PROVE  Count(X, PushTwo(g, f, q)) =
           Count(X, q) - Weighs(X, q[1]) + Weighs(X, f) + Weighs(X, g)
<1>1. PICK t \in Seq(S) :
           /\ t = Tail(q) /\ Len(t) = Len(q) - 1 /\ Len(q) \in Nat /\ Len(q) > 0
           /\ Head(q) = q[1] /\ \A i \in 1 .. Len(q) - 1 : t[i] = q[i + 1]
  BY Popped
<1>2. PICK m \in Seq(S) : /\ m = Push(f, t) /\ Len(m) = Len(t) + 1 /\ m[1] = f
                          /\ \A i \in 2 .. Len(t) + 1 : m[i] = t[i - 1]
  BY Pushed
<1>3. PushTwo(g, f, q) = Push(g, m)
  BY <1>1, <1>2 DEF Push, PushTwo
<1>4. Count(X, Push(g, m)) = Weighs(X, g) + Count(X, m)
  BY CountedPush
<1>5. Count(X, Push(f, t)) = Weighs(X, f) + Count(X, t) /\ Count(X, t) = Count(X, q) - Weighs(X, q[1])
  BY <1>1, CountedPush, CountedTail
<1>6. Count(X, q) \in Nat /\ Weighs(X, f) \in Nat /\ Weighs(X, q[1]) \in Nat /\ Weighs(X, g) \in Nat
  BY Counted DEF Weighs
<1> QED BY ONLY <1>2, <1>3, <1>4, <1>5, <1>6

LEMMA CountedLanded ==
  ASSUME NEW X, NEW S, NEW q \in Seq(S), Len(q) >= 2, NEW f \in S
  PROVE  Count(X, <<f>> \o SubSeq(q, 3, Len(q))) =
           Count(X, q) - Weighs(X, q[1]) - Weighs(X, q[2]) + Weighs(X, f)
<1>1. PICK r \in Seq(S) :
           /\ r = <<f>> \o SubSeq(q, 3, Len(q)) /\ Len(r) = Len(q) - 1
           /\ r[1] = f /\ \A i \in 2 .. Len(q) - 1 : r[i] = q[i + 1]
  BY Landed
<1>2. q # <<>> /\ Len(q) \in Nat
  OBVIOUS
<1>3. PICK t \in Seq(S) :
           /\ t = Tail(q) /\ Len(t) = Len(q) - 1 /\ Len(q) \in Nat /\ Len(q) > 0
           /\ Head(q) = q[1] /\ \A i \in 1 .. Len(q) - 1 : t[i] = q[i + 1]
  BY <1>2, Popped
<1>4. t # <<>> /\ t[1] = q[2]
  <2>1. Len(t) > 0 /\ 1 \in 1 .. Len(q) - 1
    BY <1>3
  <2>2. t[1] = q[1 + 1]
    BY <1>3, <2>1
  <2> QED BY <2>1, <2>2
<1>5. PICK u \in Seq(S) :
           /\ u = Tail(t) /\ Len(u) = Len(t) - 1 /\ Len(t) \in Nat /\ Len(t) > 0
           /\ Head(t) = t[1] /\ \A i \in 1 .. Len(t) - 1 : u[i] = t[i + 1]
  BY <1>4, Popped
<1>6. Len(r) = Len(u) + 1 /\ \A i \in 2 .. Len(u) + 1 : r[i] = u[i - 1]
  <2>3. Len(r) = Len(q) - 1
    BY <1>1
  <2>1. Len(u) = Len(q) - 2 /\ Len(q) \in Nat
    BY <1>3, <1>5
  <2>2. ASSUME NEW i \in 2 .. Len(u) + 1 PROVE r[i] = u[i - 1]
    <3>1. r[i] = q[i + 1] /\ i - 1 \in 1 .. Len(t) - 1 /\ i \in 1 .. Len(q) - 1
      BY <1>1, <1>3, <2>1
    <3>2. u[i - 1] = t[(i - 1) + 1] /\ (i - 1) + 1 = i /\ t[i] = q[i + 1]
      BY <1>3, <1>5, <3>1
    <3> QED BY <3>1, <3>2
  <2> QED BY ONLY <2>1, <2>2, <2>3
<1>7. Count(X, r) = Weighs(X, r[1]) + Count(X, u)
  BY <1>6, CountedShift
<1>8. Count(X, Tail(t)) = Count(X, t) - Weighs(X, t[1]) /\ Count(X, Tail(q)) = Count(X, q) - Weighs(X, q[1])
  BY <1>2, <1>4, CountedTail
<1>9. Count(X, q) \in Nat /\ Weighs(X, f) \in Nat /\ Weighs(X, q[1]) \in Nat /\ Weighs(X, q[2]) \in Nat
  BY Counted DEF Weighs
<1> QED BY ONLY <1>1, <1>3, <1>4, <1>5, <1>7, <1>8, <1>9

-----------------------------------------------------------------------------
(* What each action does to the queue and to the stack.                     *)

\* A frame of app code: it stands for no event.
Aside(g) == g.do \in AppFrames /\ g.ev = Evt("none", SystemTid, NULL) /\ g.due = {}

\* The main loop goes on with what it is doing as f says, at once or when the
\* app it calls returns.
Turned(f) ==
  /\ stack # <<>> /\ Top = stack[1] /\ Top \in Frames /\ Top.do \in Kernels
  /\ f \in Frames /\ f.do \in Kernels /\ f.ev = Top.ev
  /\ \/ stack' = <<f>> \o Tail(stack)
     \/ \E g \in Frames : Aside(g) /\ stack' = PushTwo(g, f, stack)

Turning(d, k, f) ==
  /\ Turned(f) /\ Top.do = d /\ f.do = k /\ f.due = Top.due
  /\ f.cur \in {Top.cur, System, Top.ev.org.idx}

LEMMA AsideIs ==
  ASSUME NEW d \in AppFrames, NEW s \in Slots
  PROVE  Enter(d, s) \in Frames /\ Aside(Enter(d, s)) /\ Enter(d, s).cur = s
<1>1. PICK e : e = Evt("none", SystemTid, NULL)
  OBVIOUS
<1>2. e \in Events
  BY <1>1, SystemTidIs, EvtIs
<1>3. d \in Kernels \cup Nested
  BY DEF Nested
<1>4. Frame(d, e, s) \in Frames
      /\ Frame(d, e, s).do = d /\ Frame(d, e, s).ev = e /\ Frame(d, e, s).cur = s
      /\ Frame(d, e, s).due = {}
  BY <1>2, <1>3, FrameIs
<1>5. Enter(d, s) = Frame(d, e, s)
  BY <1>1 DEF Enter
<1> QED BY <1>1, <1>4, <1>5 DEF Aside

LEMMA TurnedAt ==
  ASSUME TaskInv, NEW d \in Kernels, At(d),
         NEW f \in Frames, f.do \in Kernels, f.ev = Top.ev,
         \/ Replace(f)
         \/ \E w \in AppFrames, s \in Slots : CallThen(f, w, s)
  PROVE  Turned(f) /\ Top.do = d
<1>1. stack # <<>> /\ Top.do = d /\ Top = stack[1] /\ Top \in Frames
  BY TopIs DEF At, Top
<1>2. CASE Replace(f)
  BY <1>1, <1>2 DEF Turned, Replace
<1>3. ASSUME NEW w \in AppFrames, NEW s \in Slots, CallThen(f, w, s)
      PROVE  Turned(f)
  <2>1. stack' = PushTwo(Enter(w, s), f, stack)
    BY <1>3 DEF CallThen, PushTwo
  <2>2. Enter(w, s) \in Frames /\ Aside(Enter(w, s))
    BY AsideIs
  <2> QED BY <1>1, <2>1, <2>2 DEF Turned
<1> QED BY <1>1, <1>2, <1>3

LEMMA TurningAt ==
  ASSUME TaskInv, NEW d \in Kernels, At(d), NEW k \in Kernels,
         \/ Label(k)
         \/ \E w \in AppFrames, s \in Slots : Call(w, s, k)
  PROVE  \E f \in Frames : Turning(d, k, f) /\ f.at = Top.at /\ f.cur = Top.cur
<1> DEFINE f == WithDo(Top, k)
<1>1. Top \in Frames /\ k \in Kernels \cup Nested
  BY TopIs DEF At
<1>2. /\ f \in Frames /\ f.do = k /\ f.ev = Top.ev /\ f.cur = Top.cur
      /\ f.at = Top.at /\ f.due = Top.due
  BY <1>1, WithDoIs
<1>3. \/ Replace(f)
      \/ \E w \in AppFrames, s \in Slots : CallThen(f, w, s)
  BY DEF Label, Call, WithDo
<1> HIDE DEF f
<1>4. Turned(f) /\ Top.do = d
  BY <1>2, <1>3, TurnedAt
<1> QED BY <1>2, <1>4 DEF Turning

\* What a turn does to a count of frames that counts no app code.
LEMMA TurnedCount ==
  ASSUME stack \in Seq(Frames), NEW f, Turned(f), NEW Y, \A g \in Frames : Aside(g) => g \notin Y
  PROVE  Count(Y, stack') = Count(Y, stack) - Weighs(Y, Top) + Weighs(Y, f)
<1>1. stack # <<>> /\ Top = stack[1] /\ f \in Frames
  BY DEF Turned
<1>2. PICK st \in Seq(Frames) : st = stack
  OBVIOUS
<1>3. CASE stack' = <<f>> \o Tail(stack)
  <2>1. Count(Y, <<f>> \o Tail(st)) = Count(Y, st) - Weighs(Y, st[1]) + Weighs(Y, f)
    BY <1>1, <1>2, CountedReplaced
  <2> QED BY <1>1, <1>2, <1>3, <2>1
<1>4. ASSUME NEW g \in Frames, Aside(g), stack' = PushTwo(g, f, stack)
      PROVE  Count(Y, stack') = Count(Y, stack) - Weighs(Y, Top) + Weighs(Y, f)
  <2>1. Count(Y, PushTwo(g, f, st)) =
           Count(Y, st) - Weighs(Y, st[1]) + Weighs(Y, f) + Weighs(Y, g)
    BY <1>1, <1>2, CountedTwo
  <2>2. Weighs(Y, g) = 0
    BY <1>4 DEF Weighs
  <2>3. Count(Y, st) \in Nat /\ Weighs(Y, st[1]) \in Nat /\ Weighs(Y, f) \in Nat
    BY Counted DEF Weighs
  <2> QED BY <1>1, <1>2, <1>4, <2>1, <2>2, <2>3
<1> QED BY <1>3, <1>4 DEF Turned

-----------------------------------------------------------------------------
(* What the actions do to the queue and to the stack.                       *)

LEMMA DequeueDoes ==
  ASSUME TaskInv, Dequeue
  PROVE  /\ stack = <<>> /\ queue # <<>> /\ queue' = Tail(queue) /\ queue[1] \in Events
         /\ queue[1].type \in Posted
         /\ \E f \in Frames :
              /\ stack' = <<f>> /\ f.ev = queue[1]
              /\ \/ f = Walk(queue[1]) /\ queue[1].type = "user"
                 \/ /\ f.do = "event" /\ queue[1].type # "user"
                    /\ f.cur = queue[1].org.idx /\ f.due = {}
<1>1. PICK e : e = Head(queue)
  OBVIOUS
<1>2. stack = <<>> /\ queue # <<>> /\ queue' = Tail(queue)
      /\ stack' = << IF e.type = "user" THEN Walk(e) ELSE Frame("event", e, e.org.idx) >>
  BY <1>1 DEF Dequeue
<1>3. e \in Events /\ e = queue[1] /\ e.type \in Posted
  <2>1. queue \in Seq(Events) /\ \A i \in 1 .. Len(queue) : queue[i].type \in Posted
    BY Opened DEF Kinds
  <2>2. Head(queue) = queue[1] /\ Len(queue) > 0 /\ Len(queue) \in Nat
    BY <1>2, <2>1, Popped
  <2>3. 1 \in 1 .. Len(queue)
    BY <2>2
  <2> QED BY <1>1, <2>1, <2>2, <2>3, Elements
<1>4. Walk(e) \in Frames /\ Walk(e).ev = e
  BY <1>3, WalkIs
<1>5. "event" \in Kernels \cup Nested /\ e.org.idx \in Slots
  BY <1>3, EventFields, Labelling
<1>6. PICK h : h = Frame("event", e, e.org.idx)
  OBVIOUS
<1>7. h \in Frames /\ h.do = "event" /\ h.ev = e /\ h.cur = e.org.idx /\ h.due = {}
  <2>1. e \in Events
    BY <1>3
  <2> QED BY ONLY <2>1, <1>5, <1>6, FrameIs
<1>8. CASE e.type = "user"
  BY <1>2, <1>3, <1>4, <1>8
<1>9. CASE e.type # "user"
  BY <1>2, <1>3, <1>6, <1>7, <1>9
<1> QED BY <1>8, <1>9

LEMMA SubscribeDoes ==
  ASSUME TaskInv, ApplySubscribe \/ ApplyUnsubscribe
  PROVE  /\ Top.ev.type \in {"sub", "unsub"} /\ queue' = queue
         /\ \E f \in Frames : Turning("event", "done", f)
<1>1. At("event") /\ Label("done") /\ Top.ev.type \in {"sub", "unsub"} /\ queue' = queue
  BY DEF ApplySubscribe, ApplyUnsubscribe, Event
<1>2. "event" \in Kernels /\ "done" \in Kernels
  BY Labelling
<1> QED BY <1>1, <1>2, TurningAt

LEMMA DispatchDoes ==
  ASSUME TaskInv, Dispatch
  PROVE  /\ queue' = queue /\ task' = task
         /\ \E f \in Frames :
              \/ Top.ev.type = "begin" /\ Turned(f) /\ Top.do = "event" /\ f = Walk(Top.ev)
              \/ Top.ev.type = "defer" /\ Turning("event", "host", f)
              \/ Top.ev.type = "private" /\ Turning("event", "done", f)
              \/ Top.ev.type = "end" /\ Turning("event", "ended", f)
<1>1. At("event") /\ queue' = queue /\ task' = task
  BY DEF Dispatch, Event
<1>2. Top.ev \in Events /\ Top.ev.to.idx \in Slots
  BY <1>1, Going, Labelling
<1>3. {"event", "host", "done", "ended", "walk"} \subseteq Kernels
  BY Labelling
<1>4. CASE Event("begin") /\ Replace(Walk(Top.ev))
  <2>1. Walk(Top.ev) \in Frames /\ Walk(Top.ev).do = "walk" /\ Walk(Top.ev).ev = Top.ev
    BY <1>2, WalkIs
  <2>2. Turned(Walk(Top.ev)) /\ Top.do = "event"
    BY <1>1, <1>3, <1>4, <2>1, TurnedAt
  <2> QED BY <1>1, <1>4, <2>1, <2>2 DEF Event
<1>5. CASE Event("defer") /\ Label("host")
  <2>1. \E f \in Frames : Turning("event", "host", f)
    BY <1>1, <1>3, <1>5, TurningAt
  <2> QED BY <1>1, <1>5, <2>1 DEF Event
<1>6. CASE Event("private") /\ Call("handle", Top.ev.to.idx, "done")
  <2>1. \E f \in Frames : Turning("event", "done", f)
    <3>1. "handle" \in AppFrames
      BY DEF AppFrames
    <3> QED BY <1>1, <1>2, <1>3, <1>6, <3>1, TurningAt
  <2> QED BY <1>1, <1>6, <2>1 DEF Event
<1>7. CASE Event("end") /\ (Label("ended") \/ Call("end", Top.ev.to.idx, "ended"))
  <2>1. \E f \in Frames : Turning("event", "ended", f)
    <3>1. "end" \in AppFrames
      BY DEF AppFrames
    <3> QED BY <1>1, <1>2, <1>3, <1>7, <3>1, TurningAt
  <2> QED BY <1>1, <1>7, <2>1 DEF Event
<1> QED BY <1>4, <1>5, <1>6, <1>7 DEF Dispatch

LEMMA EndTaskDoes ==
  ASSUME TaskInv, EndTask
  PROVE  /\ queue' = queue /\ task' = Freed(Top.ev.to.idx)
         /\ Top.do = "ended" /\ Top.ev.type = "end" /\ Top.ev.to.idx \in Slots
         /\ Halted(task, Top.ev.to.idx)
         /\ NoEndOf(queue, Top.ev.to.idx) /\ NoneFor(queue, Top.ev.to.idx)
         /\ Turned(Walk(Top.ev))
<1>1. At("ended") /\ queue' = queue /\ Replace(Walk(Top.ev)) /\ task' = Freed(Top.ev.to.idx)
  BY DEF EndTask
<1>2. Top.ev \in Events /\ FrameOK(Top, Running, Spare, list, task, queue, calls) /\ Top.do = "ended"
      /\ Top.ev.to.idx \in Slots
  BY <1>1, Going, Labelling
<1>3. Top.ev.type = "end" /\ Halted(task, Top.ev.to.idx)
      /\ NoEndOf(queue, Top.ev.to.idx) /\ NoneFor(queue, Top.ev.to.idx)
  BY <1>2 DEF FrameOK
<1>4. Walk(Top.ev) \in Frames /\ Walk(Top.ev).do = "walk" /\ Walk(Top.ev).ev = Top.ev
  BY <1>2, WalkIs
<1>5. "ended" \in Kernels /\ "walk" \in Kernels
  BY Labelling
<1> QED BY <1>1, <1>2, <1>3, <1>4, <1>5, TurnedAt

LEMMA VisitDoes ==
  ASSUME TaskInv, Visit
  PROVE  /\ queue' = queue /\ task' = task
         /\ \E f \in Frames :
              \/ Turning("walk", "done", f) /\ Top.at = NO_NODE
              \/ /\ Turned(f) /\ Top.do = "walk" /\ f.do = "visited" /\ f.at = Top.at /\ f.cur = Top.cur
                 /\ f.due = Top.due \ {Top.at} /\ Top.at \in Running
              \/ /\ Turning("walk", "walk", f) /\ Top.at \in Running /\ f.at = list[Top.at].next
                 /\ ~(Top.ev.evt \in task[Top.at].subs /\ Top.at # Top.ev.to.idx)
<1> DEFINE s == Top.at
           g == [Top EXCEPT !.at = list[s].next]
           h == WithDoDue(Top, "visited", Top.due \ {s})
<1>1. At("walk") /\ task' = task /\ queue' = queue
  BY DEF Visit
<1>2. /\ stack # <<>> /\ Top = stack[1] /\ Top.do = "walk" /\ Top \in Frames /\ Top.ev \in Events
      /\ FrameOK(Top, Running, Spare, list, task, queue, calls)
  BY <1>1, Going, Labelling
<1>3. {"walk", "done", "visited"} \subseteq Kernels
  BY Labelling
<1>4. Top.at \in Running \cup {NO_NODE}
  BY <1>2 DEF FrameOK
<1>5. CASE s = NO_NODE /\ Label("done")
  <2>1. \E f \in Frames : Turning("walk", "done", f)
    BY <1>1, <1>3, <1>5, TurningAt
  <2> QED BY <1>1, <1>5, <2>1
<1>6. CASE s \in Running /\ CallThen(h, "handle", s)
  <2>1. h \in Frames /\ h.do = "visited" /\ h.ev = Top.ev /\ h.at = s /\ h.due = Top.due \ {s} /\ h.cur = Top.cur
    <3>1. "visited" \in Kernels \cup Nested /\ Top.due \ {s} \in SUBSET Slots
      BY <1>2, <1>3, FrameFields
    <3> QED BY <1>2, <3>1, WithDoDueIs
  <2>2. s \in Slots /\ "handle" \in AppFrames
    BY <1>6, Opened DEF AppFrames
  <2> HIDE DEF h
  <2>3. Turned(h)
    BY <1>1, <1>3, <1>6, <2>1, <2>2, TurnedAt
  <2> QED BY <1>1, <1>2, <1>6, <2>1, <2>3
<1>7. CASE s \in Running /\ Replace(g) /\ ~(Top.ev.evt \in task[s].subs /\ s # Top.ev.to.idx)
  <2> DEFINE a == list[s].next
  <2>1. a \in Running \cup {NO_NODE} /\ a \in Int
    BY <1>7, NextIs
  <2>2. g = WithAt(Top, a)
    BY DEF WithAt
  <2> HIDE DEF a, g
  <2>3. g \in Frames /\ g.do = "walk" /\ g.ev = Top.ev /\ g.at = a /\ g.due = Top.due /\ g.cur = Top.cur
    BY <1>2, <2>1, <2>2, WithAtIs
  <2>4. Turned(g)
    BY <1>1, <1>3, <1>7, <2>3, TurnedAt
  <2> QED BY <1>1, <1>2, <1>7, <2>3, <2>4 DEF Turning, a
<1> QED BY <1>4, <1>5, <1>6, <1>7 DEF Visit, WithDoDue

LEMMA VisitedDoes ==
  ASSUME TaskInv, Visited
  PROVE  /\ queue' = queue /\ task' = task
         /\ \E f \in Frames : Turning("visited", "walk", f) /\ f.at = list[Top.at].next
<1> DEFINE s == Top.at
           a == list[s].next
           g == WithDoAt(Top, "walk", a)
<1>1. At("visited") /\ task' = task /\ queue' = queue /\ Replace(g)
  BY DEF Visited, WithDoAt
<1>2. /\ stack # <<>> /\ Top = stack[1] /\ Top.do = "visited" /\ Top \in Frames /\ Top.ev \in Events
      /\ FrameOK(Top, Running, Spare, list, task, queue, calls)
  BY <1>1, Going, Labelling
<1>5. a \in Running \cup {NO_NODE} /\ a \in Int
  <2>1. s \notin Running => a = NO_NODE
    BY <1>2 DEF FrameOK
  <2>2. NO_NODE \in Int
    BY DEF NO_NODE
  <2> QED BY <2>1, <2>2, NextIs
<1> HIDE DEF a
<1>6. g \in Frames /\ g.do = "walk" /\ g.ev = Top.ev /\ g.at = a /\ g.due = Top.due /\ g.cur = Top.cur
  <2>1. "walk" \in Kernels \cup Nested
    BY Labelling
  <2>2. \A x \in Frames : \A d \in Kernels \cup Nested : \A n \in Int :
          /\ WithDoAt(x, d, n) \in Frames /\ WithDoAt(x, d, n).do = d
          /\ WithDoAt(x, d, n).ev = x.ev /\ WithDoAt(x, d, n).at = n
          /\ WithDoAt(x, d, n).due = x.due /\ WithDoAt(x, d, n).cur = x.cur
    BY WithDoAtIs
  <2> QED BY <1>2, <1>5, <2>1, <2>2
<1> HIDE DEF g
<1>7. "walk" \in Kernels /\ "visited" \in Kernels
  BY Labelling
<1>8. Turned(g)
  BY <1>1, <1>6, <1>7, TurnedAt
<1> QED BY <1>1, <1>2, <1>6, <1>8 DEF Turning, a

LEMMA FreeDoes ==
  ASSUME TaskInv, Free
  PROVE  /\ queue' = queue /\ task' = task
         /\ \E f \in Frames : Turning("done", "freed", f)
         /\ \/ Top.ev.id = 0 /\ callbacks' = callbacks
            \/ Top.ev.id # 0 /\ callbacks' = [callbacks EXCEPT ![Top.ev.id] = @ + 1]
<1> DEFINE f == WithDoCur(Top, "freed", System)
           s == Owner(Top.ev)
<1>1. At("done") /\ task' = task /\ queue' = queue
  BY DEF Free
<1>2. \/ Replace(f) /\ Top.ev.id = 0 /\ callbacks' = callbacks
      \/ CallThen(f, "free", s) /\ Top.ev.id # 0 /\ callbacks' = [callbacks EXCEPT ![Top.ev.id] = @ + 1]
  BY DEF Free, WithDoCur
<1>3. Top \in Frames /\ Top.ev \in Events /\ Top.do = "done" /\ s \in Slots
  BY <1>1, Going, Labelling, EventFields
<1>4. f \in Frames /\ f.do = "freed" /\ f.ev = Top.ev /\ f.cur = System /\ f.due = Top.due
  BY <1>3, Labelling, Nodish, WithDoCurIs
<1> HIDE DEF f, s
<1>5. "done" \in Kernels /\ "freed" \in Kernels /\ "free" \in AppFrames
  BY Labelling DEF AppFrames
<1>6. Turned(f)
  BY <1>1, <1>2, <1>3, <1>4, <1>5, TurnedAt
<1> QED BY <1>1, <1>2, <1>3, <1>4, <1>6 DEF Turning

LEMMA FinishDoes ==
  ASSUME TaskInv, Finish
  PROVE  /\ queue' = queue /\ stack # <<>> /\ Top = stack[1] /\ Top \in Frames /\ Top.do = "freed"
         /\ Top.ev \in Events /\ stack' = Tail(stack)
         /\ task' = IF Top.ev.type = "boot" THEN task ELSE Uncharge(Top.ev)
<1>1. At("freed") /\ queue' = queue /\ stack' = Tail(stack)
      /\ task' = IF Top.ev.type = "boot" THEN task ELSE Uncharge(Top.ev)
  BY DEF Finish, Return
<1> QED BY <1>1, Going, Labelling

LEMMA DroppedDoes ==
  ASSUME TaskInv, Dropped
  PROVE  /\ queue' = queue /\ stack # <<>> /\ Top = stack[1] /\ Top \in Frames /\ Top.do = "dropped"
         /\ Top.ev \in Events
         /\ task' = Charge(task, Top.ev.by.idx, -1)
         /\ callbacks' = [callbacks EXCEPT ![Top.ev.id] = @ + 1]
         /\ \E g \in Frames : Aside(g) /\ stack' = <<g>> \o Tail(stack)
<1>1. /\ stack # <<>> /\ Top = stack[1] /\ Top.do = "dropped" /\ queue' = queue
      /\ task' = Charge(task, Top.ev.by.idx, -1) /\ stack' = <<Enter("free", Top.ev.by.idx)>> \o Tail(stack)
      /\ callbacks' = [callbacks EXCEPT ![Top.ev.id] = @ + 1]
  BY DEF Dropped, At, Replace, Top
<1>2. Top \in Frames /\ Top.ev \in Events
  BY <1>1, TopIs, FrameFields
<1>3. Top.ev.by.idx \in Slots /\ "free" \in AppFrames
  BY <1>2, EventFields DEF AppFrames
<1> QED BY <1>1, <1>2, <1>3, AsideIs

LEMMA AppReturnDoes ==
  ASSUME TaskInv, AppReturn
  PROVE  /\ queue' = queue /\ task' = task /\ callbacks' = callbacks
         /\ stack # <<>> /\ Top = stack[1] /\ Top \in Frames /\ Top.do \in AppFrames
         /\ \/ stack' = Tail(stack)
            \/ /\ Len(stack) >= 2 /\ stack[2] \in Frames /\ stack[2].do = "starting"
               /\ \E f \in Frames :
                    /\ stack' = <<f>> \o SubSeq(stack, 3, Len(stack))
                    /\ f.ev = stack[2].ev /\ f.cur = stack[2].cur /\ f.due = stack[2].due
                    /\ f.do = "started" \/ (f.do = "failed" /\ "init" \in Faults)
<1>1. /\ stack # <<>> /\ Top = stack[1] /\ Top.do \in AppFrames /\ callbacks' = callbacks
      /\ queue' = queue /\ task' = task
  BY DEF AppReturn, InApp, Top
<1>2. Top \in Frames /\ stack \in Seq(Frames) /\ Len(stack) \in Nat /\ Len(stack) > 0
      /\ Shape(stack)
  BY <1>1, TopIs, Opened
<1>3. CASE stack' = Tail(stack)
  BY <1>1, <1>2, <1>3
<1>4. ASSUME NEW d \in {"started", "failed"}, Top.do = "init", d = "failed" => "init" \in Faults,
             stack' = <<WithDo(stack[2], d)>> \o SubSeq(stack, 3, Len(stack))
      PROVE  /\ Len(stack) >= 2 /\ stack[2] \in Frames /\ stack[2].do = "starting"
             /\ \E f \in Frames :
                  /\ stack' = <<f>> \o SubSeq(stack, 3, Len(stack))
                  /\ f.ev = stack[2].ev /\ f.cur = stack[2].cur /\ f.due = stack[2].due
                  /\ f.do = "started" \/ (f.do = "failed" /\ "init" \in Faults)
  <2>1. 1 \in 1 .. Len(stack) /\ stack[1].do = "init" /\ "init" \in Nested
    BY <1>1, <1>2, <1>4 DEF Nested, AppFrames
  <2>2. 2 \in 1 .. Len(stack) /\ stack[2].do = "starting"
    <3>1. 1 + 1 \in 1 .. Len(stack) /\ stack[1 + 1].do = "starting"
      BY <1>2, <2>1 DEF Shape
    <3> QED BY <3>1
  <2>3. stack[2] \in Frames /\ Len(stack) >= 2
    BY <1>2, <2>2, Elements
  <2>4. d \in Kernels \cup Nested
    BY DEF Kernels, Leaves
  <2> DEFINE f == WithDo(stack[2], d)
  <2>5. /\ f \in Frames /\ f.do = d /\ f.ev = stack[2].ev /\ f.cur = stack[2].cur
        /\ f.due = stack[2].due
    BY <2>3, <2>4, WithDoIs
  <2>6. stack' = <<f>> \o SubSeq(stack, 3, Len(stack))
    BY <1>4
  <2> HIDE DEF f
  <2>7. f.do = "started" \/ (f.do = "failed" /\ "init" \in Faults)
    BY <1>4, <2>5
  <2> QED BY <2>2, <2>3, <2>5, <2>6, <2>7
<1>5. \/ stack' = Tail(stack)
      \/ \E d \in {"started", "failed"} :
           /\ Top.do = "init" /\ (d = "failed" => "init" \in Faults)
           /\ stack' = <<WithDo(stack[2], d)>> \o SubSeq(stack, 3, Len(stack))
  BY DEF AppReturn, WithDo, Return
<1> QED BY <1>1, <1>2, <1>3, <1>4, <1>5

-----------------------------------------------------------------------------
(* What is posted.                                                          *)

\* The event e of task c is posted, when the tasks have become t, or lost.
Sends(t, c, e) ==
  IF Accepted(c) THEN queue' = Put(queue, e) /\ task' = Charge(t, c, 1)
                 ELSE queue' = queue /\ task' = t

LEMMA PostSends ==
  ASSUME NEW t, NEW s, NEW e, PostAs(t, s, e, FALSE)
  PROVE  Sends(t, s, From(e, Tid(s)))
BY PostIs DEF Sends

LEMMA PublishDoes ==
  ASSUME TaskInv, NEW v \in Evts, Publish(v)
  PROVE  /\ stack' = stack /\ calls' = calls + 1 /\ calls + 1 \in 1 .. MaxCalls
         /\ InApp /\ Me \in Slots /\ Me # System /\ task[Me].loaded
         /\ callbacks' = [callbacks EXCEPT ![calls + 1] = IF Accepted(Me) THEN 0 ELSE @]
         /\ \E e \in Events :
              /\ Sends(task, Me, e) /\ e.type = "user" /\ e.org.idx = Me /\ e.id = calls + 1
<1> DEFINE a == Evt("user", SystemTid, v)
           e == WithId(a, calls + 1)
           o == Tid(Me)
           f == From(e, o)
           m == Me
<1>1. AppCall /\ stack' = stack /\ PostAs(task, m, e, FALSE)
      /\ callbacks' = [callbacks EXCEPT ![calls + 1] = IF Accepted(Me) THEN 0 ELSE @]
  BY DEF Publish, WithId
<1>2. /\ calls' = calls + 1 /\ calls + 1 \in 1 .. MaxCalls
      /\ m \in Slots /\ task[m].loaded /\ o \in Tids /\ o.idx = m
  BY <1>1, Called
<1>7. InApp /\ m # System
  BY <1>1, Mine DEF AppCall
<1>3. a \in Events /\ a.type = "user"
  BY SystemTidIs, EvtIs DEF Posted, Values
<1> HIDE DEF a
<1>4. e \in Events /\ e.type = "user" /\ e.id = calls + 1
  <2>1. calls + 1 \in 0 .. MaxCalls
    BY <1>2
  <2> QED BY <1>3, <2>1, WithIdIs
<1> HIDE DEF e
<1>5. f \in Events /\ f.type = "user" /\ f.id = calls + 1 /\ f.org = o
  BY <1>2, <1>4, FromIs
<1>6. Sends(task, m, f)
  BY <1>1, PostSends
<1> HIDE DEF f, o
<1> QED BY <1>1, <1>2, <1>5, <1>6, <1>7

LEMMA AskDoes ==
  ASSUME TaskInv, NEW d \in {"sub", "unsub"}, NEW v \in Values, NEW w,
         AppCall, Ask(d, v, w)
  PROVE  /\ calls' = calls + 1 /\ calls + 1 \in 1 .. MaxCalls
         /\ Me \in Slots /\ Me # System /\ task[Me].loaded
         /\ \/ /\ SlabLeft /\ wanted' = [wanted EXCEPT ![Me] = IF Accepted(Me) THEN w ELSE @]
               /\ \E e \in Events :
                    /\ Sends(task, Me, e) /\ e.type = d /\ e.org.idx = Me /\ e.id = 0
                    /\ e.to.idx = Me /\ e.evt = v
            \/ UNCHANGED <<queue, task, wanted>>
<1> DEFINE o == Tid(Me)
           e == Evt(d, o, v)
           f == From(e, o)
           m == Me
<1>2. /\ calls' = calls + 1 /\ calls + 1 \in 1 .. MaxCalls
      /\ m \in Slots /\ task[m].loaded /\ o \in Tids /\ o.idx = m
  BY Called
<1>3. InApp /\ m # System
  BY Mine DEF AppCall
<1>4. e \in Events /\ e.type = d /\ e.id = 0 /\ e.evt = v /\ e.to = o
  BY <1>2, EvtIs DEF Posted
<1>6. \/ SlabLeft /\ PostAs(task, m, e, FALSE) /\ wanted' = [wanted EXCEPT ![Me] = IF Accepted(Me) THEN w ELSE @]
      \/ UNCHANGED <<queue, task, wanted>>
  BY DEF Ask
<1> HIDE DEF e
<1>5. f \in Events /\ f.type = d /\ f.id = 0 /\ f.evt = v /\ f.to = o /\ f.org = o
  BY <1>2, <1>4, FromIs
<1>7. PostAs(task, m, e, FALSE) => Sends(task, m, f)
  BY PostSends
<1> HIDE DEF f, o
<1> QED BY <1>2, <1>3, <1>5, <1>6, <1>7

\* What a message e of the running app to a task comes to: posted, refused by the
\* queue (h stands for osPrivateEvtFreeF), or without a record; g is the callback.
Mail(to, e, g, h) ==
  /\ e.type = "private" /\ e.org.idx = System /\ e.by.idx = Me /\ e.to.idx = to
  /\ e.id = calls + 1
  /\ Aside(g) /\ g.cur = Me
  /\ h.do = "dropped" /\ h.cur = System /\ h.due = {} /\ h.ev.type = "private"
  /\ h.ev.org.idx = System /\ h.ev.by.idx = Me /\ h.ev.id = calls + 1
  /\ \/ /\ SlabLeft /\ ~Refused /\ Accepted(System) /\ queue' = Put(queue, e) /\ stack' = stack
        /\ task' = Charge(Charge(task, Me, 1), System, 1)
     \/ /\ SlabLeft /\ Refused /\ ~Accepted(System) /\ queue' = queue
        /\ task' = Charge(task, Me, 1) /\ stack' = Push(g, Push(h, stack))
     \/ /\ ~SlabLeft /\ Refused /\ queue' = queue /\ task' = task /\ stack' = Push(g, stack)

LEMMA SendPrivateDoes ==
  ASSUME TaskInv, NEW to \in Slots \ {System}, SendPrivate(to)
  PROVE  /\ calls' = calls + 1 /\ calls + 1 \in 1 .. MaxCalls
         /\ InApp /\ Me \in Slots /\ Me # System /\ task[Me].loaded
         /\ Stopped(Me) => "late" \in Faults
         /\ to = Me \/ "to others" \in Faults
         /\ callbacks' = [callbacks EXCEPT ![calls + 1] = IF Refused THEN 1 ELSE 0]
         /\ \E e \in Events, g, h \in Frames : Mail(to, e, g, h)
<1> DEFINE a == Evt("private", Tid(to), NULL)
           o == Tid(Me)
           c == calls + 1
           e == WithById(a, o, c)
           p == Tid(System)
           f == From(e, p)
           m == Me
           g == Enter("free", m)
           h == Frame("dropped", e, System)
<1>1. /\ AppCall
      /\ Stopped(Me) => "late" \in Faults
      /\ to = Me \/ "to others" \in Faults
      /\ callbacks' = [callbacks EXCEPT ![e.id] = IF Refused THEN 1 ELSE 0]
      /\ IF SlabLeft THEN PostAs(Charge(task, m, 1), System, e, FALSE)
                     ELSE queue' = queue /\ task' = task
      /\ stack' = (IF Refused THEN <<g>> ELSE <<>>)
                  \o (IF SlabLeft /\ Refused THEN <<h>> ELSE <<>>) \o stack
  BY DEF SendPrivate, WithById
<1>2. /\ calls' = c /\ c \in 1 .. MaxCalls
      /\ m \in Slots /\ task[m].loaded /\ o \in Tids /\ o.idx = m
  BY <1>1, Called
<1>20. InApp /\ m # System
  BY <1>1, Mine DEF AppCall
<1>3. task \in [Slots -> TaskRecords] /\ stack \in Seq(Frames)
  BY Opened
<1>4. Tid(to) \in Tids /\ Tid(to).idx = to /\ p \in Tids /\ p.idx = System
  BY <1>1, <1>3, TidIs, Nodish
<1>5. a \in Events /\ a.type = "private" /\ a.to = Tid(to) /\ a.org = SystemTid
  BY <1>4, EvtIs DEF Posted
<1> HIDE DEF a, o, p
<1>6. e \in Events /\ e.type = "private" /\ e.id = c /\ e.by.idx = m /\ e.to.idx = to /\ e.org = SystemTid
  <2>1. c \in 0 .. MaxCalls
    BY <1>2
  <2> HIDE DEF c
  <2> QED BY <1>2, <1>4, <1>5, <2>1, WithByIdIs
<1> HIDE DEF e
<1>7. f \in Events /\ f.type = "private" /\ f.id = c /\ f.by.idx = m /\ f.to.idx = to /\ f.org.idx = System
  BY <1>4, <1>6, FromIs
<1> HIDE DEF f
<1>8. g \in Frames /\ Aside(g) /\ g.cur = m
  BY <1>2, AsideIs DEF AppFrames
<1>9. h \in Frames /\ h.do = "dropped" /\ h.ev = e /\ h.cur = System /\ h.due = {}
  <2>1. "dropped" \in Kernels \cup Nested /\ System \in Slots
    BY Nodish DEF Nested
  <2> QED BY <1>6, <2>1, FrameIs
<1>10. h.ev.type = "private" /\ h.ev.org.idx = System /\ h.ev.by.idx = m /\ h.ev.id = c
  BY <1>6, <1>9, SystemTidIs
<1>11. callbacks' = [callbacks EXCEPT ![c] = IF Refused THEN 1 ELSE 0]
  BY <1>1, <1>6
<1>12. PostAs(Charge(task, m, 1), System, e, FALSE) =>
         Sends(Charge(task, m, 1), System, f)
  BY PostSends DEF f, p
<1> HIDE DEF g, h, c
<1>13. /\ <<g>> \o <<h>> \o stack = Push(g, Push(h, stack))
       /\ <<g>> \o <<>> \o stack = Push(g, stack)
       /\ <<>> \o <<>> \o stack = stack
  BY <1>3, <1>8, <1>9, Told
<1> DEFINE Outcome ==
      \/ /\ SlabLeft /\ ~Refused /\ Accepted(System) /\ queue' = Put(queue, f) /\ stack' = stack
         /\ task' = Charge(Charge(task, m, 1), System, 1)
      \/ /\ SlabLeft /\ Refused /\ ~Accepted(System) /\ queue' = queue
         /\ task' = Charge(task, m, 1) /\ stack' = Push(g, Push(h, stack))
      \/ /\ ~SlabLeft /\ Refused /\ queue' = queue /\ task' = task /\ stack' = Push(g, stack)
<1>14. Outcome
  <2>1. CASE SlabLeft /\ Accepted(System)
    <3>1. ~Refused
      BY <2>1 DEF Refused
    <3>2. stack' = <<>> \o <<>> \o stack
      BY <1>1, <3>1
    <3>3. queue' = Put(queue, f) /\ task' = Charge(Charge(task, m, 1), System, 1)
      BY <1>1, <1>12, <2>1 DEF Sends
    <3> QED BY <1>13, <2>1, <3>1, <3>2, <3>3
  <2>2. CASE SlabLeft /\ ~Accepted(System)
    <3>1. Refused
      BY <2>2 DEF Refused
    <3>2. stack' = <<g>> \o <<h>> \o stack
      BY <1>1, <2>2, <3>1
    <3>3. queue' = queue /\ task' = Charge(task, m, 1)
      BY <1>1, <1>12, <2>2 DEF Sends
    <3> QED BY <1>13, <2>2, <3>1, <3>2, <3>3
  <2>3. CASE ~SlabLeft
    <3>1. Refused
      BY <2>3 DEF Refused
    <3>2. stack' = <<g>> \o <<>> \o stack
      BY <1>1, <2>3, <3>1
    <3> QED BY <1>1, <1>13, <2>3, <3>1, <3>2
  <2> QED BY <2>1, <2>2, <2>3
<1>15. /\ calls' = calls + 1 /\ calls + 1 \in 1 .. MaxCalls
       /\ f.id = calls + 1 /\ h.ev.id = calls + 1
       /\ callbacks' = [callbacks EXCEPT ![calls + 1] = IF Refused THEN 1 ELSE 0]
  BY <1>2, <1>7, <1>10, <1>11 DEF c
<1>16. /\ Me \in Slots /\ Me # System /\ task[Me].loaded /\ g.cur = Me /\ f.by.idx = Me /\ h.ev.by.idx = Me
       /\ InApp
       /\ (Stopped(Me) => "late" \in Faults) /\ (to = Me \/ "to others" \in Faults)
  BY <1>1, <1>2, <1>7, <1>8, <1>10, <1>20
<1>17. Mail(to, f, g, h)
  BY <1>7, <1>8, <1>9, <1>10, <1>14, <1>15, <1>16 DEF Mail
<1> QED BY <1>7, <1>8, <1>9, <1>15, <1>16, <1>17

\* A task leaves the list, and its end is posted or lost.
LEMMA LeaveDoes ==
  ASSUME TaskInv, NEW s \in Slots, NEW g \in SUBSET {"STOPPED", "ABORTED"}, Leave(s, g)
  PROVE  \E e \in Events :
           /\ Sends(Flagged(task, s, g), System, e) /\ e.type = "end" /\ e.org.idx = System
           /\ e.id = 0 /\ e.to.idx = s
<1> DEFINE e == Evt("end", Tid(s), APP_STOPPED)
           p == Tid(System)
           f == From(e, p)
<1>1. PostAs(Flagged(task, s, g), System, e, FALSE)
  BY DEF Leave, Flagged
<1>2. p \in Tids /\ p.idx = System /\ Tid(s) \in Tids /\ Tid(s).idx = s
  BY Opened, TidIs, Nodish
<1>3. e \in Events /\ e.type = "end" /\ e.to.idx = s /\ e.id = 0
  BY <1>2, EvtIs DEF Posted, Values
<1> HIDE DEF e
<1>4. Sends(Flagged(task, s, g), System, f)
  BY <1>1, PostSends
<1> HIDE DEF p
<1>5. f \in Events /\ f.type = "end" /\ f.to.idx = s /\ f.id = 0 /\ f.org = p
  BY <1>2, <1>3, FromIs
<1> HIDE DEF f
<1> QED BY <1>2, <1>4, <1>5

LEMMA AbortDoes ==
  ASSUME TaskInv, Abort
  PROVE  /\ stack' = stack /\ Me \in Slots /\ Me # System /\ ~Stopped(Me) /\ callbacks' = callbacks
         /\ calls' = calls + 1 /\ calls + 1 \in 1 .. MaxCalls
         /\ Leave(Me, {"STOPPED", "ABORTED"})
         /\ \E e \in Events :
              /\ Sends(Flagged(task, Me, {"STOPPED", "ABORTED"}), System, e) /\ e.type = "end"
              /\ e.org.idx = System /\ e.id = 0 /\ e.to.idx = Me
<1>1. AppCall /\ ~Stopped(Me) /\ stack' = stack /\ Leave(Me, {"STOPPED", "ABORTED"}) /\ callbacks' = callbacks
  BY DEF Abort
<1>2. Me \in Slots /\ Me # System
  BY <1>1, Mine DEF AppCall
<1>3. calls' = calls + 1 /\ calls + 1 \in 1 .. MaxCalls
  BY <1>1, Called
<1>4. PICK s : s = Me
  OBVIOUS
<1>5. PICK g \in SUBSET {"STOPPED", "ABORTED"} : g = {"STOPPED", "ABORTED"}
  OBVIOUS
<1>6. \E e \in Events :
        /\ Sends(Flagged(task, s, g), System, e) /\ e.type = "end" /\ e.org.idx = System
        /\ e.id = 0 /\ e.to.idx = s
  <2>1. s \in Slots /\ Leave(s, g)
    BY <1>1, <1>2, <1>4, <1>5
  <2> QED BY <2>1, LeaveDoes
<1> QED BY <1>1, <1>2, <1>3, <1>4, <1>5, <1>6

LEMMA InterruptDoes ==
  ASSUME TaskInv, Interrupt
  PROVE  /\ stack' = stack /\ Current \in Slots /\ SlabLeft
         /\ Current = IF stack = <<>> THEN System ELSE stack[1].cur
         /\ \/ queue' = queue /\ task' = task
            \/ /\ Accepted(Current) /\ task' = Charge(task, Current, 1)
               /\ \E e \in Events :
                    /\ queue' = Push(e, queue) /\ e.type = "defer" /\ e.org.idx = Current /\ e.id = 0
<1> DEFINE e == Evt("defer", SystemTid, NULL)
           m == Current
           o == Tid(m)
           f == From(e, o)
<1>1. PostAs(task, m, e, TRUE) /\ stack' = stack /\ SlabLeft
      /\ Current = IF stack = <<>> THEN System ELSE stack[1].cur
  BY DEF Interrupt, Current, Top
<1>2. m \in Slots
  BY TopIs, FrameFields, Nodish DEF Current
<1>3. task \in [Slots -> TaskRecords] /\ o \in Tids /\ o.idx = m
  BY <1>2, Opened, TidIs
<1>4. e \in Events /\ e.type = "defer" /\ e.id = 0
  BY SystemTidIs, EvtIs DEF Posted
<1> HIDE DEF e, m
<1>5. f \in Events /\ f.type = "defer" /\ f.id = 0 /\ f.org = o
  BY <1>3, <1>4, FromIs
<1>6. \/ queue' = queue /\ task' = task
      \/ Accepted(m) /\ task' = Charge(task, m, 1) /\ queue' = Push(f, queue)
  BY <1>1, PostIs
<1> HIDE DEF f, o
<1> QED BY <1>1, <1>2, <1>3, <1>5, <1>6 DEF m

-----------------------------------------------------------------------------
(* What the host has done.                                                  *)

LEMMA OtherWorkDoes ==
  ASSUME TaskInv, OtherWork
  PROVE  queue' = queue /\ task' = task /\ \E f \in Frames : Turning("host", "done", f)
<1>1. At("host") /\ Label("done") /\ task' = task /\ queue' = queue
  BY DEF OtherWork
<1> QED BY <1>1, Labelling, TurningAt

LEMMA StoppingDoes ==
  ASSUME TaskInv, Stopping
  PROVE  /\ \E f \in Frames : Turning("stopping", "done", f)
         /\ Top.at \in Slots /\ Halted(task, Top.at) /\ NoEndOf(queue, Top.at)
         /\ \E e \in Events : /\ Sends(task, System, e) /\ e.type = "end" /\ e.org.idx = System
                              /\ e.id = 0 /\ e.to.idx = Top.at
<1> DEFINE s == Top.at
           o == Top.ev.org.idx
           f == WithDoAtCur(Top, "done", NO_NODE, o)
           e == Evt("end", Tid(s), APP_STOPPED)
           p == Tid(System)
           g == From(e, p)
<1>1. At("stopping") /\ PostAs(task, System, e, FALSE) /\ Replace(f)
  BY DEF Stopping, WithDoAtCur
<1>2. /\ stack # <<>> /\ Top = stack[1] /\ Top.do = "stopping" /\ Top \in Frames /\ Top.ev \in Events
      /\ o \in Slots /\ Loose(Top.ev) /\ FrameOK(Top, Running, Spare, list, task, queue, calls)
  BY <1>1, Going, Labelling
<1>3. s \in Slots /\ Halted(task, s) /\ NoEndOf(queue, s)
  BY <1>2 DEF FrameOK
<1>4. f \in Frames /\ f.do = "done" /\ f.ev = Top.ev /\ f.cur = o /\ f.due = Top.due
  <2>1. "done" \in Kernels \cup Nested /\ NO_NODE \in Int
    BY DEF Kernels, Leaves, NO_NODE
  <2> HIDE DEF o
  <2> QED BY <1>2, <2>1, WithDoAtCurIs
<1> HIDE DEF f
<1>5. Turned(f)
  BY <1>1, <1>4, Labelling, TurnedAt
<1>6. Turning("stopping", "done", f)
  BY <1>2, <1>4, <1>5 DEF Turning
<1>7. Tid(s) \in Tids /\ Tid(s).idx = s /\ p \in Tids /\ p.idx = System
  BY <1>3, Opened, TidIs, Nodish
<1>8. e \in Events /\ e.type = "end" /\ e.id = 0 /\ e.to.idx = s
  BY <1>7, EvtIs DEF Posted, Values
<1> HIDE DEF e
<1>9. Sends(task, System, g)
  BY <1>1, PostSends
<1> HIDE DEF p
<1>10. g \in Events /\ g.type = "end" /\ g.id = 0 /\ g.to.idx = s /\ g.org = p
  BY <1>7, <1>8, FromIs
<1> HIDE DEF g
<1> QED BY <1>3, <1>4, <1>6, <1>7, <1>9, <1>10

LEMMA FailedDoes ==
  ASSUME TaskInv, Failed
  PROVE  /\ queue' = queue /\ task' = Freed(Top.at)
         /\ \E f \in Frames : Turning("failed", "done", f)
         /\ Top.at \in Slots /\ Top.at # System /\ Top.at \notin Running \cup Spare
         /\ ~Halted(task, Top.at) /\ NoneFor(queue, Top.at)
<1> DEFINE f == WithDoAt(Top, "done", NO_NODE)
<1>1. At("failed") /\ queue' = queue /\ task' = Freed(Top.at) /\ Replace(f)
  BY DEF Failed, WithDoAt
<1>2. /\ stack # <<>> /\ Top = stack[1] /\ Top.do = "failed" /\ Top \in Frames /\ Top.ev \in Events
      /\ Top.at \in Slots \ {System} /\ Top.at \notin Running \cup Spare /\ ~Halted(task, Top.at)
      /\ NoneFor(queue, Top.at)
  BY <1>1, Launched
<1>3. "done" \in Kernels /\ "failed" \in Kernels /\ NO_NODE \in Int
  BY DEF Kernels, Leaves, NO_NODE
<1>4. f \in Frames /\ f.do = "done" /\ f.ev = Top.ev /\ f.cur = Top.cur /\ f.due = Top.due
  BY <1>2, <1>3, WithDoAtIs
<1> HIDE DEF f
<1>5. Turned(f)
  BY <1>1, <1>3, <1>4, TurnedAt
<1> QED BY <1>1, <1>2, <1>4, <1>5 DEF Turning

LEMMA StartedDoes ==
  ASSUME TaskInv, Started
  PROVE  /\ Current = Top.cur /\ Top.cur \in Slots
         /\ \E f \in Frames : Turning("started", "done", f)
         /\ Top.at \in Slots /\ Top.at # System /\ Top.at \notin Running \cup Spare
         /\ ~Halted(task, Top.at)
         /\ \E e \in Events : /\ Sends(task, Current, e) /\ e.type = "begin" /\ e.org.idx = Current
                              /\ e.id = 0
<1> DEFINE s == Top.at
           f == WithDoAt(Top, "done", NO_NODE)
           m == Current
           e == Evt("begin", Tid(s), APP_STARTED)
           o == Tid(m)
           g == From(e, o)
<1>1. At("started") /\ PostAs(task, m, e, FALSE) /\ Replace(f)
  BY DEF Started, WithDoAt
<1>2. /\ stack # <<>> /\ Top = stack[1] /\ Top.do = "started" /\ Top \in Frames
      /\ s \in Slots \ {System} /\ s \notin Running \cup Spare /\ ~Halted(task, s)
      /\ Top.cur \in Slots
  BY <1>1, Launched
<1>20. m = Top.cur
  BY <1>2 DEF Current
<1>3. "done" \in Kernels /\ "started" \in Kernels /\ NO_NODE \in Int
  BY DEF Kernels, Leaves, NO_NODE
<1>4. f \in Frames /\ f.do = "done" /\ f.ev = Top.ev /\ f.cur = Top.cur /\ f.due = Top.due
  BY <1>2, <1>3, WithDoAtIs
<1> HIDE DEF f
<1>5. Turned(f)
  BY <1>1, <1>3, <1>4, TurnedAt
<1>6. Turning("started", "done", f)
  BY <1>2, <1>4, <1>5 DEF Turning
<1>7. Tid(s) \in Tids /\ o \in Tids /\ o.idx = m
  BY <1>2, <1>20, Opened, TidIs
<1>8. e \in Events /\ e.type = "begin" /\ e.id = 0
  BY <1>7, EvtIs DEF Posted, Values
<1> HIDE DEF e
<1>9. Sends(task, m, g)
  BY <1>1, PostSends
<1> HIDE DEF o, m
<1>10. g \in Events /\ g.type = "begin" /\ g.id = 0 /\ g.org = o
  BY <1>7, <1>8, FromIs
<1> HIDE DEF g
<1> QED BY <1>2, <1>20, <1>4, <1>6, <1>7, <1>9, <1>10 DEF m

LEMMA StopAppDoes ==
  ASSUME TaskInv, NEW s \in Slots, StopApp(s)
  PROVE  /\ s # System /\ s \in Running /\ ~Halted(task, s) /\ Top.ev.type = "defer"
         /\ \/ /\ Leave(s, {"STOPPED"}) /\ task[s].io = 0
               /\ \E f \in Frames : Turning("host", "done", f)
               /\ \E e \in Events :
                    /\ Sends(Flagged(task, s, {"STOPPED"}), System, e) /\ e.type = "end"
                    /\ e.org.idx = System /\ e.id = 0 /\ e.to.idx = s
            \/ /\ queue' = queue /\ task' = Flagged(task, s, {"STOPPED"}) /\ task[s].io # 0
               /\ \E f \in Frames : Turning("host", "stopping", f) /\ f.at = s
<1>1. At("host") /\ s \in Running /\ Top.ev.type = "defer"
  BY DEF StopApp, Running
<1>2. /\ stack # <<>> /\ Top = stack[1] /\ Top.do = "host" /\ Top \in Frames /\ Top.ev \in Events
  BY <1>1, Commanded
<1>3. s # System /\ ~Halted(task, s)
  BY <1>1, RunningIsLoaded
<1> DEFINE g == {"STOPPED"}
<1>4. CASE Leave(s, g) /\ Label("done") /\ task[s].io = 0
  <2>1. \E f \in Frames : Turning("host", "done", f)
    BY <1>1, <1>4, Labelling, TurningAt
  <2>2. g \in SUBSET {"STOPPED", "ABORTED"}
    OBVIOUS
  <2> HIDE DEF g
  <2>3. \E e \in Events :
          /\ Sends(Flagged(task, s, g), System, e) /\ e.type = "end" /\ e.org.idx = System
          /\ e.id = 0 /\ e.to.idx = s
    BY <1>4, <2>2, LeaveDoes
  <2> QED BY <1>1, <1>3, <1>4, <2>1, <2>3 DEF g
<1>5. ASSUME task' = Flagged(task, s, g), queue' = queue, task[s].io # 0,
             CallThen(WithDoAtCur(Top, "stopping", s, System), "stop", s)
      PROVE  \E f \in Frames : Turning("host", "stopping", f) /\ f.at = s
  <2> DEFINE f == WithDoAtCur(Top, "stopping", s, System)
  <2>1. f \in Frames /\ f.do = "stopping" /\ f.ev = Top.ev /\ f.at = s /\ f.cur = System /\ f.due = Top.due
    <3>1. "stopping" \in Kernels \cup Nested /\ s \in Int /\ System \in Slots
      BY Labelling, Nodish
    <3> QED BY <1>2, <3>1, WithDoAtCurIs
  <2>2. "stop" \in AppFrames
    BY DEF AppFrames
  <2>3. CallThen(f, "stop", s)
    BY <1>5
  <2> HIDE DEF f
  <2>4. Turned(f)
    BY <1>1, <2>1, <2>2, <2>3, Labelling, TurnedAt
  <2> QED BY <1>2, <2>1, <2>4 DEF Turning
<1> QED BY <1>1, <1>3, <1>4, <1>5 DEF StopApp, WithDoAtCur, Flagged

LEMMA StartAppDoes ==
  ASSUME TaskInv, NEW a \in Apps, StartApp(a)
  PROVE  \E s \in Spare : \E n \in 0 .. Counter - 1 :
           /\ s \in Slots /\ s # System /\ queue' = queue
           /\ New(a, n) \in TaskRecords /\ Begun(New(a, n)) \in TaskRecords
           /\ \/ /\ task' = [task EXCEPT ![s] = New(a, n)]
                 /\ \E f \in Frames : Turning("host", "done", f)
              \/ /\ task' = [task EXCEPT ![s] = Begun(New(a, n))]
                 /\ \E f \in Frames : Turning("host", "starting", f) /\ f.at = s
<1> DEFINE s == list[FreeTasks].next
           n == task[s].ctr
           g == WithAt(Enter("init", s), calls)
           h == WithDoAt(Top, "starting", s)
<1>1. At("host") /\ s # NO_NODE /\ queue' = queue
  BY DEF StartApp
<1>2. \/ task' = [task EXCEPT ![s] = New(a, n)] /\ Label("done")
      \/ task' = [task EXCEPT ![s] = Begun(New(a, n))] /\ stack' = <<g, h>> \o Tail(stack)
  BY DEF StartApp, New, Begun, WithAt, WithDoAt
<1>3. /\ stack # <<>> /\ Top = stack[1] /\ Top.do = "host" /\ Top \in Frames /\ Top.ev \in Events
  BY <1>1, Commanded
<1>4. PICK R, F, l : R = Running /\ F = Spare /\ l = list
  OBVIOUS
<1>5. TwoLists(R, F, l)
  BY <1>4, Opened
<1>6. s \in Spare /\ s \in Slots /\ s # System
  <2>1. l[FreeTasks].next \in F \cup {NO_NODE} /\ F \subseteq Slots \ {System}
    BY <1>5, Following
  <2> QED BY <1>1, <1>4, <2>1
<1>7. task \in [Slots -> TaskRecords] /\ calls \in 0 .. MaxCalls
  BY Opened
<1>9. n \in 0 .. Counter - 1
  BY <1>6, <1>7, TaskFields
<1> HIDE DEF s, n
<1>10. New(a, n) \in TaskRecords /\ Begun(New(a, n)) \in TaskRecords
  BY <1>9, ClearedIs
<1>11. CASE task' = [task EXCEPT ![s] = New(a, n)] /\ Label("done")
  <2>1. \E f \in Frames : Turning("host", "done", f)
    BY <1>1, <1>11, Labelling, TurningAt
  <2> QED BY <1>1, <1>6, <1>9, <1>10, <1>11, <2>1
<1>12. CASE task' = [task EXCEPT ![s] = Begun(New(a, n))] /\ stack' = <<g, h>> \o Tail(stack)
  <2>1. h \in Frames /\ h.do = "starting" /\ h.ev = Top.ev /\ h.at = s /\ h.cur = Top.cur /\ h.due = Top.due
    <3>1. "starting" \in Kernels \cup Nested /\ s \in Int /\ Top \in Frames
      BY <1>3, <1>6, Nodish DEF Kernels
    <3> QED BY <3>1, WithDoAtIs
  <2>2. g \in Frames /\ Aside(g)
    <3> DEFINE e == Enter("init", s)
    <3>1. e \in Frames /\ Aside(e)
      BY <1>6, AsideIs DEF AppFrames
    <3>2. calls \in Int
      BY <1>7, SeosAssumption
    <3>3. g = WithAt(e, calls)
      OBVIOUS
    <3> HIDE DEF e, g
    <3>4. g \in Frames /\ g.do = e.do /\ g.ev = e.ev /\ g.due = e.due
      BY <3>1, <3>2, <3>3, WithAtIs
    <3> QED BY <3>1, <3>4 DEF Aside
  <2> HIDE DEF g, h
  <2>3. stack' = PushTwo(g, h, stack)
    BY <1>12 DEF PushTwo
  <2>4. "host" \in Kernels /\ "starting" \in Kernels
    BY DEF Kernels
  <2>5. Turning("host", "starting", h)
    BY <1>3, <2>1, <2>2, <2>3, <2>4 DEF Turned, Turning
  <2> QED BY <1>1, <1>6, <1>9, <1>10, <1>12, <2>1, <2>5
<1> QED BY <1>2, <1>11, <1>12

-----------------------------------------------------------------------------
(* Frames of app code stand for no event.                                   *)

Odd == {f \in Frames : f.do \in AppFrames /\ ~Aside(f)}
Plain == Count(Odd, stack) = 0

\* The init of an app returned to the command that starts it, which f goes on with.
Landing(f) ==
  /\ Len(stack) >= 2 /\ stack # <<>> /\ stack[1] \in Frames /\ stack[1].do \in AppFrames
  /\ stack[2] \in Frames /\ stack[2].do = "starting"
  /\ f \in Frames /\ stack' = <<f>> \o SubSeq(stack, 3, Len(stack))
  /\ f.ev = stack[2].ev /\ f.cur = stack[2].cur /\ f.due = stack[2].due
  /\ f.do = "started" \/ (f.do = "failed" /\ "init" \in Faults)

\* What the main loop goes on with handles the event that it handled, as the
\* task it handled it as, the system or the task that it comes from.
Straight(f) ==
  /\ Turned(f) /\ f.cur \in {Top.cur, System, Top.ev.org.idx} /\ f.do \notin {"failed", "event"}
  /\ f.do = "ended" => Top.do \in {"event", "ended"}

\* What a step does to the stack.
StackStep ==
  \/ stack' = stack
  \/ \E f \in Frames : stack = <<>> /\ stack' = <<f>> /\ f.do \in {"walk", "event"}
  \/ \E f \in Frames : Straight(f)
  \/ stack # <<>> /\ stack' = Tail(stack)
  \/ \E f \in Frames : Landing(f)
  \/ \E g \in Frames : /\ stack # <<>> /\ stack[1] \in Frames /\ stack[1].do = "dropped"
                       /\ Aside(g) /\ stack' = <<g>> \o Tail(stack)
  \/ \E g \in Frames : Aside(g) /\ stack' = Push(g, stack)
  \/ \E g, h \in Frames : /\ Aside(g) /\ h.do = "dropped" /\ h.cur = System /\ h.ev.type = "private"
                          /\ stack' = Push(g, Push(h, stack))

LEMMA WalkWho ==
  ASSUME TaskInv, NEW e, e = Top.ev, Turned(Walk(e))
  PROVE  Walk(e).cur \in {System, e.org.idx} /\ Walk(e).do = "walk" /\ Walk(e) \in Frames
<1> DEFINE s == IF e.type = "user" THEN System ELSE e.org.idx
<1>1. e \in Events
  BY DEF Turned, Frames
<1>2. Walk(e).do = "walk" /\ Walk(e) \in Frames
  BY <1>1, WalkIs
<1>3. Walk(e).cur = s
  BY DEF Walk, Frame
<1> QED BY <1>2, <1>3

LEMMA StackDoes ==
  ASSUME TaskInv, [Next]_vars
  PROVE  StackStep
<1>1. CASE Kernel
  <2>1. CASE Dequeue
    <3>1. PICK f \in Frames : /\ stack = <<>> /\ stack' = <<f>> /\ queue[1] \in Events
                              /\ f = Walk(queue[1]) \/ f.do = "event"
      BY <2>1, DequeueDoes
    <3>2. f.do \in {"walk", "event"}
      BY <3>1, WalkIs
    <3> QED BY <3>1, <3>2 DEF StackStep
  <2>2. CASE ApplySubscribe \/ ApplyUnsubscribe
    <3>1. \E f \in Frames : Straight(f)
      BY <2>2, SubscribeDoes DEF Turning, Straight
    <3> QED BY <3>1 DEF StackStep
  <2>3. CASE Dispatch \/ EndTask
    <3>1. PICK f \in Frames :
            \/ f = Walk(Top.ev) /\ Turned(f)
            \/ Turning("event", "host", f) \/ Turning("event", "done", f) \/ Turning("event", "ended", f)
      BY <2>3, DispatchDoes, EndTaskDoes, WalkWho
    <3>2. f = Walk(Top.ev) /\ Turned(f) => f.cur \in {System, Top.ev.org.idx} /\ f.do = "walk"
      BY WalkWho
    <3> QED BY <3>1, <3>2 DEF StackStep, Straight, Turning
  <2>5. CASE Visit \/ Visited \/ Free
    <3>1. \E f \in Frames : Straight(f)
      BY <2>5, VisitDoes, VisitedDoes, FreeDoes DEF Turning, Straight
    <3> QED BY <3>1 DEF StackStep
  <2>4. CASE Finish \/ Dropped
    BY <2>4, FinishDoes, DroppedDoes DEF StackStep
  <2> QED BY <1>1, <2>1, <2>2, <2>3, <2>4, <2>5 DEF Kernel
<1>2. CASE App
  <2>1. CASE Abort \/ \E v \in Evts : Publish(v)
    BY <2>1, AbortDoes, PublishDoes DEF StackStep
  <2>2. CASE \E v \in Evts \cup {APP_STARTED, APP_STOPPED} : Subscribe(v) \/ Unsubscribe(v)
    <3>1. stack' = stack
      BY <2>2 DEF Subscribe, Unsubscribe
    <3> QED BY <3>1 DEF StackStep
  <2>3. CASE \E s \in Slots \ {System} : SendPrivate(s)
    <3>1. PICK to \in Slots \ {System} : SendPrivate(to)
      BY <2>3
    <3>2. PICK e \in Events, g \in Frames, h \in Frames : Mail(to, e, g, h)
      BY <3>1, SendPrivateDoes
    <3> QED BY <3>2 DEF StackStep, Mail
  <2>4. CASE AppReturn
    <3>1. CASE stack' = Tail(stack)
      BY <2>4, <3>1, AppReturnDoes DEF StackStep
    <3>2. CASE stack' # Tail(stack)
      <4>1. PICK f \in Frames : Landing(f)
        BY <2>4, <3>2, AppReturnDoes DEF Landing
      <4> QED BY <4>1 DEF StackStep
    <3> QED BY <3>1, <3>2
  <2> QED BY <1>2, <2>1, <2>2, <2>3, <2>4 DEF App
<1>3. CASE Host
  <2>1. CASE Started \/ Failed \/ Stopping \/ OtherWork
    <3>1. \E f \in Frames : Straight(f)
      BY <2>1, StartedDoes, FailedDoes, StoppingDoes, OtherWorkDoes DEF Turning, Straight
    <3> QED BY <3>1 DEF StackStep
  <2>2. CASE \E s \in Slots : StopApp(s)
    <3>1. \E f \in Frames : Straight(f)
      BY <2>2, StopAppDoes DEF Turning, Straight
    <3> QED BY <3>1 DEF StackStep
  <2>3. CASE \E a \in Apps : StartApp(a)
    <3>1. \E f \in Frames : Straight(f)
      BY <2>3, StartAppDoes DEF Turning, Straight
    <3> QED BY <3>1 DEF StackStep
  <2> QED BY <1>3, <2>1, <2>2, <2>3 DEF Host
<1>4. CASE Interrupt \/ UNCHANGED vars
  BY <1>4, InterruptDoes DEF StackStep, vars
<1> QED BY <1>1, <1>2, <1>3, <1>4 DEF Next, MainLoop

LEMMA Sizes ==
  ASSUME NEW X, NEW f
  PROVE  Weighs(X, f) \in {0, 1} /\ (Weighs(X, f) = 1 <=> f \in X)
BY DEF Weighs

\* What a step does to a count of frames that counts no app code: only what is
\* on top of the stack changes.
LEMMA StackCounts ==
  ASSUME stack \in Seq(Frames), stack' \in Seq(Frames), NEW Y, \A g \in Frames : Aside(g) => g \notin Y
  PROVE  /\ \A f \in Frames : stack' = <<f>> /\ stack = <<>> =>
              Count(Y, stack') = Weighs(Y, f) /\ Count(Y, stack) = 0
         /\ \A f \in Frames : Turned(f) => Count(Y, stack') = Count(Y, stack) - Weighs(Y, Top) + Weighs(Y, f)
         /\ stack # <<>> /\ stack' = Tail(stack) => Count(Y, stack') = Count(Y, stack) - Weighs(Y, stack[1])
         /\ \A f \in Frames : Landing(f) =>
              Count(Y, stack') = Count(Y, stack) - Weighs(Y, stack[1]) - Weighs(Y, stack[2]) + Weighs(Y, f)
         /\ \A g \in Frames : stack # <<>> /\ Aside(g) /\ stack' = <<g>> \o Tail(stack) =>
              Count(Y, stack') = Count(Y, stack) - Weighs(Y, stack[1])
         /\ \A g \in Frames : Aside(g) /\ stack' = Push(g, stack) => Count(Y, stack') = Count(Y, stack)
         /\ \A g, h \in Frames : Aside(g) /\ stack' = Push(g, Push(h, stack)) =>
              Count(Y, stack') = Count(Y, stack) + Weighs(Y, h)
<1>1. PICK st \in Seq(Frames) : st = stack
  OBVIOUS
<1>2. Count(Y, st) \in Nat /\ Count(Y, <<>>) = 0
  BY Counted, CountedNothing
<1>3. \A g \in Frames : Aside(g) => Weighs(Y, g) = 0
  BY DEF Weighs
<1>4. \A f \in Frames : Weighs(Y, f) \in Nat
  BY Sizes
<1>5. \A f \in Frames : stack' = <<f>> /\ stack = <<>> => Count(Y, stack') = Weighs(Y, f) /\ Count(Y, stack) = 0
  <2> SUFFICES ASSUME NEW f \in Frames, stack' = <<f>>, stack = <<>>
               PROVE  Count(Y, stack') = Weighs(Y, f) /\ Count(Y, stack) = 0
    OBVIOUS
  <2>1. Push(f, st) = <<f>>
    BY <1>1 DEF Push
  <2>2. Count(Y, Push(f, st)) = Weighs(Y, f) + Count(Y, st)
    BY CountedPush
  <2> QED BY <1>1, <1>2, <1>4, <2>1, <2>2
<1>6. \A f \in Frames : Turned(f) => Count(Y, stack') = Count(Y, stack) - Weighs(Y, Top) + Weighs(Y, f)
  BY TurnedCount
<1>7. stack # <<>> /\ stack' = Tail(stack) => Count(Y, stack') = Count(Y, stack) - Weighs(Y, stack[1])
  BY <1>1, CountedTail
<1>8. \A f \in Frames : Landing(f) =>
        Count(Y, stack') = Count(Y, stack) - Weighs(Y, stack[1]) - Weighs(Y, stack[2]) + Weighs(Y, f)
  BY CountedLanded DEF Landing
<1>9. \A g \in Frames : stack # <<>> /\ Aside(g) /\ stack' = <<g>> \o Tail(stack) =>
        Count(Y, stack') = Count(Y, stack) - Weighs(Y, stack[1])
  <2> SUFFICES ASSUME NEW g \in Frames, stack # <<>>, Aside(g), stack' = <<g>> \o Tail(stack)
               PROVE  Count(Y, stack') = Count(Y, stack) - Weighs(Y, stack[1])
    OBVIOUS
  <2>1. Count(Y, <<g>> \o Tail(st)) = Count(Y, st) - Weighs(Y, st[1]) + Weighs(Y, g)
    BY <1>1, CountedReplaced
  <2>2. Weighs(Y, st[1]) \in Nat
    BY Sizes
  <2> QED BY <1>1, <1>2, <1>3, <2>1, <2>2
<1>10. \A g \in Frames : Aside(g) /\ stack' = Push(g, stack) => Count(Y, stack') = Count(Y, stack)
  <2> SUFFICES ASSUME NEW g \in Frames, Aside(g), stack' = Push(g, stack)
               PROVE  Count(Y, stack') = Count(Y, stack)
    OBVIOUS
  <2>1. Count(Y, Push(g, st)) = Weighs(Y, g) + Count(Y, st)
    BY CountedPush
  <2> QED BY <1>1, <1>2, <1>3, <2>1
<1>11. \A g, h \in Frames : Aside(g) /\ stack' = Push(g, Push(h, stack)) =>
         Count(Y, stack') = Count(Y, stack) + Weighs(Y, h)
  <2> SUFFICES ASSUME NEW g \in Frames, NEW h \in Frames, Aside(g), stack' = Push(g, Push(h, stack))
               PROVE  Count(Y, stack') = Count(Y, stack) + Weighs(Y, h)
    OBVIOUS
  <2>1. PICK m \in Seq(Frames) : m = Push(h, st)
    <3>1. Push(h, st) \in Seq(Frames)
      BY Pushed
    <3> QED BY <3>1
  <2>2. Count(Y, Push(g, m)) = Weighs(Y, g) + Count(Y, m)
    BY CountedPush
  <2>3. Count(Y, Push(h, st)) = Weighs(Y, h) + Count(Y, st)
    BY CountedPush
  <2>4. Weighs(Y, h) \in Nat /\ Weighs(Y, g) = 0
    BY <1>3, <1>4
  <2> QED BY <1>1, <1>2, <2>1, <2>2, <2>3, <2>4
<1> QED BY <1>5, <1>6, <1>7, <1>8, <1>9, <1>10, <1>11

LEMMA TaskKinds == TaskInv => stack \in Seq(Frames) /\ queue \in Seq(Events) /\ task \in [Slots -> TaskRecords]
BY Opened

LEMMA TypedNext ==
  ASSUME TaskInv'
  PROVE  stack' \in Seq(Frames) /\ queue' \in Seq(Events) /\ task' \in [Slots -> TaskRecords]
<1>1. (TaskInv => stack \in Seq(Frames) /\ queue \in Seq(Events) /\ task \in [Slots -> TaskRecords])'
  BY TaskKinds, PTL
<1> QED BY <1>1

LEMMA PlainKept ==
  ASSUME TaskInv, TaskInv', Plain, [Next]_vars
  PROVE  Plain'
<1>1. stack \in Seq(Frames) /\ stack' \in Seq(Frames)
  BY TaskKinds, TypedNext
<1>2. \A g \in Frames : Aside(g) => g \notin Odd
  BY DEF Odd
<1>3. \A f \in Frames : f.do \notin AppFrames => Weighs(Odd, f) = 0
  BY DEF Odd, Weighs
<1>4. \A k \in {"walk", "event", "started", "failed", "dropped"} \cup Kernels : k \notin AppFrames
  BY DEF AppFrames, Kernels, Leaves
<1>5. Count(Odd, stack) = 0 /\ Count(Odd, stack') \in Nat
  BY <1>1, Counted DEF Plain
<1>6. \A x : Weighs(Odd, x) \in {0, 1}
  BY Sizes
<1>7. StackStep
  BY StackDoes
<1>8. Count(Odd, stack') = 0
  <2>1. CASE stack' = stack
    BY <1>5, <2>1
  <2>2. ASSUME NEW f \in Frames, stack = <<>>, stack' = <<f>>, f.do \in {"walk", "event"}
        PROVE  Count(Odd, stack') = 0
    <3>1. Weighs(Odd, f) = 0
      BY <1>3, <1>4, <2>2
    <3> QED BY <1>1, <1>2, <2>2, <3>1, StackCounts
  <2>3. ASSUME NEW f \in Frames, Turned(f) PROVE Count(Odd, stack') = 0
    <3>1. Weighs(Odd, f) = 0
      BY <1>3, <1>4, <2>3 DEF Turned
    <3>2. Count(Odd, stack') = Count(Odd, stack) - Weighs(Odd, Top) + Weighs(Odd, f)
      BY <1>1, <1>2, <2>3, StackCounts
    <3> QED BY <1>5, <1>6, <3>1, <3>2
  <2>4. CASE stack # <<>> /\ stack' = Tail(stack)
    <3>1. Count(Odd, stack') = Count(Odd, stack) - Weighs(Odd, stack[1])
      BY <1>1, <1>2, <2>4, StackCounts
    <3> QED BY <1>5, <1>6, <3>1
  <2>5. ASSUME NEW f \in Frames, Landing(f) PROVE Count(Odd, stack') = 0
    <3>1. Weighs(Odd, f) = 0
      BY <1>3, <1>4, <2>5 DEF Landing
    <3>2. Count(Odd, stack') = Count(Odd, stack) - Weighs(Odd, stack[1]) - Weighs(Odd, stack[2]) + Weighs(Odd, f)
      BY <1>1, <1>2, <2>5, StackCounts
    <3> QED BY <1>5, <1>6, <3>1, <3>2
  <2>6. ASSUME NEW g \in Frames, stack # <<>>, Aside(g), stack' = <<g>> \o Tail(stack)
        PROVE  Count(Odd, stack') = 0
    <3>2. Count(Odd, stack') = Count(Odd, stack) - Weighs(Odd, stack[1])
      BY <1>1, <1>2, <2>6, StackCounts
    <3> QED BY <1>5, <1>6, <3>2
  <2>7. ASSUME NEW g \in Frames, Aside(g), stack' = Push(g, stack)
        PROVE  Count(Odd, stack') = 0
    BY <1>1, <1>2, <1>5, <2>7, StackCounts
  <2>8. ASSUME NEW g \in Frames, NEW h \in Frames, Aside(g), h.do = "dropped", stack' = Push(g, Push(h, stack))
        PROVE  Count(Odd, stack') = 0
    <3>1. Weighs(Odd, h) = 0
      BY <1>3, <1>4, <2>8
    <3>2. Count(Odd, stack') = Count(Odd, stack) + Weighs(Odd, h)
      BY <1>1, <1>2, <2>8, StackCounts
    <3> QED BY <1>5, <3>1, <3>2
  <2> QED BY <1>7, <2>1, <2>2, <2>3, <2>4, <2>5, <2>6, <2>7, <2>8 DEF StackStep, Straight
<1> QED BY <1>8 DEF Plain

Whole == TaskInv /\ Plain

-----------------------------------------------------------------------------
(* Free callbacks.                                                          *)

Carried(i) == {e \in Events : e.id = i}
Carrying(i) == {f \in Frames : f.ev.id = i /\ f.do # "freed"}
Waiting(i, q, st) == Count(Carried(i), q) + Count(Carrying(i), st)
Refusals == {f \in Frames : f.do = "dropped"}

\* The i-th call has a callback that did not run yet exactly when one event with
\* it is under way; no message is left that the queue refused.
FreedOK(cb, q, st, c) ==
  /\ cb \in [1 .. MaxCalls -> {NO_CALLBACK, 0, 1}]
  /\ \A i \in 1 .. MaxCalls :
       /\ Waiting(i, q, st) = IF cb[i] = 0 THEN 1 ELSE 0
       /\ i > c => cb[i] = NO_CALLBACK
  /\ Count(Refusals, st) = 0
FreedInv == FreedOK(callbacks, queue, stack, calls)

LEMMA QueueCounts ==
  ASSUME queue \in Seq(Events), NEW X
  PROVE  /\ \A e \in Events : queue' = Put(queue, e) => Count(X, queue') = Count(X, queue) + Weighs(X, e)
         /\ \A e \in Events : queue' = Push(e, queue) => Count(X, queue') = Count(X, queue) + Weighs(X, e)
         /\ queue # <<>> /\ queue' = Tail(queue) => Count(X, queue') = Count(X, queue) - Weighs(X, queue[1])
<1>1. PICK q \in Seq(Events) : q = queue
  OBVIOUS
<1>2. Count(X, q) \in Nat /\ \A e : Weighs(X, e) \in {0, 1}
  BY Counted, Sizes
<1>3. \A e \in Events : Count(X, Put(q, e)) = Count(X, q) + Weighs(X, e)
  BY CountedPut
<1>4. \A e \in Events : Count(X, Push(e, q)) = Weighs(X, e) + Count(X, q)
  BY CountedPush
<1>5. q # <<>> => Count(X, Tail(q)) = Count(X, q) - Weighs(X, q[1])
  BY CountedTail
<1>6. \A e \in Events : Count(X, Push(e, q)) = Count(X, q) + Weighs(X, e)
  BY <1>2, <1>4
<1> QED BY <1>1, <1>3, <1>5, <1>6

LEMMA AppsCarryNothing ==
  ASSUME NEW i \in 1 .. MaxCalls
  PROVE  /\ \A g \in Frames : Aside(g) => g \notin Carrying(i)
         /\ \A g \in Frames : Aside(g) => g \notin Refusals
<1>1. Evt("none", SystemTid, NULL).id = 0 /\ i # 0
  BY SystemTidIs, EvtIs
<1> QED BY <1>1 DEF Aside, Carrying, Refusals, AppFrames

\* A step that posts at most an event without a callback, and goes on with what
\* is on top of the stack.
LEMMA NothingFreed ==
  ASSUME TaskInv, TaskInv',
         \/ queue' = queue
         \/ \E e \in Events : e.id = 0 /\ (queue' = Put(queue, e) \/ queue' = Push(e, queue)),
         \/ stack' = stack
         \/ \E f \in Frames : Turned(f) /\ f.do # "freed" /\ Top.do # "freed"
  PROVE  /\ \A i \in 1 .. MaxCalls : Waiting(i, queue', stack') = Waiting(i, queue, stack)
         /\ Count(Refusals, stack') = Count(Refusals, stack)
<1>1. stack \in Seq(Frames) /\ queue \in Seq(Events) /\ stack' \in Seq(Frames)
  BY TaskKinds, TypedNext
<1>2. ASSUME NEW i \in 1 .. MaxCalls
      PROVE  Count(Carried(i), queue') = Count(Carried(i), queue)
  <2>1. \A e \in Events : e.id = 0 => Weighs(Carried(i), e) = 0
    BY DEF Weighs, Carried
  <2>2. Count(Carried(i), queue) \in Nat
    BY <1>1, Counted
  <2>3. ASSUME NEW e \in Events, e.id = 0, queue' = Put(queue, e) \/ queue' = Push(e, queue)
        PROVE  Count(Carried(i), queue') = Count(Carried(i), queue)
    <3>1. Count(Carried(i), queue') = Count(Carried(i), queue) + Weighs(Carried(i), e)
      BY <1>1, <2>3, QueueCounts
    <3> QED BY <2>1, <2>2, <2>3, <3>1
  <2> QED BY <2>3
<1>3. \A Y, f : Weighs(Y, f) \in {0, 1}
  BY Sizes
<1>4. ASSUME NEW f \in Frames, Turned(f), f.do # "freed", Top.do # "freed", NEW i \in 1 .. MaxCalls
      PROVE  Count(Carrying(i), stack') = Count(Carrying(i), stack)
  <2>1. Weighs(Carrying(i), f) = Weighs(Carrying(i), Top)
    BY <1>4 DEF Weighs, Carrying, Turned
  <2>2. Count(Carrying(i), stack') = Count(Carrying(i), stack) - Weighs(Carrying(i), Top) + Weighs(Carrying(i), f)
    BY <1>1, <1>4, AppsCarryNothing, StackCounts
  <2>3. Count(Carrying(i), stack) \in Nat
    BY <1>1, Counted
  <2> QED BY <1>3, <2>1, <2>2, <2>3
<1>5. ASSUME NEW f \in Frames, Turned(f)
      PROVE  Count(Refusals, stack') = Count(Refusals, stack)
  <2>1. Weighs(Refusals, f) = 0 /\ Weighs(Refusals, Top) = 0
    <3>1. "dropped" \notin Kernels
      BY DEF Kernels, Leaves
    <3> QED BY <1>5, <3>1 DEF Weighs, Refusals, Turned
  <2>2. \A g \in Frames : Aside(g) => g \notin Refusals
    BY DEF Aside, Refusals, AppFrames
  <2>3. Count(Refusals, stack') = Count(Refusals, stack) - Weighs(Refusals, Top) + Weighs(Refusals, f)
    BY <1>1, <1>5, <2>2, StackCounts
  <2>4. Count(Refusals, stack) \in Nat
    BY <1>1, Counted
  <2> QED BY <2>1, <2>3, <2>4
<1>6. /\ \A i \in 1 .. MaxCalls : Count(Carrying(i), stack') = Count(Carrying(i), stack)
      /\ Count(Refusals, stack') = Count(Refusals, stack)
  BY <1>4, <1>5
<1> QED BY <1>2, <1>6 DEF Waiting

\* The steps that free nothing and take no event with a callback.
LEMMA QuietSteps ==
  ASSUME TaskInv,
         \/ ApplySubscribe \/ ApplyUnsubscribe \/ Dispatch \/ EndTask \/ Visit \/ Visited
         \/ \E v \in Values : Subscribe(v) \/ Unsubscribe(v)
         \/ Abort \/ Host \/ Interrupt \/ UNCHANGED vars
  PROVE  /\ callbacks' = callbacks
         /\ \/ queue' = queue
            \/ \E e \in Events : e.id = 0 /\ (queue' = Put(queue, e) \/ queue' = Push(e, queue))
         /\ \/ stack' = stack
            \/ \E f \in Frames : Turned(f) /\ f.do # "freed" /\ Top.do # "freed"
<1> DEFINE QuietQueue == \/ queue' = queue
                         \/ \E e \in Events : e.id = 0 /\ (queue' = Put(queue, e) \/ queue' = Push(e, queue))
           QuietStack == \/ stack' = stack
                         \/ \E f \in Frames : Turned(f) /\ f.do # "freed" /\ Top.do # "freed"
<1>1. CASE ApplySubscribe \/ ApplyUnsubscribe
  <2>1. callbacks' = callbacks
    BY <1>1 DEF ApplySubscribe, ApplyUnsubscribe
  <2> QED BY <1>1, <2>1, SubscribeDoes DEF Turning
<1>2. CASE Dispatch
  <2>1. callbacks' = callbacks /\ At("event")
    BY <1>2 DEF Dispatch, Event
  <2>2. Top.ev \in Events /\ Top.do = "event"
    BY <2>1, Going, Labelling
  <2>3. Walk(Top.ev).do = "walk"
    BY <2>2, WalkIs
  <2> QED BY <1>2, <2>1, <2>2, <2>3, DispatchDoes DEF Turning
<1>3. CASE EndTask
  <2>1. callbacks' = callbacks /\ At("ended")
    BY <1>3 DEF EndTask
  <2>2. Top.ev \in Events /\ Top.do = "ended"
    BY <2>1, Going, Labelling
  <2>3. Walk(Top.ev).do = "walk" /\ Walk(Top.ev) \in Frames
    BY <2>2, WalkIs
  <2> QED BY <1>3, <2>1, <2>2, <2>3, EndTaskDoes
<1>4. CASE Visit
  <2>1. callbacks' = callbacks
    BY <1>4 DEF Visit
  <2> QED BY <1>4, <2>1, VisitDoes DEF Turning
<1>5. CASE Visited
  <2>1. callbacks' = callbacks
    BY <1>5 DEF Visited
  <2> QED BY <1>5, <2>1, VisitedDoes DEF Turning
<1>6. ASSUME NEW v \in Values, NEW d \in {"sub", "unsub"}, NEW w, AppCall, Ask(d, v, w),
             callbacks' = callbacks, stack' = stack
      PROVE  QuietQueue /\ QuietStack
  BY <1>6, AskDoes DEF Sends
<1>7. CASE \E v \in Values : Subscribe(v) \/ Unsubscribe(v)
  BY <1>6, <1>7 DEF Subscribe, Unsubscribe
<1>8. CASE Abort
  BY <1>8, AbortDoes DEF Sends
<1>9. CASE Interrupt
  <2>1. callbacks' = callbacks
    BY <1>9 DEF Interrupt
  <2> QED BY <1>9, <2>1, InterruptDoes
<1>10. CASE UNCHANGED vars
  BY <1>10 DEF vars
<1>11. CASE Host
  <2>1. callbacks' = callbacks
    BY <1>11 DEF Host, StartApp, StopApp, Started, Failed, Stopping, OtherWork
  <2>2. CASE Started \/ Stopping
    BY <2>1, <2>2, StartedDoes, StoppingDoes DEF Turning, Sends
  <2>3. CASE Failed \/ OtherWork
    BY <2>1, <2>3, FailedDoes, OtherWorkDoes DEF Turning
  <2>4. ASSUME NEW s \in Slots, StopApp(s)
        PROVE  QuietQueue /\ QuietStack
    BY <2>4, StopAppDoes DEF Turning, Sends
  <2>5. ASSUME NEW a \in Apps, StartApp(a)
        PROVE  QuietQueue /\ QuietStack
    BY <2>5, StartAppDoes DEF Turning
  <2> QED BY <1>11, <2>1, <2>2, <2>3, <2>4, <2>5 DEF Host
<1> QED BY <1>1, <1>2, <1>3, <1>4, <1>5, <1>7, <1>8, <1>9, <1>10, <1>11

LEMMA CallsGrow ==
  ASSUME [Next]_vars
  PROVE  calls' = calls \/ calls' = calls + 1
<1>1. CASE Kernel
  BY <1>1 DEF Kernel, Dequeue, ApplySubscribe, ApplyUnsubscribe, Dispatch, EndTask, Visit, Visited, Free, Finish, Dropped
<1>2. CASE App
  BY <1>2 DEF App, AppCall, Publish, Subscribe, Unsubscribe, SendPrivate, Abort, AppReturn
<1>3. CASE Host
  BY <1>3 DEF Host, StartApp, StopApp, Started, Failed, Stopping, OtherWork
<1>4. CASE Interrupt \/ UNCHANGED vars
  BY <1>4 DEF Interrupt, vars
<1> QED BY <1>1, <1>2, <1>3, <1>4 DEF Next, MainLoop

LEMMA PlainTop ==
  ASSUME Whole, NEW i \in 1 .. Len(stack), stack[i].do \in AppFrames
  PROVE  Aside(stack[i])
<1>1. stack \in Seq(Frames)
  BY TaskKinds DEF Whole
<1>2. stack[i] \in Frames /\ stack[i] \notin Odd
  BY <1>1, CountedNone, Elements DEF Whole, Plain
<1> QED BY <1>2 DEF Odd

LEMMA FreedStays ==
  ASSUME FreedInv, calls \in Nat, calls' = calls \/ calls' = calls + 1, callbacks' = callbacks,
         \A i \in 1 .. MaxCalls : Waiting(i, queue', stack') = Waiting(i, queue, stack),
         Count(Refusals, stack') = 0
  PROVE  FreedInv'
<1>1. \A i \in 1 .. MaxCalls : i > calls' => i > calls
  BY SeosAssumption
<1>2. \A i \in 1 .. MaxCalls : callbacks'[i] = callbacks[i]
  OBVIOUS
<1>3. FreedOK(callbacks, queue, stack, calls)
  BY DEF FreedInv
<1>4. FreedOK(callbacks', queue', stack', calls')
  BY ONLY <1>1, <1>2, <1>3, callbacks' = callbacks, Count(Refusals, stack') = 0,
     \A i \in 1 .. MaxCalls : Waiting(i, queue', stack') = Waiting(i, queue, stack) DEF FreedOK
<1> QED BY <1>4 DEF FreedInv

LEMMA FreedAt ==
  ASSUME FreedInv, calls \in Nat, calls' = calls \/ calls' = calls + 1,
         NEW k \in 1 .. MaxCalls, k <= calls', NEW n \in {0, 1},
         callbacks' = [callbacks EXCEPT ![k] = n],
         Waiting(k, queue', stack') = 1 - n,
         \A i \in 1 .. MaxCalls : i # k => Waiting(i, queue', stack') = Waiting(i, queue, stack),
         Count(Refusals, stack') = 0
  PROVE  FreedInv'
<1>1. \A i \in 1 .. MaxCalls : i > calls' => i > calls /\ i # k
  BY SeosAssumption
<1>2. FreedOK(callbacks, queue, stack, calls)
  BY DEF FreedInv
<1>3. /\ callbacks' \in [1 .. MaxCalls -> {NO_CALLBACK, 0, 1}]
      /\ callbacks'[k] = n
      /\ \A i \in 1 .. MaxCalls : i # k => callbacks'[i] = callbacks[i]
  BY <1>2 DEF FreedOK
<1>4. ASSUME NEW i \in 1 .. MaxCalls
      PROVE  /\ Waiting(i, queue', stack') = IF callbacks'[i] = 0 THEN 1 ELSE 0
             /\ i > calls' => callbacks'[i] = NO_CALLBACK
  <2>1. CASE i = k
    BY <1>1, <1>3, <2>1
  <2>2. CASE i # k
    <3>1. Waiting(i, queue, stack) = IF callbacks[i] = 0 THEN 1 ELSE 0
      BY <1>2 DEF FreedOK
    <3>2. i > calls => callbacks[i] = NO_CALLBACK
      BY <1>2 DEF FreedOK
    <3> QED BY <1>1, <1>3, <2>2, <3>1, <3>2
  <2> QED BY <2>1, <2>2
<1> HIDE DEF Waiting
<1>5. FreedOK(callbacks', queue', stack', calls')
  BY <1>3, <1>4 DEF FreedOK
<1> QED BY <1>5 DEF FreedInv

LEMMA DequeueFrees ==
  ASSUME Whole, TaskInv', FreedInv, Dequeue
  PROVE  FreedInv'
<1>1. stack \in Seq(Frames) /\ queue \in Seq(Events) /\ stack' \in Seq(Frames)
  BY TaskKinds, TypedNext DEF Whole
<1>2. PICK f \in Frames :
        /\ stack' = <<f>> /\ f.ev = queue[1]
        /\ \/ f = Walk(queue[1]) /\ queue[1].type = "user"
           \/ /\ f.do = "event" /\ queue[1].type # "user"
              /\ f.cur = queue[1].org.idx /\ f.due = {}
  BY DequeueDoes DEF Whole
<1>3. stack = <<>> /\ queue # <<>> /\ queue' = Tail(queue) /\ queue[1] \in Events
  BY DequeueDoes DEF Whole
<1>4. f.do \in {"walk", "event"}
  <2>1. Walk(queue[1]).do = "walk"
    BY <1>3, WalkIs DEF Whole
  <2> QED BY <1>2, <2>1
<1>5. ASSUME NEW i \in 1 .. MaxCalls
      PROVE  Waiting(i, queue', stack') = Waiting(i, queue, stack)
  <2>1. Count(Carried(i), queue') = Count(Carried(i), queue) - Weighs(Carried(i), queue[1])
    BY <1>1, <1>3, QueueCounts
  <2>2. Count(Carrying(i), stack') = Weighs(Carrying(i), f) /\ Count(Carrying(i), stack) = 0
    BY <1>1, <1>2, <1>3, AppsCarryNothing, StackCounts
  <2>3. Weighs(Carrying(i), f) = Weighs(Carried(i), queue[1])
    BY <1>2, <1>3, <1>4 DEF Weighs, Carrying, Carried
  <2>4. Count(Carried(i), queue) \in Nat /\ Weighs(Carried(i), queue[1]) \in {0, 1}
    BY <1>1, Counted, Sizes
  <2> QED BY <2>1, <2>2, <2>3, <2>4 DEF Waiting
<1>6. Count(Refusals, stack') = 0
  <2>1. \A g \in Frames : Aside(g) => g \notin Refusals
    BY DEF Aside, Refusals, AppFrames
  <2>2. Count(Refusals, stack') = Weighs(Refusals, f)
    BY <1>1, <1>2, <1>3, <2>1, StackCounts
  <2> QED BY <1>4, <2>2 DEF Weighs, Refusals
<1>7. callbacks' = callbacks /\ calls' = calls /\ calls \in Nat
  BY Opened, SeosAssumption DEF Dequeue, Whole, Kinds
<1> QED BY <1>5, <1>6, <1>7, FreedStays

LEMMA FreeFrees ==
  ASSUME Whole, TaskInv', FreedInv, Free
  PROVE  FreedInv'
<1>1. stack \in Seq(Frames) /\ queue \in Seq(Events) /\ stack' \in Seq(Frames)
  BY TaskKinds, TypedNext DEF Whole
<1>2. PICK f \in Frames : Turning("done", "freed", f)
  BY FreeDoes DEF Whole
<1>3. queue' = queue /\ Turned(f) /\ Top.do = "done" /\ f.do = "freed" /\ Top \in Frames /\ f.ev = Top.ev
  BY <1>2, FreeDoes DEF Turning, Turned, Whole
<1>4. calls' = calls /\ calls \in 0 .. MaxCalls
  BY Opened DEF Free, Whole, Kinds
<1>5. ASSUME NEW i \in 1 .. MaxCalls
      PROVE  /\ Waiting(i, queue', stack') = Waiting(i, queue, stack) - (IF Top.ev.id = i THEN 1 ELSE 0)
             /\ Waiting(i, queue', stack') \in Nat
  <2>1. Count(Carrying(i), stack') = Count(Carrying(i), stack) - Weighs(Carrying(i), Top) + Weighs(Carrying(i), f)
    BY <1>1, <1>3, AppsCarryNothing, StackCounts
  <2>2. Weighs(Carrying(i), f) = 0 /\ Weighs(Carrying(i), Top) = IF Top.ev.id = i THEN 1 ELSE 0
    BY <1>3 DEF Weighs, Carrying
  <2>3. /\ Count(Carrying(i), stack) \in Nat /\ Count(Carrying(i), stack') \in Nat
        /\ Count(Carried(i), queue) \in Nat
    BY <1>1, Counted
  <2> QED BY <1>3, <2>1, <2>2, <2>3 DEF Waiting
<1>6. Count(Refusals, stack') = 0
  <2>1. \A g \in Frames : Aside(g) => g \notin Refusals
    BY DEF Aside, Refusals, AppFrames
  <2>2. Count(Refusals, stack') = Count(Refusals, stack) - Weighs(Refusals, Top) + Weighs(Refusals, f)
    BY <1>1, <1>3, <2>1, StackCounts
  <2>3. Weighs(Refusals, f) = 0 /\ Weighs(Refusals, Top) = 0
    BY <1>3 DEF Weighs, Refusals
  <2> QED BY <2>2, <2>3 DEF FreedInv, FreedOK
<1>7. ASSUME NEW i \in 1 .. MaxCalls
      PROVE  /\ Waiting(i, queue, stack) = IF callbacks[i] = 0 THEN 1 ELSE 0
             /\ i > calls => callbacks[i] = NO_CALLBACK
  BY DEF FreedInv, FreedOK
<1>8. CASE Top.ev.id = 0
  <2>1. callbacks' = callbacks
    BY <1>8, FreeDoes DEF Whole
  <2>2. \A i \in 1 .. MaxCalls : Waiting(i, queue', stack') = Waiting(i, queue, stack)
    BY <1>5, <1>7, <1>8
  <2> QED BY <1>4, <1>6, <2>1, <2>2, FreedStays
<1>9. CASE Top.ev.id # 0
  <2> DEFINE k == Top.ev.id
  <2>1. callbacks' = [callbacks EXCEPT ![k] = @ + 1]
    BY <1>9, FreeDoes DEF Whole
  <2>2. k \in 1 .. MaxCalls
    <3>1. Top.ev \in Events
      BY <1>3 DEF Frames
    <3>2. Top.ev.id \in 0 .. MaxCalls
      BY <3>1 DEF Events
    <3> QED BY <1>9, <3>2, SeosAssumption
  <2> HIDE DEF k
  <2>3. callbacks[k] = 0 /\ Waiting(k, queue', stack') = 0
    BY <1>5, <1>7, <2>2 DEF k
  <2>4. callbacks \in [1 .. MaxCalls -> {NO_CALLBACK, 0, 1}]
    BY DEF FreedInv, FreedOK
  <2>5. callbacks' = [callbacks EXCEPT ![k] = 1]
    BY <2>1, <2>2, <2>3, <2>4
  <2>6. k <= calls'
    BY <1>4, <1>7, <2>2, <2>3, SeosAssumption DEF NO_CALLBACK
  <2>7. \A i \in 1 .. MaxCalls : i # k => Waiting(i, queue', stack') = Waiting(i, queue, stack)
    BY <1>5, <1>7 DEF k
  <2>8. PICK n \in {0, 1} : n = 1
    OBVIOUS
  <2>9. callbacks' = [callbacks EXCEPT ![k] = n] /\ Waiting(k, queue', stack') = 1 - n
    BY <2>3, <2>5, <2>8
  <2>10. calls \in Nat
    BY <1>4, SeosAssumption
  <2> HIDE DEF FreedInv
  <2> QED BY ONLY <1>4, <1>6, <2>2, <2>10, FreedInv, <2>6, <2>7, <2>9, FreedAt
<1> QED BY <1>8, <1>9

LEMMA FinishFrees ==
  ASSUME Whole, TaskInv', FreedInv, Finish \/ AppReturn
  PROVE  FreedInv'
<1>1. stack \in Seq(Frames) /\ queue \in Seq(Events) /\ stack' \in Seq(Frames)
  BY TaskKinds, TypedNext DEF Whole
<1>2. queue' = queue /\ callbacks' = callbacks /\ calls' = calls /\ calls \in Nat
  BY Opened, SeosAssumption DEF Finish, AppReturn, Whole, Kinds
<1>3. \A i \in 1 .. MaxCalls : Count(Carrying(i), stack) \in Nat /\ Count(Carrying(i), stack') \in Nat
  BY <1>1, Counted
<1>4. Count(Refusals, stack) = 0 /\ Count(Refusals, stack') \in Nat
  BY <1>1, Counted DEF FreedInv, FreedOK
<1>5. \A X, f : Weighs(X, f) \in {0, 1}
  BY Sizes
<1>6. \A g \in Frames : Aside(g) => g \notin Refusals
  BY DEF Aside, Refusals, AppFrames
<1>7. CASE stack # <<>> /\ stack' = Tail(stack)
  <2>1. \A i \in 1 .. MaxCalls : stack[1] \notin Carrying(i)
    <3>1. CASE Finish
      BY <3>1, FinishDoes DEF Whole, Carrying
    <3>2. CASE AppReturn
      <4>1. stack[1].do \in AppFrames /\ stack[1] \in Frames /\ 1 \in 1 .. Len(stack)
        BY <1>1, <1>7, <3>2, AppReturnDoes, Elements DEF Whole
      <4>2. Aside(stack[1])
        BY <4>1, PlainTop
      <4> QED BY <4>1, <4>2, AppsCarryNothing
    <3> QED BY <3>1, <3>2
  <2>2. ASSUME NEW i \in 1 .. MaxCalls PROVE Waiting(i, queue', stack') = Waiting(i, queue, stack)
    <3>1. Count(Carrying(i), stack') = Count(Carrying(i), stack) - Weighs(Carrying(i), stack[1])
      BY <1>1, <1>7, AppsCarryNothing, StackCounts
    <3>2. Weighs(Carrying(i), stack[1]) = 0
      BY <2>1 DEF Weighs
    <3> QED BY <1>2, <1>3, <3>1, <3>2 DEF Waiting
  <2>3. Count(Refusals, stack') = Count(Refusals, stack) - Weighs(Refusals, stack[1])
    BY <1>1, <1>6, <1>7, StackCounts
  <2>4. Count(Refusals, stack') = 0
    BY <1>4, <1>5, <2>3
  <2> QED BY <1>2, <2>2, <2>4, FreedStays
<1>8. ASSUME NEW f \in Frames, Landing(f)
      PROVE  FreedInv'
  <2>1. 1 \in 1 .. Len(stack)
    BY <1>1, <1>8 DEF Landing
  <2>2. Aside(stack[1])
    BY <1>8, <2>1, PlainTop DEF Landing
  <2>3. ASSUME NEW i \in 1 .. MaxCalls PROVE Waiting(i, queue', stack') = Waiting(i, queue, stack)
    <3>1. Count(Carrying(i), stack') =
            Count(Carrying(i), stack) - Weighs(Carrying(i), stack[1]) - Weighs(Carrying(i), stack[2])
            + Weighs(Carrying(i), f)
      BY <1>1, <1>8, AppsCarryNothing, StackCounts
    <3>2. Weighs(Carrying(i), stack[1]) = 0
      BY <1>8, <2>2, AppsCarryNothing DEF Weighs, Landing
    <3>3. Weighs(Carrying(i), stack[2]) = Weighs(Carrying(i), f)
      BY <1>8 DEF Weighs, Landing, Carrying
    <3> QED BY <1>2, <1>3, <1>5, <3>1, <3>2, <3>3 DEF Waiting
  <2>4. Count(Refusals, stack') =
          Count(Refusals, stack) - Weighs(Refusals, stack[1]) - Weighs(Refusals, stack[2]) + Weighs(Refusals, f)
    BY <1>1, <1>6, <1>8, StackCounts
  <2>5. Weighs(Refusals, f) = 0
    BY <1>8 DEF Weighs, Refusals, Landing
  <2>6. Count(Refusals, stack') = 0
    BY <1>4, <1>5, <2>4, <2>5
  <2> QED BY <1>2, <2>3, <2>6, FreedStays
<1>9. CASE Finish
  BY <1>7, <1>9, FinishDoes DEF Whole
<1>10. CASE AppReturn
  <2>1. (stack # <<>> /\ stack' = Tail(stack)) \/ \E f \in Frames : Landing(f)
    BY <1>10, AppReturnDoes DEF Landing, Whole
  <2> QED BY <1>7, <1>8, <2>1
<1> QED BY <1>9, <1>10

\* An event with the callback of this call is posted.
LEMMA PostFrees ==
  ASSUME Whole, TaskInv', FreedInv, calls' = calls + 1, calls + 1 \in 1 .. MaxCalls, stack' = stack,
         NEW e \in Events, e.id = calls + 1, queue' = Put(queue, e),
         callbacks' = [callbacks EXCEPT ![calls + 1] = 0]
  PROVE  FreedInv'
<1>1. stack \in Seq(Frames) /\ queue \in Seq(Events) /\ calls \in Nat
  BY TaskKinds, Opened, SeosAssumption DEF Whole, Kinds
<1>2. ASSUME NEW i \in 1 .. MaxCalls
      PROVE  Waiting(i, queue', stack') = Waiting(i, queue, stack) + (IF i = calls + 1 THEN 1 ELSE 0)
  <2>1. Count(Carried(i), queue') = Count(Carried(i), queue) + Weighs(Carried(i), e)
    BY <1>1, QueueCounts
  <2>2. Weighs(Carried(i), e) = IF i = calls + 1 THEN 1 ELSE 0
    BY DEF Weighs, Carried
  <2>3. Count(Carried(i), queue) \in Nat /\ Count(Carrying(i), stack) \in Nat
    BY <1>1, Counted
  <2> QED BY <2>1, <2>2, <2>3 DEF Waiting
<1>3. Count(Refusals, stack') = 0
  BY DEF FreedInv, FreedOK
<1>4. PICK k \in 1 .. MaxCalls : k = calls + 1
  OBVIOUS
<1>5. Waiting(k, queue, stack) = 0 /\ \A i \in 1 .. MaxCalls : Waiting(i, queue, stack) \in Nat
  BY <1>1, <1>4, SeosAssumption DEF FreedInv, FreedOK, NO_CALLBACK
<1>6. PICK n \in {0, 1} : n = 0
  OBVIOUS
<1>7. /\ callbacks' = [callbacks EXCEPT ![k] = n] /\ k <= calls'
      /\ Waiting(k, queue', stack') = 1 - n
      /\ \A i \in 1 .. MaxCalls : i # k => Waiting(i, queue', stack') = Waiting(i, queue, stack)
  BY <1>2, <1>4, <1>5, <1>6
<1> HIDE DEF FreedInv
<1> QED BY ONLY <1>1, <1>3, <1>7, FreedInv, calls' = calls + 1, FreedAt

LEMMA PublishFrees ==
  ASSUME Whole, TaskInv', FreedInv, NEW v \in Evts, Publish(v)
  PROVE  FreedInv'
<1>1. /\ stack' = stack /\ calls' = calls + 1 /\ calls + 1 \in 1 .. MaxCalls
      /\ callbacks' = [callbacks EXCEPT ![calls + 1] = IF Accepted(Me) THEN 0 ELSE @]
  BY PublishDoes DEF Whole
<1>2. PICK e \in Events : Sends(task, Me, e) /\ e.type = "user" /\ e.org.idx = Me /\ e.id = calls + 1
  BY PublishDoes DEF Whole
<1>3. CASE Accepted(Me)
  BY <1>1, <1>2, <1>3, PostFrees DEF Sends
<1>4. CASE ~Accepted(Me)
  <2>1. queue' = queue /\ callbacks' = callbacks /\ calls \in Nat
    BY <1>1, <1>2, <1>4, Opened, SeosAssumption DEF Sends, FreedInv, FreedOK, Whole, Kinds
  <2>2. Count(Refusals, stack') = 0
    BY <1>1 DEF FreedInv, FreedOK
  <2> QED BY <1>1, <2>1, <2>2, FreedStays
<1> QED BY <1>3, <1>4

LEMMA SendFrees ==
  ASSUME Whole, TaskInv', FreedInv, Len(queue) < Capacity, NEW to \in Slots \ {System}, SendPrivate(to)
  PROVE  FreedInv'
<1>1. PICK e \in Events, g \in Frames, h \in Frames : Mail(to, e, g, h)
  BY SendPrivateDoes DEF Whole
<1>2. /\ calls' = calls + 1 /\ calls + 1 \in 1 .. MaxCalls
      /\ callbacks' = [callbacks EXCEPT ![calls + 1] = IF Refused THEN 1 ELSE 0]
  BY SendPrivateDoes DEF Whole
<1>3. Accepted(System)
  BY Opened DEF Accepted, Stopped, Whole, StatusOK, Halted
<1>4. CASE SlabLeft
  <2>1. ~Refused /\ queue' = Put(queue, e) /\ stack' = stack
    BY <1>1, <1>3, <1>4 DEF Mail, Refused
  <2>2. callbacks' = [callbacks EXCEPT ![calls + 1] = 0] /\ e.id = calls + 1
    BY <1>1, <1>2, <2>1 DEF Mail
  <2> QED BY <1>2, <2>1, <2>2, PostFrees
<1>5. CASE ~SlabLeft
  <2>1. Refused /\ queue' = queue /\ stack' = Push(g, stack) /\ Aside(g)
    BY <1>1, <1>5 DEF Mail
  <2>2. stack \in Seq(Frames) /\ queue \in Seq(Events) /\ stack' \in Seq(Frames) /\ calls \in Nat
    BY TaskKinds, TypedNext, Opened, SeosAssumption DEF Whole, Kinds
  <2>3. ASSUME NEW i \in 1 .. MaxCalls PROVE Waiting(i, queue', stack') = Waiting(i, queue, stack)
    <3>1. Count(Carrying(i), stack') = Count(Carrying(i), stack)
      BY <2>1, <2>2, AppsCarryNothing, StackCounts
    <3> QED BY <2>1, <3>1 DEF Waiting
  <2>4. Count(Refusals, stack') = 0
    <3>1. \A f \in Frames : Aside(f) => f \notin Refusals
      BY DEF Aside, Refusals, AppFrames
    <3>2. Count(Refusals, stack') = Count(Refusals, stack)
      BY <2>1, <2>2, <3>1, StackCounts
    <3> QED BY <3>2 DEF FreedInv, FreedOK
  <2>5. PICK k \in 1 .. MaxCalls : k = calls + 1
    BY <1>2
  <2>6. Waiting(k, queue, stack) = 0
    BY <2>2, <2>5, SeosAssumption DEF FreedInv, FreedOK, NO_CALLBACK
  <2>7. PICK n \in {0, 1} : n = 1
    OBVIOUS
  <2>8. /\ callbacks' = [callbacks EXCEPT ![k] = n] /\ k <= calls'
        /\ Waiting(k, queue', stack') = 1 - n
        /\ \A i \in 1 .. MaxCalls : i # k => Waiting(i, queue', stack') = Waiting(i, queue, stack)
    BY <1>2, <2>1, <2>2, <2>3, <2>5, <2>6, <2>7
  <2> HIDE DEF FreedInv
  <2> QED BY ONLY <1>2, <2>2, <2>4, <2>8, FreedInv, FreedAt
<1> QED BY <1>4, <1>5

LEMMA FreedKept ==
  ASSUME Whole, TaskInv', FreedInv, Len(queue) < Capacity, [Next]_vars
  PROVE  FreedInv'
<1>1. calls \in Nat /\ (calls' = calls \/ calls' = calls + 1)
  BY Opened, CallsGrow, SeosAssumption DEF Whole, Kinds
<1>2. ASSUME \/ ApplySubscribe \/ ApplyUnsubscribe \/ Dispatch \/ EndTask \/ Visit \/ Visited
             \/ \E v \in Values : Subscribe(v) \/ Unsubscribe(v)
             \/ Abort \/ Host \/ Interrupt \/ UNCHANGED vars
      PROVE  FreedInv'
  <2>1. /\ callbacks' = callbacks
        /\ \/ queue' = queue
           \/ \E e \in Events : e.id = 0 /\ (queue' = Put(queue, e) \/ queue' = Push(e, queue))
        /\ \/ stack' = stack
           \/ \E f \in Frames : Turned(f) /\ f.do # "freed" /\ Top.do # "freed"
    BY <1>2, QuietSteps DEF Whole
  <2>2. /\ \A i \in 1 .. MaxCalls : Waiting(i, queue', stack') = Waiting(i, queue, stack)
        /\ Count(Refusals, stack') = Count(Refusals, stack)
    BY <2>1, NothingFreed DEF Whole
  <2>3. Count(Refusals, stack') = 0
    BY <2>2 DEF Whole, FreedInv, FreedOK
  <2> QED BY <1>1, <2>1, <2>2, <2>3, FreedStays
<1>3. CASE Kernel
  <2>1. ~Dropped
    <3>1. SUFFICES ASSUME Dropped PROVE FALSE
      OBVIOUS
    <3>2. stack \in Seq(Frames) /\ stack # <<>> /\ stack[1].do = "dropped"
      BY <3>1, DroppedDoes, TaskKinds DEF Whole
    <3>3. 1 \in 1 .. Len(stack) /\ stack[1] \in Refusals
      BY <3>2, Elements DEF Refusals
    <3> QED BY <3>2, <3>3, CountedNone DEF FreedInv, FreedOK
  <2> QED BY <1>2, <1>3, <2>1, DequeueFrees, FreeFrees, FinishFrees DEF Kernel
<1>4. CASE App
  BY <1>2, <1>4, PublishFrees, SendFrees, FinishFrees DEF App, Values
<1> QED BY <1>2, <1>3, <1>4 DEF Next, MainLoop

\* At first the stack holds the commands of osStartTasks.
LEMMA BootFrames ==
  ASSUME Init, TaskInv
  PROVE  /\ stack \in Seq(Frames)
         /\ \A i \in 1 .. Len(stack) : /\ stack[i] = Command("boot") /\ stack[i].do = "host" /\ stack[i].cur = System
                                      /\ stack[i].due = {} /\ stack[i].ev.type = "boot" /\ stack[i].ev.id = 0
<1> DEFINE f == Command("boot")
<1>1. stack = [i \in 1 .. Cardinality(Apps) |-> f] /\ stack \in Seq(Frames)
  BY TaskKinds DEF Init
<1>2. f.do = "host" /\ f.ev.type = "boot" /\ f.ev.id = 0 /\ f.cur = System /\ f.due = {}
  BY DEF Command, Frame, Evt
<1> HIDE DEF f
<1>3. \A i \in 1 .. Len(stack) : i \in DOMAIN stack
  BY <1>1, Counted
<1>4. \A i \in 1 .. Len(stack) : stack[i] = f
  BY <1>1, <1>3
<1>5. \A i \in 1 .. Len(stack) : stack[i] = Command("boot")
  BY <1>4 DEF f
<1> QED BY <1>1, <1>2, <1>4, <1>5

LEMMA PlainAtFirst == Init /\ TaskInv => Plain
<1> SUFFICES ASSUME Init, TaskInv PROVE Plain
  OBVIOUS
<1>1. stack \in Seq(Frames)
  BY TaskKinds
<1>2. \A i \in 1 .. Len(stack) : stack[i].do = "host"
  BY BootFrames
<1>3. \A i \in 1 .. Len(stack) : stack[i] \notin Odd
  BY <1>2 DEF Odd, AppFrames
<1> QED BY <1>1, <1>3, CountedNone DEF Plain

LEMMA WholeAlways ==
  ASSUME Orderly
  PROVE  Spec => []Whole
<1>1. Spec => []TaskInv
  BY TaskInvAlways
<1>2. Init /\ TaskInv => Plain
  BY PlainAtFirst
<1>3. TaskInv /\ TaskInv' /\ Plain /\ [Next]_vars => Plain'
  BY PlainKept
<1> QED BY <1>1, <1>2, <1>3, PTL DEF Spec, Whole

LEMMA FreedAtFirst == Init /\ Whole => FreedInv
<1> SUFFICES ASSUME Init, Whole PROVE FreedInv
  OBVIOUS
<1>1. stack \in Seq(Frames) /\ queue = <<>>
  BY TaskKinds DEF Whole, Init
<1>2. \A i \in 1 .. Len(stack) : stack[i].do = "host" /\ stack[i].ev.id = 0
  BY BootFrames DEF Whole
<1>3. /\ \A i \in 1 .. Len(stack) : stack[i] \notin Refusals
      /\ \A j \in 1 .. MaxCalls : \A i \in 1 .. Len(stack) : stack[i] \notin Carrying(j)
  BY <1>2 DEF Refusals, Carrying
<1>4. Count(Refusals, stack) = 0 /\ \A j \in 1 .. MaxCalls : Count(Carrying(j), stack) = 0
  BY <1>1, <1>3, CountedNone
<1>5. \A j \in 1 .. MaxCalls : Count(Carried(j), queue) = 0
  BY <1>1, CountedNothing
<1>6. \A j \in 1 .. MaxCalls : Waiting(j, queue, stack) = 0
  BY <1>4, <1>5 DEF Waiting
<1>7. callbacks = [i \in 1 .. MaxCalls |-> NO_CALLBACK]
  BY DEF Init
<1> HIDE DEF Waiting
<1> QED BY <1>4, <1>6, <1>7 DEF FreedInv, FreedOK, NO_CALLBACK

LEMMA FreedWhenDone == TaskInv /\ FreedInv => FreedOnce
<1> SUFFICES ASSUME TaskInv, FreedInv PROVE FreedOnce
  OBVIOUS
<1> DEFINE waiting == {queue[i].id : i \in DOMAIN queue}
                      \cup {stack[i].ev.id : i \in {j \in DOMAIN stack : stack[j].do # "freed"}}
<1>1. stack \in Seq(Frames) /\ queue \in Seq(Events) /\ DOMAIN stack = 1 .. Len(stack) /\ DOMAIN queue = 1 .. Len(queue)
  BY TaskKinds, Counted
<1>2. ASSUME NEW i \in 1 .. MaxCalls
      PROVE  callbacks[i] \in {NO_CALLBACK, IF i \in waiting THEN 0 ELSE 1}
  <2>1. /\ callbacks[i] \in {NO_CALLBACK, 0, 1}
        /\ Waiting(i, queue, stack) = IF callbacks[i] = 0 THEN 1 ELSE 0
    BY DEF FreedInv, FreedOK
  <2>2. Count(Carried(i), queue) \in Nat /\ Count(Carrying(i), stack) \in Nat
    BY <1>1, Counted
  <2>3. /\ Count(Carried(i), queue) = 0 <=> \A j \in 1 .. Len(queue) : queue[j] \notin Carried(i)
        /\ Count(Carrying(i), stack) = 0 <=> \A j \in 1 .. Len(stack) : stack[j] \notin Carrying(i)
    BY <1>1, CountedNone
  <2>4. i \in waiting <=> \/ \E j \in 1 .. Len(queue) : queue[j] \in Carried(i)
                          \/ \E j \in 1 .. Len(stack) : stack[j] \in Carrying(i)
    <3>1. \A j \in 1 .. Len(queue) : queue[j] \in Carried(i) <=> queue[j].id = i
      BY <1>1, Elements DEF Carried
    <3>2. \A j \in 1 .. Len(stack) : stack[j] \in Carrying(i) <=> stack[j].ev.id = i /\ stack[j].do # "freed"
      BY <1>1, Elements DEF Carrying
    <3> QED BY <1>1, <3>1, <3>2
  <2>5. i \in waiting <=> Waiting(i, queue, stack) # 0
    BY <2>2, <2>3, <2>4 DEF Waiting
  <2> QED BY <2>1, <2>5
<1> QED BY <1>2 DEF FreedOnce

\* The free callback of an event runs once, when the event is done with or at
\* once when it was not taken (inc/chre/event.h:376), as long as the queue is never full:
\* for a message the queue refused it runs twice.
THEOREM FreedJustOnce ==
  ASSUME Faults \subseteq {"load", "init", "abort"}
  PROVE  Spec /\ [](Len(queue) < Capacity) => []FreedOnce
<1>1. Spec => []Whole
  BY WholeAlways DEF Orderly
<1>2. Init /\ Whole => FreedInv
  BY FreedAtFirst
<1>3. Whole /\ Whole' /\ FreedInv /\ Len(queue) < Capacity /\ [Next]_vars => FreedInv'
  BY FreedKept DEF Whole
<1>4. Whole /\ FreedInv => FreedOnce
  BY FreedWhenDone DEF Whole
<1> QED BY <1>1, <1>2, <1>3, <1>4, PTL DEF Spec

-----------------------------------------------------------------------------
(* A count of events, in the queue and on the stack.                        *)

Tally(X, Y, q, st) == Count(X, q) + Count(Y, st)

\* What the steps of the machine do to such a count.
Posting(e) == queue' = Put(queue, e) \/ queue' = Push(e, queue)
Settled(m, X) == \/ queue' = queue /\ m = 0
                 \/ \E e \in Events : Posting(e) /\ m = Weighs(X, e)

LEMMA Tallied ==
  ASSUME TaskInv, TaskInv', NEW X, NEW Y, \A g \in Frames : Aside(g) => g \notin Y
  PROVE  /\ Tally(X, Y, queue, stack) \in Nat
         /\ \A m : Settled(m, X) /\ stack' = stack => Tally(X, Y, queue', stack') = Tally(X, Y, queue, stack) + m
         /\ \A m, f : Settled(m, X) /\ Turned(f) =>
              Tally(X, Y, queue', stack') = Tally(X, Y, queue, stack) + m - Weighs(Y, Top) + Weighs(Y, f)
         /\ \A f \in Frames : queue # <<>> /\ queue' = Tail(queue) /\ stack = <<>> /\ stack' = <<f>> =>
              Tally(X, Y, queue', stack') = Tally(X, Y, queue, stack) - Weighs(X, queue[1]) + Weighs(Y, f)
         /\ queue' = queue /\ stack # <<>> /\ stack' = Tail(stack) =>
              Tally(X, Y, queue', stack') = Tally(X, Y, queue, stack) - Weighs(Y, stack[1])
         /\ \A f \in Frames : queue' = queue /\ Landing(f) =>
              Tally(X, Y, queue', stack') =
                Tally(X, Y, queue, stack) - Weighs(Y, stack[1]) - Weighs(Y, stack[2]) + Weighs(Y, f)
         /\ \A g \in Frames : queue' = queue /\ stack # <<>> /\ Aside(g) /\ stack' = <<g>> \o Tail(stack) =>
              Tally(X, Y, queue', stack') = Tally(X, Y, queue, stack) - Weighs(Y, stack[1])
         /\ \A g \in Frames : queue' = queue /\ Aside(g) /\ stack' = Push(g, stack) =>
              Tally(X, Y, queue', stack') = Tally(X, Y, queue, stack)
         /\ \A g, h \in Frames : queue' = queue /\ Aside(g) /\ stack' = Push(g, Push(h, stack)) =>
              Tally(X, Y, queue', stack') = Tally(X, Y, queue, stack) + Weighs(Y, h)
<1>1. stack \in Seq(Frames) /\ queue \in Seq(Events) /\ stack' \in Seq(Frames)
  BY TaskKinds, TypedNext
<1>2. Count(X, queue) \in Nat /\ Count(Y, stack) \in Nat
  BY <1>1, Counted
<1>3. \A Z, f : Weighs(Z, f) \in Nat
  BY Sizes
<1>4. ASSUME NEW m, Settled(m, X)
      PROVE  Count(X, queue') = Count(X, queue) + m /\ m \in Nat
  <2>1. CASE queue' = queue /\ m = 0
    BY <1>2, <2>1
  <2>2. ASSUME NEW e \in Events, Posting(e), m = Weighs(X, e)
        PROVE  Count(X, queue') = Count(X, queue) + m /\ m \in Nat
    <3>1. Count(X, queue') = Count(X, queue) + Weighs(X, e)
      BY <1>1, <2>2, QueueCounts DEF Posting
    <3> QED BY <1>3, <2>2, <3>1
  <2> QED BY <1>4, <2>1, <2>2 DEF Settled
<1>5. \A f : Turned(f) => f \in Frames /\ Count(Y, stack') = Count(Y, stack) - Weighs(Y, Top) + Weighs(Y, f)
  BY <1>1, StackCounts DEF Turned
<1>6. Tally(X, Y, queue, stack) \in Nat
  BY <1>2 DEF Tally
<1>7. \A m : Settled(m, X) /\ stack' = stack => Tally(X, Y, queue', stack') = Tally(X, Y, queue, stack) + m
  BY <1>2, <1>4 DEF Tally
<1>8. \A m, f : Settled(m, X) /\ Turned(f) =>
        Tally(X, Y, queue', stack') = Tally(X, Y, queue, stack) + m - Weighs(Y, Top) + Weighs(Y, f)
  BY <1>2, <1>3, <1>4, <1>5 DEF Tally
<1>9. ASSUME NEW f \in Frames, queue # <<>>, queue' = Tail(queue), stack = <<>>, stack' = <<f>>
      PROVE  Tally(X, Y, queue', stack') = Tally(X, Y, queue, stack) - Weighs(X, queue[1]) + Weighs(Y, f)
  <2>1. Count(X, queue') = Count(X, queue) - Weighs(X, queue[1])
    BY <1>1, <1>9, QueueCounts
  <2>2. Count(Y, stack') = Weighs(Y, f) /\ Count(Y, stack) = 0
    BY <1>1, <1>9, StackCounts
  <2> QED BY <1>2, <1>3, <2>1, <2>2 DEF Tally
<1>10. queue' = queue /\ stack # <<>> /\ stack' = Tail(stack) =>
         Tally(X, Y, queue', stack') = Tally(X, Y, queue, stack) - Weighs(Y, stack[1])
  <2>1. stack # <<>> /\ stack' = Tail(stack) => Count(Y, stack') = Count(Y, stack) - Weighs(Y, stack[1])
    BY <1>1, StackCounts
  <2> QED BY <1>2, <1>3, <2>1 DEF Tally
<1>11. \A f \in Frames : queue' = queue /\ Landing(f) =>
         Tally(X, Y, queue', stack') =
           Tally(X, Y, queue, stack) - Weighs(Y, stack[1]) - Weighs(Y, stack[2]) + Weighs(Y, f)
  <2>1. \A f \in Frames : Landing(f) =>
          Count(Y, stack') = Count(Y, stack) - Weighs(Y, stack[1]) - Weighs(Y, stack[2]) + Weighs(Y, f)
    BY <1>1, StackCounts
  <2> QED BY <1>2, <1>3, <2>1 DEF Tally
<1>12. ASSUME NEW g \in Frames, queue' = queue, stack # <<>>, Aside(g), stack' = <<g>> \o Tail(stack)
       PROVE  Tally(X, Y, queue', stack') = Tally(X, Y, queue, stack) - Weighs(Y, stack[1])
  <2>1. Count(Y, stack') = Count(Y, stack) - Weighs(Y, stack[1])
    BY <1>1, <1>12, StackCounts
  <2> QED BY <1>2, <1>3, <1>12, <2>1 DEF Tally
<1>13. \A g \in Frames : queue' = queue /\ Aside(g) /\ stack' = Push(g, stack) =>
         Tally(X, Y, queue', stack') = Tally(X, Y, queue, stack)
  <2>1. \A g \in Frames : Aside(g) /\ stack' = Push(g, stack) => Count(Y, stack') = Count(Y, stack)
    BY <1>1, StackCounts
  <2> QED BY <2>1 DEF Tally
<1>14. \A g, h \in Frames : queue' = queue /\ Aside(g) /\ stack' = Push(g, Push(h, stack)) =>
         Tally(X, Y, queue', stack') = Tally(X, Y, queue, stack) + Weighs(Y, h)
  <2>1. \A g, h \in Frames : Aside(g) /\ stack' = Push(g, Push(h, stack)) =>
          Count(Y, stack') = Count(Y, stack) + Weighs(Y, h)
    BY <1>1, StackCounts
  <2> QED BY <1>2, <1>3, <2>1 DEF Tally
<1> QED BY <1>6, <1>7, <1>8, <1>9, <1>10, <1>11, <1>12, <1>13, <1>14

LEMMA TalliedTurned ==
  ASSUME TaskInv, TaskInv', NEW X, NEW Y, \A g \in Frames : Aside(g) => g \notin Y,
         NEW m, Settled(m, X), NEW f, Turned(f)
  PROVE  /\ Tally(X, Y, queue', stack') = Tally(X, Y, queue, stack) + m - Weighs(Y, Top) + Weighs(Y, f)
         /\ Tally(X, Y, queue, stack) \in Nat /\ Weighs(Y, Top) \in {0, 1} /\ Weighs(Y, f) \in {0, 1}
<1>1. \A k, g : Settled(k, X) /\ Turned(g) =>
        Tally(X, Y, queue', stack') = Tally(X, Y, queue, stack) + k - Weighs(Y, Top) + Weighs(Y, g)
  BY Tallied
<1>2. Tally(X, Y, queue', stack') = Tally(X, Y, queue, stack) + m - Weighs(Y, Top) + Weighs(Y, f)
  BY ONLY <1>1, Settled(m, X), Turned(f)
<1> QED BY <1>2, Tallied, Sizes

-----------------------------------------------------------------------------
(* The ends of tasks.                                                       *)

Ends(s) == {e \in Events : EndOf(e, s)}
Ending(s) == {f \in Frames : \/ f.do \in {"event", "ended"} /\ EndOf(f.ev, s)
                             \/ f.do = "stopping" /\ f.at = s}
EndsUnder(q, st, s) == Tally(Ends(s), Ending(s), q, st)
SlotOK(t, q, st) ==
  \A s \in Slots \ {System} : EndsUnder(q, st, s) = IF Halted(t, s) THEN 1 ELSE 0
SlotInv == SlotOK(task, queue, stack)

SameHalts == \A s \in Slots : Halted(task', s) <=> Halted(task, s)
Steady(f) == /\ Turned(f) /\ Top.do # "stopping" /\ f.do # "stopping"
             /\ Top.ev.type = "end" => (Top.do \in {"event", "ended"} <=> f.do \in {"event", "ended"})
EndlessQueue == queue' = queue \/ \E e \in Events : Posting(e) /\ e.type # "end"

LEMMA AppsEndNothing ==
  ASSUME NEW s
  PROVE  \A f \in Frames : f.do \notin {"event", "ended", "stopping"} => f \notin Ending(s) /\ Weighs(Ending(s), f) = 0
BY DEF Ending, Weighs

LEMMA AsideEndsNothing ==
  ASSUME NEW s
  PROVE  \A g \in Frames : Aside(g) => g \notin Ending(s)
BY AppsEndNothing DEF Aside, AppFrames

LEMMA SlotStays ==
  ASSUME SlotInv, SameHalts,
         \A s \in Slots \ {System} : EndsUnder(queue', stack', s) = EndsUnder(queue, stack, s)
  PROVE  SlotInv'
<1>1. SlotOK(task', queue', stack')
  BY DEF SlotInv, SlotOK, SameHalts
<1> QED BY <1>1 DEF SlotInv

LEMMA SteadyEnds ==
  ASSUME TaskInv, TaskInv', SlotInv, SameHalts, EndlessQueue, stack' = stack \/ \E f \in Frames : Steady(f)
  PROVE  SlotInv'
<1>1. ASSUME NEW s \in Slots \ {System}
      PROVE  EndsUnder(queue', stack', s) = EndsUnder(queue, stack, s)
  <2>1. Settled(0, Ends(s))
    <3>1. \A e \in Events : e.type # "end" => Weighs(Ends(s), e) = 0
      BY DEF Weighs, Ends, EndOf
    <3> QED BY <3>1 DEF Settled, EndlessQueue
  <2>2. EndsUnder(queue, stack, s) \in Nat
    BY Tallied, AsideEndsNothing DEF EndsUnder
  <2>3. CASE stack' = stack
    <3>1. EndsUnder(queue', stack', s) = EndsUnder(queue, stack, s) + 0
      BY <2>1, <2>3, Tallied, AsideEndsNothing DEF EndsUnder
    <3> QED BY <2>2, <3>1
  <2>4. ASSUME NEW f \in Frames, Steady(f)
        PROVE  EndsUnder(queue', stack', s) = EndsUnder(queue, stack, s)
    <3>1. Turned(f)
      BY <2>4 DEF Steady
    <3>2. EndsUnder(queue', stack', s) =
            EndsUnder(queue, stack, s) + 0 - Weighs(Ending(s), Top) + Weighs(Ending(s), f)
      BY <2>1, <3>1, TalliedTurned, AsideEndsNothing DEF EndsUnder
    <3>3. Weighs(Ending(s), Top) = Weighs(Ending(s), f)
      BY <2>4 DEF Steady, Turned, Weighs, Ending, EndOf
    <3>4. Weighs(Ending(s), f) \in {0, 1}
      BY Sizes
    <3> QED BY <2>2, <3>2, <3>3, <3>4
  <2> QED BY <2>3, <2>4
<1> QED BY <1>1, SlotStays

LEMMA StatusHalts == SameStatus(task, task') => SameHalts
BY DEF SameStatus, SameHalts

LEMMA SendsHalts ==
  ASSUME TaskInv, NEW c \in Slots, NEW e \in Events, Sends(task, c, e)
  PROVE  SameHalts /\ (queue' = queue \/ Posting(e))
<1>1. task \in [Slots -> TaskRecords]
  BY TaskKinds
<1>2. SameStatus(task, Charge(task, c, 1))
  BY <1>1, Charged
<1>3. task' = Charge(task, c, 1) \/ task' = task
  BY DEF Sends
<1>4. SameHalts
  BY <1>2, <1>3, StatusHalts DEF SameHalts
<1> QED BY <1>4 DEF Sends, Posting

\* What a step that neither posts nor handles the end of a task does.
Endless == SameHalts /\ EndlessQueue /\ (stack' = stack \/ \E f \in Frames : Steady(f))

LEMMA AddedHalts ==
  ASSUME TaskInv, NEW s \in Slots, NEW v \in Values, NEW b \in BOOLEAN,
         task' = Added(s, v, b) \/ task' = [task EXCEPT ![s].subs = @ \ {v}]
  PROVE  SameHalts
<1>1. task \in [Slots -> TaskRecords]
  BY TaskKinds
<1>2. \A x \in Slots : task'[x].flags = task[x].flags
  BY <1>1 DEF Added, TaskRecords
<1> QED BY <1>2 DEF SameHalts, Halted

LEMMA TurningSteady ==
  ASSUME TaskInv, NEW d, NEW k, NEW f \in Frames, Turning(d, k, f), d # "stopping", k # "stopping",
         Top.ev.type = "end" => (d \in {"event", "ended"} <=> k \in {"event", "ended"})
  PROVE  Steady(f)
BY DEF Turning, Steady

LEMMA KernelEndless ==
  ASSUME TaskInv, ApplySubscribe \/ ApplyUnsubscribe \/ Dispatch \/ Visit \/ Visited \/ Free
  PROVE  Endless
<1>1. \A d, k, f : Turning(d, k, f) => Turned(f) /\ Top.do = d /\ f.do = k
  BY DEF Turning
<1>2. CASE ApplySubscribe \/ ApplyUnsubscribe
  <2>1. Event("sub") \/ Event("unsub")
    BY <1>2 DEF ApplySubscribe, ApplyUnsubscribe
  <2>2. At("event")
    BY <2>1 DEF Event
  <2>3. Top.ev.to.idx \in Slots /\ Loose(Top.ev) /\ Top.ev \in Events
    BY <2>2, Going, Labelling
  <2>4. SameHalts
    <3>1. task \in [Slots -> TaskRecords]
      BY TaskKinds
    <3>2. CASE ApplySubscribe
      <4>1. Event("sub") /\ \E b \in BOOLEAN : task' = Added(Top.ev.to.idx, Top.ev.evt, b)
        BY <3>2 DEF ApplySubscribe
      <4>2. Top.ev.evt \in Values
        BY <2>3, <4>1 DEF Event, Loose
      <4> QED BY <2>3, <4>1, <4>2, AddedHalts
    <3>3. CASE ApplyUnsubscribe
      <4>1. task' = [task EXCEPT ![Top.ev.to.idx].subs = @ \ {Top.ev.evt}]
        BY <3>3 DEF ApplyUnsubscribe
      <4>2. \A x \in Slots : task'[x].flags = task[x].flags
        BY <2>3, <3>1, <4>1 DEF TaskRecords
      <4> QED BY <4>2 DEF SameHalts, Halted
    <3> QED BY <1>2, <3>2, <3>3
  <2>5. PICK f \in Frames : Turning("event", "done", f)
    BY <1>2, SubscribeDoes
  <2>6. Top.ev.type \in {"sub", "unsub"} /\ queue' = queue
    BY <1>2, SubscribeDoes
  <2>7. Steady(f)
    BY <2>5, <2>6, TurningSteady
  <2> QED BY <2>4, <2>6, <2>7 DEF Endless, EndlessQueue
<1>3. ASSUME task' = task PROVE SameHalts
  BY <1>3 DEF SameHalts
<1>4. CASE Dispatch
  <2>1. queue' = queue /\ task' = task
    BY <1>4, DispatchDoes
  <2>2. PICK f \in Frames :
          \/ Top.ev.type = "begin" /\ Turned(f) /\ Top.do = "event" /\ f = Walk(Top.ev)
          \/ Top.ev.type = "defer" /\ Turning("event", "host", f)
          \/ Top.ev.type = "private" /\ Turning("event", "done", f)
          \/ Top.ev.type = "end" /\ Turning("event", "ended", f)
    BY <1>4, DispatchDoes
  <2>3. Top.ev.type = "begin" /\ Turned(f) /\ Top.do = "event" /\ f = Walk(Top.ev) => Steady(f)
    <3>1. SUFFICES ASSUME Top.ev.type = "begin", Turned(f), Top.do = "event", f = Walk(Top.ev)
                   PROVE  Steady(f)
      OBVIOUS
    <3>2. At("event")
      BY <1>4 DEF Dispatch, Event
    <3>3. Top.ev \in Events
      BY <3>2, Going, Labelling
    <3>4. f.do = "walk"
      BY <3>1, <3>3, WalkIs
    <3> QED BY <3>1, <3>4 DEF Steady
  <2>4. Steady(f)
    BY <2>2, <2>3, TurningSteady
  <2> QED BY <1>3, <2>1, <2>4 DEF Endless, EndlessQueue
<1>5. CASE Visit
  <2>1. queue' = queue /\ task' = task
    BY <1>5, VisitDoes
  <2>2. \E f \in Frames : Turned(f) /\ Top.do = "walk" /\ f.do \in {"done", "visited", "walk"}
    BY <1>5, <1>1, VisitDoes
  <2> QED BY <1>3, <2>1, <2>2 DEF Endless, EndlessQueue, Steady
<1>6. CASE Visited \/ Free
  <2>1. queue' = queue /\ task' = task
    BY <1>6, VisitedDoes, FreeDoes
  <2>2. \E f \in Frames : Turned(f) /\ Top.do \in {"visited", "done"} /\ f.do \in {"walk", "freed"}
    BY <1>6, <1>1, VisitedDoes, FreeDoes
  <2> QED BY <1>3, <2>1, <2>2 DEF Endless, EndlessQueue, Steady
<1> QED BY <1>2, <1>4, <1>5, <1>6

LEMMA AppEndless ==
  ASSUME TaskInv,
         \/ \E v \in Evts : Publish(v)
         \/ \E v \in Values : Subscribe(v) \/ Unsubscribe(v)
         \/ Interrupt \/ UNCHANGED vars
  PROVE  Endless
<1>1. CASE \E v \in Evts : Publish(v)
  <2>1. PICK v \in Evts : Publish(v)
    BY <1>1
  <2>2. stack' = stack /\ Me \in Slots
    BY <2>1, PublishDoes
  <2>3. PICK e \in Events : Sends(task, Me, e) /\ e.type = "user" /\ e.org.idx = Me /\ e.id = calls + 1
    BY <2>1, PublishDoes
  <2> QED BY <2>2, <2>3, SendsHalts DEF Endless, EndlessQueue
<1>2. ASSUME NEW v \in Values, NEW d \in {"sub", "unsub"}, NEW w, AppCall, Ask(d, v, w), stack' = stack
      PROVE  Endless
  <2>1. Me \in Slots
    BY <1>2, AskDoes
  <2>2. CASE UNCHANGED <<queue, task, wanted>>
    BY <1>2, <2>2 DEF Endless, EndlessQueue, SameHalts
  <2>3. ASSUME NEW e \in Events, Sends(task, Me, e), e.type = d
        PROVE  Endless
    BY <1>2, <2>1, <2>3, SendsHalts DEF Endless, EndlessQueue
  <2>4. (\E e \in Events : Sends(task, Me, e) /\ e.type = d) \/ UNCHANGED <<queue, task, wanted>>
    BY <1>2, AskDoes
  <2> QED BY <2>2, <2>3, <2>4
<1>3. CASE \E v \in Values : Subscribe(v) \/ Unsubscribe(v)
  BY <1>2, <1>3 DEF Subscribe, Unsubscribe
<1>4. CASE Interrupt
  <2>1. stack' = stack /\ Current \in Slots
    BY <1>4, InterruptDoes
  <2>2. \/ queue' = queue /\ task' = task
        \/ task' = Charge(task, Current, 1) /\ \E e \in Events : queue' = Push(e, queue) /\ e.type = "defer"
    BY <1>4, InterruptDoes
  <2>3. SameHalts
    <3>1. SameStatus(task, Charge(task, Current, 1))
      BY <2>1, TaskKinds, Charged
    <3> QED BY <2>2, <3>1, StatusHalts DEF SameHalts
  <2>4. EndlessQueue
    BY <2>2 DEF EndlessQueue, Posting
  <2> QED BY <2>1, <2>3, <2>4 DEF Endless
<1>5. CASE UNCHANGED vars
  BY <1>5 DEF vars, Endless, EndlessQueue, SameHalts
<1> QED BY <1>1, <1>3, <1>4, <1>5

LEMMA HostEndless ==
  ASSUME TaskInv, (\E a \in Apps : StartApp(a)) \/ Started \/ Failed \/ OtherWork
  PROVE  Endless
<1>1. \A d, k, f : Turning(d, k, f) => Turned(f) /\ Top.do = d /\ f.do = k
  BY DEF Turning
<1>2. task \in [Slots -> TaskRecords]
  BY TaskKinds
<1>3. CASE \E a \in Apps : StartApp(a)
  <2>1. PICK a \in Apps : StartApp(a)
    BY <1>3
  <2>2. PICK s \in Spare, n \in 0 .. Counter - 1 :
           /\ s \in Slots /\ s # System /\ queue' = queue
           /\ New(a, n) \in TaskRecords /\ Begun(New(a, n)) \in TaskRecords
           /\ \/ /\ task' = [task EXCEPT ![s] = New(a, n)]
                 /\ \E f \in Frames : Turning("host", "done", f)
              \/ /\ task' = [task EXCEPT ![s] = Begun(New(a, n))]
                 /\ \E f \in Frames : Turning("host", "starting", f) /\ f.at = s
    BY <2>1, StartAppDoes
  <2>3. New(a, n).flags = {} /\ Begun(New(a, n)).flags = {}
    BY ClearedIs
  <2>4. ~Halted(task, s)
    BY <2>2, StatusHolds DEF StatusOK
  <2>5. SameHalts
    BY <1>2, <2>2, <2>3, <2>4 DEF SameHalts, Halted
  <2>6. \E f \in Frames : Turned(f) /\ Top.do = "host" /\ f.do \in {"done", "starting"}
    BY <1>1, <2>2
  <2> QED BY <2>2, <2>5, <2>6 DEF Endless, EndlessQueue, Steady
<1>4. CASE Started
  <2>1. PICK e \in Events : /\ Sends(task, Current, e) /\ e.type = "begin" /\ e.org.idx = Current
                            /\ e.id = 0
    BY <1>4, StartedDoes
  <2>2. Current \in Slots /\ \E f \in Frames : Turned(f) /\ Top.do = "started" /\ f.do = "done"
    BY <1>1, <1>4, StartedDoes
  <2> QED BY <2>1, <2>2, SendsHalts DEF Endless, EndlessQueue, Steady
<1>5. CASE Failed
  <2>1. queue' = queue /\ task' = Freed(Top.at) /\ Top.at \in Slots /\ ~Halted(task, Top.at)
    BY <1>5, FailedDoes
  <2>2. \E f \in Frames : Turned(f) /\ Top.do = "failed" /\ f.do = "done"
    BY <1>1, <1>5, FailedDoes
  <2>3. /\ ~Halted(Freed(Top.at), Top.at)
        /\ \A x \in Slots : x # Top.at => Freed(Top.at)[x] = task[x]
    BY <1>2, <2>1, FreedIs
  <2>4. SameHalts
    BY <2>1, <2>3 DEF SameHalts, Halted
  <2> QED BY <2>1, <2>2, <2>4 DEF Endless, EndlessQueue, Steady
<1>6. CASE OtherWork
  <2>1. queue' = queue /\ task' = task
    BY <1>6, OtherWorkDoes
  <2>2. \E f \in Frames : Turned(f) /\ Top.do = "host" /\ f.do = "done"
    BY <1>1, <1>6, OtherWorkDoes
  <2> QED BY <2>1, <2>2 DEF Endless, EndlessQueue, SameHalts, Steady
<1> QED BY <1>3, <1>4, <1>5, <1>6

LEMMA DequeueEnds ==
  ASSUME TaskInv, TaskInv', SlotInv, Dequeue
  PROVE  SlotInv'
<1>1. stack = <<>> /\ queue # <<>> /\ queue' = Tail(queue) /\ queue[1] \in Events
  BY DequeueDoes
<1>2. PICK f \in Frames :
        /\ stack' = <<f>> /\ f.ev = queue[1]
        /\ \/ f = Walk(queue[1]) /\ queue[1].type = "user"
           \/ /\ f.do = "event" /\ queue[1].type # "user"
              /\ f.cur = queue[1].org.idx /\ f.due = {}
  BY DequeueDoes
<1>3. Walk(queue[1]).do = "walk"
  BY <1>1, WalkIs
<1>4. ASSUME NEW s \in Slots \ {System}
      PROVE  EndsUnder(queue', stack', s) = EndsUnder(queue, stack, s)
  <2>1. EndsUnder(queue', stack', s) = EndsUnder(queue, stack, s) - Weighs(Ends(s), queue[1]) + Weighs(Ending(s), f)
    BY <1>1, <1>2, Tallied, AsideEndsNothing DEF EndsUnder
  <2>2. Weighs(Ends(s), queue[1]) = Weighs(Ending(s), f)
    BY <1>1, <1>2, <1>3 DEF Weighs, Ends, Ending, EndOf
  <2>3. EndsUnder(queue, stack, s) \in Nat /\ Weighs(Ending(s), f) \in {0, 1}
    BY Tallied, AsideEndsNothing, Sizes DEF EndsUnder
  <2> QED BY <2>1, <2>2, <2>3
<1>5. SameHalts
  BY DEF Dequeue, SameHalts
<1> QED BY <1>4, <1>5, SlotStays

LEMMA EndTaskEnds ==
  ASSUME TaskInv, TaskInv', SlotInv, EndTask
  PROVE  SlotInv'
<1> DEFINE x == Top.ev.to.idx
           f == Walk(Top.ev)
<1>1. /\ queue' = queue /\ task' = Freed(x) /\ Top.do = "ended" /\ Top.ev.type = "end" /\ x \in Slots
      /\ Halted(task, x) /\ Turned(f)
  BY EndTaskDoes
<1>2. Top \in Frames /\ Top.ev \in Events
  BY <1>1 DEF Turned, Frames
<1>3. f.do = "walk" /\ f \in Frames
  BY <1>2, WalkIs
<1>4. ~Halted(Freed(x), x) /\ \A s \in Slots : s # x => Freed(x)[s] = task[s]
  BY <1>1, TaskKinds, FreedIs
<1> HIDE DEF f, x
<1>5. ASSUME NEW s \in Slots \ {System}
      PROVE  EndsUnder(queue', stack', s) = IF Halted(task', s) THEN 1 ELSE 0
  <2>1. EndsUnder(queue', stack', s) = EndsUnder(queue, stack, s) + 0 - Weighs(Ending(s), Top) + Weighs(Ending(s), f)
    <3>1. Settled(0, Ends(s))
      BY <1>1 DEF Settled
    <3> QED BY <1>1, <3>1, TalliedTurned, AsideEndsNothing DEF EndsUnder
  <2>2. Weighs(Ending(s), f) = 0
    BY <1>3, AppsEndNothing
  <2>3. Weighs(Ending(s), Top) = IF s = x THEN 1 ELSE 0
    BY <1>1, <1>2 DEF Weighs, Ending, EndOf, x
  <2>4. EndsUnder(queue, stack, s) = IF Halted(task, s) THEN 1 ELSE 0
    BY DEF SlotInv, SlotOK
  <2>5. CASE s = x
    BY <1>1, <1>4, <2>1, <2>2, <2>3, <2>4, <2>5
  <2>6. CASE s # x
    <3>1. Halted(task', s) <=> Halted(task, s)
      BY <1>1, <1>4, <2>6 DEF Halted
    <3> QED BY <2>1, <2>2, <2>3, <2>4, <2>6, <3>1
  <2> QED BY <2>5, <2>6
<1>6. SlotOK(task', queue', stack')
  BY <1>5 DEF SlotOK
<1> QED BY <1>6 DEF SlotInv

LEMMA ReturnsHalt ==
  ASSUME TaskInv, Finish \/ Dropped \/ AppReturn
  PROVE  queue' = queue /\ SameHalts
<1>1. CASE Finish
  <2>1. queue' = queue /\ Top.ev \in Events /\ task' = IF Top.ev.type = "boot" THEN task ELSE Uncharge(Top.ev)
    BY <1>1, FinishDoes
  <2>2. SameStatus(task, Uncharge(Top.ev))
    BY <2>1, TaskKinds, Uncharged
  <2> QED BY <2>1, <2>2, StatusHalts DEF SameHalts
<1>2. CASE Dropped
  <2>1. queue' = queue /\ Top.ev \in Events /\ task' = Charge(task, Top.ev.by.idx, -1)
    BY <1>2, DroppedDoes
  <2>2. Top.ev.by.idx \in Slots /\ -1 \in Int
    BY <2>1, EventFields
  <2>3. SameStatus(task, Charge(task, Top.ev.by.idx, -1))
    BY <2>2, TaskKinds, Charged
  <2> QED BY <2>1, <2>3, StatusHalts
<1>3. CASE AppReturn
  BY <1>3, AppReturnDoes DEF SameHalts
<1> QED BY <1>1, <1>2, <1>3

LEMMA ReturnsEnd ==
  ASSUME TaskInv, TaskInv', SlotInv, Finish \/ Dropped \/ AppReturn
  PROVE  SlotInv'
<1>1. queue' = queue /\ SameHalts
  BY ReturnsHalt
<1>2. ASSUME NEW s \in Slots \ {System}
      PROVE  EndsUnder(queue', stack', s) = EndsUnder(queue, stack, s)
  <2>1. EndsUnder(queue, stack, s) \in Nat
    BY Tallied, AsideEndsNothing DEF EndsUnder
  <2>2. ASSUME stack # <<>>, stack[1] \in Frames, stack[1].do \in AppFrames \cup {"freed", "dropped"}
        PROVE  Weighs(Ending(s), stack[1]) = 0
    BY <2>2, AppsEndNothing DEF AppFrames
  <2>3. ASSUME stack # <<>>, stack[1] \in Frames, stack[1].do \in AppFrames \cup {"freed"}, stack' = Tail(stack)
        PROVE  EndsUnder(queue', stack', s) = EndsUnder(queue, stack, s)
    <3>1. EndsUnder(queue', stack', s) = EndsUnder(queue, stack, s) - Weighs(Ending(s), stack[1])
      BY <1>1, <2>3, Tallied, AsideEndsNothing DEF EndsUnder
    <3> QED BY <2>1, <2>2, <2>3, <3>1
  <2>4. ASSUME NEW g \in Frames, Aside(g), stack # <<>>, stack[1] \in Frames, stack[1].do = "dropped",
               stack' = <<g>> \o Tail(stack)
        PROVE  EndsUnder(queue', stack', s) = EndsUnder(queue, stack, s)
    <3>1. EndsUnder(queue', stack', s) = EndsUnder(queue, stack, s) - Weighs(Ending(s), stack[1])
      BY <1>1, <2>4, Tallied, AsideEndsNothing DEF EndsUnder
    <3> QED BY <2>1, <2>2, <2>4, <3>1
  <2>5. ASSUME NEW f \in Frames, Landing(f)
        PROVE  EndsUnder(queue', stack', s) = EndsUnder(queue, stack, s)
    <3>1. EndsUnder(queue', stack', s) =
            EndsUnder(queue, stack, s) - Weighs(Ending(s), stack[1]) - Weighs(Ending(s), stack[2]) + Weighs(Ending(s), f)
      BY <1>1, <2>5, Tallied, AsideEndsNothing DEF EndsUnder
    <3>2. Weighs(Ending(s), stack[1]) = 0 /\ Weighs(Ending(s), stack[2]) = 0 /\ Weighs(Ending(s), f) = 0
      BY <2>2, <2>5, AppsEndNothing DEF Landing
    <3> QED BY <2>1, <3>1, <3>2
  <2>6. CASE Finish
    BY <2>3, <2>6, FinishDoes
  <2>7. CASE Dropped
    BY <2>4, <2>7, DroppedDoes
  <2>8. CASE AppReturn
    <3>1. stack # <<>> /\ stack[1] \in Frames /\ stack[1].do \in AppFrames
      BY <2>8, AppReturnDoes
    <3>2. stack' = Tail(stack) \/ \E f \in Frames : Landing(f)
      BY <2>8, AppReturnDoes DEF Landing
    <3> QED BY <2>3, <2>5, <3>1, <3>2
  <2> QED BY <2>6, <2>7, <2>8
<1> QED BY <1>1, <1>2, SlotStays

LEMMA SendHalts ==
  ASSUME TaskInv, NEW to \in Slots \ {System}, SendPrivate(to)
  PROVE  SameHalts
<1>1. PICK e \in Events, g \in Frames, h \in Frames : Mail(to, e, g, h)
  BY SendPrivateDoes
<1>2. Me \in Slots /\ System \in Slots
  BY SendPrivateDoes, Nodish
<1>3. PICK t \in [Slots -> TaskRecords] : t = Charge(task, Me, 1)
  BY <1>2, TaskKinds, Charged
<1>4. SameStatus(task, t)
  BY <1>2, <1>3, TaskKinds, Charged
<1>5. SameStatus(t, Charge(t, System, 1))
  BY <1>2, Charged
<1>6. task' \in {task, t, Charge(t, System, 1)}
  BY <1>1, <1>3 DEF Mail
<1> QED BY <1>4, <1>5, <1>6 DEF SameStatus, SameHalts

LEMMA SendEnds ==
  ASSUME TaskInv, TaskInv', SlotInv, NEW to \in Slots \ {System}, SendPrivate(to)
  PROVE  SlotInv'
<1>1. PICK e \in Events, g \in Frames, h \in Frames : Mail(to, e, g, h)
  BY SendPrivateDoes
<1>3. SameHalts
  BY SendHalts
<1>4. Aside(g) /\ h.do = "dropped" /\ e.type = "private"
  BY <1>1 DEF Mail
<1>5. CASE stack' = stack
  <2>1. EndlessQueue
    BY <1>1, <1>4 DEF Mail, EndlessQueue, Posting
  <2> QED BY <1>3, <1>5, <2>1, SteadyEnds
<1>6. CASE stack' # stack
  <2>1. queue' = queue /\ (stack' = Push(g, Push(h, stack)) \/ stack' = Push(g, stack))
    BY <1>1, <1>6 DEF Mail
  <2>2. ASSUME NEW s \in Slots \ {System}
        PROVE  EndsUnder(queue', stack', s) = EndsUnder(queue, stack, s)
    <3>1. Weighs(Ending(s), h) = 0 /\ EndsUnder(queue, stack, s) \in Nat
      BY <1>4, AppsEndNothing, Tallied, AsideEndsNothing DEF EndsUnder
    <3>2. CASE stack' = Push(g, stack)
      BY <1>4, <2>1, <3>2, Tallied, AsideEndsNothing DEF EndsUnder
    <3>3. CASE stack' = Push(g, Push(h, stack))
      <4>1. EndsUnder(queue', stack', s) = EndsUnder(queue, stack, s) + Weighs(Ending(s), h)
        BY <1>4, <2>1, <3>3, Tallied, AsideEndsNothing DEF EndsUnder
      <4> QED BY <3>1, <4>1
    <3> QED BY <2>1, <3>2, <3>3
  <2> QED BY <1>3, <2>2, SlotStays
<1> QED BY <1>5, <1>6

\* The system's own events are taken while the queue has room.
LEMMA SystemPosts ==
  ASSUME TaskInv, Len(queue) < Capacity
  PROVE  Accepted(System)
BY Opened DEF Accepted, Stopped, StatusOK, Halted

LEMMA FlagsHalt ==
  ASSUME TaskInv, NEW x \in Slots, NEW g \in SUBSET {"STOPPED", "ABORTED"}, "STOPPED" \in g,
         task' = Flagged(task, x, g) \/ task' = Charge(Flagged(task, x, g), System, 1)
  PROVE  /\ Halted(task', x)
         /\ \A s \in Slots : s # x => (Halted(task', s) <=> Halted(task, s))
<1>1. PICK t \in [Slots -> TaskRecords] : t = Flagged(task, x, g)
  BY TaskKinds, FlaggedIs
<1>2. Halted(t, x) /\ \A s \in Slots : s # x => t[s] = task[s]
  <2>1. task \in [Slots -> TaskRecords]
    BY TaskKinds
  <2>2. t[x].flags = g /\ \A s \in Slots : s # x => t[s] = task[s]
    BY <1>1, <2>1, FlaggedIs
  <2> QED BY <2>2 DEF Halted
<1>3. SameStatus(t, Charge(t, System, 1))
  <2>1. System \in Slots /\ 1 \in Int
    BY Nodish
  <2> QED BY <2>1, Charged
<1>4. task' \in {t, Charge(t, System, 1)}
  BY <1>1
<1> QED BY <1>2, <1>3, <1>4 DEF SameStatus, Halted

\* x leaves the list and its end is posted.
LEMMA LeavingEnds ==
  ASSUME TaskInv, TaskInv', SlotInv, Len(queue) < Capacity,
         NEW x \in Slots \ {System}, ~Halted(task, x),
         NEW g \in SUBSET {"STOPPED", "ABORTED"}, "STOPPED" \in g,
         NEW e \in Events, Sends(Flagged(task, x, g), System, e), EndOf(e, x),
         stack' = stack \/ \E f \in Frames : Turning("host", "done", f)
  PROVE  SlotInv'
<1>1. queue' = Put(queue, e) /\ task' = Charge(Flagged(task, x, g), System, 1)
  BY SystemPosts DEF Sends
<1>2. Halted(task', x) /\ \A s \in Slots : s # x => (Halted(task', s) <=> Halted(task, s))
  BY <1>1, FlagsHalt
<1>3. ASSUME NEW s \in Slots \ {System}
      PROVE  EndsUnder(queue', stack', s) = IF Halted(task', s) THEN 1 ELSE 0
  <2> DEFINE m == Weighs(Ends(s), e)
  <2>1. m = IF s = x THEN 1 ELSE 0
    BY DEF Weighs, Ends, EndOf
  <2>2. Settled(m, Ends(s))
    BY <1>1 DEF Settled, Posting
  <2> HIDE DEF m
  <2>3. EndsUnder(queue', stack', s) = EndsUnder(queue, stack, s) + m
    <3>1. CASE stack' = stack
      BY <2>2, <3>1, Tallied, AsideEndsNothing DEF EndsUnder
    <3>2. ASSUME NEW f \in Frames, Turning("host", "done", f)
          PROVE  EndsUnder(queue', stack', s) = EndsUnder(queue, stack, s) + m
      <4>1. Turned(f) /\ Top \in Frames /\ Top.do = "host" /\ f.do = "done"
        BY <3>2 DEF Turning, Turned
      <4>2. Weighs(Ending(s), f) = 0 /\ Weighs(Ending(s), Top) = 0
        BY <4>1, AppsEndNothing
      <4>3. /\ EndsUnder(queue', stack', s) = EndsUnder(queue, stack, s) + m - Weighs(Ending(s), Top) + Weighs(Ending(s), f)
            /\ EndsUnder(queue, stack, s) \in Nat
        BY <2>2, <4>1, TalliedTurned, AsideEndsNothing DEF EndsUnder
      <4> QED BY <2>1, <4>2, <4>3
    <3> QED BY <3>1, <3>2
  <2>4. EndsUnder(queue, stack, s) = IF Halted(task, s) THEN 1 ELSE 0
    BY DEF SlotInv, SlotOK
  <2> QED BY <1>2, <2>1, <2>3, <2>4
<1>4. SlotOK(task', queue', stack')
  BY <1>3 DEF SlotOK
<1> QED BY <1>4 DEF SlotInv

LEMMA AbortEnds ==
  ASSUME TaskInv, TaskInv', SlotInv, Len(queue) < Capacity, Abort
  PROVE  SlotInv'
<1> DEFINE g == {"STOPPED", "ABORTED"}
<1>1. stack' = stack /\ Me \in Slots \ {System} /\ ~Halted(task, Me)
  BY AbortDoes DEF Stopped, Halted
<1>2. PICK e \in Events : /\ Sends(Flagged(task, Me, g), System, e) /\ e.type = "end"
                          /\ e.org.idx = System /\ e.id = 0 /\ e.to.idx = Me
  BY AbortDoes
<1>3. g \in SUBSET {"STOPPED", "ABORTED"} /\ "STOPPED" \in g
  OBVIOUS
<1>4. EndOf(e, Me)
  BY <1>2 DEF EndOf
<1> HIDE DEF g
<1> QED BY <1>1, <1>2, <1>3, <1>4, LeavingEnds

LEMMA StoppingEnds ==
  ASSUME TaskInv, TaskInv', SlotInv, Len(queue) < Capacity, Stopping
  PROVE  SlotInv'
<1>1. PICK f \in Frames : Turning("stopping", "done", f)
  BY StoppingDoes
<1>2. PICK e \in Events : /\ Sends(task, System, e) /\ e.type = "end" /\ e.org.idx = System
                          /\ e.id = 0 /\ e.to.idx = Top.at
  BY StoppingDoes
<1>3. queue' = Put(queue, e)
  BY <1>2, SystemPosts DEF Sends
<1>4. SameHalts
  BY <1>2, Nodish, SendsHalts
<1>5. ASSUME NEW s \in Slots \ {System}
      PROVE  EndsUnder(queue', stack', s) = EndsUnder(queue, stack, s)
  <2> DEFINE m == Weighs(Ends(s), e)
  <2>1. m = IF s = Top.at THEN 1 ELSE 0
    BY <1>2 DEF Weighs, Ends, EndOf
  <2>2. Settled(m, Ends(s))
    BY <1>3 DEF Settled, Posting
  <2> HIDE DEF m
  <2>3. Turned(f) /\ Top \in Frames /\ Top.do = "stopping" /\ f.do = "done"
    BY <1>1 DEF Turning, Turned
  <2>4. Weighs(Ending(s), f) = 0
    BY <2>3, AppsEndNothing
  <2>5. Weighs(Ending(s), Top) = IF s = Top.at THEN 1 ELSE 0
    BY <2>3 DEF Weighs, Ending
  <2>6. /\ EndsUnder(queue', stack', s) = EndsUnder(queue, stack, s) + m - Weighs(Ending(s), Top) + Weighs(Ending(s), f)
        /\ EndsUnder(queue, stack, s) \in Nat
    BY <2>2, <2>3, TalliedTurned, AsideEndsNothing DEF EndsUnder
  <2> QED BY <2>1, <2>4, <2>5, <2>6
<1> QED BY <1>4, <1>5, SlotStays

LEMMA StopAppEnds ==
  ASSUME TaskInv, TaskInv', SlotInv, Len(queue) < Capacity, NEW x \in Slots, StopApp(x)
  PROVE  SlotInv'
<1> DEFINE g == {"STOPPED"}
<1>1. x \in Slots \ {System} /\ ~Halted(task, x)
  BY StopAppDoes
<1>2. g \in SUBSET {"STOPPED", "ABORTED"} /\ "STOPPED" \in g
  OBVIOUS
<1>3. CASE Leave(x, g)
  <2>1. task' # Flagged(task, x, g) \/ task[x].io = 0 \/ task[x].io # 0
    OBVIOUS
  <2>2. Len(queue') # Len(queue)
    <3>1. PICK e \in Events : /\ Sends(Flagged(task, x, g), System, e) /\ e.type = "end" /\ e.org.idx = System
                              /\ e.id = 0 /\ e.to.idx = x
      BY <1>2, <1>3, LeaveDoes
    <3>2. queue' = Put(queue, e) /\ queue \in Seq(Events)
      BY <3>1, SystemPosts, TaskKinds DEF Sends
    <3>3. Len(Put(queue, e)) = Len(queue) + 1 /\ Len(queue) \in Nat
      BY <3>2, Appended, Elements
    <3> QED BY <3>2, <3>3
  <2>3. /\ \E f \in Frames : Turning("host", "done", f)
        /\ \E e \in Events :
             /\ Sends(Flagged(task, x, g), System, e) /\ e.type = "end"
             /\ e.org.idx = System /\ e.id = 0 /\ e.to.idx = x
    BY <2>2, StopAppDoes
  <2>4. PICK e \in Events : Sends(Flagged(task, x, g), System, e) /\ EndOf(e, x)
    BY <2>3 DEF EndOf
  <2> HIDE DEF g
  <2> QED BY <1>1, <1>2, <2>3, <2>4, LeavingEnds
<1>4. CASE ~Leave(x, g)
  <2>1. queue' = queue /\ task' = Flagged(task, x, g)
    BY <1>4, StopAppDoes
  <2>2. PICK f \in Frames : Turning("host", "stopping", f) /\ f.at = x
    BY <1>4, StopAppDoes
  <2>3. Halted(task', x) /\ \A s \in Slots : s # x => (Halted(task', s) <=> Halted(task, s))
    BY <1>2, <2>1, FlagsHalt
  <2>4. Turned(f) /\ Top \in Frames /\ Top.do = "host" /\ f.do = "stopping" /\ f.at = x
    BY <2>2 DEF Turning, Turned
  <2>5. ASSUME NEW s \in Slots \ {System}
        PROVE  EndsUnder(queue', stack', s) = IF Halted(task', s) THEN 1 ELSE 0
    <3>1. Settled(0, Ends(s))
      BY <2>1 DEF Settled
    <3>2. EndsUnder(queue', stack', s) = EndsUnder(queue, stack, s) + 0 - Weighs(Ending(s), Top) + Weighs(Ending(s), f)
      BY <2>4, <3>1, TalliedTurned, AsideEndsNothing DEF EndsUnder
    <3>3. Weighs(Ending(s), Top) = 0
      BY <2>4, AppsEndNothing
    <3>4. Weighs(Ending(s), f) = IF s = x THEN 1 ELSE 0
      BY <2>4 DEF Weighs, Ending
    <3>5. EndsUnder(queue, stack, s) = IF Halted(task, s) THEN 1 ELSE 0
      BY DEF SlotInv, SlotOK
    <3> QED BY <1>1, <2>3, <3>2, <3>3, <3>4, <3>5
  <2>6. SlotOK(task', queue', stack')
    BY <2>5 DEF SlotOK
  <2> QED BY <2>6 DEF SlotInv
<1> QED BY <1>3, <1>4

LEMMA SlotKept ==
  ASSUME TaskInv, TaskInv', SlotInv, Len(queue) < Capacity, [Next]_vars
  PROVE  SlotInv'
<1>1. Endless => SlotInv'
  BY SteadyEnds DEF Endless
<1>2. CASE Kernel
  BY <1>1, <1>2, KernelEndless, DequeueEnds, EndTaskEnds, ReturnsEnd DEF Kernel
<1>3. CASE App
  BY <1>1, <1>3, AppEndless, SendEnds, AbortEnds, ReturnsEnd DEF App, Values
<1>4. CASE Host
  BY <1>1, <1>4, HostEndless, StopAppEnds, StoppingEnds DEF Host
<1>5. CASE Interrupt \/ UNCHANGED vars
  BY <1>1, <1>5, AppEndless
<1> QED BY <1>2, <1>3, <1>4, <1>5 DEF Next, MainLoop

LEMMA SlotAtFirst == Init /\ TaskInv => SlotInv
<1> SUFFICES ASSUME Init, TaskInv PROVE SlotInv
  OBVIOUS
<1>1. queue = <<>> /\ stack \in Seq(Frames) /\ \A i \in 1 .. Len(stack) : stack[i] \in Frames /\ stack[i].do = "host"
  BY BootFrames, Elements DEF Init
<1>2. ASSUME NEW s \in Slots \ {System} PROVE EndsUnder(queue, stack, s) = 0 /\ ~Halted(task, s)
  <2>1. \A i \in 1 .. Len(stack) : stack[i] \notin Ending(s)
    BY <1>1, AppsEndNothing
  <2>2. Count(Ending(s), stack) = 0 /\ Count(Ends(s), queue) = 0
    BY <1>1, <2>1, CountedNone, CountedNothing
  <2>3. task[s] = Cleared /\ Cleared.flags = {}
    BY ClearedIs DEF Init
  <2> QED BY <2>2, <2>3 DEF EndsUnder, Tally, Halted
<1>3. SlotOK(task, queue, stack)
  BY <1>2 DEF SlotOK
<1> QED BY <1>3 DEF SlotInv

LEMMA EndsAre ==
  ASSUME TaskInv, NEW s
  PROVE  EndsOf(s) = EndsUnder(queue, stack, s)
<1>1. stack \in Seq(Frames) /\ queue \in Seq(Events)
  BY TaskKinds
<1>2. DOMAIN stack = 1 .. Len(stack) /\ DOMAIN queue = 1 .. Len(queue)
  BY <1>1, Counted
<1>3. {i \in DOMAIN queue : queue[i].type = "end" /\ queue[i].to.idx = s} = {i \in DOMAIN queue : queue[i] \in Ends(s)}
  BY <1>1, <1>2, Elements DEF Ends, EndOf
<1>4. {i \in DOMAIN stack :
         \/ stack[i].do \in {"event", "ended"} /\ stack[i].ev.type = "end" /\ stack[i].ev.to.idx = s
         \/ stack[i].do = "stopping" /\ stack[i].at = s} = {i \in DOMAIN stack : stack[i] \in Ending(s)}
  BY <1>1, <1>2, Elements DEF Ending, EndOf
<1> QED BY <1>3, <1>4 DEF EndsOf, EndsUnder, Tally, Count

LEMMA SlotsAreAccounted == TaskInv /\ SlotInv => SlotAccounted
<1> SUFFICES ASSUME TaskInv, SlotInv, NEW s \in Slots \ {System}
             PROVE  LET Is(c) == IF c THEN 1 ELSE 0
                    IN /\ Is(s \in Reached(FreeTasks)) + Is(s \in Reached(Tasks))
                          + Is(Starting(s)) + Is(Stopped(s)) = 1
                       /\ EndsOf(s) = Is(Stopped(s))
  BY DEF SlotAccounted
<1>1. EndsOf(s) = IF Halted(task, s) THEN 1 ELSE 0
  BY EndsAre DEF SlotInv, SlotOK
<1>2. stack \in Seq(Frames) /\ DOMAIN stack = 1 .. Len(stack)
  BY TaskKinds, Counted
<1>3. Starting(s) <=> \E i \in 1 .. Len(stack) : stack[i].do \in Launching /\ stack[i].at = s
  BY <1>2 DEF Starting, Launching
<1>4. Starting(s) => s \notin Running \cup Spare /\ ~Halted(task, s)
  BY <1>3, Opened DEF FrameOK
<1>5. Halted(task, s) => s \notin Running \cup Spare
  BY Opened DEF StatusOK
<1>6. s \in Running \/ s \in Spare \/ Halted(task, s) \/ Starting(s)
  BY <1>3, Opened DEF StatusOK
<1>7. s \in Running => s \notin Spare
  BY RunningIsLoaded
<1> QED BY <1>1, <1>4, <1>5, <1>6, <1>7 DEF Running, Spare, Stopped, Halted

\* No task is lost: each is free, running, being started, or has left the list of
\* tasks and exactly one EVT_APP_END will free it, as long as the queue is never
\* full (seos.c:800 drops the end that the queue refuses).
THEOREM NoTaskLost ==
  ASSUME Faults \subseteq {"load", "init", "abort"}
  PROVE  Spec /\ [](Len(queue) < Capacity) => []SlotAccounted
<1>1. Spec => []TaskInv
  BY TaskInvAlways DEF Orderly
<1>2. Init /\ TaskInv => SlotInv
  BY SlotAtFirst
<1>3. TaskInv /\ TaskInv' /\ SlotInv /\ Len(queue) < Capacity /\ [Next]_vars => SlotInv'
  BY SlotKept
<1>4. TaskInv /\ SlotInv => SlotAccounted
  BY SlotsAreAccounted
<1> QED BY <1>1, <1>2, <1>3, <1>4, PTL DEF Spec

-----------------------------------------------------------------------------
(* The events of tasks.                                                     *)

Owned(s) == {e \in Events : e.org.idx = s}
Abouts(s) == {e \in Events : e.org.idx = s \/ Sent(e, s)}
Expiring(s) == {f \in Frames : f.do \in {"event", "ended"} /\ EndOf(f.ev, s)}
\* The end of a task is the system's.
Forged == {e \in Events : e.type = "end" /\ e.org.idx # System}
\* The main loop runs as the system or the task whose event it handles.
Astray == {f \in Frames :
             \/ f.do = "failed"
             \/ f.do \in Kernels /\ (\/ f.cur \notin {System, f.ev.org.idx}
                                     \/ f.ev.type \in {"boot", "end"} /\ f.ev.org.idx # System)
             \/ f.do = "dropped" /\ (f.cur # System \/ f.ev.type # "private")}

\* Nothing of a task is behind its end.
OrderOK(q, st) ==
  /\ \A i, j \in 1 .. Len(q), s \in Slots : i < j /\ EndOf(q[i], s) => q[j] \notin Abouts(s)
  /\ \A s \in Slots : Count(Expiring(s), st) # 0 => Count(Abouts(s), q) = 0
  /\ Count(Forged, q) = 0 /\ Count(Astray, st) = 0
OrderInv == OrderOK(queue, stack)

\* A task that was told to stop posts nothing.
Proper(e) == e \in Events /\ e \notin Forged /\ \A s \in Slots : e \in Abouts(s) => ~Halted(task, s)
QueueStep == \/ queue' = queue
             \/ \E e \in Events : Proper(e) /\ queue' = Put(queue, e)
             \/ \E e \in Events : Proper(e) /\ e.type # "end" /\ queue' = Push(e, queue)

LEMMA AsideIsClear ==
  \A g \in Frames : Aside(g) => g \notin Astray /\ \A s : g \notin Expiring(s)
BY DEF Aside, AppFrames, Kernels, Leaves, Astray, Expiring

LEMMA AstrayStays ==
  ASSUME TaskInv, TaskInv', "init" \notin Faults, OrderInv, StackStep, stack # <<>> \/ stack' = stack
  PROVE  Count(Astray, stack') = 0
<1>1. stack \in Seq(Frames) /\ stack' \in Seq(Frames)
  BY TaskKinds, TypedNext
<1>2. \A g \in Frames : Aside(g) => g \notin Astray
  BY AsideIsClear
<1>3. Count(Astray, stack) = 0 /\ Count(Astray, stack') \in Nat
  BY <1>1, Counted DEF OrderInv, OrderOK
<1>4. \A f : Weighs(Astray, f) \in {0, 1} /\ (f \notin Astray <=> Weighs(Astray, f) = 0)
  BY Sizes
<1>5. \A i \in 1 .. Len(stack) : stack[i] \notin Astray
  BY <1>1, <1>3, CountedNone
<1>6. CASE stack' = stack
  BY <1>3, <1>6
<1>7. ASSUME NEW f \in Frames, Straight(f) PROVE Count(Astray, stack') = 0
  <2>1. Turned(f)
    BY <1>7 DEF Straight
  <2>2. 1 \in 1 .. Len(stack)
    BY <1>1, <2>1, Elements DEF Turned
  <2>3. Top \notin Astray
    BY <1>5, <2>1, <2>2 DEF Turned
  <2>4. f \notin Astray
    <3>1. f.do # "dropped"
      BY <2>1 DEF Turned, Kernels, Leaves
    <3> QED BY <1>7, <2>1, <2>3, <3>1 DEF Straight, Turned, Astray
  <2>5. Count(Astray, stack') = Count(Astray, stack) - Weighs(Astray, Top) + Weighs(Astray, f)
    BY <1>1, <1>2, <2>1, StackCounts
  <2> QED BY <1>3, <1>4, <2>3, <2>4, <2>5
<1>8. CASE stack # <<>> /\ stack' = Tail(stack)
  <2>1. Count(Astray, stack') = Count(Astray, stack) - Weighs(Astray, stack[1])
    BY <1>1, <1>2, <1>8, StackCounts
  <2> QED BY <1>3, <1>4, <2>1
<1>9. ASSUME NEW f \in Frames, Landing(f) PROVE Count(Astray, stack') = 0
  <2>1. Len(stack) \in Nat /\ 2 \in 1 .. Len(stack)
    BY <1>1, <1>9, Elements DEF Landing
  <2>2. stack[2] \notin Astray
    BY <1>5, <2>1
  <2>3. f.do = "started" /\ f.ev = stack[2].ev /\ f.cur = stack[2].cur /\ stack[2].do = "starting" /\ stack[2] \in Frames
    BY <1>9 DEF Landing
  <2>4. f \notin Astray
    BY <2>2, <2>3 DEF Astray, Kernels, Leaves
  <2>5. Count(Astray, stack') =
          Count(Astray, stack) - Weighs(Astray, stack[1]) - Weighs(Astray, stack[2]) + Weighs(Astray, f)
    BY <1>1, <1>2, <1>9, StackCounts
  <2> QED BY <1>3, <1>4, <2>4, <2>5
<1>10. ASSUME NEW g \in Frames, stack # <<>>, Aside(g), stack' = <<g>> \o Tail(stack)
       PROVE  Count(Astray, stack') = 0
  <2>1. Count(Astray, stack') = Count(Astray, stack) - Weighs(Astray, stack[1])
    BY <1>1, <1>2, <1>10, StackCounts
  <2> QED BY <1>3, <1>4, <2>1
<1>11. ASSUME NEW g \in Frames, Aside(g), stack' = Push(g, stack) PROVE Count(Astray, stack') = 0
  BY <1>1, <1>2, <1>3, <1>11, StackCounts
<1>12. ASSUME NEW g \in Frames, NEW h \in Frames, Aside(g), h.do = "dropped", h.cur = System, h.ev.type = "private",
              stack' = Push(g, Push(h, stack))
       PROVE  Count(Astray, stack') = 0
  <2>1. Count(Astray, stack') = Count(Astray, stack) + Weighs(Astray, h)
    BY <1>1, <1>2, <1>12, StackCounts
  <2>2. h \notin Astray
    BY <1>12 DEF Astray, Kernels, Leaves
  <2> QED BY <1>3, <1>4, <2>1, <2>2
<1> QED BY <1>6, <1>7, <1>8, <1>9, <1>10, <1>11, <1>12 DEF StackStep

\* No frame but the one that took an event begins to handle the end of a task.
LEMMA ExpiringFalls ==
  ASSUME TaskInv, TaskInv', StackStep, stack # <<>> \/ stack' = stack, NEW s
  PROVE  Count(Expiring(s), stack') # 0 => Count(Expiring(s), stack) # 0
<1> DEFINE Y == Expiring(s)
<1>1. stack \in Seq(Frames) /\ stack' \in Seq(Frames)
  BY TaskKinds, TypedNext
<1>2. \A g \in Frames : Aside(g) => g \notin Y
  BY AsideIsClear
<1>3. Count(Y, stack) \in Nat /\ Count(Y, stack') \in Nat
  BY <1>1, Counted
<1>4. \A f : Weighs(Y, f) \in {0, 1}
  BY Sizes
<1>5. \A f \in Frames : f.do \notin {"event", "ended"} => Weighs(Y, f) = 0
  BY DEF Expiring, Weighs
<1>6. ASSUME NEW f \in Frames, Straight(f) PROVE Count(Y, stack') # 0 => Count(Y, stack) # 0
  <2>1. Turned(f)
    BY <1>6 DEF Straight
  <2>2. Weighs(Y, f) = 1 => Weighs(Y, Top) = 1
    BY <1>6, <2>1 DEF Straight, Turned, Expiring, Weighs
  <2>3. Count(Y, stack') = Count(Y, stack) - Weighs(Y, Top) + Weighs(Y, f)
    BY <1>1, <1>2, <2>1, StackCounts
  <2> HIDE DEF Y
  <2> QED BY <1>3, <1>4, <2>2, <2>3
<1>7. stack # <<>> /\ stack' = Tail(stack) => (Count(Y, stack') # 0 => Count(Y, stack) # 0)
  <2>1. stack # <<>> /\ stack' = Tail(stack) => Count(Y, stack') = Count(Y, stack) - Weighs(Y, stack[1])
    BY <1>1, <1>2, StackCounts
  <2> HIDE DEF Y
  <2> QED BY <1>3, <1>4, <2>1
<1>8. ASSUME NEW f \in Frames, Landing(f) PROVE Count(Y, stack') # 0 => Count(Y, stack) # 0
  <2>1. Weighs(Y, f) = 0
    BY <1>5, <1>8 DEF Landing
  <2>2. Count(Y, stack') = Count(Y, stack) - Weighs(Y, stack[1]) - Weighs(Y, stack[2]) + Weighs(Y, f)
    BY <1>1, <1>2, <1>8, StackCounts
  <2> HIDE DEF Y
  <2> QED BY <1>3, <1>4, <2>1, <2>2
<1>9. ASSUME NEW g \in Frames, stack # <<>>, Aside(g), stack' = <<g>> \o Tail(stack)
      PROVE  Count(Y, stack') # 0 => Count(Y, stack) # 0
  <2>1. Count(Y, stack') = Count(Y, stack) - Weighs(Y, stack[1])
    BY <1>1, <1>2, <1>9, StackCounts
  <2> HIDE DEF Y
  <2> QED BY <1>3, <1>4, <2>1
<1>10. ASSUME NEW g \in Frames, Aside(g), stack' = Push(g, stack)
       PROVE  Count(Y, stack') # 0 => Count(Y, stack) # 0
  <2>1. Count(Y, stack') = Count(Y, stack)
    BY <1>1, <1>2, <1>10, StackCounts
  <2> QED BY <2>1
<1>11. ASSUME NEW g \in Frames, NEW h \in Frames, Aside(g), h.do = "dropped", stack' = Push(g, Push(h, stack))
       PROVE  Count(Y, stack') # 0 => Count(Y, stack) # 0
  <2>1. Count(Y, stack') = Count(Y, stack) + Weighs(Y, h)
    BY <1>1, <1>2, <1>11, StackCounts
  <2>2. Weighs(Y, h) = 0
    BY <1>5, <1>11
  <2> HIDE DEF Y
  <2> QED BY <1>3, <2>1, <2>2
<1> HIDE DEF Y
<1>12. Count(Y, stack') # 0 => Count(Y, stack) # 0
  BY <1>6, <1>7, <1>8, <1>9, <1>10, <1>11 DEF StackStep
<1> QED BY <1>12 DEF Y

LEMMA ExpiringHalted ==
  ASSUME TaskInv, NEW s \in Slots, Count(Expiring(s), stack) # 0
  PROVE  Halted(task, s)
<1>1. stack \in Seq(Frames)
  BY TaskKinds
<1>2. PICK i \in 1 .. Len(stack) : stack[i] \in Expiring(s)
  BY <1>1, CountedNone
<1> QED BY <1>2, Opened DEF Expiring, EndOf, FrameOK

LEMMA OrderKeptOn ==
  ASSUME TaskInv, TaskInv', "init" \notin Faults, OrderInv, QueueStep,
         StackStep, stack # <<>> \/ stack' = stack
  PROVE  OrderInv'
<1>1. queue \in Seq(Events) /\ Len(queue) \in Nat
  BY TaskKinds, Elements
<1>2. \A i, j \in 1 .. Len(queue), s \in Slots : i < j /\ EndOf(queue[i], s) => queue[j] \notin Abouts(s)
  BY DEF OrderInv, OrderOK
<1>3. \A i \in 1 .. Len(queue), s \in Slots : EndOf(queue[i], s) => Halted(task, s)
  BY Opened DEF QueueOK
<1>4. \A i, j \in 1 .. Len(queue'), s \in Slots : i < j /\ EndOf(queue'[i], s) => queue'[j] \notin Abouts(s)
  <2>1. CASE queue' = queue
    BY <1>2, <2>1
  <2>2. ASSUME NEW e \in Events, Proper(e), queue' = Put(queue, e)
        PROVE  \A i, j \in 1 .. Len(queue'), s \in Slots : i < j /\ EndOf(queue'[i], s) => queue'[j] \notin Abouts(s)
    <3>9. PICK q \in Seq(Events) : q = queue
      BY <1>1
    <3>2. PICK r \in Seq(Events) :
            /\ r = Put(q, e) /\ Len(r) = Len(q) + 1 /\ r[Len(q) + 1] = e
            /\ \A i \in 1 .. Len(q) : r[i] = q[i]
      BY Appended
    <3>1. q = queue /\ r = queue'
      BY <2>2, <3>2, <3>9
    <3>3. SUFFICES ASSUME NEW i \in 1 .. Len(r), NEW j \in 1 .. Len(r), NEW s \in Slots, i < j, EndOf(r[i], s)
                   PROVE  r[j] \notin Abouts(s)
      BY <3>1
    <3>4. i \in 1 .. Len(q) /\ r[i] = q[i]
      BY <1>1, <3>1, <3>2, <3>3
    <3>5. Halted(task, s)
      BY <1>3, <3>1, <3>3, <3>4
    <3>6. CASE j = Len(q) + 1
      BY <2>2, <3>2, <3>5, <3>6 DEF Proper
    <3>7. CASE j # Len(q) + 1
      <4>1. j \in 1 .. Len(q) /\ r[j] = q[j]
        BY <1>1, <3>1, <3>2, <3>7
      <4> QED BY <1>2, <3>1, <3>3, <3>4, <4>1
    <3> QED BY <3>6, <3>7
  <2>3. ASSUME NEW e \in Events, Proper(e), e.type # "end", queue' = Push(e, queue)
        PROVE  \A i, j \in 1 .. Len(queue'), s \in Slots : i < j /\ EndOf(queue'[i], s) => queue'[j] \notin Abouts(s)
    <3>9. PICK q \in Seq(Events) : q = queue
      BY <1>1
    <3>2. PICK r \in Seq(Events) :
            /\ r = Push(e, q) /\ Len(r) = Len(q) + 1 /\ r[1] = e
            /\ \A i \in 2 .. Len(q) + 1 : r[i] = q[i - 1]
      BY Pushed
    <3>1. q = queue /\ r = queue'
      BY <2>3, <3>2, <3>9
    <3>3. SUFFICES ASSUME NEW i \in 1 .. Len(r), NEW j \in 1 .. Len(r), NEW s \in Slots, i < j, EndOf(r[i], s)
                   PROVE  r[j] \notin Abouts(s)
      BY <3>1
    <3>4. i # 1
      BY <2>3, <3>2, <3>3 DEF EndOf
    <3>5. i - 1 \in 1 .. Len(q) /\ r[i] = q[i - 1] /\ j - 1 \in 1 .. Len(q) /\ r[j] = q[j - 1] /\ i - 1 < j - 1
      <4>1. Len(q) \in Nat /\ Len(r) = Len(q) + 1
        BY <1>1, <3>1, <3>2
      <4>2. i \in 2 .. Len(q) + 1 /\ j \in 2 .. Len(q) + 1 /\ i - 1 < j - 1
        BY ONLY <3>3, <3>4, <4>1, i \in 1 .. Len(r), j \in 1 .. Len(r)
      <4>3. r[i] = q[i - 1] /\ r[j] = q[j - 1]
        BY ONLY <3>2, <4>2
      <4> QED BY ONLY <4>1, <4>2, <4>3
    <3> QED BY <1>2, <3>1, <3>3, <3>5
  <2> QED BY <2>1, <2>2, <2>3 DEF QueueStep
<1>5. ASSUME NEW s \in Slots, Count(Expiring(s), stack') # 0
      PROVE  Count(Abouts(s), queue') = 0
  <2>1. Count(Expiring(s), stack) # 0
    BY <1>5, ExpiringFalls
  <2>2. Halted(task, s) /\ Count(Abouts(s), queue) = 0
    BY <2>1, ExpiringHalted DEF OrderInv, OrderOK
  <2>3. ASSUME NEW e \in Events, Proper(e), queue' = Put(queue, e) \/ queue' = Push(e, queue)
        PROVE  Count(Abouts(s), queue') = 0
    <3>1. Count(Abouts(s), queue') = Count(Abouts(s), queue) + Weighs(Abouts(s), e)
      BY <1>1, <2>3, QueueCounts
    <3>2. Weighs(Abouts(s), e) = 0
      BY <2>2, <2>3 DEF Proper, Weighs
    <3> QED BY <2>2, <3>1, <3>2
  <2> QED BY <2>2, <2>3 DEF QueueStep
<1>6. Count(Forged, queue') = 0
  <2>1. Count(Forged, queue) = 0
    BY DEF OrderInv, OrderOK
  <2>2. ASSUME NEW e \in Events, Proper(e), queue' = Put(queue, e) \/ queue' = Push(e, queue)
        PROVE  Count(Forged, queue') = 0
    <3>1. Count(Forged, queue') = Count(Forged, queue) + Weighs(Forged, e)
      BY <1>1, <2>2, QueueCounts
    <3>2. Weighs(Forged, e) = 0
      BY <2>2 DEF Proper, Weighs
    <3> QED BY <2>1, <3>1, <3>2
  <2> QED BY <2>1, <2>2 DEF QueueStep
<1>7. Count(Astray, stack') = 0
  BY AstrayStays
<1>8. OrderOK(queue', stack')
  BY <1>4, <1>5, <1>6, <1>7 DEF OrderOK
<1> QED BY <1>8 DEF OrderInv

LEMMA SentProper ==
  ASSUME TaskInv, NEW c \in Slots, NEW t, NEW e \in Events, Sends(t, c, e), e.org.idx = c,
         e.type = "end" => c = System, e.type # "private"
  PROVE  QueueStep
<1>1. CASE Accepted(c)
  <2>1. ~Halted(task, c)
    BY <1>1 DEF Accepted, Stopped, Halted
  <2>2. Proper(e)
    BY <2>1 DEF Proper, Forged, Abouts, Sent
  <2> QED BY <1>1, <2>2 DEF Sends, QueueStep
<1>2. CASE ~Accepted(c)
  BY <1>2 DEF Sends, QueueStep
<1> QED BY <1>1, <1>2

LEMMA QueueDoes ==
  ASSUME TaskInv, "late" \notin Faults, [Next]_vars, ~Dequeue
  PROVE  QueueStep
<1>1. queue' = queue => QueueStep
  BY DEF QueueStep
<1>2. CASE Kernel
  BY <1>1, <1>2, SubscribeDoes, DispatchDoes, EndTaskDoes, VisitDoes, VisitedDoes, FreeDoes, FinishDoes, DroppedDoes
     DEF Kernel
<1>3. CASE App
  <2>1. ASSUME NEW v \in Evts, Publish(v) PROVE QueueStep
    <3>1. PICK e \in Events : Sends(task, Me, e) /\ e.type = "user" /\ e.org.idx = Me /\ e.id = calls + 1
      BY <2>1, PublishDoes
    <3>2. Me \in Slots
      BY <2>1, PublishDoes
    <3> QED BY <3>1, <3>2, SentProper
  <2>2. ASSUME NEW v \in Values, NEW d \in {"sub", "unsub"}, NEW w, AppCall, Ask(d, v, w) PROVE QueueStep
    <3>1. Me \in Slots
      BY <2>2, AskDoes
    <3>2. queue' = queue \/ \E e \in Events : Sends(task, Me, e) /\ e.type = d /\ e.org.idx = Me
      BY <2>2, AskDoes
    <3>3. ASSUME NEW e \in Events, Sends(task, Me, e), e.type = d, e.org.idx = Me PROVE QueueStep
      BY <3>1, <3>3, SentProper
    <3> QED BY <1>1, <3>2, <3>3
  <2>3. ASSUME NEW v \in Values, Subscribe(v) \/ Unsubscribe(v) PROVE QueueStep
    BY <2>2, <2>3 DEF Subscribe, Unsubscribe
  <2>4. ASSUME NEW to \in Slots \ {System}, SendPrivate(to) PROVE QueueStep
    <3>1. PICK e \in Events, g \in Frames, h \in Frames : Mail(to, e, g, h)
      BY <2>4, SendPrivateDoes
    <3>2. ~Halted(task, Me) /\ ~Halted(task, System)
      BY <2>4, SendPrivateDoes, StatusHolds DEF Stopped, Halted, StatusOK
    <3>3. e.type = "private" /\ e.org.idx = System /\ e.by.idx = Me /\ (queue' = queue \/ queue' = Put(queue, e))
      BY <3>1 DEF Mail
    <3>4. Proper(e)
      BY <3>2, <3>3 DEF Proper, Forged, Abouts, Sent
    <3> QED BY <3>3, <3>4 DEF QueueStep
  <2>5. CASE Abort
    <3>1. PICK e \in Events :
            /\ Sends(Flagged(task, Me, {"STOPPED", "ABORTED"}), System, e) /\ e.type = "end"
            /\ e.org.idx = System /\ e.id = 0 /\ e.to.idx = Me
      BY <2>5, AbortDoes
    <3> QED BY <3>1, Nodish, SentProper
  <2>6. CASE AppReturn
    BY <1>1, <2>6, AppReturnDoes
  <2> QED BY <1>3, <2>1, <2>3, <2>4, <2>5, <2>6 DEF App, Values
<1>4. CASE Host
  <2>1. ASSUME NEW a \in Apps, StartApp(a) PROVE QueueStep
    BY <1>1, <2>1, StartAppDoes
  <2>2. ASSUME NEW s \in Slots, StopApp(s) PROVE QueueStep
    <3>1. queue' = queue \/ \E e \in Events :
                                /\ Sends(Flagged(task, s, {"STOPPED"}), System, e) /\ e.type = "end"
                                /\ e.org.idx = System
      BY <2>2, StopAppDoes
    <3>2. ASSUME NEW e \in Events, Sends(Flagged(task, s, {"STOPPED"}), System, e), e.type = "end", e.org.idx = System
          PROVE  QueueStep
      BY <3>2, Nodish, SentProper
    <3> QED BY <1>1, <3>1, <3>2
  <2>3. CASE Started
    <3>1. PICK e \in Events : /\ Sends(task, Current, e) /\ e.type = "begin" /\ e.org.idx = Current
                              /\ e.id = 0
      BY <2>3, StartedDoes
    <3>2. Current \in Slots
      BY <2>3, StartedDoes
    <3> QED BY <3>1, <3>2, SentProper
  <2>4. CASE Stopping
    <3>1. PICK e \in Events : /\ Sends(task, System, e) /\ e.type = "end" /\ e.org.idx = System
                              /\ e.id = 0 /\ e.to.idx = Top.at
      BY <2>4, StoppingDoes
    <3> QED BY <3>1, Nodish, SentProper
  <2>5. CASE Failed \/ OtherWork
    BY <1>1, <2>5, FailedDoes, OtherWorkDoes
  <2> QED BY <1>4, <2>1, <2>2, <2>3, <2>4, <2>5 DEF Host
<1>5. CASE Interrupt
  <2>1. Current \in Slots
    BY <1>5, InterruptDoes
  <2>2. queue' = queue \/ (Accepted(Current) /\ \E e \in Events :
                                queue' = Push(e, queue) /\ e.type = "defer" /\ e.org.idx = Current)
    BY <1>5, InterruptDoes
  <2>3. ASSUME Accepted(Current), NEW e \in Events, queue' = Push(e, queue), e.type = "defer", e.org.idx = Current
        PROVE  QueueStep
    <3>1. ~Halted(task, Current)
      BY <2>3 DEF Accepted, Stopped, Halted
    <3>2. Proper(e)
      BY <2>3, <3>1 DEF Proper, Forged, Abouts, Sent
    <3> QED BY <2>3, <3>2 DEF QueueStep
  <2> QED BY <1>1, <2>2, <2>3
<1>6. CASE UNCHANGED vars
  BY <1>1, <1>6 DEF vars
<1> QED BY <1>2, <1>3, <1>4, <1>5, <1>6 DEF Next, MainLoop

LEMMA DequeueOrder ==
  ASSUME TaskInv, TaskInv', OrderInv, Dequeue
  PROVE  OrderInv'
<1>1. stack = <<>> /\ queue # <<>> /\ queue' = Tail(queue) /\ queue[1] \in Events /\ queue[1].type \in Posted
  BY DequeueDoes
<1>2. PICK f \in Frames :
        /\ stack' = <<f>> /\ f.ev = queue[1]
        /\ \/ f = Walk(queue[1]) /\ queue[1].type = "user"
           \/ /\ f.do = "event" /\ queue[1].type # "user"
              /\ f.cur = queue[1].org.idx /\ f.due = {}
  BY DequeueDoes
<1>3. stack \in Seq(Frames) /\ queue \in Seq(Events) /\ stack' \in Seq(Frames) /\ queue' \in Seq(Events)
  BY TaskKinds, TypedNext
<1>4. PICK q \in Seq(Events) : q = queue
  BY <1>3
<1>5. PICK r \in Seq(Events) :
        /\ r = Tail(q) /\ Len(r) = Len(q) - 1 /\ Len(q) \in Nat /\ Len(q) > 0
        /\ Head(q) = q[1] /\ \A i \in 1 .. Len(q) - 1 : r[i] = q[i + 1]
  <2>1. q # <<>>
    BY <1>1, <1>4
  <2> QED BY ONLY <2>1, q \in Seq(Events), Popped
<1>6. r = queue'
  BY <1>1, <1>4, <1>5
<1>7. \A i \in 1 .. Len(r) : r[i] = q[i + 1] /\ i + 1 \in 2 .. Len(q)
  BY <1>5
<1>8. \A i, j \in 1 .. Len(q), s \in Slots : i < j /\ EndOf(q[i], s) => q[j] \notin Abouts(s)
  BY <1>4 DEF OrderInv, OrderOK
<1>9. \A i, j \in 1 .. Len(r), s \in Slots : i < j /\ EndOf(r[i], s) => r[j] \notin Abouts(s)
  <2>1. SUFFICES ASSUME NEW i \in 1 .. Len(r), NEW j \in 1 .. Len(r), NEW s \in Slots, i < j, EndOf(r[i], s)
                 PROVE  r[j] \notin Abouts(s)
    OBVIOUS
  <2>2. i + 1 \in 1 .. Len(q) /\ j + 1 \in 1 .. Len(q) /\ i + 1 < j + 1
    BY <1>5, <2>1
  <2> QED BY <1>7, <1>8, <2>1, <2>2
<1>10. \A Y, g : (\A a \in Frames : Aside(a) => a \notin Y) /\ g = f => Count(Y, stack') = Weighs(Y, g)
  BY <1>1, <1>2, <1>3, StackCounts
<1>11. \A s : \A g \in Frames : Aside(g) => g \notin Astray /\ g \notin Expiring(s)
  BY AsideIsClear
<1>12. ASSUME NEW s \in Slots, Count(Expiring(s), stack') # 0
       PROVE  Count(Abouts(s), queue') = 0
  <2>1. Count(Expiring(s), stack') = Weighs(Expiring(s), f)
    BY <1>10, <1>11
  <2>2. EndOf(q[1], s)
    BY <1>2, <1>4, <1>12, <2>1 DEF Weighs, Expiring
  <2>3. \A i \in 1 .. Len(r) : r[i] \notin Abouts(s)
    BY <1>5, <1>7, <1>8, <2>2
  <2> QED BY <1>3, <1>6, <2>3, CountedNone
<1>13. Count(Forged, queue') = 0 /\ queue[1] \notin Forged
  <2>1. Count(Forged, queue') = Count(Forged, queue) - Weighs(Forged, queue[1])
    BY <1>1, <1>3, QueueCounts
  <2>2. Count(Forged, queue) = 0
    BY DEF OrderInv, OrderOK
  <2>3. Count(Forged, queue') \in Nat
    <3>1. \A t \in Seq(Events) : Count(Forged, t) \in Nat
      BY Counted
    <3> QED BY ONLY <1>3, <3>1
  <2>4. Weighs(Forged, queue[1]) \in Nat
    BY DEF Weighs
  <2>5. Count(Forged, queue') = 0 /\ Weighs(Forged, queue[1]) = 0
    BY ONLY <2>1, <2>2, <2>3, <2>4
  <2>6. queue[1] \notin Forged
    BY <2>5 DEF Weighs
  <2> QED BY <2>5, <2>6
<1>14. f \notin Astray
  <2>1. Walk(queue[1]).do = "walk" /\ (queue[1].type = "user" => Walk(queue[1]).cur = System)
    BY <1>1, WalkIs DEF Walk, Frame
  <2>2. queue[1].type # "boot" /\ (queue[1].type = "end" => queue[1].org.idx = System)
    BY <1>1, <1>13 DEF Forged, Posted
  <2> QED BY <1>2, <2>1, <2>2 DEF Astray, Kernels, Leaves
<1>15. Count(Astray, stack') = 0
  BY <1>10, <1>11, <1>14 DEF Weighs
<1>16. OrderOK(queue', stack')
  BY <1>6, <1>9, <1>12, <1>13, <1>15 DEF OrderOK
<1> QED BY <1>16 DEF OrderInv

\* Everything but taking an event happens while the main loop is busy.
LEMMA BusyOrSame ==
  ASSUME [Next]_vars, ~Dequeue
  PROVE  stack # <<>> \/ stack' = stack
<1>1. CASE Kernel
  BY <1>1 DEF Kernel, ApplySubscribe, ApplyUnsubscribe, Dispatch, EndTask, Visit, Visited, Free, Finish, Dropped, Event, At
<1>2. CASE App
  BY <1>2 DEF App, Publish, Subscribe, Unsubscribe, SendPrivate, Abort, AppReturn, AppCall, InApp
<1>3. CASE Host
  BY <1>3 DEF Host, StartApp, StopApp, Started, Failed, Stopping, OtherWork, At
<1>4. CASE Interrupt
  BY <1>4 DEF Interrupt
<1>5. CASE UNCHANGED vars
  BY <1>5 DEF vars
<1> QED BY <1>1, <1>2, <1>3, <1>4, <1>5 DEF Next, MainLoop

LEMMA OrderKept ==
  ASSUME TaskInv, TaskInv', "init" \notin Faults, "late" \notin Faults, OrderInv, [Next]_vars
  PROVE  OrderInv'
<1>1. CASE Dequeue
  BY <1>1, DequeueOrder
<1>2. CASE ~Dequeue
  BY <1>2, BusyOrSame, QueueDoes, StackDoes, OrderKeptOn
<1> QED BY <1>1, <1>2

LEMMA OrderAtFirst == Init /\ TaskInv => OrderInv
<1> SUFFICES ASSUME Init, TaskInv PROVE OrderInv
  OBVIOUS
<1>1. queue = <<>> /\ stack \in Seq(Frames) /\ \A i \in 1 .. Len(stack) :
        /\ stack[i] \in Frames /\ stack[i].do = "host" /\ stack[i].cur = System /\ stack[i] = Command("boot")
  BY BootFrames, Elements DEF Init
<1>2. Command("boot").ev.org.idx = System
  BY DEF Command, Frame, Evt, SystemTid
<1>3. \A i \in 1 .. Len(stack) : stack[i] \notin Astray /\ \A s : stack[i] \notin Expiring(s)
  BY <1>1, <1>2 DEF Astray, Expiring
<1>4. Count(Astray, stack) = 0 /\ \A s : Count(Expiring(s), stack) = 0
  BY <1>1, <1>3, CountedNone
<1>5. Count(Forged, queue) = 0 /\ Len(queue) = 0
  BY <1>1, CountedNothing
<1>6. OrderOK(queue, stack)
  BY <1>4, <1>5 DEF OrderOK
<1> QED BY <1>6 DEF OrderInv

-----------------------------------------------------------------------------
(* The events a task is charged for.                                        *)

Mailed(s) == {e \in Events : Sent(e, s)}
Named(s) == {f \in Frames : InName(f, s)}
Mailing(s) == {f \in Frames : Sent(f.ev, s)}
EventsUnder(q, st, s) == Tally(Owned(s), Named(s), q, st) + Tally(Mailed(s), Mailing(s), q, st)

\* ioCount is right, and nothing is left of a task that is not loaded.
PaidOK(t, q, st) ==
  \A s \in Slots :
    /\ t[s].io = EventsUnder(q, st, s) % IoWidth
    /\ s # System /\ ~t[s].loaded => EventsUnder(q, st, s) = 0
PaidInv == PaidOK(task, queue, stack)

LEMMA AsideOwesNothing ==
  ASSUME NEW s
  PROVE  \A g \in Frames : Aside(g) => /\ g \notin Named(s) /\ g \notin Mailing(s)
                                       /\ Weighs(Named(s), g) = 0 /\ Weighs(Mailing(s), g) = 0
BY DEF Aside, AppFrames, Evt, Named, InName, Mailing, Sent, Weighs

\* A frame of the kernel stands for its event, whatever it does with it.
LEMMA SameOwed ==
  ASSUME NEW s, NEW f \in Frames, NEW g \in Frames, f.do \in Kernels, g.do \in Kernels, f.ev = g.ev
  PROVE  Weighs(Named(s), f) = Weighs(Named(s), g) /\ Weighs(Mailing(s), f) = Weighs(Mailing(s), g)
BY DEF Kernels, Leaves, AppFrames, Named, InName, Mailing, Weighs

LEMMA UnderIsNat ==
  ASSUME NEW q \in Seq(Events), NEW st \in Seq(Frames), NEW s
  PROVE  EventsUnder(q, st, s) \in Nat
<1>1. /\ Count(Owned(s), q) \in Nat /\ Count(Mailed(s), q) \in Nat
      /\ Count(Named(s), st) \in Nat /\ Count(Mailing(s), st) \in Nat
  BY Counted
<1> QED BY <1>1 DEF EventsUnder, Tally

\* A step that posts at most and goes on with what it does: what is added.
LEMMA UnderPosted ==
  ASSUME TaskInv, TaskInv', NEW s, NEW m \in Nat, NEW n \in Nat,
         Settled(m, Owned(s)), Settled(n, Mailed(s)),
         stack' = stack \/ \E f \in Frames : Turned(f)
  PROVE  EventsUnder(queue', stack', s) = EventsUnder(queue, stack, s) + (m + n)
<1> DEFINE A(q, st) == Tally(Owned(s), Named(s), q, st)
           B(q, st) == Tally(Mailed(s), Mailing(s), q, st)
<1>1. A(queue, stack) \in Nat /\ B(queue, stack) \in Nat
  BY Tallied, AsideOwesNothing
<1>2. A(queue', stack') = A(queue, stack) + m /\ B(queue', stack') = B(queue, stack) + n
  <2>1. CASE stack' = stack
    BY <2>1, Tallied, AsideOwesNothing
  <2>2. ASSUME NEW f \in Frames, Turned(f)
        PROVE  A(queue', stack') = A(queue, stack) + m /\ B(queue', stack') = B(queue, stack) + n
    <3>1. Weighs(Named(s), Top) = Weighs(Named(s), f) /\ Weighs(Mailing(s), Top) = Weighs(Mailing(s), f)
      BY <2>2, SameOwed DEF Turned
    <3>2. /\ A(queue', stack') = A(queue, stack) + m - Weighs(Named(s), Top) + Weighs(Named(s), f)
          /\ Weighs(Named(s), f) \in {0, 1}
      BY <2>2, TalliedTurned, AsideOwesNothing
    <3>3. /\ B(queue', stack') = B(queue, stack) + n - Weighs(Mailing(s), Top) + Weighs(Mailing(s), f)
          /\ Weighs(Mailing(s), f) \in {0, 1}
      BY <2>2, TalliedTurned, AsideOwesNothing
    <3> HIDE DEF A, B
    <3> QED BY <1>1, <3>1, <3>2, <3>3
  <2> QED BY <2>1, <2>2
<1> HIDE DEF A, B
<1>3. A(queue', stack') + B(queue', stack') = A(queue, stack) + B(queue, stack) + (m + n)
  BY <1>1, <1>2
<1> QED BY <1>3 DEF EventsUnder, A, B

LEMMA UnderSame ==
  ASSUME TaskInv, TaskInv', NEW s, queue' = queue, stack' = stack \/ \E f \in Frames : Turned(f)
  PROVE  EventsUnder(queue', stack', s) = EventsUnder(queue, stack, s)
<1>1. Settled(0, Owned(s)) /\ Settled(0, Mailed(s))
  BY DEF Settled
<1>2. EventsUnder(queue', stack', s) = EventsUnder(queue, stack, s) + (0 + 0)
  BY <1>1, UnderPosted
<1> QED BY <1>2, UnderIsNat, TaskKinds

\* Taking an event.
LEMMA UnderTaken ==
  ASSUME TaskInv, TaskInv', NEW s, Dequeue
  PROVE  EventsUnder(queue', stack', s) = EventsUnder(queue, stack, s)
<1>1. stack = <<>> /\ queue # <<>> /\ queue' = Tail(queue) /\ queue[1] \in Events /\ queue[1].type \in Posted
  BY DequeueDoes
<1>2. PICK f \in Frames :
        /\ stack' = <<f>> /\ f.ev = queue[1]
        /\ \/ f = Walk(queue[1]) /\ queue[1].type = "user"
           \/ /\ f.do = "event" /\ queue[1].type # "user"
              /\ f.cur = queue[1].org.idx /\ f.due = {}
  BY DequeueDoes
<1>3. f.do \in {"walk", "event"} /\ f.ev.type # "boot"
  BY <1>1, <1>2, WalkIs DEF Posted
<1>4. /\ Weighs(Owned(s), queue[1]) = Weighs(Named(s), f)
      /\ Weighs(Mailed(s), queue[1]) = Weighs(Mailing(s), f)
  BY <1>1, <1>2, <1>3 DEF Weighs, Owned, Named, InName, AppFrames, Mailed, Mailing
<1>5. /\ Tally(Owned(s), Named(s), queue', stack') =
           Tally(Owned(s), Named(s), queue, stack) - Weighs(Owned(s), queue[1]) + Weighs(Named(s), f)
      /\ Tally(Owned(s), Named(s), queue, stack) \in Nat
  BY <1>1, <1>2, Tallied, AsideOwesNothing
<1>6. /\ Tally(Mailed(s), Mailing(s), queue', stack') =
           Tally(Mailed(s), Mailing(s), queue, stack) - Weighs(Mailed(s), queue[1]) + Weighs(Mailing(s), f)
      /\ Tally(Mailed(s), Mailing(s), queue, stack) \in Nat
  BY <1>1, <1>2, Tallied, AsideOwesNothing
<1>7. Weighs(Named(s), f) \in {0, 1} /\ Weighs(Mailing(s), f) \in {0, 1}
  BY Sizes
<1> QED BY <1>4, <1>5, <1>6, <1>7 DEF EventsUnder

\* What is on top of the stack goes.
LEMMA UnderGone ==
  ASSUME TaskInv, TaskInv', NEW s, queue' = queue, stack # <<>>,
         \/ stack' = Tail(stack)
         \/ \E g \in Frames : Aside(g) /\ stack' = <<g>> \o Tail(stack)
  PROVE  EventsUnder(queue', stack', s) =
           EventsUnder(queue, stack, s) + (0 - Weighs(Named(s), stack[1]) - Weighs(Mailing(s), stack[1]))
<1>1. /\ Tally(Owned(s), Named(s), queue', stack') = Tally(Owned(s), Named(s), queue, stack) - Weighs(Named(s), stack[1])
      /\ Tally(Owned(s), Named(s), queue, stack) \in Nat
  BY Tallied, AsideOwesNothing
<1>2. /\ Tally(Mailed(s), Mailing(s), queue', stack') =
           Tally(Mailed(s), Mailing(s), queue, stack) - Weighs(Mailing(s), stack[1])
      /\ Tally(Mailed(s), Mailing(s), queue, stack) \in Nat
  BY Tallied, AsideOwesNothing
<1>3. Weighs(Named(s), stack[1]) \in {0, 1} /\ Weighs(Mailing(s), stack[1]) \in {0, 1}
  BY Sizes
<1> QED BY <1>1, <1>2, <1>3 DEF EventsUnder

\* The init of an app returns.
LEMMA UnderLanded ==
  ASSUME Whole, TaskInv', NEW s, queue' = queue, NEW f \in Frames, Landing(f)
  PROVE  EventsUnder(queue', stack', s) = EventsUnder(queue, stack, s)
<1>0. TaskInv
  BY DEF Whole
<1>1. 1 \in 1 .. Len(stack) /\ stack[1].do \in AppFrames
  BY <1>0, TaskKinds, Elements DEF Landing
<1>2. Aside(stack[1]) /\ stack[1] \in Frames /\ stack[2] \in Frames
  BY <1>1, PlainTop DEF Landing
<1>3. Weighs(Named(s), stack[1]) = 0 /\ Weighs(Mailing(s), stack[1]) = 0
  BY <1>2, AsideOwesNothing
<1>4. stack[2].do \in Kernels /\ f.do \in Kernels /\ f.ev = stack[2].ev
  BY DEF Landing, Kernels, Leaves
<1>5. Weighs(Named(s), stack[2]) = Weighs(Named(s), f) /\ Weighs(Mailing(s), stack[2]) = Weighs(Mailing(s), f)
  BY <1>2, <1>4, SameOwed
<1>6. /\ Tally(Owned(s), Named(s), queue', stack') =
           Tally(Owned(s), Named(s), queue, stack) - Weighs(Named(s), stack[1]) - Weighs(Named(s), stack[2]) + Weighs(Named(s), f)
      /\ Tally(Owned(s), Named(s), queue, stack) \in Nat
  BY <1>0, Tallied, AsideOwesNothing
<1>7. /\ Tally(Mailed(s), Mailing(s), queue', stack') =
           Tally(Mailed(s), Mailing(s), queue, stack) - Weighs(Mailing(s), stack[1]) - Weighs(Mailing(s), stack[2])
           + Weighs(Mailing(s), f)
      /\ Tally(Mailed(s), Mailing(s), queue, stack) \in Nat
  BY <1>0, Tallied, AsideOwesNothing
<1>8. Weighs(Named(s), f) \in {0, 1} /\ Weighs(Mailing(s), f) \in {0, 1}
  BY Sizes
<1> QED BY <1>3, <1>5, <1>6, <1>7, <1>8 DEF EventsUnder

\* Frames of app code come on top, with or without a message that was refused.
LEMMA UnderPushed ==
  ASSUME TaskInv, TaskInv', NEW s, queue' = queue, NEW g \in Frames, Aside(g)
  PROVE  /\ stack' = Push(g, stack) => EventsUnder(queue', stack', s) = EventsUnder(queue, stack, s)
         /\ \A h \in Frames : stack' = Push(g, Push(h, stack)) =>
              EventsUnder(queue', stack', s) =
                EventsUnder(queue, stack, s) + (Weighs(Named(s), h) + Weighs(Mailing(s), h))
<1>1. /\ stack' = Push(g, stack) => Tally(Owned(s), Named(s), queue', stack') = Tally(Owned(s), Named(s), queue, stack)
      /\ \A h \in Frames : stack' = Push(g, Push(h, stack)) =>
           Tally(Owned(s), Named(s), queue', stack') = Tally(Owned(s), Named(s), queue, stack) + Weighs(Named(s), h)
      /\ Tally(Owned(s), Named(s), queue, stack) \in Nat
  BY Tallied, AsideOwesNothing
<1>2. /\ stack' = Push(g, stack) =>
           Tally(Mailed(s), Mailing(s), queue', stack') = Tally(Mailed(s), Mailing(s), queue, stack)
      /\ \A h \in Frames : stack' = Push(g, Push(h, stack)) =>
           Tally(Mailed(s), Mailing(s), queue', stack') =
             Tally(Mailed(s), Mailing(s), queue, stack) + Weighs(Mailing(s), h)
      /\ Tally(Mailed(s), Mailing(s), queue, stack) \in Nat
  BY Tallied, AsideOwesNothing
<1>3. \A h : Weighs(Named(s), h) \in {0, 1} /\ Weighs(Mailing(s), h) \in {0, 1}
  BY Sizes
<1> QED BY <1>1, <1>2, <1>3 DEF EventsUnder

LEMMA ModSmall ==
  ASSUME NEW w \in Nat \ {0}, NEW r \in 0 .. w - 1
  PROVE  r % w = r /\ (r + 0) % w = r
<1>1. (w * 0 + r) % w = r
  BY ModUnique
<1>2. w * 0 + r = r /\ r + 0 = r
  OBVIOUS
<1> QED BY <1>1, <1>2

LEMMA WidthIs == IoWidth \in Nat \ {0}
BY SeosAssumption

LEMMA IoIs ==
  ASSUME NEW t \in [Slots -> TaskRecords], NEW s \in Slots
  PROVE  t[s].io \in 0 .. IoWidth - 1 /\ t[s].io \in Int
<1>1. t[s] \in TaskRecords
  OBVIOUS
<1>2. t[s].io \in 0 .. IoWidth - 1
  BY <1>1 DEF TaskRecords
<1> QED BY <1>2, WidthIs

LEMMA ChargedIs ==
  ASSUME NEW t \in [Slots -> TaskRecords], NEW c \in Slots, NEW n \in Int, NEW s \in Slots
  PROVE  /\ Charge(t, c, n)[s].io = IF s = c THEN (t[s].io + n) % IoWidth ELSE t[s].io
         /\ Charge(t, c, n)[s].loaded = t[s].loaded
<1>1. t[c] \in TaskRecords /\ t[s] \in TaskRecords
  OBVIOUS
<1>2. Charge(t, c, n)[s] = IF s = c THEN [t[c] EXCEPT !.io = (t[c].io + n) % IoWidth] ELSE t[s]
  BY DEF Charge
<1>3. \A i : \A k \in TaskRecords : [k EXCEPT !.io = i].io = i /\ [k EXCEPT !.io = i].loaded = k.loaded
  BY DEF TaskRecords
<1> QED BY <1>1, <1>2, <1>3

LEMMA FlaggedPurse ==
  ASSUME NEW t \in [Slots -> TaskRecords], NEW c \in Slots, NEW g, NEW s \in Slots
  PROVE  Flagged(t, c, g)[s].io = t[s].io /\ Flagged(t, c, g)[s].loaded = t[s].loaded
<1>1. t[c] \in TaskRecords
  OBVIOUS
<1>2. Flagged(t, c, g)[s] = IF s = c THEN [t[c] EXCEPT !.flags = g] ELSE t[s]
  BY DEF Flagged
<1>3. \A k \in TaskRecords : [k EXCEPT !.flags = g].io = k.io /\ [k EXCEPT !.flags = g].loaded = k.loaded
  BY DEF TaskRecords
<1> QED BY <1>1, <1>2, <1>3

\* The tasks t owe what the tasks u owe.
SamePurse(t, u) == \A s \in Slots : u[s].io = t[s].io /\ u[s].loaded = t[s].loaded

LEMMA PaidSame ==
  ASSUME PaidInv, SamePurse(task, task'),
         \A s \in Slots : EventsUnder(queue', stack', s) = EventsUnder(queue, stack, s)
  PROVE  PaidInv'
<1>1. \A s \in Slots : /\ task[s].io = EventsUnder(queue, stack, s) % IoWidth
                       /\ s # System /\ ~task[s].loaded => EventsUnder(queue, stack, s) = 0
  BY DEF PaidInv, PaidOK
<1>2. PaidOK(task', queue', stack')
  BY <1>1 DEF PaidOK, SamePurse
<1> QED BY <1>2 DEF PaidInv

\* A step that changes what is under way by d and ioCount by as much.
LEMMA PaidBy ==
  ASSUME TaskInv, TaskInv', PaidInv, NEW d \in [Slots -> Int],
         \A s \in Slots :
           /\ EventsUnder(queue', stack', s) = EventsUnder(queue, stack, s) + d[s]
           /\ task'[s].io = (task[s].io + d[s]) % IoWidth
           /\ task'[s].loaded = task[s].loaded
           /\ d[s] > 0 => s = System \/ task[s].loaded
  PROVE  PaidInv'
<1>1. ASSUME NEW s \in Slots
      PROVE  /\ task'[s].io = EventsUnder(queue', stack', s) % IoWidth
             /\ s # System /\ ~task'[s].loaded => EventsUnder(queue', stack', s) = 0
  <2>1. /\ task[s].io = EventsUnder(queue, stack, s) % IoWidth
        /\ s # System /\ ~task[s].loaded => EventsUnder(queue, stack, s) = 0
    BY DEF PaidInv, PaidOK
  <2>2. EventsUnder(queue, stack, s) \in Nat /\ EventsUnder(queue', stack', s) \in Nat
    BY UnderIsNat, TaskKinds, TypedNext
  <2>3. PICK a \in Nat : a = EventsUnder(queue, stack, s)
    BY <2>2
  <2>4. PICK b \in Nat : b = EventsUnder(queue', stack', s)
    BY <2>2
  <2>5. PICK k \in Int : k = d[s]
    OBVIOUS
  <2>6. b = a + k /\ task'[s].io = (task[s].io + k) % IoWidth /\ task'[s].loaded = task[s].loaded
        /\ (k > 0 => s = System \/ task[s].loaded)
    BY <2>3, <2>4, <2>5
  <2>7. ((a % IoWidth) + k) % IoWidth = (a + k) % IoWidth
    <3>1. a \in Int /\ k \in Int /\ IoWidth \in Nat \ {0}
      BY WidthIs
    <3> QED BY ONLY <3>1, ModPlus
  <2>8. task'[s].io = b % IoWidth
    BY <2>1, <2>3, <2>6, <2>7
  <2>9. s # System /\ ~task'[s].loaded => b = 0
    BY <2>1, <2>3, <2>6
  <2> QED BY <2>4, <2>8, <2>9
<1>2. PaidOK(task', queue', stack')
  BY <1>1 DEF PaidOK
<1> QED BY <1>2 DEF PaidInv

\* A task that is not stopped posts an event in its own name, or fails to.
LEMMA PaidPost ==
  ASSUME TaskInv, TaskInv', PaidInv, NEW c \in Slots, c = System \/ task[c].loaded,
         NEW e \in Events, e.org.idx = c, e.type # "private", Posting(e),
         NEW t \in [Slots -> TaskRecords], SamePurse(task, t), task' = Charge(t, c, 1),
         stack' = stack \/ \E f \in Frames : Turned(f)
  PROVE  PaidInv'
<1> DEFINE d == [s \in Slots |-> IF s = c THEN 1 ELSE 0]
<1>1. d \in [Slots -> Int]
  OBVIOUS
<1>2. ASSUME NEW s \in Slots
      PROVE  /\ EventsUnder(queue', stack', s) = EventsUnder(queue, stack, s) + d[s]
             /\ task'[s].io = (task[s].io + d[s]) % IoWidth
             /\ task'[s].loaded = task[s].loaded
             /\ d[s] > 0 => s = System \/ task[s].loaded
  <2>1. Weighs(Owned(s), e) = d[s] /\ Weighs(Mailed(s), e) = 0
    BY DEF Weighs, Owned, Mailed, Sent
  <2>2. Settled(Weighs(Owned(s), e), Owned(s)) /\ Settled(Weighs(Mailed(s), e), Mailed(s))
    BY DEF Settled
  <2>3. Weighs(Owned(s), e) \in Nat /\ Weighs(Mailed(s), e) \in Nat
    BY Sizes
  <2>4. EventsUnder(queue', stack', s) = EventsUnder(queue, stack, s) + (Weighs(Owned(s), e) + Weighs(Mailed(s), e))
    BY <2>2, <2>3, UnderPosted
  <2>5. EventsUnder(queue', stack', s) = EventsUnder(queue, stack, s) + d[s]
    BY <2>1, <2>3, <2>4
  <2>6. t[s].io = task[s].io /\ t[s].loaded = task[s].loaded
    BY DEF SamePurse
  <2>7. /\ task'[s].io = IF s = c THEN (t[s].io + 1) % IoWidth ELSE t[s].io
        /\ task'[s].loaded = t[s].loaded
    BY ChargedIs
  <2>8. task[s].io \in 0 .. IoWidth - 1
    BY TaskKinds, IoIs
  <2>9. (task[s].io + 0) % IoWidth = task[s].io
    BY <2>8, WidthIs, ModSmall
  <2> QED BY <2>5, <2>6, <2>7, <2>9
<1> HIDE DEF d
<1> QED BY <1>1, <1>2, PaidBy

LEMMA PaidSends ==
  ASSUME TaskInv, TaskInv', PaidInv, NEW c \in Slots, c = System \/ task[c].loaded,
         NEW e \in Events, e.org.idx = c, e.type # "private",
         NEW t \in [Slots -> TaskRecords], SamePurse(task, t), Sends(t, c, e),
         stack' = stack \/ \E f \in Frames : Turned(f)
  PROVE  PaidInv'
<1>1. CASE Accepted(c)
  BY <1>1, PaidPost DEF Sends, Posting
<1>2. CASE ~Accepted(c)
  <2>1. queue' = queue /\ SamePurse(task, task')
    BY <1>2 DEF Sends
  <2>2. \A s \in Slots : EventsUnder(queue', stack', s) = EventsUnder(queue, stack, s)
    BY <2>1, UnderSame
  <2> QED BY <2>1, <2>2, PaidSame
<1> QED BY <1>1, <1>2

\* Whoever posts, an interrupt included, does so as the system or as a loaded task.
LEMMA PosterIsLoaded ==
  ASSUME TaskInv, OrderInv, PaidInv
  PROVE  Current \in Slots /\ (Current = System \/ task[Current].loaded)
<1>1. CASE stack = <<>>
  BY <1>1, Nodish DEF Current
<1>2. CASE stack # <<>>
  <2>1. /\ stack \in Seq(Frames) /\ Len(stack) \in Nat /\ 1 \in 1 .. Len(stack) /\ stack[1] \in Frames
        /\ queue \in Seq(Events)
    BY <1>2, TaskKinds, Elements
  <2>2. Current = stack[1].cur /\ stack[1].cur \in Slots /\ stack[1].do \in Kernels \cup Nested
    BY <1>2, <2>1 DEF Current, Top, Frames
  <2>3. stack[1] \notin Astray
    BY <2>1, CountedNone DEF OrderInv, OrderOK
  <2>4. CASE stack[1].do \in AppFrames
    BY <2>1, <2>2, <2>4, Opened DEF FrameOK
  <2>5. CASE stack[1].do = "dropped"
    BY <2>1, <2>2, <2>3, <2>5 DEF Astray
  <2>6. CASE stack[1].do \in Kernels
    <3>1. Current \in {System, stack[1].ev.org.idx}
      BY <2>1, <2>2, <2>3, <2>6 DEF Astray
    <3>2. SUFFICES ASSUME Current # System PROVE task[Current].loaded
      BY <2>2
    <3>3. stack[1] \in Named(Current)
      BY <2>1, <2>3, <2>6, <3>1, <3>2 DEF Astray, Named, InName, AppFrames, Kernels, Leaves
    <3>4. Count(Named(Current), stack) # 0
      BY <2>1, <3>3, CountedNone
    <3>5. /\ Count(Owned(Current), queue) \in Nat /\ Count(Mailed(Current), queue) \in Nat
          /\ Count(Named(Current), stack) \in Nat /\ Count(Mailing(Current), stack) \in Nat
      BY <2>1, Counted
    <3>6. EventsUnder(queue, stack, Current) # 0
      BY <3>4, <3>5 DEF EventsUnder, Tally
    <3> QED BY <2>2, <3>2, <3>6 DEF PaidInv, PaidOK
  <2> QED BY <2>2, <2>4, <2>5, <2>6 DEF Nested
<1> QED BY <1>1, <1>2

\* A subscription leaves what a task is charged, and whether its slot is in use, alone.
LEMMA AddedKeepsPurse ==
  ASSUME task \in [Slots -> TaskRecords], NEW s \in Slots, NEW v, NEW b \in BOOLEAN
  PROVE  \A x \in Slots : /\ Added(s, v, b)[x].io = task[x].io
                         /\ Added(s, v, b)[x].loaded = task[x].loaded
<1>1. \A u, w, x : x \in Slots =>
        LET t == [task EXCEPT ![s].subs = u, ![s].sz = w]
        IN t[x].io = task[x].io /\ t[x].loaded = task[x].loaded
  BY DEF TaskRecords
<1>2. \A x \in Slots :
        LET t == [task EXCEPT ![s].short = TRUE]
        IN t[x].io = task[x].io /\ t[x].loaded = task[x].loaded
  BY DEF TaskRecords
<1> DEFINE full == Cardinality(task[s].subs) = task[s].sz
           size == IF full THEN (task[s].sz * 3 + 1) \div 2 ELSE task[s].sz
<1>3. CASE v \in task[s].subs
  <2>1. Added(s, v, b) = task
    BY <1>3 DEF Added
  <2> QED BY <2>1
<1>4. CASE v \notin task[s].subs /\ full /\ ~b
  <2>1. Added(s, v, b) = [task EXCEPT ![s].short = TRUE]
    BY <1>4 DEF Added
  <2> QED BY <1>2, <2>1
<1>5. CASE v \notin task[s].subs /\ ~(full /\ ~b)
  <2>1. Added(s, v, b) = [task EXCEPT ![s].subs = task[s].subs \cup {v}, ![s].sz = size]
    BY <1>5 DEF Added
  <2> HIDE DEF size
  <2> QED BY <1>1, <2>1
<1> QED BY <1>3, <1>4, <1>5

LEMMA KernelPays ==
  ASSUME TaskInv, TaskInv', PaidInv,
         ApplySubscribe \/ ApplyUnsubscribe \/ Dispatch \/ Visit \/ Visited \/ Free \/ OtherWork
  PROVE  PaidInv'
<1>1. queue' = queue /\ \E f \in Frames : Turned(f)
  <2>1. \A d, k, f : Turning(d, k, f) => Turned(f)
    BY DEF Turning
  <2> QED BY <2>1, SubscribeDoes, DispatchDoes, VisitDoes, VisitedDoes, FreeDoes, OtherWorkDoes
<1>2. SamePurse(task, task')
  <2>0. task' = task => SamePurse(task, task')
    BY DEF SamePurse
  <2>1. CASE ApplySubscribe \/ ApplyUnsubscribe
    <3>1. At("event")
      BY <2>1 DEF ApplySubscribe, ApplyUnsubscribe, Event
    <3>2. Top.ev.to.idx \in Slots /\ task \in [Slots -> TaskRecords]
      BY <3>1, Going, Labelling, TaskKinds
    <3>3. CASE ApplySubscribe
      <4>1. PICK b \in BOOLEAN : task' = Added(Top.ev.to.idx, Top.ev.evt, b)
        BY <3>3 DEF ApplySubscribe
      <4>2. \A x \in Slots : task'[x].io = task[x].io /\ task'[x].loaded = task[x].loaded
        BY <3>2, <4>1, AddedKeepsPurse
      <4> QED BY <4>2 DEF SamePurse
    <3>4. CASE ApplyUnsubscribe
      <4>1. task' = [task EXCEPT ![Top.ev.to.idx].subs = @ \ {Top.ev.evt}]
        BY <3>4 DEF ApplyUnsubscribe
      <4>2. \A x \in Slots : task'[x].io = task[x].io /\ task'[x].loaded = task[x].loaded
        BY <3>2, <4>1 DEF TaskRecords
      <4> QED BY <4>2 DEF SamePurse
    <3> QED BY <2>1, <3>3, <3>4
  <2> QED BY <2>0, <2>1, DispatchDoes, VisitDoes, VisitedDoes, FreeDoes, OtherWorkDoes
<1>3. \A s \in Slots : EventsUnder(queue', stack', s) = EventsUnder(queue, stack, s)
  BY <1>1, UnderSame
<1> QED BY <1>2, <1>3, PaidSame

LEMMA DequeuePays ==
  ASSUME TaskInv, TaskInv', PaidInv, Dequeue
  PROVE  PaidInv'
<1>1. \A s \in Slots : EventsUnder(queue', stack', s) = EventsUnder(queue, stack, s)
  BY UnderTaken
<1>2. SamePurse(task, task')
  BY DEF Dequeue, SamePurse
<1> QED BY <1>1, <1>2, PaidSame

\* When the end of a task is handled, this is all that is left of it.
LEMMA NothingIsLeft ==
  ASSUME TaskInv, OrderInv, At("ended"), NEW s, s = Top.ev.to.idx
  PROVE  s \in Slots /\ s # System /\ EventsUnder(queue, stack, s) = 0
<1>1. /\ stack # <<>> /\ Top = stack[1] /\ Top.do = "ended" /\ Top \in Frames /\ Top.ev \in Events
      /\ s \in Slots /\ FrameOK(Top, Running, Spare, list, task, queue, calls)
  BY Going, Labelling
<1>2. /\ stack \in Seq(Frames) /\ Len(stack) \in Nat /\ Len(stack) > 0 /\ 1 \in 1 .. Len(stack)
      /\ queue \in Seq(Events)
  BY <1>1, TaskKinds, Elements
<1>3. Top.ev.type = "end" /\ Halted(task, s)
  BY <1>1 DEF FrameOK
<1>4. s # System
  BY <1>1, <1>3, StoppedIsLoaded
<1>5. stack[1] \notin Astray
  BY <1>2, CountedNone DEF OrderInv, OrderOK
<1>6. Top.ev.org.idx = System
  BY <1>1, <1>3, <1>5 DEF Astray, Kernels
<1>7. Count(Abouts(s), queue) = 0
  <2>1. stack[1] \in Expiring(s)
    BY <1>1, <1>3 DEF Expiring, EndOf
  <2>2. Count(Expiring(s), stack) # 0
    BY <1>2, <2>1, CountedNone
  <2> QED BY <1>1, <2>2 DEF OrderInv, OrderOK
<1>8. Count(Owned(s), queue) = 0 /\ Count(Mailed(s), queue) = 0
  <2>1. \A i \in 1 .. Len(queue) : queue[i] \notin Abouts(s)
    BY <1>2, <1>7, CountedNone
  <2>2. \A i \in 1 .. Len(queue) : queue[i] \notin Owned(s) /\ queue[i] \notin Mailed(s)
    BY <2>1 DEF Abouts, Owned, Mailed
  <2> QED BY <1>2, <2>2, CountedNone
<1>9. Count(Named(s), stack) = 0 /\ Count(Mailing(s), stack) = 0
  <2>1. stack[1].do \in Kernels
    BY <1>1 DEF Kernels
  <2>2. \A i \in 2 .. Len(stack) : stack[i].do = "host" /\ stack[i].ev.type = "boot"
    BY <1>2, <2>1, Opened, OnlyBootBelow
  <2>3. stack[1] \notin Named(s) /\ stack[1] \notin Mailing(s)
    BY <1>1, <1>3, <1>4, <1>6 DEF Named, InName, Mailing, Sent
  <2>4. \A i \in 2 .. Len(stack) : stack[i] \notin Named(s) /\ stack[i] \notin Mailing(s)
    BY <2>2 DEF Named, InName, Mailing, Sent
  <2>5. \A i \in 1 .. Len(stack) : i = 1 \/ i \in 2 .. Len(stack)
    BY <1>2
  <2>6. \A i \in 1 .. Len(stack) : stack[i] \notin Named(s) /\ stack[i] \notin Mailing(s)
    BY <2>3, <2>4, <2>5
  <2> QED BY <1>2, <2>6, CountedNone
<1> QED BY <1>1, <1>4, <1>8, <1>9 DEF EventsUnder, Tally

LEMMA FreedPurse ==
  ASSUME task \in [Slots -> TaskRecords], NEW s \in Slots
  PROVE  Freed(s)[s].io = 0 /\ ~Freed(s)[s].loaded
<1>1. task[s] \in TaskRecords
  OBVIOUS
<1>2. Freed(s)[s] = [task[s] EXCEPT !.flags = {}, !.io = 0, !.loaded = FALSE]
  BY DEF Freed
<1>3. \A k \in TaskRecords : [k EXCEPT !.flags = {}, !.io = 0, !.loaded = FALSE].io = 0
  BY DEF TaskRecords
<1> QED BY <1>1, <1>2, <1>3, FreedIs

\* One slot is cleared, or taken, of a task that has nothing under way.
LEMMA PaidCleared ==
  ASSUME TaskInv, TaskInv', PaidInv, NEW x \in Slots, EventsUnder(queue, stack, x) = 0,
         task'[x].io = 0, \A s \in Slots : s # x => task'[s] = task[s],
         queue' = queue, stack' = stack \/ \E f \in Frames : Turned(f)
  PROVE  PaidInv'
<1>1. ASSUME NEW s \in Slots
      PROVE  /\ task'[s].io = EventsUnder(queue', stack', s) % IoWidth
             /\ s # System /\ ~task'[s].loaded => EventsUnder(queue', stack', s) = 0
  <2>1. EventsUnder(queue', stack', s) = EventsUnder(queue, stack, s)
    BY UnderSame
  <2>2. CASE s = x
    <3>1. 0 % IoWidth = 0
      BY WidthIs, ModSmall
    <3> QED BY <2>1, <2>2, <3>1
  <2>3. CASE s # x
    BY <2>1, <2>3 DEF PaidInv, PaidOK
  <2> QED BY <2>2, <2>3
<1>2. PaidOK(task', queue', stack')
  BY <1>1 DEF PaidOK
<1> QED BY <1>2 DEF PaidInv

LEMMA EndTaskPays ==
  ASSUME TaskInv, TaskInv', OrderInv, PaidInv, EndTask
  PROVE  PaidInv'
<1>1. PICK x : x = Top.ev.to.idx
  OBVIOUS
<1>2. /\ queue' = queue /\ task' = Freed(x) /\ x \in Slots /\ Turned(Walk(Top.ev))
  BY <1>1, EndTaskDoes
<1>3. Walk(Top.ev) \in Frames
  BY <1>2 DEF Turned
<1>4. EventsUnder(queue, stack, x) = 0
  BY <1>1, NothingIsLeft DEF EndTask
<1>5. task'[x].io = 0 /\ \A s \in Slots : s # x => task'[s] = task[s]
  BY <1>2, TaskKinds, FreedIs, FreedPurse
<1> QED BY <1>2, <1>3, <1>4, <1>5, PaidCleared

LEMMA StartAppPays ==
  ASSUME TaskInv, TaskInv', PaidInv, NEW a \in Apps, StartApp(a)
  PROVE  PaidInv'
<1>1. PICK x \in Spare, n \in 0 .. Counter - 1 :
         /\ x \in Slots /\ x # System /\ queue' = queue
         /\ New(a, n) \in TaskRecords /\ Begun(New(a, n)) \in TaskRecords
         /\ \/ /\ task' = [task EXCEPT ![x] = New(a, n)]
               /\ \E f \in Frames : Turning("host", "done", f)
            \/ /\ task' = [task EXCEPT ![x] = Begun(New(a, n))]
               /\ \E f \in Frames : Turning("host", "starting", f) /\ f.at = x
  BY StartAppDoes
<1>2. New(a, n).io = 0 /\ Begun(New(a, n)).io = 0
  BY DEF New, Begun, Cleared
<1>3. ~task[x].loaded
  BY <1>1, StatusHolds DEF StatusOK
<1>4. EventsUnder(queue, stack, x) = 0
  BY <1>1, <1>3 DEF PaidInv, PaidOK
<1>5. task'[x].io = 0 /\ \A s \in Slots : s # x => task'[s] = task[s]
  BY <1>1, <1>2, TaskKinds
<1>6. \E f \in Frames : Turned(f)
  BY <1>1 DEF Turning
<1> QED BY <1>1, <1>4, <1>5, <1>6, PaidCleared

LEMMA FinishPays ==
  ASSUME TaskInv, TaskInv', PaidInv, Finish
  PROVE  PaidInv'
<1>1. /\ queue' = queue /\ stack # <<>> /\ Top = stack[1] /\ Top \in Frames /\ Top.do = "freed"
      /\ Top.ev \in Events /\ stack' = Tail(stack)
      /\ task' = IF Top.ev.type = "boot" THEN task ELSE Uncharge(Top.ev)
  BY FinishDoes
<1>2. Top.ev.org.idx \in Slots /\ Top.ev.by.idx \in Slots /\ -1 \in Int
  BY <1>1, EventFields
<1>3. PICK o \in Slots, b \in Slots : o = Top.ev.org.idx /\ b = Top.ev.by.idx
  BY <1>2
<1>4. \A s : /\ Weighs(Named(s), stack[1]) = IF Top.ev.type # "boot" /\ s = o THEN 1 ELSE 0
             /\ Weighs(Mailing(s), stack[1]) = IF Top.ev.type = "private" /\ s = b THEN 1 ELSE 0
  BY <1>1, <1>3 DEF Weighs, Named, InName, AppFrames, Mailing, Sent
<1> DEFINE d == [s \in Slots |-> 0 - Weighs(Named(s), stack[1]) - Weighs(Mailing(s), stack[1])]
<1>5. \A s \in Slots : d[s] \in Int /\ d[s] <= 0
  <2>1. \A s : Weighs(Named(s), stack[1]) \in {0, 1} /\ Weighs(Mailing(s), stack[1]) \in {0, 1}
    BY Sizes
  <2> QED BY <2>1
<1>6. d \in [Slots -> Int]
  BY <1>5
<1>7. ASSUME NEW s \in Slots
      PROVE  /\ task'[s].io = (task[s].io + d[s]) % IoWidth /\ task'[s].loaded = task[s].loaded
  <2>0. PICK i \in Int : i = task[s].io /\ i % IoWidth = i /\ (i + 0) % IoWidth = i
    BY WidthIs, TaskKinds, IoIs, ModSmall
  <2>1. PICK t \in [Slots -> TaskRecords] : t = Charge(task, o, -1)
    BY <1>2, TaskKinds, Charged
  <2>2. t[s].io = (IF s = o THEN (i + -1) % IoWidth ELSE i) /\ t[s].loaded = task[s].loaded
    BY <1>2, <2>0, <2>1, TaskKinds, ChargedIs
  <2>3. CASE Top.ev.type = "boot"
    <3>1. d[s] = 0 /\ task' = task
      BY <1>1, <1>4, <2>3
    <3> HIDE DEF d
    <3> QED BY <2>0, <3>1
  <2>4. CASE Top.ev.type # "boot" /\ Top.ev.type # "private"
    <3>1. d[s] = (IF s = o THEN 0 - 1 - 0 ELSE 0 - 0 - 0) /\ task' = t
      BY <1>1, <1>3, <1>4, <2>1, <2>4 DEF Uncharge
    <3>2. (s = o => d[s] = -1) /\ (s # o => d[s] = 0)
      BY <3>1
    <3> HIDE DEF d
    <3> QED BY <2>0, <2>2, <3>1, <3>2
  <2>5. CASE Top.ev.type = "private"
    <3>1. task' = Charge(t, b, -1)
      BY <1>1, <1>3, <2>1, <2>5 DEF Uncharge
    <3>2. /\ task'[s].io = (IF s = b THEN (t[s].io + -1) % IoWidth ELSE t[s].io)
          /\ task'[s].loaded = t[s].loaded
      BY <1>2, <3>1, ChargedIs
    <3>3. d[s] = (0 - (IF s = o THEN 1 ELSE 0)) - (IF s = b THEN 1 ELSE 0)
      BY <1>4, <2>5
    <3>4. /\ s = o /\ s = b => d[s] = -2
          /\ s = o /\ s # b => d[s] = -1
          /\ s # o /\ s = b => d[s] = -1
          /\ s # o /\ s # b => d[s] = 0
      BY <3>3
    <3>5. (((i + -1) % IoWidth) + -1) % IoWidth = (i + -2) % IoWidth
      <4>1. PICK k \in Int : k = i + -1
        OBVIOUS
      <4>2. ((k % IoWidth) + -1) % IoWidth = (k + -1) % IoWidth
        BY <1>2, WidthIs, ModPlus
      <4>3. k + -1 = i + -2
        BY <4>1
      <4> QED BY <4>1, <4>2, <4>3
    <3> HIDE DEF d
    <3> QED BY <2>0, <2>2, <3>2, <3>4, <3>5
  <2> QED BY <2>3, <2>4, <2>5
<1>8. \A s \in Slots : EventsUnder(queue', stack', s) = EventsUnder(queue, stack, s) + d[s]
  BY <1>1, UnderGone
<1> HIDE DEF d
<1> QED BY <1>5, <1>6, <1>7, <1>8, PaidBy

LEMMA DroppedPays ==
  ASSUME TaskInv, TaskInv', OrderInv, PaidInv, Dropped
  PROVE  PaidInv'
<1>1. /\ queue' = queue /\ stack # <<>> /\ Top = stack[1] /\ Top \in Frames /\ Top.do = "dropped"
      /\ Top.ev \in Events /\ task' = Charge(task, Top.ev.by.idx, -1)
      /\ \E g \in Frames : Aside(g) /\ stack' = <<g>> \o Tail(stack)
  BY DroppedDoes
<1>2. Top.ev.by.idx \in Slots /\ -1 \in Int
  BY <1>1, EventFields
<1>3. PICK b \in Slots : b = Top.ev.by.idx
  BY <1>2
<1>4. Top.ev.type = "private"
  <2>1. stack \in Seq(Frames) /\ 1 \in 1 .. Len(stack)
    BY <1>1, TaskKinds, Elements
  <2>2. stack[1] \notin Astray
    BY <2>1, CountedNone DEF OrderInv, OrderOK
  <2> QED BY <1>1, <2>2 DEF Astray
<1>5. \A s : Weighs(Named(s), stack[1]) = 0 /\ Weighs(Mailing(s), stack[1]) = IF s = b THEN 1 ELSE 0
  BY <1>1, <1>3, <1>4 DEF Weighs, Named, InName, Mailing, Sent
<1> DEFINE d == [s \in Slots |-> IF s = b THEN -1 ELSE 0]
<1>6. d \in [Slots -> Int] /\ \A s \in Slots : d[s] <= 0
  BY <1>2
<1>7. ASSUME NEW s \in Slots
      PROVE  /\ task'[s].io = (task[s].io + d[s]) % IoWidth /\ task'[s].loaded = task[s].loaded
             /\ EventsUnder(queue', stack', s) = EventsUnder(queue, stack, s) + d[s]
  <2>1. PICK i \in Int : i = task[s].io /\ (i + 0) % IoWidth = i
    BY WidthIs, TaskKinds, IoIs, ModSmall
  <2>2. task'[s].io = (IF s = b THEN (i + -1) % IoWidth ELSE i) /\ task'[s].loaded = task[s].loaded
    BY <1>1, <1>2, <1>3, <2>1, TaskKinds, ChargedIs
  <2>3. EventsUnder(queue', stack', s) = EventsUnder(queue, stack, s) + (0 - 0 - (IF s = b THEN 1 ELSE 0))
    BY <1>1, <1>5, UnderGone
  <2>4. EventsUnder(queue, stack, s) \in Nat
    BY UnderIsNat, TaskKinds
  <2> QED BY <2>1, <2>2, <2>3, <2>4
<1> HIDE DEF d
<1> QED BY <1>6, <1>7, PaidBy

LEMMA AppReturnPays ==
  ASSUME Whole, TaskInv', PaidInv, AppReturn
  PROVE  PaidInv'
<1>0. TaskInv
  BY DEF Whole
<1>1. /\ queue' = queue /\ task' = task
      /\ stack # <<>> /\ stack[1] \in Frames /\ stack[1].do \in AppFrames
      /\ stack' = Tail(stack) \/ \E f \in Frames : Landing(f)
  BY <1>0, AppReturnDoes DEF Landing
<1>2. ASSUME NEW s \in Slots
      PROVE  EventsUnder(queue', stack', s) = EventsUnder(queue, stack, s)
  <2>1. CASE \E f \in Frames : Landing(f)
    BY <1>1, <2>1, UnderLanded
  <2>2. CASE stack' = Tail(stack)
    <3>1. 1 \in 1 .. Len(stack)
      BY <1>0, <1>1, TaskKinds, Elements
    <3>2. Weighs(Named(s), stack[1]) = 0 /\ Weighs(Mailing(s), stack[1]) = 0
      BY <1>1, <3>1, PlainTop, AsideOwesNothing
    <3>3. EventsUnder(queue', stack', s) = EventsUnder(queue, stack, s) + (0 - 0 - 0)
      BY <1>0, <1>1, <2>2, <3>2, UnderGone
    <3>4. EventsUnder(queue, stack, s) \in Nat
      BY <1>0, UnderIsNat, TaskKinds
    <3> QED BY <3>3, <3>4
  <2> QED BY <1>1, <2>1, <2>2
<1>3. SamePurse(task, task')
  BY <1>1 DEF SamePurse
<1> QED BY <1>2, <1>3, PaidSame

LEMMA SendPays ==
  ASSUME TaskInv, TaskInv', PaidInv, NEW to \in Slots \ {System}, SendPrivate(to)
  PROVE  PaidInv'
<1>1. PICK e \in Events, g \in Frames, h \in Frames : Mail(to, e, g, h)
  BY SendPrivateDoes
<1>2. Me \in Slots /\ Me # System /\ task[Me].loaded /\ System \in Slots
  BY SendPrivateDoes, Nodish
<1>3. PICK m \in Slots : m = Me
  BY <1>2
<1>4. /\ e.type = "private" /\ e.org.idx = System /\ e.by.idx = m
      /\ Aside(g) /\ h.do = "dropped" /\ h.ev.type = "private" /\ h.ev.by.idx = m
  BY <1>1, <1>3 DEF Mail
<1>5. PICK t \in [Slots -> TaskRecords] : t = Charge(task, m, 1)
  BY TaskKinds, Charged
<1>6. ASSUME NEW s \in Slots
      PROVE  t[s].io = (IF s = m THEN (task[s].io + 1) % IoWidth ELSE task[s].io) /\ t[s].loaded = task[s].loaded
  BY <1>5, TaskKinds, ChargedIs
<1>7. ASSUME NEW s \in Slots
      PROVE  (task[s].io + 0) % IoWidth = task[s].io /\ EventsUnder(queue, stack, s) \in Nat
  BY WidthIs, TaskKinds, IoIs, ModSmall, UnderIsNat
<1>8. CASE queue' = Put(queue, e) /\ stack' = stack /\ task' = Charge(t, System, 1)
  <2> DEFINE d == [s \in Slots |-> (IF s = System THEN 1 ELSE 0) + (IF s = m THEN 1 ELSE 0)]
  <2>1. d \in [Slots -> Int]
    OBVIOUS
  <2>2. ASSUME NEW s \in Slots
        PROVE  /\ EventsUnder(queue', stack', s) = EventsUnder(queue, stack, s) + d[s]
               /\ task'[s].io = (task[s].io + d[s]) % IoWidth
               /\ task'[s].loaded = task[s].loaded
               /\ d[s] > 0 => s = System \/ task[s].loaded
    <3>1. /\ Weighs(Owned(s), e) = (IF s = System THEN 1 ELSE 0)
          /\ Weighs(Mailed(s), e) = (IF s = m THEN 1 ELSE 0)
      BY <1>4 DEF Weighs, Owned, Mailed, Sent
    <3>2. Settled(Weighs(Owned(s), e), Owned(s)) /\ Settled(Weighs(Mailed(s), e), Mailed(s))
      BY <1>8 DEF Settled, Posting
    <3>3. Weighs(Owned(s), e) \in Nat /\ Weighs(Mailed(s), e) \in Nat
      BY Sizes
    <3>4. EventsUnder(queue', stack', s) = EventsUnder(queue, stack, s) + (Weighs(Owned(s), e) + Weighs(Mailed(s), e))
      BY <1>8, <3>2, <3>3, UnderPosted
    <3>5. EventsUnder(queue', stack', s) = EventsUnder(queue, stack, s) + d[s]
      BY <3>1, <3>4
    <3>6. /\ task'[s].io = (IF s = System THEN (t[s].io + 1) % IoWidth ELSE t[s].io)
          /\ task'[s].loaded = t[s].loaded
      BY <1>2, <1>8, ChargedIs
    <3>7. /\ s = System => d[s] = 1 /\ s # m
          /\ s = m => d[s] = 1 /\ s # System
          /\ s # m /\ s # System => d[s] = 0
      BY <1>2, <1>3
    <3> HIDE DEF d
    <3> QED BY <1>2, <1>3, <1>6, <1>7, <3>5, <3>6, <3>7
  <2> HIDE DEF d
  <2> QED BY <2>1, <2>2, PaidBy
<1>9. CASE queue' = queue /\ stack' = Push(g, Push(h, stack)) /\ task' = t
  <2> DEFINE d == [s \in Slots |-> IF s = m THEN 1 ELSE 0]
  <2>1. d \in [Slots -> Int]
    OBVIOUS
  <2>2. ASSUME NEW s \in Slots
        PROVE  /\ EventsUnder(queue', stack', s) = EventsUnder(queue, stack, s) + d[s]
               /\ task'[s].io = (task[s].io + d[s]) % IoWidth
               /\ task'[s].loaded = task[s].loaded
               /\ d[s] > 0 => s = System \/ task[s].loaded
    <3>1. Weighs(Named(s), h) = 0 /\ Weighs(Mailing(s), h) = d[s]
      BY <1>4 DEF Weighs, Named, InName, Mailing, Sent
    <3>2. EventsUnder(queue', stack', s) =
            EventsUnder(queue, stack, s) + (Weighs(Named(s), h) + Weighs(Mailing(s), h))
      BY <1>4, <1>9, UnderPushed
    <3>3. (s = m => d[s] = 1) /\ (s # m => d[s] = 0)
      OBVIOUS
    <3> HIDE DEF d
    <3> QED BY <1>2, <1>3, <1>6, <1>7, <1>9, <3>1, <3>2, <3>3
  <2> HIDE DEF d
  <2> QED BY <2>1, <2>2, PaidBy
<1>10. CASE queue' = queue /\ stack' = Push(g, stack) /\ task' = task
  <2>1. \A s \in Slots : EventsUnder(queue', stack', s) = EventsUnder(queue, stack, s)
    BY <1>4, <1>10, UnderPushed
  <2> QED BY <1>10, <2>1, PaidSame DEF SamePurse
<1>11. \/ queue' = Put(queue, e) /\ stack' = stack /\ task' = Charge(t, System, 1)
       \/ queue' = queue /\ stack' = Push(g, Push(h, stack)) /\ task' = t
       \/ queue' = queue /\ stack' = Push(g, stack) /\ task' = task
  BY <1>1, <1>3, <1>5 DEF Mail
<1> QED BY <1>8, <1>9, <1>10, <1>11

\* A post of the running app in its own name.
LEMMA AppPosts ==
  ASSUME TaskInv, TaskInv', PaidInv, Me \in Slots, task[Me].loaded,
         NEW e \in Events, Sends(task, Me, e), e.org.idx = Me, e.type # "private", stack' = stack
  PROVE  PaidInv'
BY TaskKinds, PaidSends DEF SamePurse

LEMMA AppPays ==
  ASSUME Whole, TaskInv', PaidInv, App
  PROVE  PaidInv'
<1>0. TaskInv
  BY DEF Whole
<1>1. ASSUME NEW v \in Evts, Publish(v) PROVE PaidInv'
  <2>1. PICK e \in Events : Sends(task, Me, e) /\ e.type = "user" /\ e.org.idx = Me /\ e.id = calls + 1
    BY <1>0, <1>1, PublishDoes
  <2>2. stack' = stack /\ Me \in Slots /\ task[Me].loaded
    BY <1>0, <1>1, PublishDoes
  <2> QED BY <1>0, <2>1, <2>2, AppPosts
<1>2. ASSUME NEW v \in Values, NEW d \in {"sub", "unsub"}, NEW w, AppCall, Ask(d, v, w), stack' = stack
      PROVE  PaidInv'
  <2>1. Me \in Slots /\ task[Me].loaded
    BY <1>0, <1>2, AskDoes
  <2>2. CASE UNCHANGED <<queue, task, wanted>>
    <3>1. \A s \in Slots : EventsUnder(queue', stack', s) = EventsUnder(queue, stack, s)
      BY <1>2, <2>2
    <3> QED BY <2>2, <3>1, PaidSame DEF SamePurse
  <2>3. ASSUME NEW e \in Events, Sends(task, Me, e), e.type = d, e.org.idx = Me
        PROVE  PaidInv'
    BY <1>0, <1>2, <2>1, <2>3, AppPosts
  <2>4. \/ \E e \in Events : Sends(task, Me, e) /\ e.type = d /\ e.org.idx = Me
        \/ UNCHANGED <<queue, task, wanted>>
    BY <1>0, <1>2, AskDoes
  <2> QED BY <2>2, <2>3, <2>4
<1>3. ASSUME NEW v \in Values, Subscribe(v) \/ Unsubscribe(v) PROVE PaidInv'
  BY <1>2, <1>3 DEF Subscribe, Unsubscribe
<1>4. CASE Abort
  <2>1. stack' = stack /\ Me \in Slots
    BY <1>0, <1>4, AbortDoes
  <2>2. PICK t \in [Slots -> TaskRecords] : t = Flagged(task, Me, {"STOPPED", "ABORTED"})
    BY <1>0, <2>1, TaskKinds, FlaggedIs
  <2>3. PICK e \in Events : /\ Sends(Flagged(task, Me, {"STOPPED", "ABORTED"}), System, e) /\ e.type = "end"
                            /\ e.org.idx = System /\ e.id = 0 /\ e.to.idx = Me
    BY <1>0, <1>4, AbortDoes
  <2>4. SamePurse(task, t)
    BY <1>0, <2>1, <2>2, TaskKinds, FlaggedPurse DEF SamePurse
  <2> QED BY <1>0, <2>1, <2>2, <2>3, <2>4, Nodish, PaidSends
<1> QED BY <1>0, <1>1, <1>3, <1>4, SendPays, AppReturnPays DEF App, Values

LEMMA HostPays ==
  ASSUME TaskInv, TaskInv', OrderInv, PaidInv, Host
  PROVE  PaidInv'
<1>1. ASSUME NEW x \in Slots, StopApp(x) PROVE PaidInv'
  <2>1. PICK t \in [Slots -> TaskRecords] : t = Flagged(task, x, {"STOPPED"})
    BY TaskKinds, FlaggedIs
  <2>2. SamePurse(task, t)
    BY <2>1, TaskKinds, FlaggedPurse DEF SamePurse
  <2>3. \E f \in Frames : Turned(f)
    BY <1>1, StopAppDoes DEF Turning
  <2>4. \/ \E e \in Events : Sends(t, System, e) /\ e.type = "end" /\ e.org.idx = System
        \/ queue' = queue /\ task' = t
    BY <1>1, <2>1, StopAppDoes
  <2>5. ASSUME NEW e \in Events, Sends(t, System, e), e.type = "end", e.org.idx = System
        PROVE  PaidInv'
    BY <2>2, <2>3, <2>5, Nodish, PaidSends
  <2>6. CASE queue' = queue /\ task' = t
    <3>1. \A s \in Slots : EventsUnder(queue', stack', s) = EventsUnder(queue, stack, s)
      BY <2>3, <2>6, UnderSame
    <3> QED BY <2>2, <2>6, <3>1, PaidSame
  <2> QED BY <2>4, <2>5, <2>6
<1>2. CASE Started
  <2>1. PICK e \in Events : /\ Sends(task, Current, e) /\ e.type = "begin" /\ e.org.idx = Current
                            /\ e.id = 0
    BY <1>2, StartedDoes
  <2>2. \E f \in Frames : Turned(f)
    BY <1>2, StartedDoes DEF Turning
  <2> QED BY <2>1, <2>2, TaskKinds, PosterIsLoaded, PaidSends DEF SamePurse
<1>3. CASE Stopping
  <2>1. PICK e \in Events : /\ Sends(task, System, e) /\ e.type = "end" /\ e.org.idx = System
                            /\ e.id = 0 /\ e.to.idx = Top.at
    BY <1>3, StoppingDoes
  <2>2. \E f \in Frames : Turned(f)
    BY <1>3, StoppingDoes DEF Turning
  <2> QED BY <2>1, <2>2, TaskKinds, Nodish, PaidSends DEF SamePurse
<1>4. ~Failed
  <2>1. SUFFICES ASSUME Failed PROVE FALSE
    OBVIOUS
  <2>2. At("failed") /\ stack # <<>> /\ Top = stack[1] /\ stack[1].do = "failed"
    BY <2>1 DEF Failed, At, Top
  <2>3. stack \in Seq(Frames) /\ 1 \in 1 .. Len(stack) /\ stack[1] \in Frames
    BY <2>2, TaskKinds, Elements
  <2>4. stack[1] \in Astray
    BY <2>2, <2>3 DEF Astray
  <2>5. Count(Astray, stack) # 0
    BY <2>3, <2>4, CountedNone
  <2> QED BY <2>5 DEF OrderInv, OrderOK
<1> QED BY <1>1, <1>2, <1>3, <1>4, StartAppPays, KernelPays DEF Host

LEMMA InterruptPays ==
  ASSUME TaskInv, TaskInv', OrderInv, PaidInv, Interrupt
  PROVE  PaidInv'
<1>1. stack' = stack
  BY InterruptDoes
<1>2. \/ queue' = queue /\ task' = task
      \/ /\ task' = Charge(task, Current, 1)
         /\ \E e \in Events : queue' = Push(e, queue) /\ e.type = "defer" /\ e.org.idx = Current
  BY InterruptDoes
<1>3. CASE queue' = queue /\ task' = task
  <2>1. \A s \in Slots : EventsUnder(queue', stack', s) = EventsUnder(queue, stack, s)
    BY <1>1, <1>3
  <2> QED BY <1>3, <2>1, PaidSame DEF SamePurse
<1>4. ASSUME task' = Charge(task, Current, 1),
             NEW e \in Events, queue' = Push(e, queue), e.type = "defer", e.org.idx = Current
      PROVE  PaidInv'
  BY <1>1, <1>4, TaskKinds, PosterIsLoaded, PaidPost DEF SamePurse, Posting
<1> QED BY <1>2, <1>3, <1>4

LEMMA PaidKept ==
  ASSUME Whole, TaskInv', OrderInv, PaidInv, [Next]_vars
  PROVE  PaidInv'
<1>0. TaskInv
  BY DEF Whole
<1>1. CASE Kernel
  BY <1>0, <1>1, DequeuePays, KernelPays, EndTaskPays, FinishPays, DroppedPays DEF Kernel
<1>2. CASE App
  BY <1>2, AppPays
<1>3. CASE Host
  BY <1>0, <1>3, HostPays
<1>4. CASE Interrupt
  BY <1>0, <1>4, InterruptPays
<1>5. CASE UNCHANGED vars
  <2>1. \A s \in Slots : EventsUnder(queue', stack', s) = EventsUnder(queue, stack, s)
    BY <1>5 DEF vars
  <2> QED BY <1>5, <2>1, PaidSame DEF vars, SamePurse
<1> QED BY <1>1, <1>2, <1>3, <1>4, <1>5 DEF Next, MainLoop

LEMMA PaidAtFirst == Init /\ TaskInv => PaidInv
<1> SUFFICES ASSUME Init, TaskInv PROVE PaidInv
  OBVIOUS
<1>1. /\ queue = <<>> /\ stack \in Seq(Frames)
      /\ \A i \in 1 .. Len(stack) : stack[i].ev.type = "boot"
  BY BootFrames DEF Init
<1>2. ASSUME NEW s \in Slots PROVE task[s].io = 0 /\ EventsUnder(queue, stack, s) = 0
  <2>1. task[s] = Cleared /\ Cleared.io = 0
    BY DEF Init, Cleared
  <2>2. \A i \in 1 .. Len(stack) : stack[i] \notin Named(s) /\ stack[i] \notin Mailing(s)
    BY <1>1 DEF Named, InName, Mailing, Sent
  <2>3. Count(Named(s), stack) = 0 /\ Count(Mailing(s), stack) = 0
    BY <1>1, <2>2, CountedNone
  <2>4. Count(Owned(s), queue) = 0 /\ Count(Mailed(s), queue) = 0
    BY <1>1, CountedNothing
  <2> QED BY <2>1, <2>3, <2>4 DEF EventsUnder, Tally
<1>3. 0 % IoWidth = 0
  BY WidthIs, ModSmall
<1>4. PaidOK(task, queue, stack)
  BY <1>2, <1>3 DEF PaidOK
<1> QED BY <1>4 DEF PaidInv

LEMMA EventsAre ==
  ASSUME TaskInv, NEW s
  PROVE  EventsOf(s) = EventsUnder(queue, stack, s)
<1>1. stack \in Seq(Frames) /\ queue \in Seq(Events)
  BY TaskKinds
<1>2. DOMAIN stack = 1 .. Len(stack) /\ DOMAIN queue = 1 .. Len(queue)
  BY <1>1, Counted
<1>3. /\ {i \in DOMAIN queue : queue[i].org.idx = s} = {i \in DOMAIN queue : queue[i] \in Owned(s)}
      /\ {i \in DOMAIN queue : Sent(queue[i], s)} = {i \in DOMAIN queue : queue[i] \in Mailed(s)}
  BY <1>1, <1>2, Elements DEF Owned, Mailed
<1>4. /\ {i \in DOMAIN stack : InName(stack[i], s)} = {i \in DOMAIN stack : stack[i] \in Named(s)}
      /\ {i \in DOMAIN stack : Sent(stack[i].ev, s)} = {i \in DOMAIN stack : stack[i] \in Mailing(s)}
  BY <1>1, <1>2, Elements DEF Named, Mailing
<1>5. EventsOf(s) = Count(Owned(s), queue) + Count(Mailed(s), queue) + Count(Named(s), stack) + Count(Mailing(s), stack)
  BY <1>3, <1>4 DEF EventsOf, Count
<1>6. /\ Count(Owned(s), queue) \in Nat /\ Count(Mailed(s), queue) \in Nat
      /\ Count(Named(s), stack) \in Nat /\ Count(Mailing(s), stack) \in Nat
  BY <1>1, Counted
<1> QED BY <1>5, <1>6 DEF EventsUnder, Tally

LEMMA PaidIsAccounted == TaskInv /\ PaidInv => IoAccounted
BY EventsAre DEF PaidInv, PaidOK, IoAccounted

\* A task's ioCount is the number of its events that are not done with, modulo its
\* width, whatever is posted, refused, handled, dropped or freed, and whoever ends
\* meanwhile.  With an app that fails to initialise it is not: osFreeTask clears what
\* an interrupt charged to the app, and freeing that event wraps the count.
THEOREM IoIsAccounted ==
  ASSUME Faults \subseteq {"load", "abort"}
  PROVE  Spec => []IoAccounted
<1>1. Spec => []Whole
  BY WholeAlways DEF Orderly
<1>2. Whole => TaskInv
  BY DEF Whole
<1>3. Init /\ TaskInv => OrderInv /\ PaidInv
  BY OrderAtFirst, PaidAtFirst
<1>4. Whole /\ Whole' /\ OrderInv /\ PaidInv /\ [Next]_vars => OrderInv' /\ PaidInv'
  <2>1. "init" \notin Faults /\ "late" \notin Faults
    OBVIOUS
  <2> QED BY <2>1, OrderKept, PaidKept DEF Whole
<1>5. TaskInv /\ PaidInv => IoAccounted
  BY PaidIsAccounted
<1> QED BY <1>1, <1>2, <1>3, <1>4, <1>5, PTL DEF Spec

-----------------------------------------------------------------------------
(* Who is told to stop.                                                     *)

Few == \A s \in Slots : EventsOf(s) < IoWidth

LEMMA ChargedFlags ==
  ASSUME NEW t \in [Slots -> TaskRecords], NEW c \in Slots, NEW n \in Int, NEW s \in Slots
  PROVE  Charge(t, c, n)[s].flags = t[s].flags
<1>1. t[c] \in TaskRecords /\ t[s] \in TaskRecords
  OBVIOUS
<1>2. Charge(t, c, n)[s] = IF s = c THEN [t[c] EXCEPT !.io = (t[c].io + n) % IoWidth] ELSE t[s]
  BY DEF Charge
<1>3. \A i : \A k \in TaskRecords : [k EXCEPT !.io = i].flags = k.flags
  BY DEF TaskRecords
<1> QED BY <1>1, <1>2, <1>3

\* Only osStopTask stops a task without aborting it.
LEMMA OnlyStopStops ==
  ASSUME TaskInv, [Next]_vars, NEW s \in Slots, ~Halted(task, s), task'[s].flags = {"STOPPED"}
  PROVE  StopApp(s)
<1>1. Halted(task', s)
  BY DEF Halted
<1>2. ~SameHalts
  BY <1>1 DEF SameHalts
<1>3. ~Endless
  BY <1>2 DEF Endless
<1>4. ~Dequeue
  BY <1>2 DEF Dequeue, SameHalts
<1>5. ~EndTask
  <2>1. SUFFICES ASSUME EndTask PROVE FALSE
    OBVIOUS
  <2>2. PICK x \in Slots : x = Top.ev.to.idx /\ task' = Freed(x)
    BY <2>1, EndTaskDoes
  <2>3. ~Halted(Freed(x), x) /\ \A y \in Slots : y # x => Freed(x)[y] = task[y]
    BY TaskKinds, FreedIs
  <2> QED BY <1>1, <2>2, <2>3 DEF Halted
<1>6. ~Abort
  <2>1. SUFFICES ASSUME Abort PROVE FALSE
    OBVIOUS
  <2>2. PICK g \in SUBSET {"STOPPED", "ABORTED"} : g = {"STOPPED", "ABORTED"}
    OBVIOUS
  <2>3. Me \in Slots /\ \E e \in Events : Sends(Flagged(task, Me, g), System, e)
    BY <2>1, <2>2, AbortDoes
  <2>9. PICK m \in Slots : m = Me
    BY <2>3
  <2>4. PICK t \in [Slots -> TaskRecords] :
          t = Flagged(task, m, g) /\ t[m].flags = g /\ \A x \in Slots : x # m => t[x] = task[x]
    BY TaskKinds, FlaggedIs
  <2>5. task' \in {t, Charge(t, System, 1)}
    BY <2>3, <2>4, <2>9 DEF Sends
  <2>6. task'[s].flags = t[s].flags
    <3>1. System \in Slots /\ 1 \in Int
      BY Nodish
    <3> QED BY <2>5, <3>1, ChargedFlags
  <2>7. CASE s = m
    <3>1. t[s].flags = g
      BY <2>4, <2>7
    <3> QED BY <2>2, <2>6, <3>1
  <2>8. CASE s # m
    <3>1. t[s] = task[s]
      BY <2>4, <2>8
    <3> QED BY <2>6, <3>1 DEF Halted
  <2> QED BY <2>7, <2>8
<1>7. ~Stopping
  <2>1. SUFFICES ASSUME Stopping PROVE FALSE
    OBVIOUS
  <2>2. \E e \in Events : Sends(task, System, e)
    BY <2>1, StoppingDoes
  <2> QED BY <1>2, <2>2, Nodish, SendsHalts
<1>8. ASSUME NEW x \in Slots, StopApp(x) PROVE x = s
  <2>1. SUFFICES ASSUME x # s PROVE FALSE
    OBVIOUS
  <2>2. PICK g \in SUBSET {"STOPPED", "ABORTED"} : g = {"STOPPED"}
    OBVIOUS
  <2>3. task' = Flagged(task, x, g) \/ task' = Charge(Flagged(task, x, g), System, 1)
    BY <1>8, <2>2, StopAppDoes DEF Sends
  <2>4. Halted(task', s) <=> Halted(task, s)
    BY <2>1, <2>2, <2>3, FlagsHalt
  <2> QED BY <1>1, <2>4
<1>9. ~Kernel
  BY <1>2, <1>3, <1>4, <1>5, KernelEndless, ReturnsHalt DEF Kernel
<1>10. ~App
  BY <1>2, <1>3, <1>6, AppEndless, SendHalts, ReturnsHalt DEF App, Values
<1>11. ~Interrupt /\ ~UNCHANGED vars
  BY <1>3, AppEndless
<1>12. Host
  BY <1>9, <1>10, <1>11 DEF Next, MainLoop
<1> QED BY <1>3, <1>7, <1>8, <1>12, HostEndless DEF Host

Telling == \A s \in Slots :
  ~Stopped(s) /\ task'[s].flags = {"STOPPED"} /\ EventsOf(s) > 0 => stack'[1].do = "stop" /\ stack'[1].cur = s

LEMMA TellingIs ==
  ASSUME TaskInv, IoAccounted, Few, [Next]_vars
  PROVE  Telling
<1> SUFFICES ASSUME NEW s \in Slots, ~Stopped(s), task'[s].flags = {"STOPPED"}, EventsOf(s) > 0
             PROVE  stack'[1].do = "stop" /\ stack'[1].cur = s
  BY DEF Telling
<1>1. StopApp(s)
  BY OnlyStopStops DEF Stopped, Halted
<1>2. task[s].io # 0
  <2>1. EventsOf(s) \in Nat /\ EventsOf(s) < IoWidth /\ task[s].io = EventsOf(s) % IoWidth
    BY EventsAre, UnderIsNat, TaskKinds DEF Few, IoAccounted
  <2>2. PICK n \in 0 .. IoWidth - 1 : n = EventsOf(s)
    BY <2>1, WidthIs
  <2>3. n % IoWidth = n
    BY WidthIs, ModSmall
  <2> QED BY <2>1, <2>2, <2>3
<1>3. At("host") /\ CallThen(WithDoAtCur(Top, "stopping", s, System), "stop", s)
  BY <1>1, <1>2 DEF StopApp, WithDoAtCur
<1>4. stack # <<>> /\ Top \in Frames /\ stack \in Seq(Frames)
  BY <1>3, Commanded, TaskKinds
<1>5. PICK f \in Frames : f = WithDoAtCur(Top, "stopping", s, System)
  <2>1. "stopping" \in Kernels \cup Nested /\ s \in Int /\ System \in Slots
    BY Labelling, Nodish
  <2> QED BY <1>4, <2>1, WithDoAtCurIs
<1>6. PICK g \in Frames : g = Enter("stop", s) /\ g.do = "stop" /\ g.cur = s
  <2>1. "stop" \in AppFrames
    BY DEF AppFrames
  <2> QED BY <2>1, AsideIs DEF Enter, Frame
<1>7. stack' = PushTwo(g, f, stack)
  BY <1>3, <1>5, <1>6 DEF CallThen, PushTwo
<1>8. PushTwo(g, f, stack)[1] = g
  BY <1>4, PushedTwo
<1> QED BY <1>6, <1>7, <1>8

\* inc/eventnums.h:134: the host does not end a task with events under way without
\* telling it, as long as no task has so many that its ioCount wraps.
THEOREM StopIsTold ==
  ASSUME Faults \subseteq {"load", "abort"}
  PROVE  Spec /\ [](\A s \in Slots : EventsOf(s) < IoWidth) => ToldToStop
<1>1. Spec => []TaskInv
  BY TaskInvAlways DEF Orderly
<1>2. Spec => []IoAccounted
  BY IoIsAccounted
<1>3. TaskInv /\ IoAccounted /\ (\A s \in Slots : EventsOf(s) < IoWidth) /\ [Next]_vars =>
        [\A s \in Slots :
           ~Stopped(s) /\ task'[s].flags = {"STOPPED"} /\ EventsOf(s) > 0 =>
             stack'[1].do = "stop" /\ stack'[1].cur = s]_vars
  BY TellingIs DEF Telling, Few
<1> QED BY <1>1, <1>2, <1>3, PTL DEF Spec, ToldToStop

-----------------------------------------------------------------------------
(* What SeosTasks uses of the queue and of the slab.                        *)

Records == {e \in Events : e.type \in SlabTypes}
Holders == {f \in Frames : HoldsSlab(f)}
RoomOK(q, st, n) == /\ Len(q) <= Capacity /\ Tally(Records, Holders, q, st) <= Slab
                    /\ n \in 0 .. MaxIrqs
RoomInv == RoomOK(queue, stack, irqs)

LEMMA SlabIs == TaskInv => SlabUsed = Tally(Records, Holders, queue, stack)
<1> SUFFICES ASSUME TaskInv PROVE SlabUsed = Tally(Records, Holders, queue, stack)
  OBVIOUS
<1>1. stack \in Seq(Frames) /\ queue \in Seq(Events)
  BY TaskKinds
<1>2. DOMAIN stack = 1 .. Len(stack) /\ DOMAIN queue = 1 .. Len(queue)
  BY <1>1, Counted
<1>3. {i \in DOMAIN queue : queue[i].type \in SlabTypes} = {i \in DOMAIN queue : queue[i] \in Records}
  BY <1>1, <1>2, Elements DEF Records
<1>4. {i \in DOMAIN stack : HoldsSlab(stack[i])} = {i \in DOMAIN stack : stack[i] \in Holders}
  BY <1>1, <1>2, Elements DEF Holders
<1> QED BY <1>3, <1>4 DEF SlabUsed, Tally, Count

LEMMA AsideHoldsNothing == \A g \in Frames : Aside(g) => g \notin Holders
<1>1. \A g \in Frames : Aside(g) => g.ev.type = "none"
  BY DEF Aside, Evt
<1> QED BY <1>1 DEF Holders, HoldsSlab, SlabTypes

\* When nothing is under way, the main loop takes an event or sleeps.
LEMMA WhenIdle ==
  ASSUME [Next]_vars, stack = <<>>
  PROVE  Dequeue \/ stack' = stack
BY DEF vars, Next, MainLoop, Kernel, App, Host, ApplySubscribe, ApplyUnsubscribe, Dispatch, EndTask,
       Visit, Visited, Free, Finish, Dropped, Event, At, InApp, AppCall, Publish, Subscribe, Unsubscribe,
       SendPrivate, Abort, AppReturn, StartApp, StopApp, Started, Failed, Stopping, OtherWork, Interrupt

\* When an event is done with, its account is settled.
LEMMA WhenFreed ==
  ASSUME [Next]_vars, stack # <<>>, stack[1].do = "freed"
  PROVE  Finish \/ stack' = stack
BY DEF vars, Next, MainLoop, Kernel, App, Host, Dequeue, ApplySubscribe, ApplyUnsubscribe, Dispatch, EndTask,
       Visit, Visited, Free, Dropped, Event, At, Top, InApp, AppFrames, AppCall, Publish, Subscribe, Unsubscribe,
       SendPrivate, Abort, AppReturn, StartApp, StopApp, Started, Failed, Stopping, OtherWork, Interrupt

\* Frames hold no more records than before, but when an event is taken.
LEMMA Eases ==
  ASSUME TaskInv, TaskInv', [Next]_vars, ~Dequeue
  PROVE  Count(Holders, stack') <= Count(Holders, stack)
<1> DEFINE Y == Holders
    Fine == Count(Y, stack') <= Count(Y, stack)
<1>1. stack \in Seq(Frames) /\ stack' \in Seq(Frames)
  BY TaskKinds, TypedNext
<1>2. Count(Y, stack) \in Nat /\ \A f : Weighs(Y, f) \in {0, 1}
  BY <1>1, Counted, Sizes
<1>3. \A g \in Frames : Aside(g) => g \notin Y
  BY AsideHoldsNothing
<1>4. StackStep
  BY StackDoes
<1>5. ASSUME stack' = stack PROVE Fine
  BY <1>2, <1>5
<1>6. ASSUME stack # <<>>, stack' = Tail(stack) PROVE Fine
  <2>1. Count(Y, stack') = Count(Y, stack) - Weighs(Y, stack[1])
    BY <1>1, <1>3, <1>6, StackCounts
  <2> QED BY <1>2, <2>1
<1>7. ASSUME NEW f \in Frames, Straight(f), stack[1].do # "freed" PROVE Fine
  <2>1. /\ Turned(f) /\ f.ev = Top.ev /\ Top.do \in Kernels /\ Top \in Frames /\ Top = stack[1]
    BY <1>7 DEF Straight, Turned
  <2>2. Count(Y, stack') = Count(Y, stack) - Weighs(Y, Top) + Weighs(Y, f)
    BY <1>1, <1>3, <2>1, StackCounts
  <2>3. f \in Y => Top \in Y
    BY <1>7, <2>1 DEF Holders, HoldsSlab, Kernels, Leaves
  <2>4. Weighs(Y, f) <= Weighs(Y, Top)
    BY <2>3 DEF Weighs
  <2> QED BY <1>2, <2>2, <2>4
<1>8. ASSUME NEW f \in Frames, Landing(f) PROVE Fine
  <2>1. f.ev = stack[2].ev /\ stack[2] \in Frames /\ stack[2].do = "starting"
    BY <1>8 DEF Landing
  <2>2. Count(Y, stack') = Count(Y, stack) - Weighs(Y, stack[1]) - Weighs(Y, stack[2]) + Weighs(Y, f)
    BY <1>1, <1>3, <1>8, StackCounts
  <2>3. f \in Y => stack[2] \in Y
    BY <2>1 DEF Holders, HoldsSlab
  <2>4. Weighs(Y, f) <= Weighs(Y, stack[2])
    BY <2>3 DEF Weighs
  <2> QED BY <1>2, <2>2, <2>4
<1>9. ASSUME NEW g \in Frames, Aside(g), stack # <<>>, stack' = <<g>> \o Tail(stack)
      PROVE  Fine
  <2>1. Count(Y, stack') = Count(Y, stack) - Weighs(Y, stack[1])
    BY <1>1, <1>3, <1>9, StackCounts
  <2> QED BY <1>2, <2>1
<1>10. ASSUME NEW g \in Frames, Aside(g), stack' = Push(g, stack)
       PROVE  Fine
  <2>1. Count(Y, stack') = Count(Y, stack)
    BY <1>1, <1>3, <1>10, StackCounts
  <2> QED BY <1>2, <2>1
<1>11. ASSUME NEW g \in Frames, NEW h \in Frames, Aside(g), h.do = "dropped", stack' = Push(g, Push(h, stack))
       PROVE  Fine
  <2>1. Count(Y, stack') = Count(Y, stack) + Weighs(Y, h)
    BY <1>1, <1>3, <1>11, StackCounts
  <2>2. Weighs(Y, h) = 0
    BY <1>11 DEF Weighs, Holders, HoldsSlab
  <2> QED BY <1>2, <2>1, <2>2
<1>12. ASSUME \E f \in Frames : Straight(f) PROVE Fine
  <2>1. stack # <<>>
    BY <1>12 DEF Straight, Turned
  <2>2. stack[1].do = "freed" => stack' = stack \/ stack' = Tail(stack)
    BY <2>1, WhenFreed DEF Finish, Return
  <2> QED BY <1>5, <1>6, <1>7, <1>12, <2>1, <2>2
<1>13. stack = <<>> => stack' = stack
  BY WhenIdle
<1> HIDE DEF Y, Fine
<1>14. ASSUME stack # <<>> PROVE Fine
  <2>1. \/ stack' = stack \/ stack' = Tail(stack)
        \/ \E f \in Frames : Straight(f) \/ Landing(f)
        \/ \E g \in Frames : Aside(g) /\ (stack' = <<g>> \o Tail(stack) \/ stack' = Push(g, stack))
        \/ \E g \in Frames : \E h \in Frames : Aside(g) /\ h.do = "dropped" /\ stack' = Push(g, Push(h, stack))
    BY <1>4, <1>14 DEF StackStep
  <2>2. CASE \E g \in Frames : \E h \in Frames : Aside(g) /\ h.do = "dropped" /\ stack' = Push(g, Push(h, stack))
    BY <1>11, <2>2
  <2>3. CASE \E g \in Frames : Aside(g) /\ (stack' = <<g>> \o Tail(stack) \/ stack' = Push(g, stack))
    BY <1>9, <1>10, <1>14, <2>3
  <2>4. CASE \E f \in Frames : Straight(f) \/ Landing(f)
    BY <1>8, <1>12, <2>4
  <2> QED BY <1>5, <1>6, <1>14, <2>1, <2>2, <2>3, <2>4
<1> QED BY <1>5, <1>13, <1>14 DEF Y, Fine

\* What a step posts: there is room, and a record where the event needs one.
Asking == \E v \in Values : Subscribe(v) \/ Unsubscribe(v)
Roomy(e) == /\ Posting(e) /\ Len(queue) < Capacity /\ (e.type \in SlabTypes => SlabLeft)
            /\ (e.type \in {"sub", "unsub"} => Asking)
RoomStep == queue' = queue \/ \E e \in Events : Roomy(e)

LEMMA SendsRoomy ==
  ASSUME NEW t, NEW c, NEW e \in Events, Sends(t, c, e), e.type \in SlabTypes => SlabLeft,
         e.type \in {"sub", "unsub"} => Asking
  PROVE  RoomStep
BY DEF Sends, Accepted, Posting, Roomy, RoomStep

LEMMA KernelRoom ==
  ASSUME TaskInv, Kernel, ~Dequeue
  PROVE  RoomStep
BY SubscribeDoes, DispatchDoes, EndTaskDoes, VisitDoes, VisitedDoes, FreeDoes, FinishDoes, DroppedDoes
   DEF Kernel, RoomStep

LEMMA AppRoom ==
  ASSUME TaskInv, App
  PROVE  RoomStep
<1>1. ASSUME NEW v \in Evts, Publish(v) PROVE RoomStep
  <2>1. PICK e \in Events : Sends(task, Me, e) /\ e.type = "user" /\ e.org.idx = Me /\ e.id = calls + 1
    BY <1>1, PublishDoes
  <2> QED BY <2>1, SendsRoomy DEF SlabTypes
<1>2. ASSUME NEW v \in Values, NEW d \in {"sub", "unsub"}, NEW w, AppCall, Ask(d, v, w), Asking
      PROVE  RoomStep
  <2>1. CASE UNCHANGED <<queue, task, wanted>>
    BY <2>1 DEF RoomStep
  <2>2. ASSUME SlabLeft, NEW e \in Events, Sends(task, Me, e)
        PROVE  RoomStep
    BY <1>2, <2>2, SendsRoomy
  <2>3. \/ SlabLeft /\ \E e \in Events : Sends(task, Me, e)
        \/ UNCHANGED <<queue, task, wanted>>
    BY <1>2, AskDoes
  <2> QED BY <2>1, <2>2, <2>3
<1>3. ASSUME NEW v \in Values, Subscribe(v) \/ Unsubscribe(v) PROVE RoomStep
  <2>1. Asking
    BY <1>3 DEF Asking
  <2> QED BY <1>2, <1>3, <2>1 DEF Subscribe, Unsubscribe
<1>4. ASSUME NEW to \in Slots \ {System}, SendPrivate(to) PROVE RoomStep
  <2>1. PICK e \in Events, g \in Frames, h \in Frames : Mail(to, e, g, h)
    BY <1>4, SendPrivateDoes
  <2>2. e.type = "private"
    BY <2>1 DEF Mail
  <2>3. \/ SlabLeft /\ Accepted(System) /\ queue' = Put(queue, e)
        \/ queue' = queue
    BY <2>1 DEF Mail
  <2>4. CASE SlabLeft /\ Accepted(System) /\ queue' = Put(queue, e)
    <3>1. Roomy(e)
      BY <2>2, <2>4 DEF Roomy, Posting, Accepted
    <3> QED BY <3>1 DEF RoomStep
  <2> QED BY <2>3, <2>4 DEF RoomStep
<1>5. CASE Abort
  <2>1. PICK e \in Events : /\ Sends(Flagged(task, Me, {"STOPPED", "ABORTED"}), System, e) /\ e.type = "end"
                            /\ e.org.idx = System /\ e.id = 0 /\ e.to.idx = Me
    BY <1>5, AbortDoes
  <2> QED BY <2>1, SendsRoomy DEF SlabTypes
<1>6. CASE AppReturn
  BY <1>6, AppReturnDoes DEF RoomStep
<1> QED BY <1>1, <1>3, <1>4, <1>5, <1>6 DEF App, Values

LEMMA HostRoom ==
  ASSUME TaskInv, Host \/ Interrupt
  PROVE  RoomStep
<1>1. ASSUME NEW x \in Slots, StopApp(x) PROVE RoomStep
  <2>1. \/ \E e \in Events : Sends(Flagged(task, x, {"STOPPED"}), System, e) /\ e.type = "end"
        \/ queue' = queue
    BY <1>1, StopAppDoes
  <2> QED BY <2>1, SendsRoomy DEF SlabTypes, RoomStep
<1>2. CASE Started
  <2>1. PICK e \in Events : /\ Sends(task, Current, e) /\ e.type = "begin" /\ e.org.idx = Current
                            /\ e.id = 0
    BY <1>2, StartedDoes
  <2> QED BY <2>1, SendsRoomy DEF SlabTypes
<1>3. CASE Stopping
  <2>1. PICK e \in Events : /\ Sends(task, System, e) /\ e.type = "end" /\ e.org.idx = System
                            /\ e.id = 0 /\ e.to.idx = Top.at
    BY <1>3, StoppingDoes
  <2> QED BY <2>1, SendsRoomy DEF SlabTypes
<1>4. CASE Interrupt
  <2>1. /\ SlabLeft
        /\ \/ queue' = queue
           \/ Accepted(Current) /\ \E e \in Events : queue' = Push(e, queue) /\ e.type = "defer"
    BY <1>4, InterruptDoes
  <2> QED BY <2>1 DEF RoomStep, Roomy, Posting, Accepted
<1>5. ASSUME NEW a \in Apps, StartApp(a) PROVE RoomStep
  BY <1>5, StartAppDoes DEF RoomStep
<1>6. CASE Failed \/ OtherWork
  BY <1>6, FailedDoes, OtherWorkDoes DEF RoomStep
<1> QED BY <1>1, <1>2, <1>3, <1>4, <1>5, <1>6 DEF Host

LEMMA RoomDoes ==
  ASSUME TaskInv, [Next]_vars, ~Dequeue
  PROVE  RoomStep
<1>1. CASE UNCHANGED vars
  BY <1>1 DEF vars, RoomStep
<1> QED BY <1>1, KernelRoom, AppRoom, HostRoom DEF Next, MainLoop

LEMMA IrqsGrow ==
  ASSUME [Next]_vars, irqs \in 0 .. MaxIrqs
  PROVE  irqs' \in 0 .. MaxIrqs
<1>1. irqs' = irqs \/ (irqs < MaxIrqs /\ irqs' = irqs + 1)
  BY DEF vars, Next, MainLoop, Kernel, App, Host, Dequeue, ApplySubscribe, ApplyUnsubscribe, Dispatch, EndTask,
         Visit, Visited, Free, Finish, Dropped, AppCall, Publish, Subscribe, Unsubscribe,
         SendPrivate, Abort, AppReturn, StartApp, StopApp, Started, Failed, Stopping, OtherWork, Interrupt
<1>2. MaxIrqs \in Nat
  BY SeosAssumption
<1> QED BY <1>1, <1>2

LEMMA RoomKept ==
  ASSUME TaskInv, TaskInv', RoomInv, [Next]_vars
  PROVE  RoomInv'
<1>1. /\ stack \in Seq(Frames) /\ stack' \in Seq(Frames) /\ queue \in Seq(Events) /\ queue' \in Seq(Events)
  BY TaskKinds, TypedNext
<1>2. /\ Count(Records, queue) \in Nat /\ Count(Records, queue') \in Nat
      /\ Count(Holders, stack) \in Nat /\ Count(Holders, stack') \in Nat
  <2>1. \A q \in Seq(Events) : Count(Records, q) \in Nat
    BY Counted
  <2>2. \A st \in Seq(Frames) : Count(Holders, st) \in Nat
    BY Counted
  <2> QED BY ONLY <1>1, <2>1, <2>2
<1>3. Len(queue) <= Capacity /\ Tally(Records, Holders, queue, stack) <= Slab /\ Capacity \in Nat /\ Slab \in Nat
      /\ Len(queue) \in Nat
  BY <1>1, SeosAssumption DEF RoomInv, RoomOK
<1>4. irqs' \in 0 .. MaxIrqs
  BY IrqsGrow DEF RoomInv, RoomOK
<1>5. Len(queue') <= Capacity /\ Tally(Records, Holders, queue', stack') <= Slab
  <2>1. CASE Dequeue
    <3>1. PICK f \in Frames :
            /\ stack' = <<f>> /\ f.ev = queue[1]
            /\ \/ f = Walk(queue[1]) /\ queue[1].type = "user"
               \/ /\ f.do = "event" /\ queue[1].type # "user"
                  /\ f.cur = queue[1].org.idx /\ f.due = {}
      BY <2>1, DequeueDoes
    <3>2. stack = <<>> /\ queue # <<>> /\ queue' = Tail(queue) /\ queue[1] \in Events
      BY <2>1, DequeueDoes
    <3>3. Tally(Records, Holders, queue', stack') =
            Tally(Records, Holders, queue, stack) - Weighs(Records, queue[1]) + Weighs(Holders, f)
      BY <3>1, <3>2, AsideHoldsNothing, Tallied
    <3>4. Weighs(Holders, f) <= Weighs(Records, queue[1])
      BY <3>1, <3>2 DEF Weighs, Holders, HoldsSlab, Records
    <3>5. Weighs(Holders, f) \in {0, 1} /\ Weighs(Records, queue[1]) \in {0, 1}
      BY Sizes
    <3>6. Tally(Records, Holders, queue, stack) \in Nat
      BY <1>2 DEF Tally
    <3>7. Len(queue') = Len(queue) - 1
      <4>1. \A q \in Seq(Events) : q # <<>> => Len(Tail(q)) = Len(q) - 1
        BY EmptySeq, HeadTailProperties
      <4> QED BY ONLY <1>1, <3>2, <4>1
    <3> QED BY <1>3, <3>3, <3>4, <3>5, <3>6, <3>7
  <2>2. CASE ~Dequeue
    <3>1. Count(Holders, stack') <= Count(Holders, stack)
      BY <2>2, Eases
    <3>2. CASE queue' = queue
      BY <1>2, <1>3, <3>1, <3>2 DEF Tally
    <3>3. ASSUME NEW e \in Events, Roomy(e)
          PROVE  Len(queue') <= Capacity /\ Tally(Records, Holders, queue', stack') <= Slab
      <4>1. Len(queue') = Len(queue) + 1
        <5>1. \A q \in Seq(Events) : Len(Put(q, e)) = Len(q) + 1 /\ Len(Push(e, q)) = Len(q) + 1
          BY Appended, Pushed
        <5> QED BY ONLY <1>1, <3>3, <5>1 DEF Roomy, Posting
      <4>2. Count(Records, queue') = Count(Records, queue) + Weighs(Records, e)
        BY <1>1, <3>3, QueueCounts DEF Roomy, Posting
      <4>3. Weighs(Records, e) \in {0, 1} /\ (Weighs(Records, e) = 1 => e.type \in SlabTypes)
        BY Sizes DEF Records
      <4>4. e.type \in SlabTypes => Tally(Records, Holders, queue, stack) < Slab
        BY <3>3, SlabIs DEF Roomy, SlabLeft
      <4>5. Len(queue) < Capacity
        BY <3>3 DEF Roomy
      <4>6. Tally(Records, Holders, queue', stack') <= Slab
        BY <1>2, <1>3, <3>1, <4>2, <4>3, <4>4 DEF Tally
      <4> QED BY <1>3, <4>1, <4>5, <4>6
    <3> QED BY <2>2, <3>2, <3>3, RoomDoes DEF RoomStep
  <2> QED BY <2>1, <2>2
<1> QED BY <1>4, <1>5 DEF RoomInv, RoomOK

-----------------------------------------------------------------------------
(* The lists of subscriptions.                                              *)

\* The tasks u are subscribed to what the tasks t are, and no more of them loaded.
SameSubs(t, u) ==
  \A s \in Slots : /\ u[s].subs = t[s].subs /\ u[s].sz = t[s].sz /\ u[s].short = t[s].short
                   /\ u[s].loaded => t[s].loaded

LEMMA ChargedSubs ==
  ASSUME NEW t \in [Slots -> TaskRecords], NEW c \in Slots, NEW n \in Int
  PROVE  SameSubs(t, Charge(t, c, n))
<1>4. PICK i : i = (t[c].io + n) % IoWidth
  OBVIOUS
<1>1. \A k \in TaskRecords : /\ [k EXCEPT !.io = i].subs = k.subs /\ [k EXCEPT !.io = i].sz = k.sz
                             /\ [k EXCEPT !.io = i].short = k.short /\ [k EXCEPT !.io = i].loaded = k.loaded
  BY DEF TaskRecords
<1>2. \A s \in Slots : Charge(t, c, n)[s] = IF s = c THEN [t[c] EXCEPT !.io = i] ELSE t[s]
  BY <1>4 DEF Charge
<1>3. PICK k \in TaskRecords : k = t[c]
  OBVIOUS
<1>5. PICK z : z = [k EXCEPT !.io = i]
  OBVIOUS
<1>6. z.subs = k.subs /\ z.sz = k.sz /\ z.short = k.short /\ z.loaded = k.loaded
  BY ONLY <1>1, <1>5
<1>7. PICK u : u = Charge(t, c, n)
  OBVIOUS
<1>8. \A s \in Slots : u[s] = IF s = c THEN z ELSE t[s]
  BY <1>2, <1>3, <1>5, <1>7
<1>9. SameSubs(t, u)
  BY ONLY <1>3, <1>6, <1>8 DEF SameSubs
<1> QED BY <1>7, <1>9

LEMMA FlaggedSubs ==
  ASSUME NEW t \in [Slots -> TaskRecords], NEW c \in Slots, NEW g
  PROVE  SameSubs(t, Flagged(t, c, g))
<1>1. \A k \in TaskRecords : /\ [k EXCEPT !.flags = g].subs = k.subs /\ [k EXCEPT !.flags = g].sz = k.sz
                             /\ [k EXCEPT !.flags = g].short = k.short /\ [k EXCEPT !.flags = g].loaded = k.loaded
  BY DEF TaskRecords
<1>2. \A s \in Slots : Flagged(t, c, g)[s] = IF s = c THEN [t[c] EXCEPT !.flags = g] ELSE t[s]
  BY DEF Flagged
<1>3. PICK k \in TaskRecords : k = t[c]
  OBVIOUS
<1>5. PICK z : z = [k EXCEPT !.flags = g]
  OBVIOUS
<1>6. z.subs = k.subs /\ z.sz = k.sz /\ z.short = k.short /\ z.loaded = k.loaded
  BY ONLY <1>1, <1>5
<1>7. PICK u : u = Flagged(t, c, g)
  OBVIOUS
<1>8. \A s \in Slots : u[s] = IF s = c THEN z ELSE t[s]
  BY <1>2, <1>3, <1>5, <1>7
<1>9. SameSubs(t, u)
  BY ONLY <1>3, <1>6, <1>8 DEF SameSubs
<1> QED BY <1>7, <1>9

LEMMA FreedSubs ==
  ASSUME task \in [Slots -> TaskRecords], NEW c \in Slots
  PROVE  SameSubs(task, Freed(c))
<1> DEFINE Wiped(k) == [k EXCEPT !.flags = {}, !.io = 0, !.loaded = FALSE]
<1>1. \A k \in TaskRecords : Wiped(k).subs = k.subs /\ Wiped(k).sz = k.sz /\ Wiped(k).short = k.short
                                /\ ~Wiped(k).loaded
  BY DEF TaskRecords
<1>2. \A s \in Slots : Freed(c)[s] = IF s = c THEN Wiped(task[c]) ELSE task[s]
  BY DEF Freed
<1>3. task[c] \in TaskRecords
  OBVIOUS
<1> HIDE DEF Wiped
<1> QED BY <1>1, <1>2, <1>3 DEF SameSubs

LEMMA SubsChain ==
  ASSUME NEW t, NEW u, NEW w, SameSubs(t, u), SameSubs(u, w)
  PROVE  SameSubs(t, w)
BY DEF SameSubs

LEMMA SendsSubs ==
  ASSUME NEW t \in [Slots -> TaskRecords], NEW c \in Slots, NEW e, Sends(t, c, e), SameSubs(task, t)
  PROVE  SameSubs(task, task')
<1>1. SameSubs(t, Charge(t, c, 1))
  BY ChargedSubs
<1>2. task' = t \/ task' = Charge(t, c, 1)
  BY DEF Sends
<1> QED BY <1>1, <1>2, SubsChain

LEMMA KernelSubs ==
  ASSUME TaskInv, Kernel, ~ApplySubscribe, ~ApplyUnsubscribe
  PROVE  SameSubs(task, task')
<1>0. SameSubs(task, task) /\ task \in [Slots -> TaskRecords] /\ -1 \in Int
  BY TaskKinds DEF SameSubs
<1>1. CASE EndTask
  BY <1>0, <1>1, EndTaskDoes, FreedSubs
<1>2. CASE Finish
  <2>1. CASE Top.ev.type = "boot"
    BY <1>0, <1>2, <2>1, FinishDoes
  <2>2. CASE Top.ev.type # "boot"
    <3>1. Top.ev.org.idx \in Slots /\ Top.ev.by.idx \in Slots
      BY <1>2, FinishDoes, EventFields
    <3>2. PICK t \in [Slots -> TaskRecords] : t = Charge(task, Top.ev.org.idx, -1)
      BY <1>0, <3>1, Charged
    <3>3. SameSubs(task, t) /\ SameSubs(t, Charge(t, Top.ev.by.idx, -1))
      BY <1>0, <3>1, <3>2, ChargedSubs
    <3>4. task' = t \/ task' = Charge(t, Top.ev.by.idx, -1)
      BY <1>2, <2>2, <3>2, FinishDoes DEF Uncharge
    <3> QED BY <3>3, <3>4, SubsChain
  <2> QED BY <2>1, <2>2
<1>3. CASE Dropped
  <2>1. Top.ev.by.idx \in Slots /\ task' = Charge(task, Top.ev.by.idx, -1)
    BY <1>3, DroppedDoes, EventFields
  <2> QED BY <1>0, <2>1, ChargedSubs
<1>4. CASE Dequeue \/ Dispatch \/ Visit \/ Visited \/ Free
  <2>1. task' = task
    BY <1>4 DEF Dequeue, Dispatch, Visit, Visited, Free
  <2> QED BY <1>0, <2>1
<1> QED BY <1>1, <1>2, <1>3, <1>4 DEF Kernel

LEMMA AppSubs ==
  ASSUME TaskInv, App
  PROVE  SameSubs(task, task')
<1>0. SameSubs(task, task) /\ task \in [Slots -> TaskRecords] /\ System \in Slots /\ 1 \in Int
  BY TaskKinds, Nodish DEF SameSubs
<1>1. ASSUME NEW v \in Evts, Publish(v) PROVE SameSubs(task, task')
  <2>1. Me \in Slots /\ \E e \in Events : Sends(task, Me, e)
    BY <1>1, PublishDoes
  <2> QED BY <1>0, <2>1, SendsSubs
<1>2. ASSUME NEW v \in Values, NEW d \in {"sub", "unsub"}, NEW w, AppCall, Ask(d, v, w)
      PROVE  SameSubs(task, task')
  <2>1. Me \in Slots /\ (task' = task \/ \E e \in Events : Sends(task, Me, e))
    BY <1>2, AskDoes
  <2> QED BY <1>0, <2>1, SendsSubs
<1>3. ASSUME NEW v \in Values, Subscribe(v) \/ Unsubscribe(v) PROVE SameSubs(task, task')
  BY <1>2, <1>3 DEF Subscribe, Unsubscribe
<1>4. ASSUME NEW to \in Slots \ {System}, SendPrivate(to) PROVE SameSubs(task, task')
  <2>1. Me \in Slots /\ \E e \in Events, g, h \in Frames : Mail(to, e, g, h)
    BY <1>4, SendPrivateDoes
  <2>2. PICK t \in [Slots -> TaskRecords] : t = Charge(task, Me, 1)
    BY <1>0, <2>1, Charged
  <2>3. SameSubs(task, t) /\ SameSubs(t, Charge(t, System, 1))
    BY <1>0, <2>1, <2>2, ChargedSubs
  <2>4. task' = task \/ task' = t \/ task' = Charge(t, System, 1)
    BY <2>1, <2>2 DEF Mail
  <2> QED BY <1>0, <2>3, <2>4, SubsChain
<1>5. CASE Abort
  <2>1. Me \in Slots /\ \E e \in Events : Sends(Flagged(task, Me, {"STOPPED", "ABORTED"}), System, e)
    BY <1>5, AbortDoes
  <2>2. PICK t \in [Slots -> TaskRecords] : t = Flagged(task, Me, {"STOPPED", "ABORTED"})
    BY <1>0, <2>1, FlaggedIs
  <2>3. SameSubs(task, t)
    BY <1>0, <2>1, <2>2, FlaggedSubs
  <2> QED BY <1>0, <2>1, <2>2, <2>3, SendsSubs
<1>6. CASE AppReturn
  BY <1>0, <1>6 DEF AppReturn
<1> QED BY <1>1, <1>3, <1>4, <1>5, <1>6 DEF App, Values

Launch == \E a \in Apps : StartApp(a)

LEMMA HostSubs ==
  ASSUME TaskInv, Host \/ Interrupt, ~Launch
  PROVE  SameSubs(task, task')
<1>0. SameSubs(task, task) /\ task \in [Slots -> TaskRecords] /\ System \in Slots /\ 1 \in Int
  BY TaskKinds, Nodish DEF SameSubs
<1>1. ASSUME NEW x \in Slots, StopApp(x) PROVE SameSubs(task, task')
  <2>1. PICK t \in [Slots -> TaskRecords] : t = Flagged(task, x, {"STOPPED"})
    BY <1>0, FlaggedIs
  <2>2. SameSubs(task, t)
    BY <1>0, <2>1, FlaggedSubs
  <2>3. task' = t \/ \E e \in Events : Sends(t, System, e)
    BY <1>1, <2>1, StopAppDoes
  <2> QED BY <1>0, <2>2, <2>3, SendsSubs
<1>2. CASE Started
  <2>1. Current \in Slots /\ \E e \in Events : Sends(task, Current, e)
    BY <1>2, StartedDoes
  <2> QED BY <1>0, <2>1, SendsSubs
<1>3. CASE Stopping
  <2>1. \E e \in Events : Sends(task, System, e)
    BY <1>3, StoppingDoes
  <2> QED BY <1>0, <2>1, SendsSubs
<1>4. CASE Failed
  BY <1>0, <1>4, FailedDoes, FreedSubs
<1>5. CASE OtherWork
  BY <1>0, <1>5 DEF OtherWork
<1>6. CASE Interrupt
  <2>1. Current \in Slots /\ (task' = task \/ task' = Charge(task, Current, 1))
    BY <1>6, InterruptDoes
  <2> QED BY <1>0, <2>1, ChargedSubs
<1> QED BY <1>1, <1>2, <1>3, <1>4, <1>5, <1>6 DEF Host, Launch

LEMMA SubsStay ==
  ASSUME TaskInv, [Next]_vars, ~ApplySubscribe, ~ApplyUnsubscribe, ~Launch
  PROVE  SameSubs(task, task')
<1>1. CASE UNCHANGED vars
  BY <1>1 DEF vars, SameSubs
<1> QED BY <1>1, KernelSubs, AppSubs, HostSubs DEF Next, MainLoop

Sized(k) == k.sz >= 1 /\ IsFiniteSet(k.subs) /\ Cardinality(k.subs) <= k.sz
SizedInv == \A s \in Slots : Sized(task[s])
WantedInv == wanted \in [Slots -> SUBSET Values]

\* osSubscribe: what is on a task's list afterwards.
LEMMA SubsAdded ==
  ASSUME task \in [Slots -> TaskRecords], NEW x \in Slots, NEW v \in Values, NEW b \in BOOLEAN,
         NEW u, u = Added(x, v, b), Sized(task[x])
  PROVE  /\ \A s \in Slots : s # x => u[s] = task[s]
         /\ u[x].loaded = task[x].loaded
         /\ task[x].short => u[x].short
         /\ v \in u[x].subs \/ u[x].short
         /\ \A w : w # v => (w \in u[x].subs <=> w \in task[x].subs)
         /\ Sized(u[x])
<1>1. PICK k \in TaskRecords : k = task[x]
  OBVIOUS
<1>2. PICK n \in Nat : n = Cardinality(k.subs)
  BY <1>1, FS_CardinalityType DEF Sized
<1>3. k.sz \in Nat /\ k.sz >= 1 /\ IsFiniteSet(k.subs) /\ n <= k.sz
  BY <1>1, <1>2, TaskFields DEF Sized
<1> DEFINE full == n = k.sz
<1>4. CASE v \in k.subs
  <2>1. u = task
    BY <1>1, <1>4 DEF Added
  <2> QED BY <1>1, <1>4, <2>1
<1>5. CASE v \notin k.subs /\ full /\ ~b
  <2>1. u = [task EXCEPT ![x].short = TRUE]
    BY <1>1, <1>2, <1>5 DEF Added
  <2>2. u[x] = [k EXCEPT !.short = TRUE] /\ \A s \in Slots : s # x => u[s] = task[s]
    BY <1>1, <2>1
  <2>3. u[x].short /\ u[x].subs = k.subs /\ u[x].sz = k.sz /\ u[x].loaded = k.loaded
    BY <2>2 DEF TaskRecords
  <2> QED BY <1>1, <2>2, <2>3 DEF Sized
<1>6. CASE v \notin k.subs /\ ~(full /\ ~b)
  <2>1. u = [task EXCEPT ![x].subs = @ \cup {v},
                         ![x].sz = IF full THEN (@ * 3 + 1) \div 2 ELSE @]
    BY <1>1, <1>2, <1>6 DEF Added
  <2>2. PICK m : m = IF full THEN (k.sz * 3 + 1) \div 2 ELSE k.sz
    OBVIOUS
  <2>3. u[x] = [k EXCEPT !.subs = k.subs \cup {v}, !.sz = m] /\ \A s \in Slots : s # x => u[s] = task[s]
    BY <1>1, <2>1, <2>2
  <2>4. u[x].short = k.short /\ u[x].subs = k.subs \cup {v} /\ u[x].sz = m /\ u[x].loaded = k.loaded
    BY <2>3 DEF TaskRecords
  <2>5. IsFiniteSet(k.subs \cup {v}) /\ Cardinality(k.subs \cup {v}) = n + 1
    BY <1>2, <1>3, <1>6, FS_AddElement
  <2>6. m >= 1 /\ n + 1 <= m
    <3>1. PICK z \in Nat : z = k.sz /\ z >= 1
      BY <1>3
    <3>2. (z * 3 + 1) \div 2 >= z + 1
      BY <3>1
    <3> QED BY <1>3, <2>2, <3>1, <3>2
  <2> QED BY <1>1, <2>3, <2>4, <2>5, <2>6 DEF Sized
<1> QED BY <1>4, <1>5, <1>6

LEMMA SubsRemoved ==
  ASSUME task \in [Slots -> TaskRecords], NEW x \in Slots, NEW v,
         NEW u, u = [task EXCEPT ![x].subs = @ \ {v}]
  PROVE  /\ \A s \in Slots : s # x => u[s] = task[s]
         /\ u[x].loaded = task[x].loaded /\ u[x].short = task[x].short
         /\ u[x].subs = task[x].subs \ {v}
         /\ Sized(task[x]) => Sized(u[x])
<1>1. PICK k \in TaskRecords : k = task[x]
  OBVIOUS
<1>2. u[x] = [k EXCEPT !.subs = k.subs \ {v}] /\ \A s \in Slots : s # x => u[s] = task[s]
  BY <1>1
<1>3. u[x].short = k.short /\ u[x].subs = k.subs \ {v} /\ u[x].sz = k.sz /\ u[x].loaded = k.loaded
  BY <1>2 DEF TaskRecords
<1>4. ASSUME Sized(k) PROVE Sized(u[x])
  <2>1. IsFiniteSet(k.subs \ {v}) /\ Cardinality(k.subs \ {v}) <= Cardinality(k.subs)
    BY <1>4, FS_Subset DEF Sized
  <2>2. Cardinality(k.subs \ {v}) \in Nat /\ Cardinality(k.subs) \in Nat /\ k.sz \in Nat
    BY <1>4, <2>1, FS_CardinalityType, TaskFields DEF Sized
  <2> QED BY <1>3, <1>4, <2>1, <2>2 DEF Sized
<1> QED BY <1>1, <1>2, <1>3, <1>4

\* The request on top of the stack.
LEMMA RequestIs ==
  ASSUME TaskInv, ApplySubscribe \/ ApplyUnsubscribe
  PROVE  /\ stack # <<>> /\ Top = stack[1] /\ Top.do = "event" /\ Top.ev \in Events
         /\ Top.ev.to.idx \in Slots
         /\ ApplySubscribe => Top.ev.type = "sub" /\ Top.ev.evt \in Values
         /\ ApplyUnsubscribe => Top.ev.type = "unsub"
<1>1. At("event")
  BY DEF ApplySubscribe, ApplyUnsubscribe, Event
<1>2. /\ stack # <<>> /\ Top = stack[1] /\ Top.do = "event" /\ Top.ev \in Events
      /\ Top.ev.to.idx \in Slots /\ Loose(Top.ev)
  BY <1>1, Going, Labelling
<1> QED BY <1>2 DEF ApplySubscribe, ApplyUnsubscribe, Event, Loose

\* A task that is being started is subscribed to nothing.
LEMMA LaunchedIs ==
  ASSUME TaskInv, NEW a \in Apps, StartApp(a)
  PROVE  \E x \in Slots \ {System} :
           /\ ~task[x].loaded /\ \A s \in Slots : s # x => task'[s] = task[s]
           /\ task'[x].subs = {} /\ task'[x].sz = Embedded
           /\ \/ ~task'[x].loaded /\ wanted' = wanted
              \/ wanted' = [wanted EXCEPT ![x] = {}]
<1> DEFINE x == list[FreeTasks].next
           n == task[x].ctr
<1>1. At("host") /\ x # NO_NODE
  BY DEF StartApp
<1>2. \/ task' = [task EXCEPT ![x] = New(a, n)] /\ wanted' = wanted
      \/ task' = [task EXCEPT ![x] = Begun(New(a, n))] /\ wanted' = [wanted EXCEPT ![x] = {}]
  BY DEF StartApp, New, Begun
<1>3. PICK R, F, l : R = Running /\ F = Spare /\ l = list
  OBVIOUS
<1>4. TwoLists(R, F, l)
  BY <1>3, Opened
<1>5. x \in Spare /\ x \in Slots /\ x # System
  <2>1. l[FreeTasks].next \in F \cup {NO_NODE} /\ F \subseteq Slots \ {System}
    BY <1>4, Following
  <2> QED BY <1>1, <1>3, <2>1
<1>6. ~task[x].loaded
  BY <1>5, StatusHolds DEF StatusOK
<1>7. task \in [Slots -> TaskRecords]
  BY Opened
<1> HIDE DEF x, n
<1>8. /\ New(a, n).subs = {} /\ New(a, n).sz = Embedded /\ ~New(a, n).loaded
      /\ Begun(New(a, n)).subs = {} /\ Begun(New(a, n)).sz = Embedded
  BY DEF New, Begun, Cleared
<1>9. \/ task' = [task EXCEPT ![x] = New(a, n)] /\ wanted' = wanted
      \/ task' = [task EXCEPT ![x] = Begun(New(a, n))] /\ wanted' = [wanted EXCEPT ![x] = {}]
  BY <1>2
<1> QED BY <1>5, <1>6, <1>7, <1>8, <1>9

LEMMA SizedKept ==
  ASSUME TaskInv, SizedInv, [Next]_vars
  PROVE  SizedInv'
<1>0. task \in [Slots -> TaskRecords]
  BY TaskKinds
<1>1. CASE ApplySubscribe
  <2>1. PICK x \in Slots, v \in Values, b \in BOOLEAN : task' = Added(x, v, b)
    BY <1>1, RequestIs DEF ApplySubscribe
  <2>2. Sized(task[x])
    BY DEF SizedInv
  <2>3. Sized(task'[x]) /\ \A s \in Slots : s # x => task'[s] = task[s]
    BY <1>0, <2>1, <2>2, SubsAdded
  <2> QED BY <2>3 DEF SizedInv
<1>2. CASE ApplyUnsubscribe
  <2>1. PICK x \in Slots : \E v : task' = [task EXCEPT ![x].subs = @ \ {v}]
    BY <1>2, RequestIs DEF ApplyUnsubscribe
  <2>2. Sized(task[x])
    BY DEF SizedInv
  <2>3. Sized(task'[x]) /\ \A s \in Slots : s # x => task'[s] = task[s]
    BY <1>0, <2>1, <2>2, SubsRemoved
  <2> QED BY <2>3 DEF SizedInv
<1>3. CASE Launch
  <2>1. PICK x \in Slots : /\ \A s \in Slots : s # x => task'[s] = task[s]
                           /\ task'[x].subs = {} /\ task'[x].sz = Embedded
    BY <1>3, LaunchedIs DEF Launch
  <2>2. Sized(task'[x])
    BY <2>1, FS_EmptySet, SeosAssumption DEF Sized
  <2> QED BY <2>1, <2>2 DEF SizedInv
<1>4. CASE ~ApplySubscribe /\ ~ApplyUnsubscribe /\ ~Launch
  <2>1. SameSubs(task, task')
    BY <1>4, SubsStay
  <2> QED BY <2>1 DEF SameSubs, SizedInv, Sized
<1> QED BY <1>1, <1>2, <1>3, <1>4

\* What the tasks asked for changes when one asks, or starts.
LEMMA WantedDoes ==
  ASSUME TaskInv, [Next]_vars
  PROVE  \/ wanted' = wanted
         \/ \E v \in Values : Subscribe(v) \/ Unsubscribe(v)
         \/ \E a \in Apps : StartApp(a)
BY DEF vars, Next, MainLoop, Kernel, App, Host, Values, Dequeue, ApplySubscribe, ApplyUnsubscribe, Dispatch,
       EndTask, Visit, Visited, Free, Finish, Dropped, Publish, SendPrivate, Abort, AppReturn,
       StopApp, Started, Failed, Stopping, OtherWork, Interrupt

LEMMA WantedKept ==
  ASSUME TaskInv, WantedInv, [Next]_vars
  PROVE  WantedInv'
<1>1. PICK w \in [Slots -> SUBSET Values] : w = wanted
  BY DEF WantedInv
<1>2. ASSUME NEW x \in Slots, NEW y \in SUBSET Values, wanted' = [wanted EXCEPT ![x] = y]
      PROVE  WantedInv'
  <2>1. [w EXCEPT ![x] = y] \in [Slots -> SUBSET Values]
    OBVIOUS
  <2> QED BY <1>1, <1>2, <2>1 DEF WantedInv
<1>3. ASSUME NEW v \in Values, Subscribe(v) \/ Unsubscribe(v) PROVE WantedInv'
  <2>1. PICK d \in {"sub", "unsub"}, y \in {wanted[Me] \cup {v}, wanted[Me] \ {v}} :
          AppCall /\ Ask(d, v, y)
    BY <1>3 DEF Subscribe, Unsubscribe
  <2>2. PICK m : m = Me
    OBVIOUS
  <2>3. /\ m \in Slots
        /\ wanted' = [wanted EXCEPT ![m] = IF Accepted(m) THEN y ELSE @] \/ wanted' = wanted
    BY <2>1, <2>2, AskDoes
  <2>4. y \in SUBSET Values /\ w[m] \in SUBSET Values
    BY <1>1, <2>1, <2>2, <2>3
  <2>5. PICK z : z = IF Accepted(m) THEN y ELSE w[m]
    OBVIOUS
  <2>6. wanted' = [wanted EXCEPT ![m] = z] \/ wanted' = wanted
    BY <1>1, <2>3, <2>5
  <2>7. z \in SUBSET Values
    BY <2>4, <2>5
  <2> QED BY <1>1, <1>2, <2>3, <2>6, <2>7 DEF WantedInv
<1>4. ASSUME NEW a \in Apps, StartApp(a) PROVE WantedInv'
  <2>1. PICK x \in Slots : wanted' = wanted \/ wanted' = [wanted EXCEPT ![x] = {}]
    BY <1>4, LaunchedIs
  <2> QED BY <1>1, <1>2, <2>1 DEF WantedInv
<1>5. wanted' = wanted => WantedInv'
  BY <1>1 DEF WantedInv
<1> QED BY <1>3, <1>4, <1>5, WantedDoes

LEMMA RoomAtFirst == Init /\ TaskInv => RoomInv /\ SizedInv /\ WantedInv
<1> SUFFICES ASSUME Init, TaskInv PROVE RoomInv /\ SizedInv /\ WantedInv
  OBVIOUS
<1>1. /\ queue = <<>> /\ stack \in Seq(Frames)
      /\ \A i \in 1 .. Len(stack) : stack[i].ev.type = "boot"
  BY BootFrames DEF Init
<1>2. Count(Holders, stack) = 0 /\ Count(Records, queue) = 0
  <2>1. \A i \in 1 .. Len(stack) : stack[i] \notin Holders
    BY <1>1 DEF Holders, HoldsSlab, SlabTypes
  <2> QED BY <1>1, <2>1, CountedNone, CountedNothing
<1>3. Len(queue) = 0 /\ irqs = 0 /\ MaxIrqs \in Nat /\ Capacity \in Nat /\ Slab \in Nat
  BY <1>1, SeosAssumption DEF Init
<1>4. RoomInv
  <2>1. Tally(Records, Holders, queue, stack) = 0
    BY <1>2 DEF Tally
  <2> QED BY <1>3, <2>1 DEF RoomInv, RoomOK
<1>5. SizedInv
  <2>1. \A s \in Slots : task[s].subs = {} /\ task[s].sz = Embedded
    BY DEF Init, Cleared
  <2> QED BY <2>1, FS_EmptySet, SeosAssumption DEF SizedInv, Sized
<1>6. WantedInv
  BY DEF Init, WantedInv
<1> QED BY <1>4, <1>5, <1>6

LEMMA TypesAre == TaskInv /\ RoomInv /\ SizedInv /\ WantedInv => TypeOK
<1> SUFFICES ASSUME TaskInv, RoomInv, SizedInv, WantedInv PROVE TypeOK
  OBVIOUS
<1>1. list \in [Nodes -> Links] /\ calls \in 0 .. MaxCalls
  <2>1. PICK R, F, l : R = Running /\ F = Spare /\ l = list
    OBVIOUS
  <2>2. TwoLists(R, F, l)
    BY <2>1, Opened
  <2> QED BY <2>1, <2>2, Opened DEF TwoLists
<1>2. ASSUME NEW s \in Slots
      PROVE  /\ task[s].app \in Apps \cup {NULL} /\ task[s].ctr \in 0 .. Counter - 1
             /\ task[s].flags \subseteq {"STOPPED", "ABORTED"} /\ task[s].io \in 0 .. IoWidth - 1
             /\ task[s].subs \subseteq Values
             /\ Cardinality(task[s].subs) <= task[s].sz
             /\ wanted[s] \subseteq Values
  <2>1. task[s] \in TaskRecords
    BY TaskKinds
  <2>2. Sized(task[s]) /\ wanted[s] \in SUBSET Values
    BY DEF SizedInv, WantedInv
  <2> QED BY <2>1, <2>2, TaskFields DEF Sized
<1>3. Len(queue) <= Capacity /\ SlabUsed <= Slab /\ irqs \in 0 .. MaxIrqs
  BY SlabIs DEF RoomInv, RoomOK
<1> QED BY <1>1, <1>2, <1>3 DEF TypeOK, Links, Values

\* The types of SeosTasks: above all, no list of subscriptions is longer than its
\* space, and neither the queue of events nor the slab of records for what is not
\* an event of an app ever holds more than it can.
THEOREM TasksTyped ==
  ASSUME Faults \subseteq {"load", "init", "abort"}
  PROVE  Spec => []TypeOK
<1>1. Spec => []TaskInv
  BY TaskInvAlways DEF Orderly
<1>2. Init /\ TaskInv => RoomInv /\ SizedInv /\ WantedInv
  BY RoomAtFirst
<1>3. TaskInv /\ TaskInv' /\ RoomInv /\ [Next]_vars => RoomInv'
  BY RoomKept
<1>4. TaskInv /\ SizedInv /\ [Next]_vars => SizedInv'
  BY SizedKept
<1>5. TaskInv /\ WantedInv /\ [Next]_vars => WantedInv'
  BY WantedKept
<1>6. TaskInv /\ RoomInv /\ SizedInv /\ WantedInv => TypeOK
  BY TypesAre
<1> QED BY <1>1, <1>2, <1>3, <1>4, <1>5, <1>6, PTL DEF Spec

-----------------------------------------------------------------------------
(* Requests, in effect and pending.                                         *)

\* What the requests in q make of b, whether s is subscribed to v: the last one counts.
Asked(q, s, v) == \E i \in 1 .. Len(q) : Asks(q[i], s, v)
LastIsSub(q, s, v) ==
  \E i \in 1 .. Len(q) : /\ Asks(q[i], s, v) /\ q[i].type = "sub"
                         /\ \A j \in 1 .. Len(q) : Asks(q[j], s, v) => j <= i
Wish(b, q, s, v) == IF Asked(q, s, v) THEN LastIsSub(q, s, v) ELSE b

\* The same before any of them, when the request that is being handled is.
Applied(t, st, s, v) ==
  IF st # <<>> /\ st[1].do = "event" /\ Asks(st[1].ev, s, v) THEN st[1].ev.type = "sub"
                                                             ELSE v \in t[s].subs

SubsOK(t, q, st, w) ==
  \A s \in Slots : t[s].loaded => \A v \in Values :
    t[s].short \/ (v \in w[s] <=> Wish(Applied(t, st, s, v), q, s, v))
SubsInv == SubsOK(task, queue, stack, wanted)

LEMMA WishPut ==
  ASSUME NEW q \in Seq(Events), NEW e \in Events, NEW s, NEW v, NEW b \in BOOLEAN
  PROVE  Wish(b, Put(q, e), s, v) <=> IF Asks(e, s, v) THEN e.type = "sub" ELSE Wish(b, q, s, v)
<1>1. PICK r \in Seq(Events) : /\ r = Put(q, e) /\ Len(r) = Len(q) + 1 /\ r[Len(q) + 1] = e
                               /\ \A i \in 1 .. Len(q) : r[i] = q[i]
  BY Appended
<1>2. PICK n \in Nat : n = Len(q)
  BY Elements
<1>3. CASE Asks(e, s, v)
  <2>1. Asked(r, s, v)
    BY <1>1, <1>2, <1>3 DEF Asked
  <2>2. LastIsSub(r, s, v) <=> e.type = "sub"
    BY <1>1, <1>2, <1>3 DEF LastIsSub
  <2> QED BY <1>1, <1>3, <2>1, <2>2 DEF Wish
<1>4. CASE ~Asks(e, s, v)
  <2>1. Asked(r, s, v) <=> Asked(q, s, v)
    BY <1>1, <1>2, <1>4 DEF Asked
  <2>2. LastIsSub(r, s, v) <=> LastIsSub(q, s, v)
    BY <1>1, <1>2, <1>4 DEF LastIsSub
  <2> QED BY <1>1, <1>4, <2>1, <2>2 DEF Wish
<1> QED BY <1>3, <1>4

LEMMA WishPush ==
  ASSUME NEW q \in Seq(Events), NEW e \in Events, NEW s, NEW v, NEW b \in BOOLEAN, ~Asks(e, s, v)
  PROVE  Wish(b, Push(e, q), s, v) <=> Wish(b, q, s, v)
<1>1. PICK r \in Seq(Events) : /\ r = Push(e, q) /\ Len(r) = Len(q) + 1 /\ r[1] = e
                               /\ \A i \in 2 .. Len(q) + 1 : r[i] = q[i - 1]
  BY Pushed
<1>2. PICK n \in Nat : n = Len(q)
  BY Elements
<1>3. \A i \in 1 .. n : i + 1 \in 1 .. n + 1 /\ r[i + 1] = q[i]
  BY <1>1, <1>2
<1>4. \A i \in 1 .. n + 1 : Asks(r[i], s, v) => i # 1 /\ i - 1 \in 1 .. n /\ r[i] = q[i - 1]
  BY <1>1, <1>2
<1>5. Len(r) = n + 1
  BY <1>1, <1>2
<1>6. Asked(r, s, v) <=> Asked(q, s, v)
  BY <1>2, <1>3, <1>4, <1>5 DEF Asked
<1>7. ASSUME LastIsSub(r, s, v) PROVE LastIsSub(q, s, v)
  <2>1. PICK i \in 1 .. n + 1 : /\ Asks(r[i], s, v) /\ r[i].type = "sub"
                                /\ \A j \in 1 .. n + 1 : Asks(r[j], s, v) => j <= i
    BY <1>5, <1>7 DEF LastIsSub
  <2>2. i - 1 \in 1 .. n /\ r[i] = q[i - 1]
    BY <1>4, <2>1
  <2>3. \A j \in 1 .. n : Asks(q[j], s, v) => j <= i - 1
    BY <1>3, <2>1
  <2> QED BY <1>2, <2>1, <2>2, <2>3 DEF LastIsSub
<1>8. ASSUME LastIsSub(q, s, v) PROVE LastIsSub(r, s, v)
  <2>1. PICK i \in 1 .. n : /\ Asks(q[i], s, v) /\ q[i].type = "sub"
                            /\ \A j \in 1 .. n : Asks(q[j], s, v) => j <= i
    BY <1>2, <1>8 DEF LastIsSub
  <2>2. i + 1 \in 1 .. n + 1 /\ r[i + 1] = q[i]
    BY <1>3
  <2>3. \A j \in 1 .. n + 1 : Asks(r[j], s, v) => j <= i + 1
    BY <1>4, <2>1
  <2> QED BY <1>5, <2>1, <2>2, <2>3 DEF LastIsSub
<1> QED BY <1>1, <1>6, <1>7, <1>8 DEF Wish

\* The first request taken from the queue.
LEMMA WishTail ==
  ASSUME NEW q \in Seq(Events), q # <<>>, NEW s, NEW v, NEW b \in BOOLEAN
  PROVE  Wish(b, q, s, v) <=> Wish(IF Asks(q[1], s, v) THEN q[1].type = "sub" ELSE b, Tail(q), s, v)
<1>1. PICK r \in Seq(Events) : /\ r = Tail(q) /\ Len(r) = Len(q) - 1 /\ Len(q) \in Nat /\ Len(q) > 0
                               /\ Head(q) = q[1] /\ \A i \in 1 .. Len(q) - 1 : r[i] = q[i + 1]
  BY Popped
<1>2. PICK n \in Nat : n = Len(r) /\ Len(q) = n + 1
  <2>1. PICK m \in Nat : m = Len(q) /\ m > 0
    BY <1>1
  <2>2. Len(r) = m - 1 /\ m - 1 \in Nat /\ Len(q) = (m - 1) + 1
    BY <1>1, <2>1
  <2> QED BY <2>2
<1>3. \A i \in 1 .. n : i + 1 \in 1 .. n + 1 /\ r[i] = q[i + 1]
  BY <1>1, <1>2
<1>4. \A i \in 1 .. n + 1 : i # 1 => i - 1 \in 1 .. n /\ q[i] = r[i - 1]
  BY <1>1, <1>2
<1>5. Asked(q, s, v) <=> Asks(q[1], s, v) \/ Asked(r, s, v)
  <2>1. ASSUME Asked(q, s, v), ~Asks(q[1], s, v) PROVE Asked(r, s, v)
    BY <1>2, <1>4, <2>1 DEF Asked
  <2>2. ASSUME Asked(r, s, v) PROVE Asked(q, s, v)
    BY <1>2, <1>3, <2>2 DEF Asked
  <2>3. ASSUME Asks(q[1], s, v) PROVE Asked(q, s, v)
    <3>1. 1 \in 1 .. Len(q)
      BY <1>2
    <3> QED BY <2>3, <3>1 DEF Asked
  <2> QED BY <2>1, <2>2, <2>3
<1>6. ASSUME LastIsSub(r, s, v) PROVE LastIsSub(q, s, v)
  <2>1. PICK i \in 1 .. n : /\ Asks(r[i], s, v) /\ r[i].type = "sub"
                            /\ \A j \in 1 .. n : Asks(r[j], s, v) => j <= i
    BY <1>2, <1>6 DEF LastIsSub
  <2>2. i + 1 \in 1 .. n + 1 /\ q[i + 1] = r[i]
    BY <1>3
  <2>3. \A j \in 1 .. n + 1 : Asks(q[j], s, v) => j <= i + 1
    BY <1>4, <2>1
  <2> QED BY <1>2, <2>1, <2>2, <2>3 DEF LastIsSub
<1>7. ASSUME LastIsSub(q, s, v), Asked(r, s, v) PROVE LastIsSub(r, s, v)
  <2>1. PICK i \in 1 .. n + 1 : /\ Asks(q[i], s, v) /\ q[i].type = "sub"
                                /\ \A j \in 1 .. n + 1 : Asks(q[j], s, v) => j <= i
    BY <1>2, <1>7 DEF LastIsSub
  <2>2. i # 1
    BY <1>2, <1>3, <1>7, <2>1 DEF Asked
  <2>3. i - 1 \in 1 .. n /\ q[i] = r[i - 1]
    BY <1>4, <2>2
  <2>4. \A j \in 1 .. n : Asks(r[j], s, v) => j <= i - 1
    BY <1>3, <2>1
  <2> QED BY <1>2, <2>1, <2>3, <2>4 DEF LastIsSub
<1>8. ASSUME ~Asked(r, s, v), Asks(q[1], s, v) PROVE LastIsSub(q, s, v) <=> q[1].type = "sub"
  BY <1>2, <1>4, <1>8 DEF LastIsSub, Asked
<1> QED BY <1>1, <1>5, <1>6, <1>7, <1>8 DEF Wish

\* A request waits on the stack until it is applied.
LEMMA RequestWaits ==
  ASSUME [Next]_vars, ~ApplySubscribe, ~ApplyUnsubscribe, stack # <<>>, stack[1].do = "event",
         stack[1].ev.type \in {"sub", "unsub"}
  PROVE  stack' = stack
BY DEF vars, Next, MainLoop, Kernel, App, Host, Dequeue, Dispatch, EndTask, Visit, Visited, Free, Finish,
       Dropped, Event, At, Top, InApp, AppFrames, AppCall, Publish, Subscribe, Unsubscribe, ApplySubscribe,
       ApplyUnsubscribe, SendPrivate, Abort, AppReturn, StartApp, StopApp, Started, Failed, Stopping, OtherWork,
       Interrupt

\* Only the main loop puts one there.
LEMMA NoNewRequest ==
  ASSUME TaskInv, TaskInv', [Next]_vars, ~Dequeue
  PROVE  stack' = stack \/ stack' = <<>> \/ stack'[1].do # "event"
<1>1. PICK st \in Seq(Frames) : st = stack
  BY TaskKinds
<1>2. PICK r \in Seq(Frames) : r = stack'
  BY TypedNext
<1>3. Shape(st)
  BY <1>1, Opened
<1> DEFINE Other == r = st \/ r = <<>> \/ r[1].do # "event"
<1>4. \A g : Aside(g) => g.do # "event"
  BY DEF Aside, AppFrames
<1>5. ASSUME st # <<>>, r = Tail(st) PROVE Other
  <2>1. PICK k \in Seq(Frames) :
          /\ k = Tail(st) /\ Len(k) = Len(st) - 1 /\ Len(st) \in Nat /\ Len(st) > 0
          /\ Head(st) = st[1] /\ \A i \in 1 .. Len(st) - 1 : k[i] = st[i + 1]
    BY <1>5, Popped
  <2>2. CASE Len(st) = 1
    BY <1>5, <2>1, <2>2, EmptySeq
  <2>3. CASE Len(st) # 1
    <3>1. 1 \in 1 .. Len(st) - 1 /\ 2 \in 2 .. Len(st)
      BY <2>1, <2>3
    <3>2. r[1] = st[2] /\ st[2].do \notin Leaves
      BY <1>3, <1>5, <2>1, <3>1, TopOnly
    <3> QED BY <3>2 DEF Leaves
  <2> QED BY <2>2, <2>3
<1>6. ASSUME NEW f \in Frames, Straight(f) PROVE Other
  <2>1. f.do # "event" /\ Turned(f)
    BY <1>6 DEF Straight
  <2>2. st # <<>> /\ (r = <<f>> \o Tail(st) \/ \E g \in Frames : Aside(g) /\ r = PushTwo(g, f, st))
    BY <1>1, <1>2, <2>1 DEF Turned
  <2>3. CASE r = <<f>> \o Tail(st)
    BY <2>1, <2>2, <2>3, Replaced
  <2>4. ASSUME NEW g \in Frames, Aside(g), r = PushTwo(g, f, st) PROVE Other
    <3>1. PushTwo(g, f, st)[1] = g
      BY <2>2, PushedTwo
    <3> QED BY <1>4, <2>4, <3>1
  <2> QED BY <2>2, <2>3, <2>4
<1>7. ASSUME NEW f \in Frames, Landing(f) PROVE Other
  <2>1. r = <<f>> \o SubSeq(st, 3, Len(st)) /\ Len(st) >= 2 /\ f.do # "event"
    BY <1>1, <1>2, <1>7 DEF Landing
  <2>2. (<<f>> \o SubSeq(st, 3, Len(st)))[1] = f
    BY <2>1, Landed
  <2> QED BY <2>1, <2>2
<1>8. ASSUME NEW g \in Frames, Aside(g), st # <<>>, r = <<g>> \o Tail(st) PROVE Other
  <2>1. (<<g>> \o Tail(st))[1] = g
    BY <1>8, Replaced
  <2> QED BY <1>4, <1>8, <2>1
<1>9. ASSUME NEW g \in Frames, NEW k \in Seq(Frames), Aside(g), r = Push(g, k) PROVE Other
  <2>1. Push(g, k)[1] = g
    BY Pushed
  <2> QED BY <1>4, <1>9, <2>1
<1>10. \A h \in Frames : Push(h, st) \in Seq(Frames)
  BY Pushed
<1>11. CASE stack = <<>>
  BY <1>1, <1>2, <1>11, WhenIdle
<1>12. CASE stack # <<>>
  <2> HIDE DEF Other
  <2>1. r = st => Other
    BY DEF Other
  <2>2. \/ r = st \/ r = Tail(st)
        \/ \E f \in Frames : Straight(f)
        \/ \E f \in Frames : Landing(f)
        \/ \E g \in Frames : Aside(g) /\ r = <<g>> \o Tail(st)
        \/ \E g \in Frames : Aside(g) /\ r = Push(g, st)
        \/ \E g \in Frames : \E h \in Frames : Aside(g) /\ r = Push(g, Push(h, st))
    BY <1>1, <1>2, <1>12, StackDoes DEF StackStep
  <2>3. Other
    BY <1>1, <1>5, <1>6, <1>7, <1>8, <1>9, <1>10, <1>12, <2>1, <2>2
  <2> QED BY <1>1, <1>2, <2>3 DEF Other
<1> QED BY <1>11, <1>12

LEMMA AppliedStays ==
  ASSUME TaskInv, TaskInv', [Next]_vars, ~Dequeue, ~ApplySubscribe, ~ApplyUnsubscribe,
         NEW s, NEW v, task'[s].subs = task[s].subs
  PROVE  Applied(task', stack', s, v) <=> Applied(task, stack, s, v)
<1>1. CASE stack' = stack
  BY <1>1 DEF Applied
<1>2. CASE stack' # stack
  <2>1. ~(stack # <<>> /\ stack[1].do = "event" /\ Asks(stack[1].ev, s, v))
    BY <1>2, RequestWaits DEF Asks
  <2>2. stack' = <<>> \/ stack'[1].do # "event"
    BY <1>2, NoNewRequest
  <2> QED BY <2>1, <2>2 DEF Applied
<1> QED BY <1>1, <1>2

LEMMA AppliedIs == \A t, st, s, v : Applied(t, st, s, v) \in BOOLEAN
<1> SUFFICES ASSUME NEW t, NEW st, NEW s, NEW v PROVE Applied(t, st, s, v) \in BOOLEAN
  OBVIOUS
<1>1. CASE st # <<>> /\ st[1].do = "event" /\ Asks(st[1].ev, s, v)
  <2>1. Applied(t, st, s, v) = (st[1].ev.type = "sub")
    BY <1>1 DEF Applied
  <2>2. (st[1].ev.type = "sub") \in BOOLEAN
    OBVIOUS
  <2> QED BY <2>1, <2>2
<1>2. CASE ~(st # <<>> /\ st[1].do = "event" /\ Asks(st[1].ev, s, v))
  <2>1. Applied(t, st, s, v) = (v \in t[s].subs)
    BY <1>2 DEF Applied
  <2>2. (v \in t[s].subs) \in BOOLEAN
    OBVIOUS
  <2> QED BY <2>1, <2>2
<1> QED BY <1>1, <1>2

LEMMA SubsDequeue ==
  ASSUME TaskInv, SubsInv, Dequeue
  PROVE  SubsInv'
<1>1. PICK f \in Frames :
        /\ stack' = <<f>> /\ f.ev = queue[1]
        /\ \/ f = Walk(queue[1]) /\ queue[1].type = "user"
           \/ /\ f.do = "event" /\ queue[1].type # "user"
              /\ f.cur = queue[1].org.idx /\ f.due = {}
  BY DequeueDoes
<1>2. stack = <<>> /\ queue # <<>> /\ queue' = Tail(queue) /\ queue[1] \in Events
  BY DequeueDoes
<1>3. task' = task /\ wanted' = wanted
  BY DEF Dequeue
<1>4. f.do = "event" <=> queue[1].type # "user"
  BY <1>1, <1>2, WalkIs
<1>5. PICK q \in Seq(Events) : q = queue
  BY TaskKinds
<1>6. ASSUME NEW s \in Slots, NEW v \in Values
      PROVE  Wish(Applied(task, stack, s, v), queue, s, v) <=> Wish(Applied(task', stack', s, v), queue', s, v)
  <2>1. Applied(task, stack, s, v) <=> v \in task[s].subs
    BY <1>2 DEF Applied
  <2>2. Applied(task', stack', s, v) <=> IF Asks(q[1], s, v) THEN q[1].type = "sub" ELSE v \in task[s].subs
    BY <1>1, <1>3, <1>4, <1>5 DEF Applied, Asks
  <2>3. PICK b \in BOOLEAN : b <=> Applied(task, stack, s, v)
    BY AppliedIs
  <2>4. Wish(b, q, s, v) <=> Wish(IF Asks(q[1], s, v) THEN q[1].type = "sub" ELSE b, Tail(q), s, v)
    BY <1>2, <1>5, WishTail
  <2>5. Wish(Applied(task, stack, s, v), q, s, v) <=> Wish(b, q, s, v)
    BY <2>3 DEF Wish
  <2>6. Wish(Applied(task', stack', s, v), Tail(q), s, v)
          <=> Wish(IF Asks(q[1], s, v) THEN q[1].type = "sub" ELSE b, Tail(q), s, v)
    BY <2>1, <2>2, <2>3 DEF Wish
  <2> QED BY <1>2, <1>5, <2>4, <2>5, <2>6
<1> QED BY <1>3, <1>6 DEF SubsInv, SubsOK

LEMMA SubsApply ==
  ASSUME TaskInv, TaskInv', SubsInv, SizedInv, [Next]_vars, ApplySubscribe \/ ApplyUnsubscribe
  PROVE  SubsInv'
<1>1. /\ stack # <<>> /\ Top = stack[1] /\ Top.do = "event" /\ Top.ev \in Events
      /\ Top.ev.to.idx \in Slots
      /\ ApplySubscribe => Top.ev.type = "sub" /\ Top.ev.evt \in Values
      /\ ApplyUnsubscribe => Top.ev.type = "unsub"
  BY RequestIs
<1>2. PICK x \in Slots : x = Top.ev.to.idx
  BY <1>1
<1> DEFINE w == Top.ev.evt
<1>3. queue' = queue /\ wanted' = wanted /\ task \in [Slots -> TaskRecords]
  BY TaskKinds DEF ApplySubscribe, ApplyUnsubscribe
<1>4. \A s, v : Applied(task', stack', s, v) <=> v \in task'[s].subs
  <2>1. stack' # stack
    <3>1. PICK f \in Frames : Turning("event", "done", f)
      BY SubscribeDoes
    <3>2. f.do # "event" /\ Turned(f)
      BY <3>1 DEF Turning
    <3>3. stack \in Seq(Frames) /\ stack # <<>> /\ stack[1].do = "event"
      BY <1>1, TaskKinds
    <3>4. CASE stack' = <<f>> \o Tail(stack)
      <4>1. (<<f>> \o Tail(stack))[1] = f
        BY <3>3, Replaced
      <4> QED BY <3>2, <3>3, <3>4, <4>1
    <3>5. ASSUME NEW g \in Frames, Aside(g), stack' = PushTwo(g, f, stack) PROVE stack' # stack
      <4>1. PushTwo(g, f, stack)[1] = g
        BY <3>3, PushedTwo
      <4> QED BY <3>3, <3>5, <4>1 DEF Aside, AppFrames
    <3> QED BY <3>2, <3>4, <3>5 DEF Turned
  <2>2. ~Dequeue
    BY <1>1 DEF Dequeue
  <2>3. stack' = <<>> \/ stack'[1].do # "event"
    BY <2>1, <2>2, NoNewRequest
  <2> QED BY <2>3 DEF Applied
<1>5. \A s, v : Applied(task, stack, s, v) <=> IF s = x /\ v = w THEN ApplySubscribe ELSE v \in task[s].subs
  <2>1. Top.ev.type \in {"sub", "unsub"} /\ (Top.ev.type = "sub" <=> ApplySubscribe)
    BY <1>1
  <2>2. \A s, v : Asks(Top.ev, s, v) <=> s = x /\ v = w
    BY <1>2, <2>1 DEF Asks
  <2> QED BY <1>1, <2>1, <2>2 DEF Applied
<1>6. /\ \A s \in Slots : s # x => task'[s] = task[s]
      /\ task'[x].loaded = task[x].loaded /\ (task[x].short => task'[x].short)
      /\ IF ApplySubscribe THEN w \in task'[x].subs \/ task'[x].short ELSE w \notin task'[x].subs
      /\ \A v : v # w => (v \in task'[x].subs <=> v \in task[x].subs)
  <2>1. CASE ApplySubscribe
    <3>1. PICK b \in BOOLEAN : task' = Added(x, w, b)
      BY <1>2, <2>1 DEF ApplySubscribe
    <3>2. Sized(task[x]) /\ w \in Values
      BY <1>1, <1>2, <2>1 DEF SizedInv
    <3>3. PICK u : u = task' /\ u = Added(x, w, b)
      BY <3>1
    <3> QED BY <1>3, <2>1, <3>2, <3>3, SubsAdded
  <2>2. CASE ~ApplySubscribe
    <3>1. PICK u : u = task' /\ u = [task EXCEPT ![x].subs = @ \ {w}]
      BY <1>2, <2>2 DEF ApplyUnsubscribe
    <3> QED BY <1>3, <2>2, <3>1, SubsRemoved
  <2> QED BY <2>1, <2>2
<1>7. ASSUME NEW s \in Slots, task'[s].loaded, NEW v \in Values, ~task'[s].short
      PROVE  v \in wanted[s] <=> Wish(Applied(task', stack', s, v), queue, s, v)
  <2>1. task[s].loaded /\ ~task[s].short
    BY <1>6, <1>7
  <2>2. v \in wanted[s] <=> Wish(Applied(task, stack, s, v), queue, s, v)
    BY <2>1 DEF SubsInv, SubsOK
  <2>3. Applied(task', stack', s, v) <=> Applied(task, stack, s, v)
    BY <1>4, <1>5, <1>6, <1>7
  <2> QED BY <2>2, <2>3 DEF Wish
<1> QED BY <1>3, <1>7 DEF SubsInv, SubsOK

\* What a task is subscribed to is what it was, if a step does not touch it.
LEMMA SubsSame ==
  ASSUME TaskInv, SubsInv, NEW s \in Slots, NEW v \in Values,
         Applied(task', stack', s, v) <=> Applied(task, stack, s, v),
         task[s].loaded, task'[s].short = task[s].short, v \in wanted'[s] <=> v \in wanted[s],
         \/ queue' = queue
         \/ \E e \in Events : ~Asks(e, s, v) /\ (queue' = Put(queue, e) \/ queue' = Push(e, queue))
  PROVE  task'[s].short \/ (v \in wanted'[s] <=> Wish(Applied(task', stack', s, v), queue', s, v))
<1>1. PICK q \in Seq(Events) : q = queue
  BY TaskKinds
<1>2. PICK b \in BOOLEAN : b <=> Applied(task, stack, s, v)
  BY AppliedIs
<1>3. Wish(b, queue', s, v) <=> Wish(b, q, s, v)
  <2>1. CASE queue' = queue
    BY <1>1, <2>1
  <2>2. ASSUME NEW e \in Events, ~Asks(e, s, v), queue' = Put(queue, e) \/ queue' = Push(e, queue)
        PROVE  Wish(b, queue', s, v) <=> Wish(b, q, s, v)
    <3>1. Wish(b, Put(q, e), s, v) <=> Wish(b, q, s, v)
      BY <2>2, WishPut
    <3>2. Wish(b, Push(e, q), s, v) <=> Wish(b, q, s, v)
      BY <2>2, WishPush
    <3> QED BY <1>1, <2>2, <3>1, <3>2
  <2> QED BY <2>1, <2>2
<1>4. task[s].short \/ (v \in wanted[s] <=> Wish(Applied(task, stack, s, v), queue, s, v))
  BY DEF SubsInv, SubsOK
<1>5. Wish(Applied(task, stack, s, v), queue, s, v) <=> Wish(b, q, s, v)
  BY <1>1, <1>2 DEF Wish
<1>6. Wish(Applied(task', stack', s, v), queue', s, v) <=> Wish(b, queue', s, v)
  BY <1>2 DEF Wish
<1> QED BY <1>3, <1>4, <1>5, <1>6

\* The task that is being started asked for nothing, and nothing is pending.
LEMMA SubsLaunch ==
  ASSUME TaskInv, TaskInv', SubsInv, WantedInv, [Next]_vars, Launch
  PROVE  SubsInv'
<1>1. PICK a \in Apps : StartApp(a)
  BY DEF Launch
<1>2. PICK x \in Slots \ {System} :
        /\ ~task[x].loaded /\ \A s \in Slots : s # x => task'[s] = task[s]
        /\ task'[x].subs = {} /\ task'[x].sz = Embedded
        /\ \/ ~task'[x].loaded /\ wanted' = wanted
           \/ wanted' = [wanted EXCEPT ![x] = {}]
  BY <1>1, LaunchedIs
<1>3. queue' = queue /\ At("host")
  BY <1>1 DEF StartApp
<1>4. ~Dequeue /\ ~ApplySubscribe /\ ~ApplyUnsubscribe
  BY <1>3 DEF Dequeue, ApplySubscribe, ApplyUnsubscribe, Event, At
<1>5. ASSUME NEW s \in Slots, task'[s].loaded, NEW v \in Values
      PROVE  task'[s].short \/ (v \in wanted'[s] <=> Wish(Applied(task', stack', s, v), queue', s, v))
  <2>1. CASE s # x
    <3>1. task'[s] = task[s] /\ wanted'[s] = wanted[s]
      BY <1>2, <2>1 DEF WantedInv
    <3>2. Applied(task', stack', s, v) <=> Applied(task, stack, s, v)
      BY <1>4, <3>1, AppliedStays
    <3> QED BY <1>3, <1>5, <3>1, <3>2, SubsSame
  <2>2. CASE s = x
    <3>1. \A i \in 1 .. Len(queue) : ~Asks(queue[i], x, v)
      <4>1. QueueOK(queue, task)
        BY Opened
      <4> QED BY <1>2, <4>1 DEF QueueOK, Concerns, Asks
    <3>2. ~Wish(Applied(task', stack', x, v), queue', x, v)
      <4>1. Applied(task', stack', x, v) <=> v \in task'[x].subs
        <5>1. stack' = <<>> \/ stack'[1].do # "event" \/ stack' = stack
          BY <1>4, NoNewRequest
        <5>2. stack # <<>> /\ stack[1].do # "event"
          BY <1>3 DEF At, Top
        <5> QED BY <5>1, <5>2 DEF Applied
      <4>2. v \notin task'[x].subs
        BY <1>2
      <4>3. ~Asked(queue', x, v)
        BY <1>3, <3>1 DEF Asked
      <4> QED BY <4>1, <4>2, <4>3 DEF Wish
    <3>3. v \notin wanted'[x]
      BY <1>2, <1>5, <2>2 DEF WantedInv
    <3> QED BY <2>2, <3>2, <3>3
  <2> QED BY <2>1, <2>2
<1> QED BY <1>5 DEF SubsInv, SubsOK

\* A request of the app that runs.
LEMMA SubsAsk ==
  ASSUME TaskInv, TaskInv', SubsInv, WantedInv, [Next]_vars, Asking
  PROVE  SubsInv'
<1>1. PICK w \in Values : Subscribe(w) \/ Unsubscribe(w)
  BY DEF Asking
<1>2. stack' = stack /\ InApp
  BY <1>1 DEF Subscribe, Unsubscribe, AppCall
<1>3. ~Dequeue /\ ~ApplySubscribe /\ ~ApplyUnsubscribe /\ ~Launch
  BY <1>2 DEF InApp, AppFrames, Dequeue, ApplySubscribe, ApplyUnsubscribe, Event, At, Launch, StartApp, Top
<1>4. SameSubs(task, task')
  BY <1>3, SubsStay
<1>5. PICK m : m = Me
  OBVIOUS
<1>6. PICK d \in {"sub", "unsub"}, y \in {wanted[m] \cup {w}, wanted[m] \ {w}} :
        /\ AppCall /\ Ask(d, w, y)
        /\ y = IF d = "sub" THEN wanted[m] \cup {w} ELSE wanted[m] \ {w}
  <2>1. CASE Subscribe(w)
    BY <1>5, <2>1 DEF Subscribe
  <2>2. CASE Unsubscribe(w)
    BY <1>5, <2>2 DEF Unsubscribe
  <2> QED BY <1>1, <2>1, <2>2
<1>7. /\ m \in Slots
      /\ \/ /\ wanted' = [wanted EXCEPT ![m] = IF Accepted(m) THEN y ELSE @]
            /\ \E e \in Events :
                 /\ Sends(task, m, e) /\ e.type = d /\ e.to.idx = m /\ e.evt = w
         \/ UNCHANGED <<queue, task, wanted>>
  BY <1>5, <1>6, AskDoes
<1>8. ASSUME NEW s \in Slots, task'[s].loaded, NEW v \in Values, wanted' = wanted, queue' = queue
      PROVE  task'[s].short \/ (v \in wanted'[s] <=> Wish(Applied(task', stack', s, v), queue', s, v))
  <2>1. task[s].loaded /\ task'[s].short = task[s].short /\ task'[s].subs = task[s].subs
    BY <1>4, <1>8 DEF SameSubs
  <2>2. Applied(task', stack', s, v) <=> Applied(task, stack, s, v)
    BY <1>3, <2>1, AppliedStays
  <2> QED BY <1>8, <2>1, <2>2, SubsSame
<1>9. ASSUME NEW s \in Slots, task'[s].loaded, NEW v \in Values, NEW e \in Events,
             queue' = Put(queue, e), e.type = d, e.to.idx = m, e.evt = w,
             wanted' = [wanted EXCEPT ![m] = y]
      PROVE  task'[s].short \/ (v \in wanted'[s] <=> Wish(Applied(task', stack', s, v), queue', s, v))
  <2>1. task[s].loaded /\ task'[s].short = task[s].short /\ task'[s].subs = task[s].subs
    BY <1>4, <1>9 DEF SameSubs
  <2>2. Applied(task', stack', s, v) <=> Applied(task, stack, s, v)
    BY <1>3, <2>1, AppliedStays
  <2>3. Asks(e, s, v) <=> s = m /\ v = w
    BY <1>9 DEF Asks
  <2>4. wanted'[m] = y /\ \A z \in Slots : z # m => wanted'[z] = wanted[z]
    BY <1>7, <1>9 DEF WantedInv
  <2>5. CASE s = m /\ v = w
    <3>1. PICK b \in BOOLEAN : b <=> Applied(task', stack', s, v)
      BY AppliedIs
    <3>2. PICK q \in Seq(Events) : q = queue
      BY TaskKinds
    <3>3. Wish(b, Put(q, e), s, v) <=> e.type = "sub"
      BY <2>3, <2>5, WishPut
    <3>4. Wish(Applied(task', stack', s, v), queue', s, v) <=> d = "sub"
      BY <1>9, <3>1, <3>2, <3>3 DEF Wish
    <3>5. v \in wanted'[s] <=> d = "sub"
      BY <1>6, <2>4, <2>5
    <3> QED BY <3>4, <3>5
  <2>6. CASE ~(s = m /\ v = w)
    <3>1. v \in wanted'[s] <=> v \in wanted[s]
      BY <1>6, <2>4, <2>6
    <3> QED BY <1>9, <2>1, <2>2, <2>3, <2>6, <3>1, SubsSame
  <2> QED BY <2>5, <2>6
<1>10. CASE wanted' = wanted /\ queue' = queue
  BY <1>8, <1>10 DEF SubsInv, SubsOK
<1>11. CASE ~(wanted' = wanted /\ queue' = queue)
  <2>1. PICK e \in Events : Sends(task, m, e) /\ e.type = d /\ e.to.idx = m /\ e.evt = w
    BY <1>7, <1>11
  <2>2. wanted' = [wanted EXCEPT ![m] = IF Accepted(m) THEN y ELSE @]
    BY <1>7, <1>11
  <2>3. CASE Accepted(m)
    <3>1. queue' = Put(queue, e) /\ wanted' = [wanted EXCEPT ![m] = y]
      BY <2>1, <2>2, <2>3 DEF Sends
    <3> QED BY <1>9, <2>1, <3>1 DEF SubsInv, SubsOK
  <2>4. CASE ~Accepted(m)
    <3>1. queue' = queue /\ wanted' = wanted
      BY <2>1, <2>2, <2>4 DEF Sends, WantedInv
    <3> QED BY <1>11, <3>1
  <2> QED BY <2>3, <2>4
<1> QED BY <1>10, <1>11

\* Every other step leaves requests and lists alone.
LEMMA SubsElse ==
  ASSUME TaskInv, TaskInv', SubsInv, [Next]_vars,
         ~Dequeue, ~ApplySubscribe, ~ApplyUnsubscribe, ~Launch, ~Asking
  PROVE  SubsInv'
<1>1. SameSubs(task, task')
  BY SubsStay
<1>2. wanted' = wanted
  BY WantedDoes DEF Asking, Launch
<1>3. \A s, v : \/ queue' = queue
                \/ \E e \in Events : ~Asks(e, s, v) /\ (queue' = Put(queue, e) \/ queue' = Push(e, queue))
  BY RoomDoes DEF RoomStep, Roomy, Posting, Asks
<1>4. ASSUME NEW s \in Slots, task'[s].loaded, NEW v \in Values
      PROVE  task'[s].short \/ (v \in wanted'[s] <=> Wish(Applied(task', stack', s, v), queue', s, v))
  <2>1. task[s].loaded /\ task'[s].short = task[s].short /\ task'[s].subs = task[s].subs
    BY <1>1, <1>4 DEF SameSubs
  <2>2. Applied(task', stack', s, v) <=> Applied(task, stack, s, v)
    BY <2>1, AppliedStays
  <2> QED BY <1>2, <1>3, <2>1, <2>2, SubsSame
<1> QED BY <1>4 DEF SubsInv, SubsOK

LEMMA SubsKept ==
  ASSUME TaskInv, TaskInv', SubsInv, SizedInv, WantedInv, [Next]_vars
  PROVE  SubsInv'
BY SubsDequeue, SubsApply, SubsLaunch, SubsAsk, SubsElse

LEMMA SubsAtFirst == Init /\ TaskInv => SubsInv
<1> SUFFICES ASSUME Init, TaskInv PROVE SubsInv
  OBVIOUS
<1>1. \A s \in Slots : ~task[s].loaded
  BY DEF Init, Cleared
<1> QED BY <1>1 DEF SubsInv, SubsOK

LEMMA SubscribedIs == TaskInv /\ SubsInv => Subscribed
<1> SUFFICES ASSUME TaskInv, SubsInv, NEW s \in Running, NEW v \in Values
    PROVE  LET asked == {i \in DOMAIN queue : Asks(queue[i], s, v)}
               now == At("event") /\ Asks(Top.ev, s, v)
               pending == CASE asked # {} -> \E i \in asked : queue[i].type = "sub" /\ \A j \in asked : j <= i
                            [] asked = {} /\ now -> Top.ev.type = "sub"
                            [] OTHER -> v \in task[s].subs
           IN task[s].short \/ (v \in wanted[s] <=> pending)
  BY DEF Subscribed, Running, Values
<1> DEFINE asked == {i \in DOMAIN queue : Asks(queue[i], s, v)}
           now == At("event") /\ Asks(Top.ev, s, v)
<1>1. DOMAIN queue = 1 .. Len(queue)
  BY TaskKinds, Counted
<1>2. s \in Slots /\ task[s].loaded
  BY RunningIsLoaded
<1>3. task[s].short \/ (v \in wanted[s] <=> Wish(Applied(task, stack, s, v), queue, s, v))
  BY <1>2 DEF SubsInv, SubsOK
<1>4. asked # {} <=> Asked(queue, s, v)
  BY <1>1 DEF Asked
<1>5. (\E i \in asked : queue[i].type = "sub" /\ \A j \in asked : j <= i) <=> LastIsSub(queue, s, v)
  BY <1>1 DEF LastIsSub
<1>6. now <=> stack # <<>> /\ stack[1].do = "event" /\ Asks(stack[1].ev, s, v)
  BY DEF At, Top
<1>7. Applied(task, stack, s, v) <=> IF now THEN Top.ev.type = "sub" ELSE v \in task[s].subs
  BY <1>6 DEF Applied, Top
<1>8. CASE asked # {}
  BY <1>3, <1>4, <1>5, <1>8 DEF Wish
<1>9. CASE asked = {} /\ now
  BY <1>3, <1>4, <1>7, <1>9 DEF Wish
<1>10. CASE asked = {} /\ ~now
  BY <1>3, <1>4, <1>7, <1>10 DEF Wish
<1> QED BY <1>8, <1>9, <1>10

\* A running task is subscribed to what it asked for, once the requests that are
\* still in the queue are applied, the last one about an event counting: a request
\* is neither lost nor overtaken, and none outlives the task it is from.
THEOREM SubscribedAsAsked ==
  ASSUME Faults \subseteq {"load", "init", "abort"}
  PROVE  Spec => []Subscribed
<1>1. Spec => []TaskInv
  BY TaskInvAlways DEF Orderly
<1>2. Init /\ TaskInv => SizedInv /\ WantedInv /\ SubsInv
  BY RoomAtFirst, SubsAtFirst
<1>3. TaskInv /\ SizedInv /\ [Next]_vars => SizedInv'
  BY SizedKept
<1>4. TaskInv /\ WantedInv /\ [Next]_vars => WantedInv'
  BY WantedKept
<1>5. TaskInv /\ TaskInv' /\ SizedInv /\ WantedInv /\ SubsInv /\ [Next]_vars => SubsInv'
  BY SubsKept
<1>6. TaskInv /\ SubsInv => Subscribed
  BY SubscribedIs
<1> QED BY <1>1, <1>2, <1>3, <1>4, <1>5, <1>6, PTL DEF Spec

-----------------------------------------------------------------------------
(* Broadcasts.                                                              *)

\* x is among the running tasks from n on: in every set of them that has n, and
\* with a task the one behind it.
ClosedIn(R, l, S) == \A y \in S : l[y].next \in R => l[y].next \in S
Behind(R, l, n, x) == \A S \in SUBSET R : ClosedIn(R, l, S) /\ (n \in R => n \in S) => x \in S

\* Whom the event of a frame is still for: subscribers the walk has not passed.
Due(f, R, l, t) ==
  /\ f.do \notin {"walk", "visited", "done", "freed"} => f.due = {}
  /\ f.do = "done" => f.due \cap R = {}
  /\ f.do \in {"walk", "visited"} => \A s \in f.due : f.ev.evt \in t[s].subs /\ s # f.ev.to.idx
  /\ f.do = "walk" => \A s \in f.due \cap R : Behind(R, l, f.at, s)
  /\ f.do = "visited" => \A s \in f.due \cap R : Behind(R, l, l[f.at].next, s)
AllDue(st, R, l, t) == \A i \in 1 .. Len(st) : Due(st[i], R, l, t)
DueInv == AllDue(stack, Running, list, task)

LEMMA NoneBehind ==
  ASSUME NEW R, NO_NODE \notin R, NEW l, NEW x
  PROVE  ~Behind(R, l, NO_NODE, x)
<1>1. {} \in SUBSET R /\ ClosedIn(R, l, {})
  BY DEF ClosedIn
<1> QED BY <1>1 DEF Behind

LEMMA BehindNext ==
  ASSUME NEW R, NEW l, NEW n \in R, NEW x, Behind(R, l, n, x), x # n
  PROVE  Behind(R, l, l[n].next, x)
<1> SUFFICES ASSUME NEW S \in SUBSET R, ClosedIn(R, l, S), l[n].next \in R => l[n].next \in S
             PROVE  x \in S
  BY DEF Behind
<1>1. S \cup {n} \in SUBSET R /\ ClosedIn(R, l, S \cup {n})
  BY DEF ClosedIn
<1>2. x \in S \cup {n}
  BY <1>1 DEF Behind
<1> QED BY <1>2

\* All running tasks are behind the first one.
LEMMA AllBehind ==
  ASSUME NEW R, NEW F, NEW l, TwoLists(R, F, l), NEW x \in R
  PROVE  Behind(R, l, l[Tasks].next, x)
<1> SUFFICES ASSUME NEW S \in SUBSET R, ClosedIn(R, l, S), l[Tasks].next \in R => l[Tasks].next \in S
             PROVE  x \in S
  BY DEF Behind
<1>1. PICK n \in Nat : \E q : Chained(q, n, Tasks, l) /\ R = Members(q, n)
  BY DEF TwoLists
<1>2. PICK q : Chained(q, n, Tasks, l) /\ R = Members(q, n)
  BY <1>1
<1> DEFINE M == {k \in 1 .. n : q[k] \notin S}
<1>3. CASE M = {}
  <2>1. PICK k \in 1 .. n : x = q[k]
    BY <1>2 DEF Members
  <2> QED BY <1>3, <2>1
<1>4. CASE M # {}
  <2>1. M \subseteq Nat
    OBVIOUS
  <2>2. PICK m \in M : \A k \in M : m <= k
    <3> HIDE DEF M
    <3> QED BY <1>4, <2>1, Least
  <2>3. m \in 1 .. n /\ q[m] \notin S /\ q[m] \in R
    BY <1>2, <2>2 DEF Members
  <2>4. CASE m = 1
    <3>1. l[Tasks].next = q[1]
      BY <1>2, <2>3, <2>4 DEF Chained
    <3> QED BY <2>3, <2>4, <3>1
  <2>5. CASE m # 1
    <3>1. m - 1 \in 1 .. n /\ ~(m <= m - 1) /\ m - 1 # n
      BY <2>3, <2>5
    <3>2. q[m - 1] \in S
      BY <2>2, <3>1
    <3>3. l[q[m - 1]].next = q[(m - 1) + 1]
      BY <1>2, <3>1, LinksOf
    <3>4. (m - 1) + 1 = m
      BY <2>3
    <3>5. q[m] \in S
      BY <2>3, <3>2, <3>3, <3>4 DEF ClosedIn
    <3> QED BY <2>3, <3>5
  <2> QED BY <2>4, <2>5
<1> QED BY <1>3, <1>4

\* A broadcast starts, for all that are on the list.
LEMMA WalkDue ==
  ASSUME TaskInv, NEW e \in Events, NEW R, NEW F, NEW l, TwoLists(R, F, l), NEW t,
         l[Tasks].next = list[Tasks].next, \A s \in Slots : t[s].subs = task[s].subs
  PROVE  Due(Walk(e), R, l, t)
<1> DEFINE s == IF e.type = "user" THEN System ELSE e.org.idx
           b == Frame("walk", e, s)
           u == Subscribers(e.evt) \ {e.to.idx}
<1>1. PICK f \in Frames : /\ f = Walk(e) /\ f.do = "walk" /\ f.ev = e
  BY WalkIs
<1>2. f.at = list[Tasks].next /\ f.due = u
  BY <1>1 DEF Walk, Frame
<1>3. \A x \in u : x \in Slots /\ e.evt \in task[x].subs /\ x # e.to.idx
  BY Opened DEF Subscribers, Running
<1>4. \A x \in R : Behind(R, l, f.at, x)
  BY <1>2, AllBehind
<1> QED BY <1>1, <1>2, <1>3, <1>4 DEF Due

\* Frames that are for nobody, whatever the tasks.
LEMMA Undue ==
  ASSUME NEW f, f.due = {}
  PROVE  \A R, l, t : Due(f, R, l, t)
BY DEF Due

LEMMA AsideUndue ==
  ASSUME NEW g, Aside(g)
  PROVE  \A R, l, t : Due(g, R, l, t)
BY Undue DEF Aside

\* The main loop goes on: below there is only boot, so lists may have changed.
LEMMA TurnedDue ==
  ASSUME TaskInv, DueInv, NEW f, Turned(f), NEW R, NEW l, NEW t, Due(f, R, l, t)
  PROVE  AllDue(stack', R, l, t)
<1>1. PICK st \in Seq(Frames) : st = stack
  BY TaskKinds
<1>2. st # <<>> /\ st[1].do \in Kernels /\ f \in Frames
  BY <1>1 DEF Turned
<1>3. Len(st) \in Nat /\ Len(st) > 0 /\ Shape(st)
  BY <1>1, <1>2, Opened, Replaced
<1>4. \A i \in 2 .. Len(st) : st[i].do = "host"
  BY <1>2, <1>3, OnlyBootBelow
<1>5. \A i \in 2 .. Len(st) : Due(st[i], R, l, t)
  <2> SUFFICES ASSUME NEW i \in 2 .. Len(st) PROVE Due(st[i], R, l, t)
    OBVIOUS
  <2>1. i \in 1 .. Len(st)
    BY <1>3
  <2>2. st[i].due = {}
    BY <1>1, <1>4, <2>1 DEF DueInv, AllDue, Due
  <2> QED BY <2>2, Undue
<1>6. CASE stack' = <<f>> \o Tail(stack)
  <2>1. PICK r \in Seq(Frames) :
          /\ r = <<f>> \o Tail(st) /\ Len(r) = Len(st) /\ Len(st) > 0
          /\ r[1] = f /\ \A i \in 2 .. Len(st) : r[i] = st[i]
    BY <1>2, Replaced
  <2>2. AllDue(r, R, l, t)
    <3>1. \A i \in 1 .. Len(r) : i = 1 \/ i \in 2 .. Len(st)
      BY <1>3, <2>1
    <3> QED BY <1>5, <2>1, <3>1 DEF AllDue
  <2> QED BY <1>1, <1>6, <2>1, <2>2
<1>7. ASSUME NEW g \in Frames, Aside(g), stack' = PushTwo(g, f, stack) PROVE AllDue(stack', R, l, t)
  <2>1. PICK r \in Seq(Frames) :
          /\ r = PushTwo(g, f, st) /\ Len(r) = Len(st) + 1 /\ Len(st) > 0
          /\ r[1] = g /\ r[2] = f /\ \A i \in 3 .. Len(st) + 1 : r[i] = st[i - 1]
    BY <1>2, PushedTwo
  <2>2. AllDue(r, R, l, t)
    <3>1. \A i \in 1 .. Len(r) : i = 1 \/ i = 2 \/ (i \in 3 .. Len(st) + 1 /\ i - 1 \in 2 .. Len(st))
      BY <1>3, <2>1
    <3>2. Due(g, R, l, t)
      BY <1>7, AsideUndue
    <3> QED BY <1>5, <2>1, <3>1, <3>2 DEF AllDue
  <2> QED BY <1>1, <1>7, <2>1, <2>2
<1> QED BY <1>6, <1>7 DEF Turned

\* The stack under an app's frames stays as it is.
LEMMA PushedDue ==
  ASSUME NEW st \in Seq(Frames), NEW g \in Frames, NEW R, NEW l, NEW t, AllDue(st, R, l, t), Due(g, R, l, t)
  PROVE  AllDue(Push(g, st), R, l, t) /\ Push(g, st) \in Seq(Frames)
<1>1. PICK r \in Seq(Frames) : /\ r = Push(g, st) /\ Len(r) = Len(st) + 1 /\ r[1] = g
                               /\ \A i \in 2 .. Len(st) + 1 : r[i] = st[i - 1]
  BY Pushed
<1>2. Len(st) \in Nat
  BY Elements
<1>3. \A i \in 1 .. Len(r) : i = 1 \/ (i \in 2 .. Len(st) + 1 /\ i - 1 \in 1 .. Len(st))
  BY <1>1, <1>2
<1>4. AllDue(r, R, l, t)
  BY <1>1, <1>3 DEF AllDue
<1> QED BY <1>1, <1>4

LEMMA PoppedDue ==
  ASSUME NEW st \in Seq(Frames), st # <<>>, NEW R, NEW l, NEW t, AllDue(st, R, l, t)
  PROVE  /\ AllDue(Tail(st), R, l, t)
         /\ \A g \in Frames : Due(g, R, l, t) => AllDue(<<g>> \o Tail(st), R, l, t)
<1>1. PICK r \in Seq(Frames) :
        /\ r = Tail(st) /\ Len(r) = Len(st) - 1 /\ Len(st) \in Nat /\ Len(st) > 0
        /\ Head(st) = st[1] /\ \A i \in 1 .. Len(st) - 1 : r[i] = st[i + 1]
  BY Popped
<1>2. \A i \in 1 .. Len(st) - 1 : i + 1 \in 1 .. Len(st)
  BY <1>1
<1>3. AllDue(r, R, l, t)
  BY <1>1, <1>2 DEF AllDue
<1>4. ASSUME NEW g \in Frames, Due(g, R, l, t) PROVE AllDue(Push(g, r), R, l, t)
  BY <1>3, <1>4, PushedDue
<1> QED BY <1>1, <1>3, <1>4 DEF Push

LEMMA LandedDue ==
  ASSUME NEW st \in Seq(Frames), Len(st) >= 2, NEW f \in Frames, NEW R, NEW l, NEW t, AllDue(st, R, l, t),
         Due(f, R, l, t)
  PROVE  AllDue(<<f>> \o SubSeq(st, 3, Len(st)), R, l, t)
<1>1. PICK r \in Seq(Frames) :
        /\ r = <<f>> \o SubSeq(st, 3, Len(st)) /\ Len(r) = Len(st) - 1
        /\ r[1] = f /\ \A i \in 2 .. Len(st) - 1 : r[i] = st[i + 1]
  <2>1. st \in Seq(Frames) /\ f \in Frames /\ Len(st) >= 2
    OBVIOUS
  <2> QED BY ONLY <2>1, Landed
<1>2. Len(st) \in Nat
  BY Elements
<1>3. \A i \in 1 .. Len(r) : i = 1 \/ (i \in 2 .. Len(st) - 1 /\ i + 1 \in 1 .. Len(st))
  BY <1>1, <1>2
<1>4. AllDue(r, R, l, t)
  BY <1>1, <1>3 DEF AllDue
<1> QED BY <1>1, <1>4

\* Tasks that are subscribed to the same change nothing for anybody.
LEMMA SameDue ==
  ASSUME NEW st \in Seq(Frames), NEW R, NEW l, NEW t, NEW u, AllDue(st, R, l, t),
         \A s \in Slots : u[s].subs = t[s].subs
  PROVE  AllDue(st, R, l, u)
<1> SUFFICES ASSUME NEW i \in 1 .. Len(st) PROVE Due(st[i], R, l, u)
  BY DEF AllDue
<1>1. PICK f \in Frames : f = st[i] /\ Due(f, R, l, t)
  BY Elements DEF AllDue
<1>2. f.due \subseteq Slots
  BY DEF Frames
<1>3. Due(f, R, l, u)
  BY <1>1, <1>2 DEF Due
<1> QED BY <1>1, <1>3

LEMMA AloneDue ==
  ASSUME NEW f \in Frames, NEW R, NEW l, NEW t, Due(f, R, l, t)
  PROVE  AllDue(<<f>>, R, l, t)
<1>1. Len(<<f>>) = 1 /\ <<f>>[1] = f
  OBVIOUS
<1>2. \A i \in 1 .. 1 : i = 1
  OBVIOUS
<1> QED BY <1>1, <1>2 DEF AllDue

LEMMA RunningStays == list' = list => Running' = Running /\ Spare' = Spare
BY DEF Running, Spare, Reached

LEMMA TurnsDue ==
  ASSUME TaskInv, DueInv, NEW f, Turned(f), Due(f, Running', list', task')
  PROVE  DueInv'
<1>1. PICK R, l, t : R = Running' /\ l = list' /\ t = task'
  OBVIOUS
<1>2. AllDue(stack', R, l, t)
  BY <1>1, TurnedDue
<1> QED BY <1>1, <1>2 DEF DueInv

\* What a frame that is for nobody turns into.
LEMMA UndueTurns ==
  ASSUME TaskInv, DueInv, NEW d \in Kernels \ {"walk", "visited", "done", "freed"}, NEW k, NEW f, Turning(d, k, f)
  PROVE  DueInv'
<1>1. Turned(f) /\ f.due = Top.due /\ Top.do = d /\ stack # <<>> /\ Top = stack[1]
  BY DEF Turning, Turned
<1>2. 1 \in 1 .. Len(stack)
  BY <1>1, TaskKinds, Replaced
<1>3. Due(Top, Running, list, task)
  BY <1>1, <1>2 DEF DueInv, AllDue
<1>4. f.due = {}
  BY <1>1, <1>3 DEF Due
<1> QED BY <1>1, <1>4, Undue, TurnsDue

LEMMA TopDue ==
  ASSUME TaskInv, DueInv, stack # <<>>
  PROVE  Due(stack[1], Running, list, task)
<1>1. 1 \in 1 .. Len(stack)
  BY TaskKinds, EmptySeq, Elements
<1> QED BY <1>1 DEF DueInv, AllDue

\* The lists are as they were, and so is what the tasks are subscribed to.
Still == list' = list /\ Running' = Running /\ \A s \in Slots : task'[s].subs = task[s].subs

LEMMA StillDue ==
  ASSUME TaskInv, TaskInv', DueInv, Still, AllDue(stack', Running, list, task)
  PROVE  DueInv'
<1>1. PICK r \in Seq(Frames) : r = stack'
  BY TypedNext
<1>2. AllDue(r, Running, list, task')
  BY <1>1, SameDue DEF Still
<1> QED BY <1>1, <1>2 DEF DueInv, Still

LEMMA StillStill ==
  ASSUME TaskInv, SameSubs(task, task'), list' = list
  PROVE  Still
BY RunningStays DEF Still, SameSubs

LEMMA VisitDue ==
  ASSUME TaskInv, TaskInv', DueInv, Visit
  PROVE  DueInv'
<1>1. list' = list /\ task' = task /\ Running' = Running
  BY RunningStays DEF Visit
<1>2. PICK R, l, n, D, e : R = Running /\ l = list /\ n = Top.at /\ D = Top.due /\ e = Top.ev
  OBVIOUS
<1>3. /\ \A s \in D : e.evt \in task[s].subs /\ s # e.to.idx
      /\ \A s \in D \cap R : Behind(R, l, n, s)
  <2>1. stack # <<>> /\ Top = stack[1] /\ Top.do = "walk"
    BY DEF Visit, At, Top
  <2> QED BY <1>2, <2>1, TopDue DEF Due
<1>4. NO_NODE \notin R
  BY <1>2, Opened, Nodish
<1>5. PICK f \in Frames :
              \/ Turning("walk", "done", f) /\ Top.at = NO_NODE
              \/ /\ Turned(f) /\ Top.do = "walk" /\ f.do = "visited" /\ f.at = Top.at /\ f.cur = Top.cur
                 /\ f.due = Top.due \ {Top.at} /\ Top.at \in Running
              \/ /\ Turning("walk", "walk", f) /\ Top.at \in Running /\ f.at = list[Top.at].next
                 /\ ~(Top.ev.evt \in task[Top.at].subs /\ Top.at # Top.ev.to.idx)
  BY VisitDoes
<1>6. Turned(f) /\ f.ev = e
  BY <1>2, <1>5 DEF Turning, Turned
<1>7. CASE f.do = "done" /\ f.due = D /\ n = NO_NODE
  <2>1. D \cap R = {}
    BY <1>3, <1>4, <1>7, NoneBehind
  <2>2. Due(f, R, l, task)
    BY <1>7, <2>1 DEF Due
  <2> QED BY <1>1, <1>2, <1>6, <2>2, TurnsDue
<1>8. CASE n \in R /\ f.do = "visited" /\ f.at = n /\ f.due = D \ {n}
  <2>1. \A s \in f.due \cap R : Behind(R, l, l[n].next, s)
    BY <1>3, <1>8, BehindNext
  <2>2. Due(f, R, l, task)
    BY <1>3, <1>6, <1>8, <2>1 DEF Due
  <2> QED BY <1>1, <1>2, <1>6, <2>2, TurnsDue
<1>9. CASE n \in R /\ f.do = "walk" /\ f.at = l[n].next /\ f.due = D /\ ~(e.evt \in task[n].subs /\ n # e.to.idx)
  <2>1. n \notin D
    BY <1>3, <1>9
  <2>2. \A s \in f.due \cap R : Behind(R, l, l[n].next, s)
    BY <1>3, <1>9, <2>1, BehindNext
  <2>3. Due(f, R, l, task)
    BY <1>3, <1>6, <1>9, <2>2 DEF Due
  <2> QED BY <1>1, <1>2, <1>6, <2>3, TurnsDue
<1> QED BY <1>2, <1>5, <1>7, <1>8, <1>9 DEF Turning

LEMMA VisitedDue ==
  ASSUME TaskInv, TaskInv', DueInv, Visited
  PROVE  DueInv'
<1>1. list' = list /\ task' = task /\ Running' = Running
  BY RunningStays DEF Visited
<1>2. PICK f \in Frames : Turning("visited", "walk", f) /\ f.at = list[Top.at].next
  BY VisitedDoes
<1>3. Turned(f) /\ f.do = "walk" /\ f.due = Top.due /\ f.ev = Top.ev /\ Top.do = "visited" /\ stack # <<>>
      /\ Top = stack[1]
  BY <1>2 DEF Turning, Turned
<1>4. Due(Top, Running, list, task)
  BY <1>3, TopDue
<1>5. Due(f, Running, list, task)
  BY <1>2, <1>3, <1>4 DEF Due
<1> QED BY <1>1, <1>3, <1>5, TurnsDue

LEMMA DequeueDue ==
  ASSUME TaskInv, TaskInv', DueInv, Dequeue
  PROVE  DueInv'
<1>1. PICK f \in Frames :
        /\ stack' = <<f>> /\ f.ev = queue[1]
        /\ \/ f = Walk(queue[1]) /\ queue[1].type = "user"
           \/ /\ f.do = "event" /\ queue[1].type # "user"
              /\ f.cur = queue[1].org.idx /\ f.due = {}
  BY DequeueDoes
<1>2. list' = list /\ task' = task /\ Running' = Running /\ queue[1] \in Events
  BY DequeueDoes, RunningStays DEF Dequeue
<1>3. Due(f, Running, list, task)
  <2>1. CASE f.due = {}
    BY <2>1, Undue
  <2>2. CASE f = Walk(queue[1])
    <3>1. PICK R, F, l, t : R = Running /\ F = Spare /\ l = list /\ t = task
      OBVIOUS
    <3>2. PICK e \in Events : e = queue[1]
      BY <1>2
    <3>3. Due(Walk(e), R, l, t)
      BY <3>1, Opened, WalkDue
    <3> QED BY <2>2, <3>1, <3>2, <3>3
  <2> QED BY <1>1, <2>1, <2>2
<1>4. AllDue(<<f>>, Running, list, task)
  BY <1>3, AloneDue
<1> QED BY <1>1, <1>2, <1>4 DEF DueInv

LEMMA DispatchDue ==
  ASSUME TaskInv, TaskInv', DueInv, Dispatch
  PROVE  DueInv'
<1>1. list' = list /\ task' = task /\ Running' = Running
  BY RunningStays DEF Dispatch
<1>2. PICK f \in Frames :
              \/ Top.ev.type = "begin" /\ Turned(f) /\ Top.do = "event" /\ f = Walk(Top.ev)
              \/ Top.ev.type = "defer" /\ Turning("event", "host", f)
              \/ Top.ev.type = "private" /\ Turning("event", "done", f)
              \/ Top.ev.type = "end" /\ Turning("event", "ended", f)
  BY DispatchDoes
<1>3. "event" \in Kernels \ {"walk", "visited", "done", "freed"}
  BY DEF Kernels, Leaves
<1>4. CASE Turned(f) /\ f = Walk(Top.ev)
  <2>1. Top.ev \in Events
    BY <1>4 DEF Turned, Frames
  <2>2. PICK R, F, l, t : R = Running /\ F = Spare /\ l = list /\ t = task
    OBVIOUS
  <2>3. Due(Walk(Top.ev), R, l, t)
    BY <2>1, <2>2, Opened, WalkDue
  <2> QED BY <1>1, <1>4, <2>2, <2>3, TurnsDue
<1> QED BY <1>2, <1>3, <1>4, UndueTurns

LEMMA EndTaskDue ==
  ASSUME TaskInv, TaskInv', DueInv, EndTask
  PROVE  DueInv'
<1>1. /\ task' = Freed(Top.ev.to.idx) /\ Top.ev.to.idx \in Slots /\ Turned(Walk(Top.ev))
      /\ list' = ListAddTail(list, FreeTasks, Top.ev.to.idx)
  BY EndTaskDoes DEF EndTask
<1>2. PICK R, F, l, t : R = Running' /\ F = Spare' /\ l = list' /\ t = task'
  OBVIOUS
<1>3. TwoLists(R, F, l)
  <2>1. (TaskInv => TwoLists(Running, Spare, list))'
    BY Opened, PTL
  <2> QED BY <1>2, <2>1
<1>4. l[Tasks].next = list[Tasks].next
  <2>1. PICK k \in [Nodes -> Links], s \in Slots : k = list /\ s = Top.ev.to.idx
    <3>1. PICK A, B, k : A = Running /\ B = Spare /\ k = list
      OBVIOUS
    <3>2. TwoLists(A, B, k)
      BY <3>1, Opened
    <3>3. k \in [Nodes -> Links]
      BY <3>2 DEF TwoLists
    <3> QED BY <1>1, <3>1, <3>3
  <2>2. k[FreeTasks].prev \in Slots \cup {NO_NODE}
    BY Nodish DEF Links
  <2>3. s # Tasks /\ Node(FreeTasks, k[FreeTasks].prev) # Tasks /\ FreeTasks # Tasks
    BY <2>2, Nodish DEF Node
  <2>4. ListAddTail(k, FreeTasks, s)[Tasks] = k[Tasks]
    BY <2>3, Nodish DEF ListAddTail
  <2> QED BY <1>1, <1>2, <2>1, <2>4
<1>5. \A s \in Slots : t[s].subs = task[s].subs
  BY <1>1, <1>2, TaskKinds, FreedSubs DEF SameSubs
<1>6. Top.ev \in Events
  BY <1>1 DEF Turned, Frames
<1>7. Due(Walk(Top.ev), R, l, t)
  BY <1>3, <1>4, <1>5, <1>6, WalkDue
<1> QED BY <1>1, <1>2, <1>7, TurnsDue

LEMMA KernelDue ==
  ASSUME TaskInv, TaskInv', DueInv, Kernel
  PROVE  DueInv'
<1>0. {"event", "host"} \subseteq Kernels \ {"walk", "visited", "done", "freed"}
  BY DEF Kernels, Leaves
<1>1. CASE ApplySubscribe \/ ApplyUnsubscribe
  BY <1>0, <1>1, SubscribeDoes, UndueTurns
<1>2. CASE Free
  <2>1. PICK f \in Frames : Turning("done", "freed", f)
    BY <1>2, FreeDoes
  <2>2. Turned(f) /\ f.do = "freed"
    BY <2>1 DEF Turning
  <2>3. \A R, l, t : Due(f, R, l, t)
    BY <2>2 DEF Due
  <2> QED BY <2>2, <2>3, TurnsDue
<1>3. ASSUME ~ApplySubscribe, ~ApplyUnsubscribe, Finish \/ Dropped PROVE DueInv'
  <2>1. list' = list
    BY <1>3 DEF Finish, Dropped
  <2>2. SameSubs(task, task')
    BY <1>3, KernelSubs
  <2>3. Still
    BY <2>1, <2>2, StillStill
  <2>4. PICK st \in Seq(Frames) : st = stack
    BY TaskKinds
  <2>5. AllDue(st, Running, list, task)
    BY <2>4 DEF DueInv
  <2>6. CASE Finish
    <3>1. stack' = Tail(st) /\ st # <<>>
      BY <2>4, <2>6, FinishDoes
    <3> QED BY <2>3, <2>5, <3>1, PoppedDue, StillDue
  <2>7. CASE Dropped
    <3>1. PICK g \in Frames : Aside(g) /\ stack' = <<g>> \o Tail(st) /\ st # <<>>
      BY <2>4, <2>7, DroppedDoes
    <3>2. Due(g, Running, list, task)
      BY <3>1, AsideUndue
    <3> QED BY <2>3, <2>5, <3>1, <3>2, PoppedDue, StillDue
  <2> QED BY <1>3, <2>6, <2>7
<1> QED BY <1>1, <1>2, <1>3, DequeueDue, DispatchDue, EndTaskDue, VisitDue, VisitedDue DEF Kernel

LEMMA AppDue ==
  ASSUME TaskInv, TaskInv', DueInv, App, ~Abort
  PROVE  DueInv'
<1>1. list' = list
  BY DEF App, Publish, Subscribe, Unsubscribe, SendPrivate, AppReturn
<1>2. Still
  BY <1>1, AppSubs, StillStill
<1>0. PICK R, l, t : R = Running /\ l = list /\ t = task
  OBVIOUS
<1>3. PICK st \in Seq(Frames) : st = stack /\ R = Running /\ l = list /\ t = task
  BY <1>0, TaskKinds
<1>4. AllDue(st, R, l, t)
  BY <1>3 DEF DueInv
<1>5. CASE stack' = st
  BY <1>2, <1>3, <1>4, <1>5, StillDue
<1>6. ASSUME NEW to \in Slots \ {System}, SendPrivate(to) PROVE DueInv'
  <2>1. PICK e \in Events, g \in Frames, h \in Frames : Mail(to, e, g, h)
    BY <1>6, SendPrivateDoes
  <2>2. Due(g, R, l, t) /\ Due(h, R, l, t)
    BY <2>1, AsideUndue, Undue DEF Mail
  <2>3. AllDue(Push(h, st), R, l, t) /\ Push(h, st) \in Seq(Frames)
    BY <1>4, <2>2, PushedDue
  <2>4. AllDue(Push(g, Push(h, st)), R, l, t) /\ AllDue(Push(g, st), R, l, t)
    BY <1>4, <2>2, <2>3, PushedDue
  <2>5. stack' = st \/ stack' = Push(g, st) \/ stack' = Push(g, Push(h, st))
    BY <1>3, <2>1 DEF Mail
  <2> QED BY <1>2, <1>3, <1>5, <2>4, <2>5, StillDue
<1>7. CASE AppReturn
  <2>1. /\ st # <<>>
        /\ \/ stack' = Tail(st)
           \/ /\ Len(st) >= 2 /\ st[2] \in Frames /\ st[2].do = "starting"
              /\ \E f \in Frames :
                   /\ stack' = <<f>> \o SubSeq(st, 3, Len(st))
                   /\ f.ev = st[2].ev /\ f.cur = st[2].cur /\ f.due = st[2].due
                   /\ f.do = "started" \/ (f.do = "failed" /\ "init" \in Faults)
    BY <1>3, <1>7, AppReturnDoes
  <2>2. CASE stack' = Tail(st)
    BY <1>2, <1>3, <1>4, <2>1, <2>2, PoppedDue, StillDue
  <2>3. ASSUME Len(st) >= 2, st[2].do = "starting",
               NEW f \in Frames, stack' = <<f>> \o SubSeq(st, 3, Len(st)), f.due = st[2].due
        PROVE  DueInv'
    <3>1. 2 \in 1 .. Len(st)
      BY <2>3, Elements
    <3>2. st[2].due = {}
      BY <1>4, <2>3, <3>1 DEF AllDue, Due
    <3>3. Due(f, R, l, t)
      BY <2>3, <3>2, Undue
    <3>4. AllDue(<<f>> \o SubSeq(st, 3, Len(st)), R, l, t)
      BY <1>4, <2>3, <3>3, LandedDue
    <3> QED BY <1>2, <1>3, <2>3, <3>4, StillDue
  <2> QED BY <2>1, <2>2, <2>3
<1>8. ASSUME NEW v \in Values, Publish(v) \/ Subscribe(v) \/ Unsubscribe(v) PROVE stack' = st
  BY <1>3, <1>8 DEF Publish, Subscribe, Unsubscribe
<1> QED BY <1>5, <1>6, <1>7, <1>8 DEF App, Values

LEMMA HostDue ==
  ASSUME TaskInv, TaskInv', DueInv, Host \/ Interrupt
  PROVE  DueInv'
<1>0. {"host", "started", "failed", "stopping"} \subseteq Kernels \ {"walk", "visited", "done", "freed"}
  BY DEF Kernels, Leaves
<1>1. ASSUME NEW a \in Apps, StartApp(a) PROVE DueInv'
  <2>1. \/ \E f \in Frames : Turning("host", "done", f)
        \/ \E f \in Frames : Turning("host", "starting", f)
    BY <1>1, StartAppDoes
  <2> QED BY <1>0, <2>1, UndueTurns
<1>2. ASSUME NEW s \in Slots, StopApp(s) PROVE DueInv'
  <2>1. \/ \E f \in Frames : Turning("host", "done", f)
        \/ \E f \in Frames : Turning("host", "stopping", f)
    BY <1>2, StopAppDoes
  <2> QED BY <1>0, <2>1, UndueTurns
<1>3. CASE Started \/ Failed
  BY <1>0, <1>3, StartedDoes, FailedDoes, UndueTurns
<1>4. CASE Stopping \/ OtherWork
  BY <1>0, <1>4, StoppingDoes, OtherWorkDoes, UndueTurns
<1>5. ASSUME Interrupt, ~Launch PROVE DueInv'
  <2>1. list' = list /\ stack' = stack
    BY <1>5 DEF Interrupt
  <2>2. Still
    BY <1>5, <2>1, HostSubs, StillStill
  <2> QED BY <2>1, <2>2, StillDue DEF DueInv
<1> QED BY <1>1, <1>2, <1>3, <1>4, <1>5 DEF Host, Launch

LEMMA DueKept ==
  ASSUME TaskInv, TaskInv', DueInv, [Next]_vars, Faults \subseteq {"load", "init"}
  PROVE  DueInv'
<1>1. CASE UNCHANGED vars
  <2>1. list' = list /\ stack' = stack /\ task' = task
    BY <1>1 DEF vars
  <2> QED BY <2>1, RunningStays DEF DueInv
<1>2. ~Abort
  BY DEF Abort
<1> QED BY <1>1, <1>2, KernelDue, AppDue, HostDue DEF Next, MainLoop

LEMMA DueAtFirst == Init /\ TaskInv => DueInv
<1> SUFFICES ASSUME Init, TaskInv PROVE DueInv
  OBVIOUS
<1>1. \A i \in 1 .. Len(stack) : stack[i].due = {}
  BY BootFrames
<1> QED BY <1>1, Undue DEF DueInv, AllDue

LEMMA DueIsDelivered == TaskInv /\ DueInv => DeliveredToAll
<1> SUFFICES ASSUME TaskInv, DueInv, At("done") PROVE Top.due \cap Reached(Tasks) = {}
  BY DEF DeliveredToAll
<1>1. stack # <<>> /\ Top = stack[1] /\ Top.do = "done"
  BY DEF At, Top
<1>2. Due(Top, Running, list, task)
  BY <1>1, TopDue
<1> QED BY <1>1, <1>2 DEF Due, Running

\* seos.c:1211, "send this event to all tasks who want it": no task that is still
\* running when a broadcast ends was passed over, whatever starts, stops, subscribes
\* and posts meanwhile, as long as no app aborts: the walk over the tasks ends where
\* the task that handles the event leaves the list.
THEOREM BroadcastsReachAll ==
  ASSUME Faults \subseteq {"load", "init"}
  PROVE  Spec => []DeliveredToAll
<1>1. Spec => []TaskInv
  BY TaskInvAlways DEF Orderly
<1>2. Init /\ TaskInv => DueInv
  BY DueAtFirst
<1>3. TaskInv /\ TaskInv' /\ DueInv /\ [Next]_vars => DueInv'
  BY DueKept
<1>4. TaskInv /\ DueInv => DeliveredToAll
  BY DueIsDelivered
<1> QED BY <1>1, <1>2, <1>3, <1>4, PTL DEF Spec
=============================================================================
