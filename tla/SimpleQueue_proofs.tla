------------------------- MODULE SimpleQueue_proofs -------------------------
(***************************************************************************)
(* The output queue of the host interface for every number of entries: its *)
(* two chains stay a partition of the array, and what the callers see is a *)
(* DiscardQueue.  The proofs follow the chains as sequences of entries; the*)
(* function Along, which walks nextIdx, is tied to them once.              *)
(***************************************************************************)
EXTENDS SimpleQueue, WellFoundedInduction, TLAPS, SequenceTheorems, FiniteSetTheorems, FunctionTheorems

-----------------------------------------------------------------------------
(* Induction over the numbers, stated for sets.                             *)

\* A set of natural numbers that is not empty has a least element.
LEMMA Least ==
  ASSUME NEW S, S \subseteq Nat, S # {}
  PROVE  \E m \in S : \A k \in S : m <= k
<1> DEFINE Less == OpToRel(<, Nat)
<1>1. IsWellFoundedOn(Less, Nat)
  BY NatLessThanWellFounded
<1>2. \A a, b \in Nat : a < b => <<a, b>> \in Less
  BY DEF OpToRel
<1> HIDE DEF Less
<1>3. PICK m \in S : \A k \in S : ~(<<k, m>> \in Less)
  BY <1>1, WFMin
<1>4. ASSUME NEW k \in S PROVE ~(k < m)
  BY <1>2, <1>3, Zenon
<1> QED BY <1>3, <1>4

\* A set that holds 0, and k + 1 whenever it holds k < n, holds 0 to n.
LEMMA Climb ==
  ASSUME NEW n \in Nat, NEW S, 0 \in S,
         \A k \in 0 .. (n - 1) : k \in S => k + 1 \in S
  PROVE  0 .. n \subseteq S
<1> DEFINE M == (0 .. n) \ S
<1> SUFFICES ASSUME M # {} PROVE FALSE
  OBVIOUS
<1>1. M \subseteq Nat
  OBVIOUS
<1>2. PICK m \in M : \A k \in M : m <= k
  <2> HIDE DEF M
  <2> QED BY <1>1, Least
<1>3. m # 0 /\ m - 1 \in 0 .. (n - 1) /\ m - 1 \notin M
  BY <1>2
<1> QED BY <1>3


\* q is the chain along n that starts at first: no entry comes twice, it ends.
Chain(q, first, n) ==
  /\ q \in Seq(Entries)
  /\ first = IF q = <<>> THEN NONE ELSE q[1]
  /\ \A k \in 1 .. Len(q) : n[q[k]] = IF k = Len(q) THEN NONE ELSE q[k + 1]
  /\ \A j, k \in 1 .. Len(q) : q[j] = q[k] => j = k

\* u are the entries in use and f the free ones.
Split(u, f) ==
  /\ Chain(u, head, next)
  /\ Chain(f, freeHead, next)
  /\ \A j \in 1 .. Len(u), k \in 1 .. Len(f) : u[j] # f[k]
  /\ \A e \in Entries : \/ \E j \in 1 .. Len(u) : u[j] = e
                        \/ \E k \in 1 .. Len(f) : f[k] = e
  /\ tail = IF u = <<>> THEN NONE ELSE u[Len(u)]

Stored == Items \cup {CHOOSE i \in Items : TRUE}

Kinds ==
  /\ next \in [Entries -> Indexes]
  /\ discardable \in [Entries -> BOOLEAN]
  /\ data \in [Entries -> Stored]

QueueInv == Kinds /\ \E u, f \in Seq(Entries) : Split(u, f)

-----------------------------------------------------------------------------
\* A chain is not longer than the array.
LEMMA Short ==
  ASSUME NEW q, NEW first, NEW n, Chain(q, first, n)
  PROVE  Len(q) \in 0 .. Num
<1>1. q \in Seq(Entries) /\ Len(q) \in Nat
  BY LenProperties DEF Chain
<1>2. q \in Injection(1 .. Len(q), Entries)
  BY <1>1, LenProperties DEF Chain, Injection, IsInjective
<1>3. IsFiniteSet(Entries) /\ Cardinality(Entries) = Num
  BY FS_Interval, SimpleQueueAssumption DEF Entries
<1>4. Cardinality(1 .. Len(q)) <= Cardinality(Entries)
  BY <1>2, <1>3, FS_Injection
<1>5. Cardinality(1 .. Len(q)) = Len(q)
  <2>1. Cardinality(1 .. Len(q)) = IF 1 > Len(q) THEN 0 ELSE Len(q) - 1 + 1
    <3> 1 \in Int /\ Len(q) \in Int
      BY <1>1
    <3> QED BY FS_Interval, Zenon
  <2> QED BY <1>1, <2>1
<1> QED BY <1>1, <1>3, <1>4, <1>5, SimpleQueueAssumption

\* What Along is, unfolded once.
LEMMA AlongIs ==
  \A first :
    /\ Along(first)[0] = first
    /\ \A k \in 1 .. Num :
         Along(first)[k] = IF Along(first)[k - 1] = NONE THEN NONE
                           ELSE next[Along(first)[k - 1]]
<1> SUFFICES ASSUME NEW first
    PROVE  /\ Along(first)[0] = first
           /\ \A k \in 1 .. Num :
                Along(first)[k] = IF Along(first)[k - 1] = NONE THEN NONE
                                  ELSE next[Along(first)[k - 1]]
  OBVIOUS
<1> DEFINE IsWalk(m, g) ==
             g = [k \in 0 .. m |-> IF k = 0 THEN first
                                   ELSE IF g[k - 1] = NONE THEN NONE ELSE next[g[k - 1]]]
           S == {m \in Nat : \E g : IsWalk(m, g)}
<1>1. 0 \in S
  <2>1. IsWalk(0, [k \in 0 .. 0 |-> first])
    OBVIOUS
  <2> QED BY <2>1
<1>2. ASSUME NEW m \in 0 .. (Num - 1), m \in S PROVE m + 1 \in S
  <2>1. PICK g : IsWalk(m, g)
    BY <1>2
  <2> DEFINE h == [k \in 0 .. (m + 1) |->
                     IF k <= m THEN g[k] ELSE IF g[m] = NONE THEN NONE ELSE next[g[m]]]
  <2>2. \A k \in 0 .. (m + 1) :
          h[k] = IF k = 0 THEN first ELSE IF h[k - 1] = NONE THEN NONE ELSE next[h[k - 1]]
    <3> TAKE k \in 0 .. (m + 1)
    <3>1. CASE k <= m
      <4>1. g[k] = IF k = 0 THEN first ELSE IF g[k - 1] = NONE THEN NONE ELSE next[g[k - 1]]
        <5> k \in 0 .. m
          BY <3>1
        <5> QED BY <2>1
      <4>2. h[k] = g[k] /\ (k # 0 => h[k - 1] = g[k - 1])
        BY <3>1
      <4> HIDE DEF h
      <4> QED BY <4>1, <4>2
    <3>2. CASE k = m + 1
      <4>1. h[k] = (IF g[m] = NONE THEN NONE ELSE next[g[m]]) /\ h[k - 1] = g[m] /\ k # 0
        BY <3>2
      <4> HIDE DEF h
      <4> QED BY <4>1
    <3> QED BY <3>1, <3>2
  <2>3. IsWalk(m + 1, h)
    <3>1. h = [k \in 0 .. (m + 1) |-> h[k]]
      OBVIOUS
    <3> HIDE DEF h
    <3> QED BY <2>2, <3>1
  <2> HIDE DEF h
  <2>4. \E w : IsWalk(m + 1, w)
    BY <2>3
  <2> QED BY <2>4
<1>3. 0 .. Num \subseteq S
  <2>1. Num \in Nat
    BY SimpleQueueAssumption
  <2> HIDE DEF S
  <2> QED BY <1>1, <1>2, <2>1, Climb
<1>4. Num \in S
  <2> HIDE DEF S
  <2> QED BY <1>3, SimpleQueueAssumption
<1>5. PICK g : IsWalk(Num, g)
  BY <1>4
<1>6. Along(first) = CHOOSE w : IsWalk(Num, w)
  BY DEF Along
<1>7. IsWalk(Num, Along(first))
  <2> HIDE DEF IsWalk
  <2> QED BY <1>5, <1>6
<1> HIDE DEF S
<1> DEFINE w == Along(first)
<1>8. w = [k \in 0 .. Num |-> IF k = 0 THEN first
                              ELSE IF w[k - 1] = NONE THEN NONE ELSE next[w[k - 1]]]
  BY <1>7
<1> HIDE DEF w, IsWalk
<1>9. \A k \in 0 .. Num : w[k] = IF k = 0 THEN first
                                 ELSE IF w[k - 1] = NONE THEN NONE ELSE next[w[k - 1]]
  BY <1>8
<1>10. w[0] = first
  BY <1>9, SimpleQueueAssumption
<1>11. \A k \in 1 .. Num : w[k] = IF w[k - 1] = NONE THEN NONE ELSE next[w[k - 1]]
  BY <1>9
<1> QED BY <1>10, <1>11 DEF w

\* Along a chain it visits the elements one by one, and then nothing.
LEMMA WalkIs ==
  \A q, first :
    Chain(q, first, next) =>
      \A k \in 0 .. Num :
        Along(first)[k] = IF k < Len(q) THEN q[k + 1] ELSE NONE
<1> SUFFICES ASSUME NEW q, NEW first, Chain(q, first, next)
    PROVE  \A k \in 0 .. Num :
             Along(first)[k] = IF k < Len(q) THEN q[k + 1] ELSE NONE
  OBVIOUS
<1> DEFINE Is(k) == Along(first)[k] = IF k < Len(q) THEN q[k + 1] ELSE NONE
           S == {k \in Nat : Is(k)}
<1>1. q \in Seq(Entries) /\ Len(q) \in Nat /\ \A k \in 1 .. Len(q) : q[k] \in Entries
  BY LenProperties, ElementOfSeq DEF Chain
<1>2. Is(0)
  <2>1. q # <<>> <=> 0 < Len(q)
    BY <1>1, EmptySeq
  <2>2. first = IF q = <<>> THEN NONE ELSE q[1]
    BY DEF Chain
  <2> QED BY <2>1, <2>2, AlongIs
<1>3. ASSUME NEW k \in 0 .. (Num - 1), k \in S PROVE k + 1 \in S
  <2>1. Along(first)[k] = IF k < Len(q) THEN q[k + 1] ELSE NONE
    BY <1>3
  <2>2. Along(first)[k + 1] = IF Along(first)[k] = NONE THEN NONE ELSE next[Along(first)[k]]
    <3> DEFINE j == k + 1
    <3>1. j \in 1 .. Num /\ j - 1 = k
      BY SimpleQueueAssumption
    <3>2. Along(first)[j] = IF Along(first)[j - 1] = NONE THEN NONE
                            ELSE next[Along(first)[j - 1]]
      <4> HIDE DEF j
      <4> QED BY <3>1, AlongIs
    <3> QED BY <3>1, <3>2
  <2>3. CASE k < Len(q)
    <3>1. k + 1 \in 1 .. Len(q) /\ q[k + 1] \in Entries
      BY <1>1, <2>3
    <3>2. next[q[k + 1]] = IF k + 1 = Len(q) THEN NONE ELSE q[k + 2]
      <4>1. \A i \in 1 .. Len(q) : next[q[i]] = IF i = Len(q) THEN NONE ELSE q[i + 1]
        BY DEF Chain
      <4> QED BY <3>1, <4>1
    <3>3. q[k + 1] # NONE
      BY <3>1, SimpleQueueAssumption DEF Entries, NONE
    <3>4. Along(first)[k + 1] = next[q[k + 1]]
      BY <2>1, <2>2, <2>3, <3>3
    <3> QED BY <1>1, <2>3, <3>2, <3>4
  <2>4. CASE ~(k < Len(q))
    BY <1>1, <2>1, <2>2, <2>4
  <2> QED BY <2>3, <2>4
<1>4. 0 .. Num \subseteq S
  <2>1. Num \in Nat /\ 0 \in S
    BY <1>2, SimpleQueueAssumption
  <2> HIDE DEF S
  <2> QED BY <1>3, <2>1, Climb
<1> QED BY <1>4

\* What it reaches is the chain.
LEMMA ReachedIs ==
  \A q, first :
    Chain(q, first, next) =>
      /\ Reached(Along(first)) = {q[k] : k \in 1 .. Len(q)}
      /\ Cardinality(Reached(Along(first))) = Len(q)
      /\ Along(first)[Num] = NONE
<1> SUFFICES ASSUME NEW q, NEW first, Chain(q, first, next)
    PROVE  /\ Reached(Along(first)) = {q[k] : k \in 1 .. Len(q)}
           /\ Cardinality(Reached(Along(first))) = Len(q)
           /\ Along(first)[Num] = NONE
  OBVIOUS
<1> DEFINE S == {q[k] : k \in 1 .. Len(q)}
<1>1. q \in Seq(Entries) /\ Len(q) \in Nat /\ \A k \in 1 .. Len(q) : q[k] \in Entries
  BY LenProperties, ElementOfSeq DEF Chain
<1>2. Len(q) <= Num
  BY Short
<1>3. \A k \in 0 .. Num : Along(first)[k] = IF k < Len(q) THEN q[k + 1] ELSE NONE
  BY WalkIs
<1>4. NONE \notin Entries
  BY SimpleQueueAssumption DEF Entries, NONE
<1>5. Reached(Along(first)) \subseteq S
  <2> SUFFICES ASSUME NEW k \in 0 .. Num, Along(first)[k] # NONE
      PROVE  Along(first)[k] \in S
    BY DEF Reached
  <2>1. k < Len(q) /\ Along(first)[k] = q[k + 1]
    BY <1>3
  <2>2. k + 1 \in 1 .. Len(q)
    BY <1>1, <2>1
  <2> QED BY <2>1, <2>2
<1>6. S \subseteq Reached(Along(first))
  <2> SUFFICES ASSUME NEW k \in 1 .. Len(q)
      PROVE  q[k] \in Reached(Along(first))
    OBVIOUS
  <2> DEFINE j == k - 1
  <2>1. j \in 0 .. Num /\ j < Len(q) /\ j + 1 = k
    BY <1>1, <1>2, SimpleQueueAssumption
  <2>2. Along(first)[j] = q[k]
    <3> HIDE DEF j
    <3> QED BY <1>3, <2>1
  <2>3. q[k] # NONE
    BY <1>1, <1>4
  <2> HIDE DEF j
  <2> QED BY <2>1, <2>2, <2>3 DEF Reached
<1>7. q \in Surjection(1 .. Len(q), S) /\ q \in Injection(1 .. Len(q), S)
  <2>1. q \in [1 .. Len(q) -> S]
    BY <1>1, LenProperties
  <2>2. \A j, k \in 1 .. Len(q) : q[j] = q[k] => j = k
    BY DEF Chain
  <2> QED BY <2>1, <2>2 DEF Surjection, Injection, IsInjective
<1>8. Cardinality(S) = Cardinality(1 .. Len(q)) /\ Cardinality(1 .. Len(q)) = Len(q)
  <2>1. 1 \in Int /\ Len(q) \in Int
    BY <1>1
  <2>2. /\ IsFiniteSet(1 .. Len(q))
        /\ Cardinality(1 .. Len(q)) = IF 1 > Len(q) THEN 0 ELSE Len(q) - 1 + 1
    BY <2>1, FS_Interval, Zenon
  <2> HIDE DEF S
  <2>3. Cardinality(S) = Cardinality(1 .. Len(q))
    BY <1>7, <2>2, FS_Surjection
  <2> QED BY <1>1, <2>2, <2>3
<1>9. Along(first)[Num] = NONE
  BY <1>1, <1>2, <1>3, SimpleQueueAssumption
<1>10. Reached(Along(first)) = S
  BY <1>5, <1>6
<1> HIDE DEF S
<1>11. Cardinality(Reached(Along(first))) = Len(q)
  BY <1>8, <1>10
<1> QED BY <1>9, <1>10, <1>11 DEF S

\* The split is what Partition says.
LEMMA SplitIsPartition == QueueInv => Partition
<1> SUFFICES ASSUME QueueInv PROVE Partition
  OBVIOUS
<1>1. PICK u \in Seq(Entries), f \in Seq(Entries) : Split(u, f)
  BY DEF QueueInv
<1> DEFINE U == {u[k] : k \in 1 .. Len(u)}
           F == {f[k] : k \in 1 .. Len(f)}
<1>2. Len(u) \in Nat /\ \A k \in 1 .. Len(u) : u[k] \in Entries
  BY LenProperties, ElementOfSeq
<1>3. \A k \in 1 .. Len(f) : f[k] \in Entries
  BY ElementOfSeq
<1>4. Reached(Used) = U /\ Used[Num] = NONE
  BY <1>1, ReachedIs DEF Split, Used
<1>5. Reached(Along(freeHead)) = F /\ Along(freeHead)[Num] = NONE
  BY <1>1, ReachedIs DEF Split
<1>6. U \cap F = {}
  BY <1>1 DEF Split
<1>7. U \cup F = Entries
  BY <1>1, <1>2, <1>3 DEF Split
<1>8. NONE \notin Entries
  BY SimpleQueueAssumption DEF Entries, NONE
<1>9. /\ head = IF u = <<>> THEN NONE ELSE u[1]
      /\ tail = IF u = <<>> THEN NONE ELSE u[Len(u)]
  BY <1>1 DEF Split, Chain
<1>10. u # <<>> => Len(u) \in 1 .. Len(u) /\ 1 \in 1 .. Len(u)
  BY <1>2, EmptySeq
<1>11. u # <<>> => u[1] # NONE /\ u[Len(u)] # NONE /\ u[Len(u)] \in U
  BY <1>2, <1>8, <1>10
<1>12. u # <<>> => next[u[Len(u)]] = NONE
  BY <1>1, <1>10 DEF Split, Chain
<1>13. (head = NONE <=> tail = NONE) /\ (head # NONE => tail \in U /\ next[tail] = NONE)
  BY <1>9, <1>11, <1>12
<1> HIDE DEF U, F
<1> QED BY <1>4, <1>5, <1>6, <1>7, <1>13 DEF Partition

-----------------------------------------------------------------------------
\* What linking and unlinking do to a chain.

\* A change elsewhere leaves a chain as it is.
LEMMA Untouched ==
  ASSUME NEW q, NEW first, NEW n, NEW m, Chain(q, first, n),
         \A k \in 1 .. Len(q) : m[q[k]] = n[q[k]]
  PROVE  Chain(q, first, m)
BY DEF Chain

\* The sequence q without its i-th element, as RemoveAt has it.
Without(q, i) == SubSeq(q, 1, i - 1) \o SubSeq(q, i + 1, Len(q))

\* And with that element behind the others.
Again(q, i) == Append(Without(q, i), q[i])

LEMMA WithoutIs ==
  ASSUME NEW S, NEW q \in Seq(S), NEW i \in 1 .. Len(q)
  PROVE  /\ Without(q, i) \in Seq(S)
         /\ Len(Without(q, i)) = Len(q) - 1
         /\ \A k \in 1 .. Len(q) - 1 :
              Without(q, i)[k] = IF k < i THEN q[k] ELSE q[k + 1]
<1> DEFINE a == SubSeq(q, 1, i - 1)
           b == SubSeq(q, i + 1, Len(q))
<1>1. Len(q) \in Nat /\ \A k \in 1 .. Len(q) : q[k] \in S
  BY LenProperties, ElementOfSeq
<1>2. a \in Seq(S) /\ Len(a) = i - 1 /\ \A k \in 1 .. (i - 1) : a[k] = q[k]
  <2>1. 1 \in Int /\ i - 1 \in Int /\ \A k \in 1 .. (i - 1) : q[k] \in S
    BY <1>1
  <2>2. /\ a \in Seq(S)
        /\ Len(a) = IF 1 <= i - 1 THEN i - 1 - 1 + 1 ELSE 0
        /\ \A k \in 1 .. i - 1 - 1 + 1 : a[k] = q[1 + k - 1]
    BY <2>1, SubSeqProperties
  <2> HIDE DEF a
  <2> QED BY <2>2
<1>3. b \in Seq(S) /\ Len(b) = Len(q) - i /\ \A k \in 1 .. (Len(q) - i) : b[k] = q[i + k]
  <2>1. i + 1 \in Int /\ Len(q) \in Int /\ \A k \in (i + 1) .. Len(q) : q[k] \in S
    BY <1>1
  <2>2. /\ b \in Seq(S)
        /\ Len(b) = IF i + 1 <= Len(q) THEN Len(q) - (i + 1) + 1 ELSE 0
        /\ \A k \in 1 .. Len(q) - (i + 1) + 1 : b[k] = q[i + 1 + k - 1]
    BY <2>1, SubSeqProperties
  <2> HIDE DEF b
  <2>3. Len(b) = Len(q) - i
    BY <1>1, <2>2
  <2>4. \A k \in 1 .. (Len(q) - i) : i + 1 + k - 1 = i + k /\ k \in 1 .. Len(q) - (i + 1) + 1
    BY <1>1
  <2> QED BY <2>2, <2>3, <2>4
<1> HIDE DEF a, b
<1>4. /\ a \o b \in Seq(S)
      /\ Len(a \o b) = Len(a) + Len(b)
      /\ \A k \in 1 .. Len(a) + Len(b) :
           (a \o b)[k] = IF k <= Len(a) THEN a[k] ELSE b[k - Len(a)]
  BY <1>2, <1>3, ConcatProperties
<1>5. Without(q, i) = a \o b
  BY DEF Without, a, b
<1>6. Len(a) + Len(b) = Len(q) - 1
  BY <1>1, <1>2, <1>3
<1>7. ASSUME NEW k \in 1 .. Len(q) - 1
      PROVE  (a \o b)[k] = IF k < i THEN q[k] ELSE q[k + 1]
  <2>1. (a \o b)[k] = IF k <= i - 1 THEN a[k] ELSE b[k - (i - 1)]
    BY <1>2, <1>4, <1>6
  <2>2. CASE k < i
    <3> k \in 1 .. (i - 1)
      BY <2>2
    <3> QED BY <1>2, <2>1, <2>2
  <2>3. CASE ~(k < i)
    <3>1. k - (i - 1) \in 1 .. (Len(q) - i) /\ i + (k - (i - 1)) = k + 1 /\ ~(k <= i - 1)
      BY <1>1, <2>3
    <3> QED BY <1>3, <2>1, <2>3, <3>1
  <2> QED BY <2>2, <2>3
<1> QED BY <1>4, <1>5, <1>6, <1>7

\* Appending an entry.
LEMMA Extended ==
  ASSUME NEW q, NEW first, NEW n \in [Entries -> Indexes], NEW e \in Entries,
         Chain(q, first, n), \A k \in 1 .. Len(q) : q[k] # e,
         NEW m, m = IF q = <<>> THEN [n EXCEPT ![e] = NONE]
                    ELSE [n EXCEPT ![e] = NONE, ![q[Len(q)]] = e]
  PROVE  Chain(Append(q, e), IF q = <<>> THEN e ELSE first, m)
<1> DEFINE r == Append(q, e)
<1>1. q \in Seq(Entries) /\ Len(q) \in Nat /\ \A k \in 1 .. Len(q) : q[k] \in Entries
  BY LenProperties, ElementOfSeq DEF Chain
<1>2. /\ r \in Seq(Entries) /\ Len(r) = Len(q) + 1 /\ r # <<>>
      /\ r[Len(q) + 1] = e /\ \A k \in 1 .. Len(q) : r[k] = q[k]
  BY <1>1, AppendProperties
<1>3. q = <<>> <=> Len(q) = 0
  BY <1>1, EmptySeq
<1>4. /\ first = IF q = <<>> THEN NONE ELSE q[1]
      /\ \A k \in 1 .. Len(q) : n[q[k]] = IF k = Len(q) THEN NONE ELSE q[k + 1]
      /\ \A j, k \in 1 .. Len(q) : q[j] = q[k] => j = k
  BY DEF Chain
<1>5. m[e] = NONE
  <2>1. CASE q = <<>>
    BY <2>1
  <2>2. CASE q # <<>>
    <3> q[Len(q)] # e
      BY <1>1, <1>3, <2>2
    <3> QED BY <2>2
  <2> QED BY <2>1, <2>2
<1>6. q # <<>> => m[q[Len(q)]] = e
  BY <1>1, <1>3
<1>7. ASSUME NEW k \in 1 .. Len(q), k # Len(q) PROVE m[q[k]] = n[q[k]]
  <2>1. q # <<>> /\ Len(q) \in 1 .. Len(q) /\ q[k] # q[Len(q)] /\ q[k] # e
    BY <1>1, <1>3, <1>4, <1>7
  <2> QED BY <1>1, <2>1
<1> HIDE DEF r
<1>8. ASSUME NEW k \in 1 .. Len(r)
      PROVE  m[r[k]] = IF k = Len(r) THEN NONE ELSE r[k + 1]
  <2>1. CASE k = Len(q) + 1
    BY <1>2, <1>5, <2>1
  <2>2. CASE k = Len(q)
    <3> q # <<>> /\ k \in 1 .. Len(q)
      BY <1>1, <1>3, <2>2
    <3> QED BY <1>1, <1>2, <1>6, <2>2
  <2>3. CASE k < Len(q)
    <3> k \in 1 .. Len(q) /\ k + 1 \in 1 .. Len(q) /\ k # Len(q) /\ k # Len(r)
      BY <1>1, <1>2, <2>3
    <3> QED BY <1>2, <1>4, <1>7
  <2> QED BY <1>1, <1>2, <2>1, <2>2, <2>3
<1>9. \A j, k \in 1 .. Len(r) : r[j] = r[k] => j = k
  BY <1>1, <1>2, <1>4
<1>10. (IF q = <<>> THEN e ELSE first) = r[1]
  BY <1>1, <1>2, <1>3, <1>4
<1> QED BY <1>2, <1>8, <1>9, <1>10 DEF Chain, r

\* Taking the first entry.
LEMMA Shortened ==
  ASSUME NEW q, NEW first, NEW n, Chain(q, first, n), q # <<>>
  PROVE  /\ Chain(Tail(q), n[first], n)
         /\ first = q[1] /\ \A k \in 1 .. Len(Tail(q)) : Tail(q)[k] # first
<1>1. q \in Seq(Entries) /\ Len(q) \in Nat /\ Len(q) > 0
  BY LenProperties, EmptySeq DEF Chain
<1> DEFINE r == Tail(q)
<1>2. /\ r \in Seq(Entries)
      /\ Len(r) = Len(q) - 1
      /\ \A i \in 1 .. Len(r) : r[i] = q[i + 1]
  BY <1>1, HeadTailProperties
<1>3. /\ first = q[1]
      /\ \A k \in 1 .. Len(q) : n[q[k]] = IF k = Len(q) THEN NONE ELSE q[k + 1]
      /\ \A j, k \in 1 .. Len(q) : q[j] = q[k] => j = k
  BY DEF Chain
<1>4. r = <<>> <=> Len(r) = 0
  BY <1>2, EmptySeq
<1> HIDE DEF r
<1>5. n[first] = IF r = <<>> THEN NONE ELSE r[1]
  BY <1>1, <1>2, <1>3, <1>4
<1>6. ASSUME NEW k \in 1 .. Len(r)
      PROVE  n[r[k]] = IF k = Len(r) THEN NONE ELSE r[k + 1]
  <2>1. r[k] = q[k + 1] /\ k + 1 \in 1 .. Len(q) /\ (k = Len(r) <=> k + 1 = Len(q))
    BY <1>1, <1>2
  <2>2. k # Len(r) => r[k + 1] = q[k + 2]
    <3> SUFFICES ASSUME k # Len(r) PROVE r[k + 1] = q[k + 2]
      OBVIOUS
    <3> DEFINE j == k + 1
    <3>1. j \in 1 .. Len(r) /\ j + 1 = k + 2
      BY <1>1, <1>2
    <3>2. r[j] = q[j + 1]
      <4> HIDE DEF j
      <4> QED BY <1>2, <3>1
    <3> QED BY <3>1, <3>2
  <2>3. n[q[k + 1]] = IF k + 1 = Len(q) THEN NONE ELSE q[k + 1 + 1]
    BY <1>3, <2>1
  <2>4. k + 1 + 1 = k + 2
    OBVIOUS
  <2> QED BY <2>1, <2>2, <2>3, <2>4
<1>7. \A j, k \in 1 .. Len(r) : r[j] = r[k] => j = k
  <2> SUFFICES ASSUME NEW j \in 1 .. Len(r), NEW k \in 1 .. Len(r), r[j] = r[k]
      PROVE  j = k
    OBVIOUS
  <2>1. j + 1 \in 1 .. Len(q) /\ k + 1 \in 1 .. Len(q) /\ q[j + 1] = q[k + 1]
    BY <1>1, <1>2
  <2>2. j + 1 = k + 1
    BY <1>3, <2>1
  <2> QED BY <2>2
<1>8. \A k \in 1 .. Len(r) : r[k] # first
  <2> SUFFICES ASSUME NEW k \in 1 .. Len(r), r[k] = first PROVE FALSE
    OBVIOUS
  <2>1. k + 1 \in 1 .. Len(q) /\ 1 \in 1 .. Len(q) /\ q[k + 1] = q[1]
    BY <1>1, <1>2, <1>3
  <2>2. k + 1 = 1
    BY <1>3, <2>1
  <2> QED BY <2>2
<1>9. Chain(r, n[first], n)
  BY <1>2, <1>5, <1>6, <1>7 DEF Chain
<1> QED BY <1>3, <1>8, <1>9 DEF r

\* Putting one in front.
LEMMA Pushed ==
  ASSUME NEW q, NEW first \in Indexes, NEW n \in [Entries -> Indexes], NEW e \in Entries,
         Chain(q, first, n), \A k \in 1 .. Len(q) : q[k] # e
  PROVE  Chain(<<e>> \o q, e, [n EXCEPT ![e] = first])
<1> DEFINE r == <<e>> \o q
           m == [n EXCEPT ![e] = first]
<1>1. q \in Seq(Entries) /\ Len(q) \in Nat /\ \A k \in 1 .. Len(q) : q[k] \in Entries
  BY LenProperties, ElementOfSeq DEF Chain
<1>2. /\ r \in Seq(Entries)
      /\ Len(r) = Len(q) + 1
      /\ r[1] = e /\ \A k \in 1 .. Len(r) : k # 1 => r[k] = q[k - 1]
  <2>1. <<e>> \in Seq(Entries) /\ Len(<<e>>) = 1 /\ <<e>>[1] = e
    OBVIOUS
  <2>2. /\ r \in Seq(Entries)
        /\ Len(r) = Len(<<e>>) + Len(q)
        /\ \A k \in 1 .. Len(<<e>>) + Len(q) :
             r[k] = IF k <= Len(<<e>>) THEN <<e>>[k] ELSE q[k - Len(<<e>>)]
    BY <1>1, <2>1, ConcatProperties
  <2> HIDE DEF r
  <2> QED BY <1>1, <2>1, <2>2
<1>3. /\ first = IF q = <<>> THEN NONE ELSE q[1]
      /\ \A k \in 1 .. Len(q) : n[q[k]] = IF k = Len(q) THEN NONE ELSE q[k + 1]
      /\ \A j, k \in 1 .. Len(q) : q[j] = q[k] => j = k
  BY DEF Chain
<1>4. q = <<>> <=> Len(q) = 0
  BY <1>1, EmptySeq
<1>5. m[e] = first /\ \A k \in 1 .. Len(q) : m[q[k]] = n[q[k]]
  BY <1>1
<1> HIDE DEF r, m
<1>6. r # <<>>
  BY <1>1, <1>2, EmptySeq
<1>7. ASSUME NEW k \in 1 .. Len(r)
      PROVE  m[r[k]] = IF k = Len(r) THEN NONE ELSE r[k + 1]
  <2>1. CASE k = 1
    <3>1. k # Len(r) => k + 1 \in 1 .. Len(r) /\ k + 1 # 1 /\ k + 1 - 1 = 1
      BY <1>1, <1>2, <2>1
    <3>2. k # Len(r) => r[k + 1] = q[1]
      BY <1>2, <3>1
    <3>3. k = Len(r) <=> q = <<>>
      BY <1>1, <1>2, <1>4, <2>1
    <3> QED BY <1>2, <1>3, <1>5, <2>1, <3>2, <3>3
  <2>2. CASE k # 1
    <3> DEFINE j == k - 1
    <3>1. j \in 1 .. Len(q) /\ r[k] = q[j] /\ (k = Len(r) <=> j = Len(q))
      BY <1>1, <1>2, <2>2
    <3>2. k # Len(r) => k + 1 \in 1 .. Len(r) /\ k + 1 # 1 /\ k + 1 - 1 = j + 1
      BY <1>1, <1>2, <2>2
    <3>3. k # Len(r) => r[k + 1] = q[j + 1]
      BY <1>2, <3>2
    <3> HIDE DEF j
    <3>4. m[q[j]] = IF j = Len(q) THEN NONE ELSE q[j + 1]
      BY <1>3, <1>5, <3>1
    <3> QED BY <3>1, <3>3, <3>4
  <2> QED BY <2>1, <2>2
<1>8. \A j, k \in 1 .. Len(r) : r[j] = r[k] => j = k
  <2> SUFFICES ASSUME NEW j \in 1 .. Len(r), NEW k \in 1 .. Len(r), r[j] = r[k]
      PROVE  j = k
    OBVIOUS
  <2>1. j # 1 => j - 1 \in 1 .. Len(q) /\ r[j] = q[j - 1]
    BY <1>1, <1>2
  <2>2. k # 1 => k - 1 \in 1 .. Len(q) /\ r[k] = q[k - 1]
    BY <1>1, <1>2
  <2>3. CASE j # 1 /\ k # 1
    <3> j - 1 = k - 1
      BY <1>3, <2>1, <2>2, <2>3
    <3> QED OBVIOUS
  <2>4. CASE j = 1 \/ k = 1
    BY <1>2, <2>1, <2>2, <2>4
  <2> QED BY <2>3, <2>4
<1> QED BY <1>2, <1>6, <1>7, <1>8 DEF Chain, r, m

\* Taking one out of it.
LEMMA Unlinked ==
  ASSUME NEW q, NEW first, NEW n \in [Entries -> Indexes], Chain(q, first, n),
         NEW i \in 1 .. Len(q)
  PROVE  /\ Chain(Without(q, i), IF i = 1 THEN n[q[1]] ELSE first,
                  IF i = 1 THEN n ELSE [n EXCEPT ![q[i - 1]] = n[q[i]]])
         /\ (IF i = 1 THEN n ELSE [n EXCEPT ![q[i - 1]] = n[q[i]]]) \in [Entries -> Indexes]
         /\ \A k \in 1 .. Len(Without(q, i)) : Without(q, i)[k] # q[i]
<1> DEFINE r == Without(q, i)
           m == IF i = 1 THEN n ELSE [n EXCEPT ![q[i - 1]] = n[q[i]]]
<1>1. q \in Seq(Entries) /\ Len(q) \in Nat /\ \A k \in 1 .. Len(q) : q[k] \in Entries
  BY LenProperties, ElementOfSeq DEF Chain
<1>2. /\ r \in Seq(Entries)
      /\ Len(r) = Len(q) - 1
      /\ \A k \in 1 .. Len(q) - 1 : r[k] = IF k < i THEN q[k] ELSE q[k + 1]
  BY <1>1, WithoutIs
<1>3. /\ first = IF q = <<>> THEN NONE ELSE q[1]
      /\ \A k \in 1 .. Len(q) : n[q[k]] = IF k = Len(q) THEN NONE ELSE q[k + 1]
      /\ \A j, k \in 1 .. Len(q) : q[j] = q[k] => j = k
  BY DEF Chain
<1>4. (q = <<>> <=> Len(q) = 0) /\ (r = <<>> <=> Len(r) = 0)
  BY <1>1, <1>2, EmptySeq
<1>5. m \in [Entries -> Indexes]
  BY <1>1
<1>6. /\ i = 1 => m = n
      /\ i # 1 => /\ i - 1 \in 1 .. Len(q)
                  /\ m[q[i - 1]] = n[q[i]]
                  /\ \A k \in 1 .. Len(q) : k # i - 1 => m[q[k]] = n[q[k]]
  BY <1>1, <1>3
<1> HIDE DEF r, m
<1>7. (IF i = 1 THEN n[q[1]] ELSE first) = IF r = <<>> THEN NONE ELSE r[1]
  <2>1. CASE i = 1
    <3>1. n[q[1]] = IF 1 = Len(q) THEN NONE ELSE q[2]
      <4>1. 1 \in 1 .. Len(q) /\ 1 + 1 = 2
        BY <2>1
      <4>2. n[q[1]] = IF 1 = Len(q) THEN NONE ELSE q[1 + 1]
        BY <1>3, <4>1
      <4> QED BY <4>1, <4>2
    <3>2. 1 # Len(q) => 1 \in 1 .. Len(q) - 1 /\ r[1] = q[2]
      BY <1>1, <1>2, <2>1
    <3> QED BY <1>1, <1>2, <1>4, <2>1, <3>1, <3>2
  <2>2. CASE i # 1
    <3>1. 1 \in 1 .. Len(q) - 1 /\ r[1] = q[1] /\ q # <<>> /\ r # <<>>
      BY <1>1, <1>2, <1>4, <2>2
    <3> QED BY <1>3, <2>2, <3>1
  <2> QED BY <2>1, <2>2
<1>8. ASSUME NEW k \in 1 .. Len(r)
      PROVE  m[r[k]] = IF k = Len(r) THEN NONE ELSE r[k + 1]
  <2>0. k \in 1 .. Len(q) - 1 /\ k \in 1 .. Len(q) /\ k + 1 \in 1 .. Len(q)
        /\ (k = Len(r) <=> k + 1 = Len(q))
    BY <1>1, <1>2
  <2>1. k # Len(r) => k + 1 \in 1 .. Len(q) - 1
    BY <1>1, <1>2
  <2>2. k # Len(r) => r[k + 1] = IF k + 1 < i THEN q[k + 1] ELSE q[k + 1 + 1]
    <3> DEFINE j == k + 1
    <3> HIDE DEF j
    <3>1. k # Len(r) => r[j] = IF j < i THEN q[j] ELSE q[j + 1]
      BY <1>2, <2>1 DEF j
    <3> QED BY <3>1 DEF j
  <2>3. n[q[k + 1]] = IF k + 1 = Len(q) THEN NONE ELSE q[k + 1 + 1]
    BY <1>3, <2>0
  <2>4. n[q[k]] = IF k = Len(q) THEN NONE ELSE q[k + 1]
    BY <1>3, <2>0
  <2>5. CASE k + 1 < i
    <3>1. r[k] = q[k] /\ k # i - 1 /\ k # Len(r) /\ k # Len(q) /\ i # 1
      BY <1>1, <1>2, <2>0, <2>5
    <3>2. m[q[k]] = n[q[k]]
      BY <1>6, <2>0, <3>1
    <3> QED BY <2>2, <2>4, <2>5, <3>1, <3>2
  <2>6. CASE k + 1 = i
    <3>1. r[k] = q[k] /\ k = i - 1 /\ i # 1 /\ ~(k + 1 < i)
      BY <1>1, <1>2, <2>0, <2>6
    <3>2. m[q[k]] = n[q[k + 1]]
      BY <1>6, <2>6, <3>1
    <3> QED BY <2>0, <2>2, <2>3, <3>1, <3>2
  <2>7. CASE k + 1 > i
    <3>1. r[k] = q[k + 1] /\ k + 1 # i - 1 /\ ~(k + 1 < i)
      BY <1>1, <1>2, <2>0, <2>7
    <3>2. m[q[k + 1]] = n[q[k + 1]]
      BY <1>6, <2>0, <3>1
    <3> QED BY <2>0, <2>2, <2>3, <3>1, <3>2
  <2> QED BY <2>5, <2>6, <2>7
<1>9. \A j, k \in 1 .. Len(r) : r[j] = r[k] => j = k
  <2> SUFFICES ASSUME NEW j \in 1 .. Len(r), NEW k \in 1 .. Len(r), r[j] = r[k]
      PROVE  j = k
    OBVIOUS
  <2>1. /\ j \in 1 .. Len(q) /\ j + 1 \in 1 .. Len(q) /\ k \in 1 .. Len(q)
        /\ k + 1 \in 1 .. Len(q)
        /\ r[j] = (IF j < i THEN q[j] ELSE q[j + 1])
        /\ r[k] = (IF k < i THEN q[k] ELSE q[k + 1])
    BY <1>1, <1>2
  <2>2. CASE j < i /\ k < i
    BY <1>3, <2>1, <2>2
  <2>3. CASE j < i /\ ~(k < i)
    <3> j = k + 1
      BY <1>3, <2>1, <2>3
    <3> QED BY <2>3
  <2>4. CASE ~(j < i) /\ k < i
    <3> j + 1 = k
      BY <1>3, <2>1, <2>4
    <3> QED BY <2>4
  <2>5. CASE ~(j < i) /\ ~(k < i)
    <3> j + 1 = k + 1
      BY <1>3, <2>1, <2>5
    <3> QED OBVIOUS
  <2> QED BY <2>2, <2>3, <2>4, <2>5
<1>10. \A k \in 1 .. Len(r) : r[k] # q[i]
  <2> SUFFICES ASSUME NEW k \in 1 .. Len(r), r[k] = q[i] PROVE FALSE
    OBVIOUS
  <2>1. /\ k \in 1 .. Len(q) /\ k + 1 \in 1 .. Len(q)
        /\ r[k] = (IF k < i THEN q[k] ELSE q[k + 1])
    BY <1>1, <1>2
  <2>2. CASE k < i
    <3> k = i
      BY <1>3, <2>1, <2>2
    <3> QED BY <2>2
  <2>3. CASE ~(k < i)
    <3> k + 1 = i
      BY <1>3, <2>1, <2>3
    <3> QED BY <2>3
  <2> QED BY <2>2, <2>3
<1>11. Chain(r, IF i = 1 THEN n[q[1]] ELSE first, m)
  BY <1>2, <1>7, <1>8, <1>9 DEF Chain
<1> QED BY <1>5, <1>10, <1>11 DEF r, m

\* Linked puts the entry behind the chain.
LEMMA LinkedIs ==
  ASSUME NEW q, NEW first, NEW n \in [Entries -> Indexes], NEW e \in Entries,
         Chain(q, first, n), \A k \in 1 .. Len(q) : q[k] # e,
         Linked(first, IF q = <<>> THEN NONE ELSE q[Len(q)], n, e)
  PROVE  /\ Chain(Append(q, e), head', next')
         /\ tail' = e
         /\ next' \in [Entries -> Indexes]
         /\ \A x \in Entries : x # e /\ (\A k \in 1 .. Len(q) : q[k] # x) => next'[x] = n[x]
<1>1. q \in Seq(Entries) /\ Len(q) \in Nat /\ \A k \in 1 .. Len(q) : q[k] \in Entries
  BY LenProperties, ElementOfSeq DEF Chain
<1>2. q # <<>> => 1 \in 1 .. Len(q) /\ Len(q) \in 1 .. Len(q)
  BY <1>1, EmptySeq
<1>3. first = NONE <=> q = <<>>
  <2>1. first = IF q = <<>> THEN NONE ELSE q[1]
    BY DEF Chain
  <2>2. NONE \notin Entries
    BY SimpleQueueAssumption DEF Entries, NONE
  <2> QED BY <1>1, <1>2, <2>1, <2>2
<1>4. /\ head' = IF q = <<>> THEN e ELSE first
      /\ next' = IF q = <<>> THEN [n EXCEPT ![e] = NONE]
                 ELSE [n EXCEPT ![e] = NONE, ![q[Len(q)]] = e]
      /\ tail' = e
  BY <1>3 DEF Linked
<1>5. Chain(Append(q, e), IF q = <<>> THEN e ELSE first, next')
  BY <1>4, Extended
<1>6. next' \in [Entries -> Indexes]
  BY <1>1, <1>2, <1>4 DEF Indexes
<1>7. \A x \in Entries : x # e /\ (\A k \in 1 .. Len(q) : q[k] # x) => next'[x] = n[x]
  BY <1>2, <1>4
<1> QED BY <1>4, <1>5, <1>6, <1>7

-----------------------------------------------------------------------------
\* The steps.

LEMMA InitSplit == Init => Kinds /\ Split(<<>>, [k \in 1 .. Num |-> k - 1])
<1> SUFFICES ASSUME Init PROVE Kinds /\ Split(<<>>, [k \in 1 .. Num |-> k - 1])
  OBVIOUS
<1> USE SimpleQueueAssumption
<1>1. Kinds
  BY DEF Init, Kinds, Stored, Entries, Indexes
<1> DEFINE f == [k \in 1 .. Num |-> k - 1]
<1>2. f \in Seq(Entries) /\ Len(f) = Num /\ \A k \in 1 .. Num : f[k] = k - 1
  BY DEF Entries
<1> HIDE DEF f
<1>3. f # <<>>
  BY <1>2, EmptySeq
<1>4. \A k \in 1 .. Num : next[k - 1] = IF k - 1 = Num - 1 THEN NONE ELSE k
  BY DEF Init, Entries
<1>5. Chain(f, freeHead, next)
  <2>1. freeHead = f[1]
    BY <1>2 DEF Init
  <2>2. \A k \in 1 .. Len(f) : next[f[k]] = IF k = Len(f) THEN NONE ELSE f[k + 1]
    BY <1>2, <1>4
  <2>3. \A j, k \in 1 .. Len(f) : f[j] = f[k] => j = k
    BY <1>2
  <2> QED BY <1>2, <1>3, <2>1, <2>2, <2>3 DEF Chain
<1>6. Chain(<<>>, head, next)
  BY EmptySeq DEF Chain, Init
<1>7. \A e \in Entries : \E k \in 1 .. Len(f) : f[k] = e
  <2> TAKE e \in Entries
  <2>1. e + 1 \in 1 .. Num /\ e + 1 - 1 = e
    BY DEF Entries
  <2>2. f[e + 1] = e
    <3> DEFINE j == e + 1
    <3>0. j \in 1 .. Num /\ j - 1 = e
      BY DEF Entries
    <3> HIDE DEF j
    <3>1. f[j] = j - 1
      BY <1>2, <3>0
    <3> QED BY <3>0, <3>1 DEF j
  <2>3. \E k \in 1 .. Num : f[k] = e
    BY <2>1, <2>2
  <2> QED BY <1>2, <2>3
<1>8. tail = NONE
  BY DEF Init
<1>9. Split(<<>>, f)
  BY <1>5, <1>6, <1>7, <1>8 DEF Split
<1> QED BY <1>1, <1>9 DEF f

LEMMA WrittenKinds ==
  ASSUME Kinds, NEW e \in Entries, NEW item \in Items, NEW d \in BOOLEAN,
         Written(e, item, d), next' \in [Entries -> Indexes]
  PROVE  Kinds'
BY DEF Kinds, Written, Stored

\* The first free entry goes behind those in use.
LEMMA EnqueueSplit ==
  ASSUME Kinds, NEW u \in Seq(Entries), NEW f \in Seq(Entries), Split(u, f),
         NEW item \in Items, NEW d \in BOOLEAN, Enqueue(item, d)
  PROVE  /\ f # <<>> /\ freeHead = f[1] /\ freeHead \in Entries
         /\ Append(u, freeHead) \in Seq(Entries) /\ Tail(f) \in Seq(Entries)
         /\ Kinds'
         /\ Chain(Append(u, freeHead), head', next')
         /\ Chain(Tail(f), freeHead', next')
         /\ \A j \in 1 .. Len(Append(u, freeHead)), k \in 1 .. Len(Tail(f)) :
              Append(u, freeHead)[j] # Tail(f)[k]
         /\ \A e \in Entries : \/ \E j \in 1 .. Len(Append(u, freeHead)) : Append(u, freeHead)[j] = e
                               \/ \E k \in 1 .. Len(Tail(f)) : Tail(f)[k] = e
         /\ tail' = freeHead
<1> DEFINE e == freeHead
           v == Append(u, e)
           g == Tail(f)
<1>1. /\ Chain(u, head, next) /\ Chain(f, e, next)
      /\ \A j \in 1 .. Len(u), k \in 1 .. Len(f) : u[j] # f[k]
      /\ \A x \in Entries : \/ \E j \in 1 .. Len(u) : u[j] = x
                            \/ \E k \in 1 .. Len(f) : f[k] = x
      /\ tail = IF u = <<>> THEN NONE ELSE u[Len(u)]
  BY DEF Split
<1>2. /\ e # NONE /\ freeHead' = next[e] /\ Linked(head, tail, next, e) /\ Written(e, item, d)
  BY DEF Enqueue
<1>3. f # <<>>
  BY <1>1, <1>2 DEF Chain
<1>4. Len(u) \in Nat /\ Len(f) \in Nat /\ Len(f) > 0
  BY <1>3, LenProperties, EmptySeq
<1>5. e = f[1] /\ 1 \in 1 .. Len(f) /\ e \in Entries
  BY <1>1, <1>3, <1>4, ElementOfSeq DEF Chain
<1>6. Chain(g, next[e], next) /\ \A k \in 1 .. Len(g) : g[k] # e
  BY <1>1, <1>3, Shortened
<1>7. \A k \in 1 .. Len(u) : u[k] # e
  BY <1>1, <1>5
<1>8. next \in [Entries -> Indexes]
  BY DEF Kinds
<1>9. /\ Chain(v, head', next') /\ tail' = e /\ next' \in [Entries -> Indexes]
      /\ \A x \in Entries : x # e /\ (\A k \in 1 .. Len(u) : u[k] # x) => next'[x] = next[x]
  <2> HIDE DEF e
  <2>1. Linked(head, IF u = <<>> THEN NONE ELSE u[Len(u)], next, e)
    BY <1>1, <1>2
  <2> QED BY <1>1, <1>5, <1>7, <1>8, <2>1, LinkedIs
<1>10. /\ g \in Seq(Entries) /\ Len(g) = Len(f) - 1
       /\ \A k \in 1 .. Len(g) : g[k] = f[k + 1]
  BY <1>3, HeadTailProperties
<1>11. \A k \in 1 .. Len(g) : g[k] \in Entries
  BY <1>10, ElementOfSeq
<1> HIDE DEF g, e
<1>12. \A k \in 1 .. Len(g), j \in 1 .. Len(u) : u[j] # g[k]
  BY <1>1, <1>4, <1>10
<1>13. Chain(g, freeHead', next')
  <2>1. \A k \in 1 .. Len(g) : next'[g[k]] = next[g[k]]
    BY <1>6, <1>9, <1>11, <1>12
  <2> QED BY <1>2, <1>6, <2>1, Untouched
<1>14. /\ v \in Seq(Entries) /\ Len(v) = Len(u) + 1 /\ v[Len(u) + 1] = e
       /\ \A k \in 1 .. Len(u) : v[k] = u[k]
  BY <1>5, AppendProperties
<1>15. Kinds'
  BY <1>2, <1>5, <1>9, WrittenKinds
<1> HIDE DEF v
<1>16. \A j \in 1 .. Len(v), k \in 1 .. Len(g) : v[j] # g[k]
  BY <1>4, <1>6, <1>12, <1>14
<1>17. ASSUME NEW x \in Entries
       PROVE  \/ \E j \in 1 .. Len(v) : v[j] = x
              \/ \E k \in 1 .. Len(g) : g[k] = x
  <2>1. CASE \E j \in 1 .. Len(u) : u[j] = x
    <3>1. PICK j \in 1 .. Len(u) : u[j] = x
      BY <2>1
    <3>2. j \in 1 .. Len(v) /\ v[j] = x
      BY <1>4, <1>14, <3>1
    <3> QED BY <3>2
  <2>2. CASE \E k \in 1 .. Len(f) : f[k] = x
    <3>1. PICK k \in 1 .. Len(f) : f[k] = x
      BY <2>2
    <3>2. CASE k = 1
      <4> Len(v) \in 1 .. Len(v) /\ v[Len(v)] = x
        BY <1>4, <1>5, <1>14, <3>1, <3>2
      <4> QED OBVIOUS
    <3>3. CASE k # 1
      <4>1. k - 1 \in 1 .. Len(g) /\ k - 1 + 1 = k
        BY <1>4, <1>10, <3>3
      <4>2. g[k - 1] = x
        BY <1>10, <3>1, <4>1
      <4> QED BY <4>1, <4>2
    <3> QED BY <3>2, <3>3
  <2> QED BY <1>1, <2>1, <2>2
<1> QED BY <1>3, <1>5, <1>9, <1>10, <1>13, <1>14, <1>15, <1>16, <1>17 DEF e, v, g

\* The first entry becomes the first free one.
LEMMA DequeueSplit ==
  ASSUME Kinds, NEW u \in Seq(Entries), NEW f \in Seq(Entries), Split(u, f), Dequeue
  PROVE  /\ u # <<>> /\ head = u[1] /\ head \in Entries
         /\ Tail(u) \in Seq(Entries) /\ <<head>> \o f \in Seq(Entries)
         /\ Kinds'
         /\ Chain(Tail(u), head', next')
         /\ Chain(<<head>> \o f, freeHead', next')
         /\ \A j \in 1 .. Len(Tail(u)), k \in 1 .. Len(<<head>> \o f) :
              Tail(u)[j] # (<<head>> \o f)[k]
         /\ \A e \in Entries : \/ \E j \in 1 .. Len(Tail(u)) : Tail(u)[j] = e
                               \/ \E k \in 1 .. Len(<<head>> \o f) : (<<head>> \o f)[k] = e
         /\ tail' = IF Tail(u) = <<>> THEN NONE ELSE Tail(u)[Len(Tail(u))]
<1> DEFINE e == head
           v == Tail(u)
           g == <<e>> \o f
<1>1. /\ Chain(u, e, next) /\ Chain(f, freeHead, next)
      /\ \A j \in 1 .. Len(u), k \in 1 .. Len(f) : u[j] # f[k]
      /\ \A x \in Entries : \/ \E j \in 1 .. Len(u) : u[j] = x
                            \/ \E k \in 1 .. Len(f) : f[k] = x
      /\ tail = IF u = <<>> THEN NONE ELSE u[Len(u)]
  BY DEF Split
<1>2. /\ e # NONE /\ head' = next[e] /\ next' = [next EXCEPT ![e] = freeHead]
      /\ tail' = (IF tail = e THEN NONE ELSE tail) /\ freeHead' = e
      /\ UNCHANGED <<discardable, data>>
  BY DEF Dequeue, TailLeft
<1>3. u # <<>>
  BY <1>1, <1>2 DEF Chain
<1>4. Len(u) \in Nat /\ Len(f) \in Nat /\ Len(u) > 0
  BY <1>3, LenProperties, EmptySeq
<1>5. e = u[1] /\ 1 \in 1 .. Len(u) /\ e \in Entries
  BY <1>1, <1>3, <1>4, ElementOfSeq DEF Chain
<1>6. next \in [Entries -> Indexes]
  BY DEF Kinds
<1>7. Chain(v, next[e], next) /\ \A k \in 1 .. Len(v) : v[k] # e
  BY <1>1, <1>3, Shortened
<1>8. freeHead \in Indexes
  <2>1. freeHead = IF f = <<>> THEN NONE ELSE f[1]
    BY <1>1 DEF Chain
  <2>2. f # <<>> => 1 \in 1 .. Len(f)
    BY <1>4, EmptySeq
  <2> QED BY <2>1, <2>2, ElementOfSeq DEF Indexes
<1>9. \A k \in 1 .. Len(f) : f[k] # e
  BY <1>1, <1>5
<1>10. Chain(g, freeHead', next')
  BY <1>1, <1>2, <1>5, <1>6, <1>8, <1>9, Pushed
<1>11. /\ v \in Seq(Entries) /\ Len(v) = Len(u) - 1
       /\ \A k \in 1 .. Len(v) : v[k] = u[k + 1]
  BY <1>3, HeadTailProperties
<1>12. /\ g \in Seq(Entries) /\ Len(g) = Len(f) + 1
       /\ \A k \in 1 .. Len(g) : g[k] = IF k = 1 THEN e ELSE f[k - 1]
  <2>1. <<e>> \in Seq(Entries) /\ Len(<<e>>) = 1 /\ <<e>>[1] = e
    BY <1>5
  <2>2. /\ g \in Seq(Entries)
        /\ Len(g) = Len(<<e>>) + Len(f)
        /\ \A k \in 1 .. Len(<<e>>) + Len(f) :
             g[k] = IF k <= Len(<<e>>) THEN <<e>>[k] ELSE f[k - Len(<<e>>)]
    BY <2>1, ConcatProperties
  <2> HIDE DEF g
  <2> QED BY <1>4, <2>1, <2>2
<1> HIDE DEF v, g, e
<1>13. Kinds'
  BY <1>2, <1>5, <1>6, <1>8 DEF Kinds
<1>14. Chain(v, head', next')
  <2>1. \A k \in 1 .. Len(v) : next'[v[k]] = next[v[k]]
    BY <1>2, <1>5, <1>6, <1>7, <1>11, ElementOfSeq
  <2> QED BY <1>2, <1>7, <2>1, Untouched
<1>15. \A j \in 1 .. Len(v), k \in 1 .. Len(g) : v[j] # g[k]
  <2> SUFFICES ASSUME NEW j \in 1 .. Len(v), NEW k \in 1 .. Len(g) PROVE v[j] # g[k]
    OBVIOUS
  <2>1. CASE k = 1
    BY <1>7, <1>12, <2>1
  <2>2. CASE k # 1
    <3> j + 1 \in 1 .. Len(u) /\ k - 1 \in 1 .. Len(f) /\ v[j] = u[j + 1] /\ g[k] = f[k - 1]
      BY <1>4, <1>11, <1>12, <2>2
    <3> QED BY <1>1
  <2> QED BY <2>1, <2>2
<1>16. ASSUME NEW x \in Entries
       PROVE  \/ \E j \in 1 .. Len(v) : v[j] = x
              \/ \E k \in 1 .. Len(g) : g[k] = x
  <2>1. CASE \E j \in 1 .. Len(u) : u[j] = x
    <3>1. PICK j \in 1 .. Len(u) : u[j] = x
      BY <2>1
    <3>2. CASE j = 1
      <4> 1 \in 1 .. Len(g) /\ g[1] = x
        BY <1>4, <1>5, <1>12, <3>1, <3>2
      <4> QED OBVIOUS
    <3>3. CASE j # 1
      <4>1. j - 1 \in 1 .. Len(v) /\ j - 1 + 1 = j
        BY <1>4, <1>11, <3>3
      <4>2. v[j - 1] = x
        BY <1>11, <3>1, <4>1
      <4> QED BY <4>1, <4>2
    <3> QED BY <3>2, <3>3
  <2>2. CASE \E k \in 1 .. Len(f) : f[k] = x
    <3>1. PICK k \in 1 .. Len(f) : f[k] = x
      BY <2>2
    <3>2. k + 1 \in 1 .. Len(g) /\ k + 1 # 1 /\ k + 1 - 1 = k
      BY <1>4, <1>12
    <3>3. g[k + 1] = x
      BY <1>12, <3>1, <3>2
    <3> QED BY <3>2, <3>3
  <2> QED BY <1>1, <2>1, <2>2
<1>17. tail' = IF v = <<>> THEN NONE ELSE v[Len(v)]
  <2>1. v = <<>> <=> Len(v) = 0
    BY <1>11, EmptySeq
  <2>2. tail = u[Len(u)] /\ Len(u) \in 1 .. Len(u)
    BY <1>1, <1>3, <1>4
  <2>3. tail = e <=> Len(u) = 1
    <3>1. \A j, k \in 1 .. Len(u) : u[j] = u[k] => j = k
      BY <1>1 DEF Chain
    <3>2. u[Len(u)] = u[1] <=> Len(u) = 1
      BY <1>5, <2>2, <3>1
    <3> QED BY <1>5, <2>2, <3>2
  <2>4. Len(u) # 1 => v[Len(v)] = u[Len(u)]
    BY <1>4, <1>11
  <2> QED BY <1>2, <1>4, <1>11, <2>1, <2>2, <2>3, <2>4
<1> QED BY <1>3, <1>5, <1>10, <1>11, <1>12, <1>13, <1>14, <1>15, <1>16, <1>17 DEF e, v, g

\* The queue has no free entry exactly when all are in use.
LEMMA FullIs ==
  ASSUME NEW u \in Seq(Entries), NEW f \in Seq(Entries), Split(u, f)
  PROVE  freeHead = NONE <=> Len(u) = Num
<1>1. Len(u) \in Nat /\ \A k \in 1 .. Len(u) : u[k] \in Entries
  BY LenProperties, ElementOfSeq
<1>2. freeHead = NONE <=> f = <<>>
  <2>1. f # <<>> => 1 \in 1 .. Len(f)
    BY LenProperties, EmptySeq
  <2>2. f # <<>> => f[1] \in Entries
    BY <2>1, ElementOfSeq
  <2>3. NONE \notin Entries
    BY SimpleQueueAssumption DEF Entries, NONE
  <2> QED BY <2>2, <2>3 DEF Split, Chain
<1>3. u \in Injection(1 .. Len(u), Entries)
  BY <1>1, LenProperties DEF Split, Chain, Injection, IsInjective
<1>4. IsFiniteSet(Entries) /\ Cardinality(Entries) = Num
  BY FS_Interval, SimpleQueueAssumption DEF Entries
<1>5. Cardinality(1 .. Len(u)) = Len(u)
  <2>1. Cardinality(1 .. Len(u)) = IF 1 > Len(u) THEN 0 ELSE Len(u) - 1 + 1
    <3> 1 \in Int /\ Len(u) \in Int
      BY <1>1
    <3> QED BY FS_Interval, Zenon
  <2> QED BY <1>1, <2>1
<1>6. Len(u) = Num <=> u \in Surjection(1 .. Len(u), Entries)
  BY <1>3, <1>4, <1>5, FS_Injection
<1>7. u \in Surjection(1 .. Len(u), Entries) <=> \A e \in Entries : \E j \in 1 .. Len(u) : u[j] = e
  BY <1>3 DEF Surjection, Injection
<1>8. f = <<>> => \A e \in Entries : \E j \in 1 .. Len(u) : u[j] = e
  BY EmptySeq DEF Split
<1>9. f # <<>> => ~ \A e \in Entries : \E j \in 1 .. Len(u) : u[j] = e
  <2> SUFFICES ASSUME f # <<>> PROVE \E e \in Entries : \A j \in 1 .. Len(u) : u[j] # e
    OBVIOUS
  <2>1. 1 \in 1 .. Len(f) /\ f[1] \in Entries
    BY LenProperties, EmptySeq, ElementOfSeq
  <2>2. \A j \in 1 .. Len(u) : u[j] # f[1]
    BY <2>1 DEF Split
  <2> QED BY <2>1, <2>2
<1> QED BY <1>2, <1>6, <1>7, <1>8, <1>9

\* What discarding the i-th entry of u has done.
Moved(u, i, item, d, agreed) ==
  /\ u[i] \in agreed /\ discardable[u[i]] /\ Written(u[i], item, d)
  /\ \A j \in 1 .. (i - 1) : ~(u[j] \in agreed /\ discardable[u[j]])
  /\ Again(u, i) \in Seq(Entries)
  /\ Kinds'
  /\ Chain(Again(u, i), head', next')
  /\ Chain(<<>>, freeHead', next')
  /\ \A e \in Entries : \E j \in 1 .. Len(Again(u, i)) : Again(u, i)[j] = e
  /\ tail' = u[i]

\* The oldest entry that may go is taken out and goes behind the others.
LEMMA DiscardSplit ==
  ASSUME Kinds, NEW u \in Seq(Entries), NEW f \in Seq(Entries), Split(u, f),
         NEW item \in Items, NEW d \in BOOLEAN, NEW agreed \in SUBSET Entries,
         EnqueueDiscarding(item, d, agreed)
  PROVE  \E i \in 1 .. Len(u) : Moved(u, i, item, d, agreed)
<1>1. /\ Chain(u, head, next) /\ Chain(f, freeHead, next)
      /\ \A x \in Entries : \/ \E j \in 1 .. Len(u) : u[j] = x
                            \/ \E k \in 1 .. Len(f) : f[k] = x
      /\ tail = IF u = <<>> THEN NONE ELSE u[Len(u)]
  BY DEF Split
<1>2. Len(u) \in Nat /\ Len(u) <= Num /\ \A k \in 1 .. Len(u) : u[k] \in Entries
  BY <1>1, Short, LenProperties, ElementOfSeq
<1>3. \A k \in 0 .. Num : Used[k] = IF k < Len(u) THEN u[k + 1] ELSE NONE
  BY <1>1, WalkIs DEF Used
<1>4. freeHead = NONE /\ freeHead' = NONE
  BY DEF EnqueueDiscarding
<1>5. PICK k \in 0 .. (Num - 1) :
        /\ Used[k] \in agreed /\ discardable[Used[k]]
        /\ \A j \in 0 .. (k - 1) : ~(Used[j] \in agreed /\ discardable[Used[j]])
        /\ Linked(IF k = 0 THEN next[Used[k]] ELSE head, TailAfter(k),
                  IF k = 0 THEN next ELSE [next EXCEPT ![Used[k - 1]] = next[Used[k]]],
                  Used[k])
        /\ Written(Used[k], item, d)
  BY DEF EnqueueDiscarding
<1> DEFINE i == k + 1
           e == u[i]
           w == Without(u, i)
           m == IF i = 1 THEN next ELSE [next EXCEPT ![u[i - 1]] = next[u[i]]]
           h == IF i = 1 THEN next[u[1]] ELSE head
           v == Append(w, e)
<1>6. NONE \notin Entries
  BY SimpleQueueAssumption DEF Entries, NONE
<1>7. i \in 1 .. Len(u) /\ Used[k] = e /\ e \in Entries
  <2>1. k \in 0 .. Num /\ Used[k] # NONE
    BY <1>5, <1>6, SimpleQueueAssumption
  <2>2. k < Len(u)
    BY <1>3, <2>1
  <2> QED BY <1>2, <1>3, <2>1, <2>2
<1>8. k # 0 => Used[k - 1] = u[i - 1] /\ i - 1 \in 1 .. Len(u)
  <2> SUFFICES ASSUME k # 0 PROVE Used[k - 1] = u[i - 1] /\ i - 1 \in 1 .. Len(u)
    OBVIOUS
  <2> DEFINE j == k - 1
  <2>1. j \in 0 .. Num /\ j < Len(u) /\ j + 1 = k /\ i - 1 = k /\ i - 1 \in 1 .. Len(u)
    BY <1>2, <1>7, SimpleQueueAssumption
  <2>2. Used[j] = u[j + 1]
    <3> HIDE DEF j, i
    <3> QED BY <1>3, <2>1
  <2> HIDE DEF i
  <2> QED BY <2>1, <2>2
<1>9. (i = 1 <=> k = 0) /\ i - 1 = k
  OBVIOUS
<1> HIDE DEF i, w, m, h, v
<1>10. next \in [Entries -> Indexes]
  BY DEF Kinds
<1>11. /\ Chain(w, h, m) /\ m \in [Entries -> Indexes] /\ \A j \in 1 .. Len(w) : w[j] # e
  BY <1>1, <1>7, <1>10, Unlinked DEF w, h, m
<1>12. /\ w \in Seq(Entries) /\ Len(w) = Len(u) - 1
       /\ \A j \in 1 .. Len(u) - 1 : w[j] = IF j < i THEN u[j] ELSE u[j + 1]
  BY <1>7, WithoutIs DEF w
<1>13. TailAfter(k) = IF w = <<>> THEN NONE ELSE w[Len(w)]
  <2>1. w = <<>> <=> Len(w) = 0
    BY <1>12, EmptySeq
  <2>2. u # <<>> /\ Len(u) \in 1 .. Len(u) /\ tail = u[Len(u)]
    BY <1>1, <1>2, <1>7, EmptySeq
  <2>3. \A j, l \in 1 .. Len(u) : u[j] = u[l] => j = l
    BY <1>1 DEF Chain
  <2>4. tail = e <=> i = Len(u)
    BY <1>7, <2>2, <2>3
  <2>5. CASE i # Len(u)
    <3>1. TailAfter(k) = u[Len(u)]
      BY <1>7, <2>2, <2>4, <2>5 DEF TailAfter
    <3>2. Len(w) \in 1 .. Len(u) - 1 /\ ~(Len(w) < i) /\ Len(w) + 1 = Len(u)
      BY <1>2, <1>7, <1>12, <2>5
    <3>3. w[Len(w)] = u[Len(u)]
      BY <1>12, <3>2
    <3> QED BY <2>1, <3>1, <3>2, <3>3
  <2>6. CASE i = Len(u) /\ k = 0
    <3>1. TailAfter(k) = NONE
      BY <1>7, <2>4, <2>6 DEF TailAfter
    <3>2. Len(w) = 0
      BY <1>9, <1>12, <2>6
    <3> QED BY <2>1, <3>1, <3>2
  <2>7. CASE i = Len(u) /\ k # 0
    <3>1. TailAfter(k) = u[i - 1]
      BY <1>7, <1>8, <2>4, <2>7 DEF TailAfter
    <3>2. Len(w) = i - 1 /\ i - 1 \in 1 .. Len(u) - 1 /\ i - 1 < i
      BY <1>2, <1>7, <1>8, <1>12, <2>7
    <3>3. w[i - 1] = u[i - 1]
      BY <1>12, <3>2
    <3> QED BY <2>1, <3>1, <3>2, <3>3
  <2> QED BY <2>5, <2>6, <2>7
<1>14. Linked(h, IF w = <<>> THEN NONE ELSE w[Len(w)], m, e)
  <2>1. h = IF k = 0 THEN next[Used[k]] ELSE head
    BY <1>7, <1>9 DEF h
  <2>2. m = IF k = 0 THEN next ELSE [next EXCEPT ![Used[k - 1]] = next[Used[k]]]
    BY <1>7, <1>8, <1>9 DEF m
  <2> QED BY <1>5, <1>7, <1>13, <2>1, <2>2
<1>15. /\ Chain(v, head', next') /\ tail' = e /\ next' \in [Entries -> Indexes]
  <2> HIDE DEF e
  <2> QED BY <1>7, <1>11, <1>14, LinkedIs DEF v
<1>16. Written(e, item, d) /\ e \in agreed /\ discardable[e]
  BY <1>5, <1>7
<1>17. Kinds'
  <2> HIDE DEF e
  <2> QED BY <1>7, <1>15, <1>16, WrittenKinds
<1>18. /\ v \in Seq(Entries) /\ Len(v) = Len(u) /\ v[Len(u)] = e
       /\ \A j \in 1 .. Len(u) - 1 : v[j] = w[j]
  <2>1. /\ v \in Seq(Entries) /\ Len(v) = Len(w) + 1 /\ v[Len(w) + 1] = e
        /\ \A j \in 1 .. Len(w) : v[j] = w[j]
    BY <1>7, <1>12, AppendProperties DEF v
  <2> QED BY <1>2, <1>12, <2>1
<1>19. \A j \in 1 .. (i - 1) : ~(u[j] \in agreed /\ discardable[u[j]])
  <2> SUFFICES ASSUME NEW j \in 1 .. (i - 1) PROVE ~(u[j] \in agreed /\ discardable[u[j]])
    OBVIOUS
  <2> DEFINE l == j - 1
  <2>1. l \in 0 .. (k - 1) /\ l \in 0 .. Num /\ l < Len(u) /\ l + 1 = j
    BY <1>2, <1>7, <1>9, SimpleQueueAssumption
  <2> HIDE DEF l
  <2>2. Used[l] = u[j]
    BY <1>3, <2>1
  <2> QED BY <1>5, <2>1, <2>2
<1>20. Chain(<<>>, freeHead', next')
  BY <1>4, EmptySeq DEF Chain
<1>21. ASSUME NEW x \in Entries PROVE \E j \in 1 .. Len(v) : v[j] = x
  <2>1. f = <<>>
    <3>1. f # <<>> => 1 \in 1 .. Len(f) /\ freeHead = f[1]
      BY <1>1, LenProperties, EmptySeq DEF Chain
    <3> QED BY <1>4, <1>6, <3>1, ElementOfSeq
  <2>2. PICK j \in 1 .. Len(u) : u[j] = x
    BY <1>1, <2>1, EmptySeq
  <2>3. CASE j < i
    <3> j \in 1 .. Len(u) - 1 /\ v[j] = u[j] /\ j \in 1 .. Len(v)
      BY <1>2, <1>7, <1>12, <1>18, <2>3
    <3> QED BY <2>2
  <2>4. CASE j = i
    <3> Len(u) \in 1 .. Len(v) /\ v[Len(u)] = x
      BY <1>2, <1>7, <1>18, <2>2, <2>4
    <3> QED OBVIOUS
  <2>5. CASE j > i
    <3>1. j - 1 \in 1 .. Len(u) - 1 /\ ~(j - 1 < i) /\ j - 1 + 1 = j /\ j - 1 \in 1 .. Len(v)
      BY <1>2, <1>7, <1>18, <2>5
    <3>2. v[j - 1] = x
      BY <1>12, <1>18, <2>2, <3>1
    <3> QED BY <3>1, <3>2
  <2> QED BY <1>7, <2>3, <2>4, <2>5
<1>22. v = Again(u, i)
  BY DEF Again, v, w
<1>23. Moved(u, i, item, d, agreed)
  BY <1>7, <1>15, <1>16, <1>17, <1>18, <1>19, <1>20, <1>21, <1>22 DEF Moved
<1> QED BY <1>7, <1>23

-----------------------------------------------------------------------------
\* The queue the callers see.

Abs == [k \in 1 .. Cardinality(Reached(Used)) |->
          [item |-> data[Used[k - 1]], discardable |-> discardable[Used[k - 1]]]]

\* What entry e holds, and what those of u do.
Held(e, value, mark) == [item |-> value[e], discardable |-> mark[e]]
List(u, value, mark) == [k \in 1 .. Len(u) |-> Held(u[k], value, mark)]

\* It lists what the entries in use hold.
LEMMA AbsIs == \A u : Chain(u, head, next) => Abs = List(u, data, discardable)
<1> SUFFICES ASSUME NEW u, Chain(u, head, next)
    PROVE  Abs = List(u, data, discardable)
  OBVIOUS
<1>1. Cardinality(Reached(Used)) = Len(u)
  BY ReachedIs DEF Used
<1>2. Len(u) \in Nat /\ Len(u) <= Num
  BY Short
<1>3. ASSUME NEW k \in 1 .. Len(u) PROVE Used[k - 1] = u[k]
  <2> DEFINE j == k - 1
  <2>1. j \in 0 .. Num /\ j < Len(u) /\ j + 1 = k
    BY <1>2, SimpleQueueAssumption
  <2> HIDE DEF j
  <2>2. Used[j] = u[k]
    BY <2>1, WalkIs DEF Used
  <2> QED BY <2>2 DEF j
<1> QED BY <1>1, <1>3 DEF Abs, Held, List

LEMMA AbsNext == \A u : Chain(u, head', next') => Abs' = List(u, data', discardable')
<1>1. (\A u : Chain(u, head, next) => Abs = List(u, data, discardable))'
  BY AbsIs, PTL
<1> QED BY <1>1

Recs == [item : Stored, discardable : BOOLEAN]

LEMMA ListType ==
  ASSUME NEW u \in Seq(Entries), NEW value \in [Entries -> Stored],
         NEW mark \in [Entries -> BOOLEAN]
  PROVE  /\ List(u, value, mark) \in Seq(Recs)
         /\ Len(List(u, value, mark)) = Len(u)
         /\ \A k \in 1 .. Len(u) : List(u, value, mark)[k] = Held(u[k], value, mark)
         /\ \A k \in 1 .. Len(u) : Held(u[k], value, mark) \in Recs
<1>1. \A k \in 1 .. Len(u) : Held(u[k], value, mark) \in Recs
  BY ElementOfSeq DEF Held, Recs
<1>2. Len(u) \in Nat
  BY LenProperties
<1> HIDE DEF Recs
<1> QED BY <1>1, <1>2 DEF List

LEMMA HeldAs ==
  ASSUME Kinds, NEW e \in Entries, NEW item, NEW d, Written(e, item, d)
  PROVE  /\ Held(e, data', discardable') = [item |-> item, discardable |-> d]
         /\ \A x \in Entries : x # e =>
              Held(x, data', discardable') = Held(x, data, discardable)
BY DEF Kinds, Held, Written

LEMMA PutStep ==
  ASSUME Kinds, NEW u \in Seq(Entries), NEW f \in Seq(Entries), Split(u, f),
         NEW item \in Items, NEW d \in BOOLEAN, Enqueue(item, d)
  PROVE  Promise!Put(item, d)
<1> DEFINE e == freeHead
           v == Append(u, e)
           a == List(u, data, discardable)
           b == List(v, data', discardable')
           r == [item |-> item, discardable |-> d]
<1>1. e \in Entries /\ Kinds' /\ Chain(v, head', next') /\ Chain(u, head, next)
      /\ e # NONE /\ \A k \in 1 .. Len(u) : u[k] # e
  <2>1. e = f[1] /\ f # <<>> /\ e # NONE
    BY EnqueueSplit DEF Enqueue
  <2>2. \A k \in 1 .. Len(u) : u[k] # e
    BY <2>1, LenProperties, EmptySeq DEF Split
  <2> QED BY <2>1, <2>2, EnqueueSplit DEF Split
<1>2. Written(e, item, d)
  BY DEF Enqueue
<1>3. Abs = a /\ Abs' = b
  BY <1>1, AbsIs, AbsNext
<1>4. v \in Seq(Entries) /\ Len(v) = Len(u) + 1 /\ v[Len(u) + 1] = e
      /\ Len(u) \in Nat /\ \A k \in 1 .. Len(u) : v[k] = u[k] /\ u[k] \in Entries
  BY <1>1, AppendProperties, LenProperties, ElementOfSeq
<1>5. /\ a \in Seq(Recs) /\ Len(a) = Len(u)
      /\ \A k \in 1 .. Len(u) : a[k] = Held(u[k], data, discardable)
  BY ListType DEF Kinds
<1>6. /\ b \in Seq(Recs) /\ Len(b) = Len(v)
      /\ \A k \in 1 .. Len(v) : b[k] = Held(v[k], data', discardable')
      /\ \A k \in 1 .. Len(v) : Held(v[k], data', discardable') \in Recs
  <2>1. data' \in [Entries -> Stored] /\ discardable' \in [Entries -> BOOLEAN]
    BY <1>1 DEF Kinds
  <2> HIDE DEF v
  <2> QED BY <1>4, <2>1, ListType
<1>7. /\ Held(e, data', discardable') = r
      /\ \A x \in Entries : x # e => Held(x, data', discardable') = Held(x, data, discardable)
  <2> HIDE DEF e
  <2> QED BY <1>1, <1>2, HeldAs
<1> HIDE DEF a, b, v, e, r
<1>8. Append(a, r) = b
  <2>1. r \in Recs
    BY <1>4, <1>6, <1>7
  <2>2. /\ Append(a, r) \in Seq(Recs) /\ Len(Append(a, r)) = Len(a) + 1
        /\ Append(a, r)[Len(a) + 1] = r /\ \A k \in 1 .. Len(a) : Append(a, r)[k] = a[k]
    <3> HIDE DEF Recs
    <3> QED BY <1>5, <2>1, AppendProperties
  <2>3. ASSUME NEW k \in 1 .. Len(b) PROVE Append(a, r)[k] = b[k]
    <3>1. CASE k \in 1 .. Len(u)
      BY <1>1, <1>4, <1>5, <1>6, <1>7, <2>2, <3>1
    <3>2. CASE k = Len(u) + 1
      <4>1. b[k] = Held(v[k], data', discardable') /\ v[k] = e
        BY <1>4, <1>6, <3>2
      <4>2. Append(a, r)[k] = r
        BY <1>5, <2>2, <3>2
      <4> QED BY <1>7, <4>1, <4>2
    <3>3. k \in 1 .. Len(u) \/ k = Len(u) + 1
      BY <1>4, <1>6
    <3> QED BY <3>1, <3>2, <3>3
  <2>4. Len(Append(a, r)) = Len(b)
    BY <1>4, <1>5, <1>6, <2>2
  <2> HIDE DEF Recs
  <2> QED BY <1>6, <2>2, <2>3, <2>4, SeqEqual
<1>9. Len(a) < Num
  <2>1. Len(u) # Num
    BY <1>1, FullIs DEF e
  <2>2. Len(u) \in 0 .. Num
    BY <1>1, Short
  <2> QED BY <1>5, <2>1, <2>2, SimpleQueueAssumption
<1>10. out' = <<>>
  BY <1>2 DEF Written
<1> QED BY <1>3, <1>8, <1>9, <1>10 DEF Promise!Put, Promise!Entry, Abs, r

LEMMA GetStep ==
  ASSUME Kinds, NEW u \in Seq(Entries), NEW f \in Seq(Entries), Split(u, f), Dequeue
  PROVE  Promise!Get
<1> DEFINE v == Tail(u)
           a == List(u, data, discardable)
           b == List(v, data', discardable')
<1>1. /\ u # <<>> /\ head = u[1] /\ Kinds' /\ Chain(v, head', next')
      /\ v \in Seq(Entries) /\ Chain(u, head, next)
  BY DequeueSplit DEF Split
<1>2. out' = <<data[head]>> /\ data' = data /\ discardable' = discardable
  BY DEF Dequeue
<1>3. Abs = a /\ Abs' = b
  BY <1>1, AbsIs, AbsNext
<1>4. /\ Len(v) = Len(u) - 1 /\ Len(u) \in Nat /\ Len(u) > 0
      /\ \A k \in 1 .. Len(v) : v[k] = u[k + 1]
  BY <1>1, HeadTailProperties, LenProperties, EmptySeq
<1>5. /\ a \in Seq(Recs) /\ Len(a) = Len(u)
      /\ \A k \in 1 .. Len(u) : a[k] = Held(u[k], data, discardable)
  BY ListType DEF Kinds
<1>6. /\ b \in Seq(Recs) /\ Len(b) = Len(v)
      /\ \A k \in 1 .. Len(v) : b[k] = Held(v[k], data, discardable)
  <2>1. data' \in [Entries -> Stored] /\ discardable' \in [Entries -> BOOLEAN]
    BY <1>1 DEF Kinds
  <2> HIDE DEF v
  <2> QED BY <1>1, <1>2, <2>1, ListType
<1> HIDE DEF a, b, v
<1>7. a # <<>>
  BY <1>4, <1>5, EmptySeq
<1>8. Tail(a) = b
  <2> HIDE DEF Recs
  <2>1. /\ Tail(a) \in Seq(Recs) /\ Len(Tail(a)) = Len(a) - 1
        /\ \A k \in 1 .. Len(Tail(a)) : Tail(a)[k] = a[k + 1]
    BY <1>5, <1>7, HeadTailProperties
  <2>2. Len(Tail(a)) = Len(b)
    BY <1>4, <1>5, <1>6, <2>1
  <2>3. ASSUME NEW k \in 1 .. Len(b) PROVE Tail(a)[k] = b[k]
    <3>1. k + 1 \in 1 .. Len(u) /\ k \in 1 .. Len(v)
      BY <1>4, <1>6
    <3>2. Tail(a)[k] = a[k + 1]
      BY <2>1, <2>2
    <3>3. a[k + 1] = Held(u[k + 1], data, discardable)
      BY <1>5, <3>1
    <3> QED BY <1>4, <1>6, <3>1, <3>2, <3>3
  <2> QED BY <1>6, <2>1, <2>2, <2>3, SeqEqual
<1>9. out' = <<Head(a).item>>
  <2>1. Head(a) = a[1]
    BY <1>5, <1>7
  <2>2. a[1] = Held(head, data, discardable)
    BY <1>1, <1>4, <1>5
  <2> QED BY <1>2, <2>1, <2>2 DEF Held
<1> QED BY <1>3, <1>7, <1>8, <1>9 DEF Promise!Get, Abs

LEMMA PutDiscardingStep ==
  ASSUME Kinds, NEW u \in Seq(Entries), NEW f \in Seq(Entries), Split(u, f),
         NEW item \in Items, NEW d \in BOOLEAN, NEW agreed \in SUBSET Entries,
         EnqueueDiscarding(item, d, agreed)
  PROVE  \E A \in SUBSET (DOMAIN Abs) : Promise!PutDiscarding(item, d, A)
<1>0. PICK i \in 1 .. Len(u) : Moved(u, i, item, d, agreed)
  BY DiscardSplit
<1>1. /\ u[i] \in agreed /\ discardable[u[i]] /\ Written(u[i], item, d)
      /\ \A j \in 1 .. (i - 1) : ~(u[j] \in agreed /\ discardable[u[j]])
      /\ Again(u, i) \in Seq(Entries)
      /\ Kinds'
      /\ Chain(Again(u, i), head', next')
      /\ Chain(<<>>, freeHead', next')
      /\ \A e \in Entries : \E j \in 1 .. Len(Again(u, i)) : Again(u, i)[j] = e
      /\ tail' = u[i]
  BY <1>0 DEF Moved
<1> DEFINE e == u[i]
           w == Without(u, i)
           v == Again(u, i)
           a == List(u, data, discardable)
           b == List(v, data', discardable')
           r == [item |-> item, discardable |-> d]
<1>2. Abs = a /\ Abs' = b
  BY <1>1, AbsIs, AbsNext DEF Split
<1>3. /\ Len(u) \in Nat /\ \A k \in 1 .. Len(u) : u[k] \in Entries
      /\ \A j, k \in 1 .. Len(u) : u[j] = u[k] => j = k
  BY LenProperties, ElementOfSeq DEF Split, Chain
<1>4. /\ w \in Seq(Entries) /\ Len(w) = Len(u) - 1
      /\ \A j \in 1 .. Len(u) - 1 : w[j] = IF j < i THEN u[j] ELSE u[j + 1]
  BY WithoutIs
<1>5. /\ v \in Seq(Entries) /\ Len(v) = Len(u) /\ v[Len(u)] = e
      /\ \A j \in 1 .. Len(u) - 1 : v[j] = w[j]
  <2>1. /\ v \in Seq(Entries) /\ Len(v) = Len(w) + 1 /\ v[Len(w) + 1] = e
        /\ \A j \in 1 .. Len(w) : v[j] = w[j]
    BY <1>3, <1>4, AppendProperties DEF Again
  <2> QED BY <1>3, <1>4, <2>1
<1>6. /\ a \in Seq(Recs) /\ Len(a) = Len(u)
      /\ \A k \in 1 .. Len(u) : a[k] = Held(u[k], data, discardable)
  BY ListType DEF Kinds
<1>7. /\ b \in Seq(Recs) /\ Len(b) = Len(v)
      /\ \A k \in 1 .. Len(v) : b[k] = Held(v[k], data', discardable')
      /\ \A k \in 1 .. Len(v) : Held(v[k], data', discardable') \in Recs
  <2>1. data' \in [Entries -> Stored] /\ discardable' \in [Entries -> BOOLEAN]
    BY <1>1 DEF Kinds
  <2> HIDE DEF v
  <2> QED BY <1>5, <2>1, ListType
<1>8. e \in Entries /\ Written(e, item, d)
  BY <1>1, <1>3
<1>9. /\ Held(e, data', discardable') = r
      /\ \A x \in Entries : x # e => Held(x, data', discardable') = Held(x, data, discardable)
  <2> HIDE DEF e
  <2> QED BY <1>8, HeldAs
<1>10. a \in [1 .. Len(u) -> Recs]
  BY <1>6, LenProperties
<1>11. DOMAIN a = 1 .. Len(u)
  BY <1>10
<1>A. PICK A : A = {k \in 1 .. Len(u) : u[k] \in agreed /\ discardable[u[k]]}
  OBVIOUS
<1>12. i \in A /\ \A j \in A : i <= j
  <2>1. i \in A
    BY <1>A, <1>1
  <2>2. ASSUME NEW j \in A, j < i PROVE FALSE
    <3>1. j \in 1 .. Len(u) /\ u[j] \in agreed /\ discardable[u[j]]
      BY <1>A
    <3>2. j \in 1 .. (i - 1)
      BY <1>3, <2>2, <3>1
    <3> QED BY <1>1, <3>1, <3>2
  <2>3. A \subseteq 1 .. Len(u)
    BY <1>A
  <2> QED BY <1>3, <2>1, <2>2, <2>3
<1>13. A \subseteq {k \in DOMAIN a : a[k].discardable}
  BY <1>A, <1>6, <1>11 DEF Held
<1>14. out' = <<>>
  BY <1>8 DEF Written
<1>15. Len(a) = Num
  <2>1. freeHead = NONE
    BY DEF EnqueueDiscarding
  <2> QED BY <1>6, <2>1, FullIs
<1> HIDE DEF w, v, b, r, e
<1>16. b = Append(Without(a, i), r)
  <2> DEFINE c == Without(a, i)
  <2>1. r \in Recs
    <3>1. Len(u) \in 1 .. Len(v)
      BY <1>3, <1>5
    <3> QED BY <1>5, <1>7, <1>9, <3>1
  <2> HIDE DEF Recs
  <2>2. /\ c \in Seq(Recs) /\ Len(c) = Len(a) - 1
        /\ \A j \in 1 .. Len(a) - 1 : c[j] = IF j < i THEN a[j] ELSE a[j + 1]
    <3> i \in 1 .. Len(a)
      BY <1>6
    <3> HIDE DEF a
    <3> QED BY <1>6, WithoutIs
  <2> HIDE DEF c, a
  <2>3. /\ Append(c, r) \in Seq(Recs) /\ Len(Append(c, r)) = Len(c) + 1
        /\ Append(c, r)[Len(c) + 1] = r /\ \A k \in 1 .. Len(c) : Append(c, r)[k] = c[k]
    BY <2>1, <2>2, AppendProperties
  <2>4. ASSUME NEW k \in 1 .. Len(b) PROVE Append(c, r)[k] = b[k]
    <3>1. CASE k = Len(u)
      <4>1. b[k] = r
        BY <1>5, <1>7, <1>9, <3>1
      <4>2. Append(c, r)[k] = r
        BY <1>3, <1>6, <2>2, <2>3, <3>1
      <4> QED BY <4>1, <4>2
    <3>2. CASE k # Len(u)
      <4>1. k \in 1 .. Len(u) - 1 /\ k \in 1 .. Len(u) /\ k + 1 \in 1 .. Len(u)
        BY <1>3, <1>5, <1>7, <3>2
      <4> DEFINE l == IF k < i THEN k ELSE k + 1
      <4>2. l \in 1 .. Len(u) /\ l # i
        BY <4>1
      <4>3. v[k] = u[l]
        BY <1>4, <1>5, <4>1
      <4>4. Append(c, r)[k] = a[l]
        BY <1>3, <1>6, <2>2, <2>3, <4>1
      <4> HIDE DEF l
      <4>5. u[l] # e /\ u[l] \in Entries
        BY <1>3, <4>2 DEF e
      <4>6. b[k] = Held(u[l], data, discardable)
        BY <1>7, <1>9, <4>3, <4>5
      <4> QED BY <1>6, <4>2, <4>4, <4>6
    <3> QED BY <3>1, <3>2
  <2>5. Len(Append(c, r)) = Len(b)
    BY <1>3, <1>5, <1>6, <1>7, <2>2, <2>3
  <2> QED BY <1>7, <2>3, <2>4, <2>5, SeqEqual DEF c
<1>17. Promise!PutDiscarding(item, d, A)
  <2>1. A # {} /\ i \in A /\ (\A j \in A : i <= j) /\ A \subseteq {k \in DOMAIN a : a[k].discardable}
    BY <1>12, <1>13
  <2> HIDE DEF a
  <2>2. A # {} /\ A \subseteq {k \in DOMAIN Abs : Abs[k].discardable}
    BY <1>2, <2>1
  <2>3. /\ i \in A /\ \A j \in A : i <= j
        /\ Abs' = Append(Promise!RemoveAt(Abs, i), Promise!Entry(item, d))
    BY <1>2, <1>16, <2>1 DEF Promise!RemoveAt, Promise!Entry, Without, r
  <2>4. Len(Abs) = Num
    BY <1>2, <1>15
  <2> QED BY <1>14, <2>2, <2>3, <2>4 DEF Promise!PutDiscarding, Abs
<1>18. A \in SUBSET (DOMAIN Abs)
  <2>1. A \subseteq 1 .. Len(u)
    BY <1>A
  <2> HIDE DEF a
  <2> QED BY <1>2, <1>11, <2>1
<1> QED BY <1>17, <1>18

-----------------------------------------------------------------------------
\* Every step keeps the split, and is one of DiscardQueue.

LEMMA DiscardKeeps ==
  ASSUME Kinds, NEW u \in Seq(Entries), NEW f \in Seq(Entries), Split(u, f),
         NEW item \in Items, NEW d \in BOOLEAN, NEW agreed \in SUBSET Entries,
         EnqueueDiscarding(item, d, agreed)
  PROVE  QueueInv'
<1>0. PICK i \in 1 .. Len(u) : Moved(u, i, item, d, agreed)
  BY DiscardSplit
<1>1. /\ u[i] \in agreed /\ discardable[u[i]] /\ Written(u[i], item, d)
      /\ \A j \in 1 .. (i - 1) : ~(u[j] \in agreed /\ discardable[u[j]])
      /\ Again(u, i) \in Seq(Entries)
      /\ Kinds'
      /\ Chain(Again(u, i), head', next')
      /\ Chain(<<>>, freeHead', next')
      /\ \A e \in Entries : \E j \in 1 .. Len(Again(u, i)) : Again(u, i)[j] = e
      /\ tail' = u[i]
  BY <1>0 DEF Moved
<1> DEFINE v == Again(u, i)
<1>2. v # <<>> /\ v[Len(v)] = u[i]
  <2>1. u[i] \in Entries /\ Without(u, i) \in Seq(Entries)
    BY ElementOfSeq, WithoutIs
  <2>2. Len(Without(u, i)) + 1 = Len(v)
    BY <2>1, AppendProperties DEF Again
  <2> QED BY <2>1, <2>2, AppendProperties DEF Again
<1>3. <<>> \in Seq(Entries) /\ Len(<<>>) = 0
  BY EmptySeq
<1>4. /\ v \in Seq(Entries) /\ Kinds'
      /\ Chain(v, head', next') /\ Chain(<<>>, freeHead', next')
      /\ \A e \in Entries : \E j \in 1 .. Len(v) : v[j] = e
      /\ tail' = IF v = <<>> THEN NONE ELSE v[Len(v)]
  BY <1>1, <1>2
<1> HIDE DEF v
<1>5. \E x, y \in Seq(Entries) :
        /\ Chain(x, head', next') /\ Chain(y, freeHead', next')
        /\ \A j \in 1 .. Len(x), k \in 1 .. Len(y) : x[j] # y[k]
        /\ \A e \in Entries : \/ \E j \in 1 .. Len(x) : x[j] = e
                              \/ \E k \in 1 .. Len(y) : y[k] = e
        /\ tail' = IF x = <<>> THEN NONE ELSE x[Len(x)]
  <2>1. \A j \in 1 .. Len(v), k \in 1 .. Len(<<>>) : v[j] # <<>>[k]
    BY <1>3
  <2> QED BY <1>3, <1>4, <2>1, Zenon
<1> QED BY <1>4, <1>5 DEF QueueInv, Split

LEMMA SplitStep == QueueInv /\ [Next]_vars => QueueInv'
<1> SUFFICES ASSUME QueueInv, [Next]_vars PROVE QueueInv'
  OBVIOUS
<1>1. Kinds
  BY DEF QueueInv
<1>2. PICK u \in Seq(Entries), f \in Seq(Entries) : Split(u, f)
  BY DEF QueueInv
<1>3. ASSUME NEW item \in Items, NEW d \in BOOLEAN, Enqueue(item, d) PROVE QueueInv'
  <2> DEFINE v == Append(u, freeHead)
             g == Tail(f)
  <2>1. /\ v \in Seq(Entries) /\ g \in Seq(Entries) /\ Kinds'
        /\ Chain(v, head', next') /\ Chain(g, freeHead', next')
        /\ \A j \in 1 .. Len(v), k \in 1 .. Len(g) : v[j] # g[k]
        /\ \A e \in Entries : \/ \E j \in 1 .. Len(v) : v[j] = e
                              \/ \E k \in 1 .. Len(g) : g[k] = e
        /\ tail' = freeHead
    <3>1. v \in Seq(Entries) /\ g \in Seq(Entries) /\ Kinds'
      BY <1>1, <1>2, <1>3, EnqueueSplit
    <3>2. Chain(v, head', next') /\ Chain(g, freeHead', next') /\ tail' = freeHead
      BY <1>1, <1>2, <1>3, EnqueueSplit
    <3>3. \A j \in 1 .. Len(v), k \in 1 .. Len(g) : v[j] # g[k]
      BY <1>1, <1>2, <1>3, EnqueueSplit
    <3>4. \A e \in Entries : \/ \E j \in 1 .. Len(v) : v[j] = e
                              \/ \E k \in 1 .. Len(g) : g[k] = e
      BY <1>1, <1>2, <1>3, EnqueueSplit
    <3> HIDE DEF v, g
    <3> QED BY <3>1, <3>2, <3>3, <3>4
  <2>2. v # <<>> /\ v[Len(v)] = freeHead
    <3>1. freeHead \in Entries
      BY <1>1, <1>2, <1>3, EnqueueSplit
    <3> QED BY <3>1, AppendProperties
  <2> HIDE DEF v, g
  <2>3. \E x, y \in Seq(Entries) :
          /\ Chain(x, head', next') /\ Chain(y, freeHead', next')
          /\ \A j \in 1 .. Len(x), k \in 1 .. Len(y) : x[j] # y[k]
          /\ \A e \in Entries : \/ \E j \in 1 .. Len(x) : x[j] = e
                                \/ \E k \in 1 .. Len(y) : y[k] = e
          /\ tail' = IF x = <<>> THEN NONE ELSE x[Len(x)]
    <3>1. tail' = IF v = <<>> THEN NONE ELSE v[Len(v)]
      BY <2>1, <2>2
    <3> QED BY <2>1, <3>1
  <2> QED BY <2>1, <2>3 DEF QueueInv, Split
<1>4. ASSUME NEW item \in Items, NEW d \in BOOLEAN, NEW agreed \in SUBSET Entries,
             EnqueueDiscarding(item, d, agreed)
      PROVE  QueueInv'
  BY <1>1, <1>2, <1>4, DiscardKeeps
<1>5. ASSUME Dequeue PROVE QueueInv'
  <2> DEFINE v == Tail(u)
             g == <<head>> \o f
  <2>1. /\ v \in Seq(Entries) /\ g \in Seq(Entries) /\ Kinds'
        /\ Chain(v, head', next') /\ Chain(g, freeHead', next')
        /\ \A j \in 1 .. Len(v), k \in 1 .. Len(g) : v[j] # g[k]
        /\ \A e \in Entries : \/ \E j \in 1 .. Len(v) : v[j] = e
                              \/ \E k \in 1 .. Len(g) : g[k] = e
        /\ tail' = IF v = <<>> THEN NONE ELSE v[Len(v)]
    BY <1>1, <1>2, <1>5, DequeueSplit
  <2> HIDE DEF v, g
  <2>2. \E x, y \in Seq(Entries) :
          /\ Chain(x, head', next') /\ Chain(y, freeHead', next')
          /\ \A j \in 1 .. Len(x), k \in 1 .. Len(y) : x[j] # y[k]
          /\ \A e \in Entries : \/ \E j \in 1 .. Len(x) : x[j] = e
                                \/ \E k \in 1 .. Len(y) : y[k] = e
          /\ tail' = IF x = <<>> THEN NONE ELSE x[Len(x)]
    BY <2>1
  <2> QED BY <2>1, <2>2 DEF QueueInv, Split
<1>6. ASSUME UNCHANGED vars PROVE QueueInv'
  BY <1>6 DEF QueueInv, Kinds, Split, vars
<1> QED BY <1>3, <1>4, <1>5, <1>6 DEF Next

LEMMA Always == Spec => []QueueInv
<1>1. Init => QueueInv
  <2> SUFFICES ASSUME Init PROVE QueueInv
    OBVIOUS
  <2>1. Kinds /\ Split(<<>>, [k \in 1 .. Num |-> k - 1])
    BY InitSplit
  <2>2. <<>> \in Seq(Entries) /\ [k \in 1 .. Num |-> k - 1] \in Seq(Entries)
    BY <2>1 DEF Split, Chain
  <2> QED BY <2>1, <2>2 DEF QueueInv
<1> QED BY <1>1, SplitStep, PTL DEF Spec

\* The entries in use and the free ones are a partition of the array into two
\* chains, whatever simpleQueueEnqueue, its discarding and simpleQueueDequeue do.
THEOREM EntriesArePartitioned == Spec => []Partition
BY Always, SplitIsPartition, PTL

LEMMA InitRefines == Init => Promise!Init
<1> SUFFICES ASSUME Init PROVE Promise!Init
  OBVIOUS
<1>1. Split(<<>>, [k \in 1 .. Num |-> k - 1])
  BY InitSplit
<1>2. Abs = List(<<>>, data, discardable)
  BY <1>1, AbsIs DEF Split
<1>3. List(<<>>, data, discardable) = <<>>
  BY DEF List
<1> QED BY <1>2, <1>3 DEF Promise!Init, Abs, Init

LEMMA StepRefines == QueueInv /\ [Next]_vars => [Promise!Next]_(Promise!vars)
<1> SUFFICES ASSUME QueueInv, [Next]_vars PROVE Promise!Next \/ UNCHANGED Promise!vars
  OBVIOUS
<1>1. Kinds
  BY DEF QueueInv
<1>2. PICK u \in Seq(Entries), f \in Seq(Entries) : Split(u, f)
  BY DEF QueueInv
<1>3. ASSUME NEW item \in Items, NEW d \in BOOLEAN, Enqueue(item, d) PROVE Promise!Next
  <2>1. Promise!Put(item, d)
    BY <1>1, <1>2, <1>3, PutStep
  <2> QED BY <2>1 DEF Promise!Next
<1>4. ASSUME NEW item \in Items, NEW d \in BOOLEAN, NEW agreed \in SUBSET Entries,
             EnqueueDiscarding(item, d, agreed)
      PROVE  Promise!Next
  <2>1. \E A \in SUBSET (DOMAIN Abs) : Promise!PutDiscarding(item, d, A)
    BY <1>1, <1>2, <1>4, PutDiscardingStep
  <2> QED BY <2>1 DEF Promise!Next, Abs
<1>5. ASSUME Dequeue PROVE Promise!Next
  <2>1. Promise!Get
    BY <1>1, <1>2, <1>5, GetStep
  <2> QED BY <2>1 DEF Promise!Next
<1>6. ASSUME UNCHANGED vars PROVE UNCHANGED Promise!vars
  <2>1. Chain(u, head, next) /\ Chain(u, head', next')
    BY <1>2, <1>6 DEF Split, vars
  <2>2. Abs = List(u, data, discardable) /\ Abs' = List(u, data', discardable')
    BY <2>1, AbsIs, AbsNext
  <2>3. Abs' = Abs
    BY <1>6, <2>2 DEF vars
  <2> QED BY <1>6, <2>3 DEF Promise!vars, Abs, vars
<1> QED BY <1>3, <1>4, <1>5, <1>6 DEF Next

\* What the callers of simpleQ.c see is a bounded queue that, when it is full,
\* gives up the oldest entry its owner agrees to lose.
THEOREM QueueKeepsItsPromise == Spec => Refinement
<1>1. Spec => Promise!Spec
  BY Always, InitRefines, StepRefines, PTL DEF Spec, Promise!Spec
<1> QED BY <1>1 DEF Refinement
=============================================================================
