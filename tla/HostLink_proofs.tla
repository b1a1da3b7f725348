--------------------------- MODULE HostLink_proofs ---------------------------
(***************************************************************************)
(* The exchange with the application processor for any number of blocks and*)
(* faults: one side answers a request, and no block is lost, sent twice or *)
(* out of order.  What carries both is who is to answer: the sender, the   *)
(* main loop on its way through nanohubPrefetchTx, or a deferred response. *)
(***************************************************************************)
EXTENDS HostLink, SequenceTheorems, TLAPS

Blocks == Seq(Nat)
Kinds == {"none", "payload", "ack", "nak", "cut"}
Packets == [kind : Kinds, seq : {0} \cup Seqs, data : Blocks]

\* What the variables hold.
Shapes ==
  /\ outQ \in Blocks /\ got \in Blocks /\ added \in Blocks
  /\ buffers \in [curr : Blocks, next : Blocks, wake : Nat]
  /\ main \in [at : Label, notify : BOOLEAN, wake : Nat]
  /\ defers \in Seq({"prefetch", "response"})
  /\ prefetch \in [active : BOOLEAN, tx : BOOLEAN]
  /\ rx \in [armed : BOOLEAN, idle : BOOLEAN, wake : BOOLEAN, write : BOOLEAN,
             restart : BOOLEAN, busy : BOOLEAN, complete : BOOLEAN]
  /\ tx \in [seq : {0} \cup Seqs, cmd : BOOLEAN, buf : Packets, size : Kinds]
  /\ air = None \/ air \in [packet : Packets, done : {"ack", "payload"}]
  /\ host \in [at : {"off", "waking", "sent", "done"}, seq : Seqs, open : BOOLEAN]
  /\ req \in {0} \cup Seqs

\* The receiver listens, waits for the wake line, or is at a request.
Receiver == ~(rx.armed /\ rx.idle) /\ (rx.write => ~rx.armed /\ ~rx.idle)

\* osDefer is to generate a response, and not more than one.
Has(d) == \E k \in DOMAIN d : d[k] = "response"
Single(d) == \A j, k \in DOMAIN d : d[j] = "response" /\ d[k] = "response" => j = k
Deferred == Has(defers)

\* Whoever is to answer is alone, and only at a request.
OneSide ==
  /\ air # None => ~prefetch.tx /\ ~Deferred
  /\ prefetch.tx => ~Deferred
  /\ Single(defers)
  /\ air # None \/ prefetch.tx \/ Deferred => rx.write

\* The packet buffer holds a response to the host's open request.
Answered == tx.buf.kind = "payload" /\ tx.buf.seq = host.seq

\* A request is being worked on: it is the host's open one, without a response.
Working == host.open /\ tx.seq = host.seq /\ ~Answered

\* What mTxRetrans knows of the host's request.
Sequence ==
  /\ Answered => tx.seq = host.seq
  /\ host.at \in {"waking", "sent"} => host.open
  /\ ~host.open => tx.seq # host.seq /\ req # host.seq
  /\ req # 0 /\ req # host.seq =>
       tx.seq = req /\ air = None /\ ~prefetch.tx /\ ~Deferred
  /\ prefetch.tx => Working
  /\ Deferred => Working /\ tx.buf.kind = "ack"

\* What is being sent is the response in the packet buffer, or acknowledges the
\* request that is worked on.
OnAir ==
  air # None =>
    /\ air.packet.kind = "payload" => air.packet = tx.buf /\ tx.seq = tx.buf.seq
    /\ air.packet.kind = "payload" => air.done = "payload"
    /\ air.done = "ack" /\ tx.cmd => Working /\ tx.buf.kind = "ack"

\* The buffer belongs to the sequence number, but while the main loop is to fill it.
Kept == ~prefetch.tx /\ tx.seq # 0 => tx.buf.seq = tx.seq

Exchange == Receiver /\ OneSide /\ Sequence /\ OnAir /\ Kept

HostInv == Shapes /\ Exchange /\ Conserved

-----------------------------------------------------------------------------
\* Sequences of blocks.

LEMMA Joins ==
  /\ \A a, b \in Blocks : a \o b \in Blocks
  /\ \A a, b, c \in Blocks : (a \o b) \o c = a \o (b \o c)
  /\ \A a \in Blocks : a \o Empty = a /\ Empty \o a = a
  /\ Empty \in Blocks
BY ConcatProperties, ConcatAssociative, ConcatEmptySeq, EmptySeq DEF Blocks, Empty

\* The solvers reason about concatenation by its laws alone.
Cat(a, b) == a \o b

LEMMA Cats ==
  /\ \A a, b \in Blocks : Cat(a, b) \in Blocks
  /\ \A a, b, c \in Blocks : Cat(Cat(a, b), c) = Cat(a, Cat(b, c))
  /\ \A a \in Blocks : Cat(a, Empty) = a /\ Cat(Empty, a) = a
  /\ Empty \in Blocks
BY Joins DEF Cat

LEMMA CatFour ==
  ASSUME NEW x \in Blocks, NEW a \in Blocks, NEW b \in Blocks, NEW e \in Blocks
  PROVE  Cat(Cat(Cat(x, a), b), e) = Cat(x, Cat(Cat(a, b), e))
BY Cats

\* A response, the two buffers and the queue, in that order.
Line(o, c, n, q) == Cat(Cat(Cat(o, c), n), q)

\* The same after what the host has received.
Whole(g, o, c, n, q) == Cat(Cat(Cat(Cat(g, o), c), n), q)

LEMMA WholeIs ==
  ASSUME NEW g \in Blocks, NEW o \in Blocks,
         NEW c \in Blocks, NEW n \in Blocks, NEW q \in Blocks
  PROVE  Whole(g, o, c, n, q) = Cat(g, Line(o, c, n, q))
<1>1. Cat(Cat(Cat(Cat(g, o), c), n), q) = Cat(Cat(g, o), Cat(Cat(c, n), q))
  BY Cats, CatFour
<1>2. Cat(Cat(Cat(o, c), n), q) = Cat(o, Cat(Cat(c, n), q))
  BY CatFour
<1> QED BY <1>1, <1>2, Cats DEF Whole, Line

\* The parts of a sequence that fillBuffer takes and leaves.
LEMMA Parts ==
  ASSUME NEW q \in Blocks, NEW t \in 0 .. Len(q)
  PROVE  LET first == SubSeq(q, 1, t)
             middle == IF Len(q) - t > 0 THEN <<q[t + 1]>> ELSE Empty
             last == SubSeq(q, t + 2, Len(q))
         IN  /\ first \in Blocks /\ middle \in Blocks /\ last \in Blocks
             /\ (first \o middle) \o last = q
<1> DEFINE first == SubSeq(q, 1, t)
           middle == IF Len(q) - t > 0 THEN <<q[t + 1]>> ELSE Empty
           last == SubSeq(q, t + 2, Len(q))
<1>1. Len(q) \in Nat /\ \A k \in 1 .. Len(q) : q[k] \in Nat
  BY LenProperties, ElementOfSeq DEF Blocks
<1>2. first \in Blocks
  <2>1. 1 \in Int /\ t \in Int /\ \A k \in 1 .. t : q[k] \in Nat
    BY <1>1
  <2> QED BY <2>1, SubSeqProperties DEF Blocks
<1>3. last \in Blocks
  <2>1. t + 2 \in Int /\ Len(q) \in Int /\ \A k \in (t + 2) .. Len(q) : q[k] \in Nat
    BY <1>1
  <2> QED BY <2>1, SubSeqProperties DEF Blocks
<1>4. ASSUME t = Len(q) PROVE middle \in Blocks /\ (first \o middle) \o last = q
  <2>1. first = q
    BY <1>4, SubSeqFull DEF Blocks
  <2>2. last = Empty
    <3> t + 2 \in Int /\ Len(q) \in Int /\ Len(q) < t + 2
      BY <1>1, <1>4
    <3> QED BY SubSeqEmpty DEF Empty
  <2>3. middle = Empty
    BY <1>1, <1>4
  <2> HIDE DEF first, middle, last
  <2> QED BY <1>2, <1>3, <2>1, <2>2, <2>3, Joins
<1>5. ASSUME t < Len(q) PROVE middle \in Blocks /\ (first \o middle) \o last = q
  <2>1. middle = <<q[t + 1]>> /\ middle \in Blocks
    <3> t + 1 \in 1 .. Len(q)
      BY <1>1, <1>5
    <3> QED BY <1>1, <1>5 DEF Blocks
  <2>2. middle \o last = SubSeq(q, t + 1, Len(q))
    <3>1. t + 1 \in 1 .. Len(q) /\ Len(q) \in (t + 1) .. Len(q) /\ t + 1 + 1 = t + 2
      BY <1>1, <1>5
    <3>2. SubSeq(q, t + 1, Len(q)) = <<q[t + 1]>> \o SubSeq(q, t + 1 + 1, Len(q))
      BY <3>1, SubSeqRecursiveFirst DEF Blocks
    <3> QED BY <2>1, <3>1, <3>2
  <2>3. first \o SubSeq(q, t + 1, Len(q)) = SubSeq(q, 1, Len(q))
    <3>1. 1 \in 1 .. Len(q) + 1 /\ t \in 1 - 1 .. Len(q) /\ Len(q) \in t .. Len(q)
      BY <1>1, <1>5
    <3> QED BY <3>1, ConcatAdjacentSubSeq DEF Blocks
  <2>4. SubSeq(q, 1, Len(q)) = q
    BY SubSeqFull DEF Blocks
  <2> HIDE DEF first, middle, last
  <2>5. (first \o middle) \o last = first \o (middle \o last)
    BY <1>2, <1>3, <2>1, Joins
  <2> QED BY <2>1, <2>2, <2>3, <2>4, <2>5
<1>6. middle \in Blocks /\ (first \o middle) \o last = q
  <2> HIDE DEF first, middle, last
  <2> QED BY <1>1, <1>4, <1>5
<1> QED BY <1>2, <1>3, <1>6

\* fillBuffer loses nothing and keeps the order.
LEMMA FilledIs ==
  ASSUME outQ \in Blocks, NEW have \in Blocks, NEW wake \in Nat
  PROVE  /\ Filled(have, wake).buf \in Blocks
         /\ Filled(have, wake).next \in Blocks
         /\ Filled(have, wake).queue \in Blocks
         /\ Filled(have, wake).wake \in Nat
         /\ Cat(Cat(Filled(have, wake).buf, Filled(have, wake).next), Filled(have, wake).queue)
              = Cat(have, outQ)
<1> DEFINE t == IF have = Empty /\ outQ # Empty THEN 1 ELSE 0
           first == SubSeq(outQ, 1, t)
           middle == IF Len(outQ) - t > 0 THEN <<outQ[t + 1]>> ELSE Empty
           last == SubSeq(outQ, t + 2, Len(outQ))
<1>1. /\ Filled(have, wake).buf = have \o first
      /\ Filled(have, wake).next = middle
      /\ Filled(have, wake).queue = last
  BY DEF Filled
<1>2. t \in 0 .. Len(outQ)
  BY LenProperties, EmptySeq DEF Blocks, Empty
<1>3. /\ first \in Blocks /\ middle \in Blocks /\ last \in Blocks
      /\ (first \o middle) \o last = outQ
  <2> HIDE DEF t
  <2> QED BY <1>2, Parts
<1> HIDE DEF first, middle, last, t
<1>4. ((have \o first) \o middle) \o last = have \o ((first \o middle) \o last)
  <2>1. Cat(Cat(Cat(have, first), middle), last) = Cat(have, Cat(Cat(first, middle), last))
    BY <1>3, CatFour
  <2> QED BY <2>1 DEF Cat
<1>5. have \o first \in Blocks /\ ((have \o first) \o middle) \o last = have \o outQ
  BY <1>3, <1>4, Joins
<1>6. Filled(have, wake).wake \in Nat
  <2>1. Filled(have, wake).wake
          = IF Len(outQ) - t = 0 THEN 0 ELSE IF t = 1 THEN Len(outQ) - t ELSE wake
    BY DEF Filled, t
  <2> QED BY <1>2, <2>1, LenProperties DEF Blocks
<1> QED BY <1>1, <1>3, <1>5, <1>6 DEF Cat

\* What the queue of deferred callbacks holds after one is put in or taken out.
LEMMA Defers ==
  ASSUME NEW d \in Seq({"prefetch", "response"})
  PROVE  /\ \A cb \in {"prefetch", "response"} :
              <<cb>> \o d \in Seq({"prefetch", "response"})
         /\ (Has(<<"prefetch">> \o d) <=> Has(d))
         /\ (Single(d) => Single(<<"prefetch">> \o d))
         /\ (~Has(d) => Single(<<"response">> \o d))
         /\ (d # <<>> =>
               /\ Tail(d) \in Seq({"prefetch", "response"})
               /\ (Single(d) => Single(Tail(d)))
               /\ (Head(d) = "prefetch" => (Has(Tail(d)) <=> Has(d)))
               /\ (Head(d) = "response" => Has(d))
               /\ (Head(d) = "response" /\ Single(d) => ~Has(Tail(d))))
<1> DEFINE CBs == {"prefetch", "response"}
<1>1. Len(d) \in Nat /\ DOMAIN d = 1 .. Len(d)
  BY LenProperties
<1>2. ASSUME NEW cb \in CBs
      PROVE  /\ <<cb>> \o d \in Seq(CBs)
             /\ DOMAIN (<<cb>> \o d) = 1 .. (Len(d) + 1)
             /\ (<<cb>> \o d)[1] = cb
             /\ \A k \in 1 .. Len(d) : (<<cb>> \o d)[k + 1] = d[k]
             /\ \A k \in 1 .. (Len(d) + 1) : k # 1 => k - 1 \in 1 .. Len(d) /\ (<<cb>> \o d)[k] = d[k - 1]
  <2>1. <<cb>> \in Seq(CBs) /\ Len(<<cb>>) = 1 /\ <<cb>>[1] = cb
    OBVIOUS
  <2> DEFINE e == <<cb>> \o d
  <2>2. /\ e \in Seq(CBs)
        /\ Len(e) = Len(<<cb>>) + Len(d)
        /\ \A k \in 1 .. Len(<<cb>>) + Len(d) :
             e[k] = IF k <= Len(<<cb>>) THEN <<cb>>[k] ELSE d[k - Len(<<cb>>)]
    <3> HIDE DEF CBs
    <3> QED BY <2>1, ConcatProperties DEF CBs
  <2> HIDE DEF e
  <2>3. DOMAIN e = 1 .. Len(e)
    BY <2>2, LenProperties
  <2>4. \A k \in 1 .. (Len(d) + 1) : e[k] = IF k <= 1 THEN cb ELSE d[k - 1]
    BY <1>1, <2>1, <2>2
  <2>5. ASSUME NEW k \in 1 .. Len(d) PROVE e[k + 1] = d[k]
    <3> k + 1 \in 1 .. (Len(d) + 1) /\ ~(k + 1 <= 1) /\ k + 1 - 1 = k
      BY <1>1
    <3> QED BY <2>4
  <2>6. \A k \in 1 .. (Len(d) + 1) : k # 1 => k - 1 \in 1 .. Len(d) /\ e[k] = d[k - 1]
    BY <1>1, <2>4
  <2> QED BY <1>1, <2>1, <2>2, <2>3, <2>4, <2>5, <2>6 DEF e
<1>3. Has(<<"prefetch">> \o d) <=> Has(d)
  <2> DEFINE e == <<"prefetch">> \o d
  <2>1. /\ DOMAIN e = 1 .. (Len(d) + 1) /\ e[1] = "prefetch"
        /\ \A k \in 1 .. Len(d) : e[k + 1] = d[k] /\ k + 1 \in 1 .. (Len(d) + 1)
        /\ \A k \in 1 .. (Len(d) + 1) : k # 1 => k - 1 \in 1 .. Len(d) /\ e[k] = d[k - 1]
    BY <1>1, <1>2
  <2> HIDE DEF e
  <2>2. Has(e) => Has(d)
    BY <1>1, <2>1 DEF Has
  <2>3. Has(d) => Has(e)
    BY <1>1, <2>1 DEF Has
  <2> QED BY <2>2, <2>3 DEF e
<1>4. Single(d) => Single(<<"prefetch">> \o d)
  <2> DEFINE e == <<"prefetch">> \o d
  <2>1. /\ DOMAIN e = 1 .. (Len(d) + 1) /\ e[1] = "prefetch"
        /\ \A k \in 1 .. (Len(d) + 1) : k # 1 => k - 1 \in 1 .. Len(d) /\ e[k] = d[k - 1]
    BY <1>1, <1>2
  <2> HIDE DEF e
  <2> SUFFICES ASSUME Single(d), NEW j \in 1 .. (Len(d) + 1), NEW k \in 1 .. (Len(d) + 1),
                      e[j] = "response", e[k] = "response"
      PROVE  j = k
    BY <2>1 DEF Single, e
  <2>2. j - 1 \in 1 .. Len(d) /\ k - 1 \in 1 .. Len(d) /\ d[j - 1] = "response" /\ d[k - 1] = "response"
    BY <2>1
  <2>3. j - 1 = k - 1
    BY <1>1, <2>2 DEF Single
  <2> QED BY <2>3
<1>5. ~Has(d) => Single(<<"response">> \o d)
  <2> DEFINE e == <<"response">> \o d
  <2>1. /\ DOMAIN e = 1 .. (Len(d) + 1) /\ e[1] = "response"
        /\ \A k \in 1 .. (Len(d) + 1) : k # 1 => k - 1 \in 1 .. Len(d) /\ e[k] = d[k - 1]
    BY <1>1, <1>2
  <2> HIDE DEF e
  <2> SUFFICES ASSUME ~Has(d), NEW j \in 1 .. (Len(d) + 1), NEW k \in 1 .. (Len(d) + 1),
                      e[j] = "response", e[k] = "response"
      PROVE  j = k
    BY <2>1 DEF Single, e
  <2> QED BY <1>1, <2>1 DEF Has
<1>6. ASSUME d # <<>>
      PROVE  /\ Tail(d) \in Seq(CBs)
             /\ (Single(d) => Single(Tail(d)))
             /\ (Head(d) = "prefetch" => (Has(Tail(d)) <=> Has(d)))
             /\ (Head(d) = "response" => Has(d))
             /\ (Head(d) = "response" /\ Single(d) => ~Has(Tail(d)))
  <2> DEFINE e == Tail(d)
  <2>1. /\ e \in Seq(CBs) /\ Len(e) = Len(d) - 1
        /\ \A k \in 1 .. Len(e) : e[k] = d[k + 1]
    <3> HIDE DEF CBs
    <3> QED BY <1>6, HeadTailProperties DEF CBs
  <2>2. Head(d) = d[1] /\ Len(d) > 0
    BY <1>1, <1>6, EmptySeq
  <2> HIDE DEF e
  <2>3. DOMAIN e = 1 .. (Len(d) - 1)
    BY <2>1, LenProperties
  <2>4. \A k \in 1 .. (Len(d) - 1) : k + 1 \in 1 .. Len(d) /\ k + 1 # 1 /\ e[k] = d[k + 1]
    BY <1>1, <2>1
  <2>5. \A k \in 1 .. Len(d) : k # 1 => k - 1 \in 1 .. (Len(d) - 1) /\ e[k - 1] = d[k]
    <3> SUFFICES ASSUME NEW k \in 1 .. Len(d), k # 1
        PROVE k - 1 \in 1 .. (Len(d) - 1) /\ e[k - 1] = d[k]
      OBVIOUS
    <3>1. k - 1 \in 1 .. (Len(d) - 1) /\ k - 1 + 1 = k
      BY <1>1
    <3> QED BY <2>4, <3>1
  <2>6. Single(d) => Single(e)
    <3> SUFFICES ASSUME Single(d), NEW j \in 1 .. (Len(d) - 1), NEW k \in 1 .. (Len(d) - 1),
                        e[j] = "response", e[k] = "response"
        PROVE  j = k
      BY <2>3 DEF Single
    <3>1. j + 1 = k + 1
      BY <1>1, <2>4 DEF Single
    <3> QED BY <3>1
  <2>7. Has(e) => Has(d)
    BY <1>1, <2>3, <2>4 DEF Has
  <2>8. Head(d) = "prefetch" /\ Has(d) => Has(e)
    BY <1>1, <2>2, <2>3, <2>5 DEF Has
  <2>9. 1 \in DOMAIN d
    BY <1>1, <2>2
  <2>10. Head(d) = "response" => Has(d)
    BY <2>2, <2>9 DEF Has
  <2>11. Head(d) = "response" /\ Single(d) => ~Has(e)
    <3> SUFFICES ASSUME Head(d) = "response", Single(d), NEW k \in 1 .. (Len(d) - 1), e[k] = "response"
        PROVE  FALSE
      BY <2>3 DEF Has
    <3>1. k + 1 \in DOMAIN d /\ d[k + 1] = "response" /\ k + 1 # 1
      BY <1>1, <2>4
    <3> QED BY <2>2, <2>9, <3>1 DEF Single
  <2> QED BY <2>1, <2>6, <2>7, <2>8, <2>10, <2>11 DEF e
<1> QED BY <1>2, <1>3, <1>4, <1>5, <1>6

-----------------------------------------------------------------------------
\* The steps of the main loop.

LEMMA InitInv == Init => HostInv
<1> SUFFICES ASSUME Init PROVE HostInv
  OBVIOUS
<1> USE DEF Init
<1>1. Shapes
  BY EmptySeq DEF Shapes, Label, Rest, Packets, Packet, Kinds, Seqs, Empty, Blocks
<1>2. Receiver
  BY DEF Receiver
<1>3. ~Deferred /\ Single(defers)
  BY DEF Deferred, Has, Single, Empty
<1>4. OneSide
  BY <1>3 DEF OneSide
<1>5. Sequence
  BY <1>3 DEF Sequence, Answered, Working, Packet
<1>6. OnAir /\ Kept
  BY DEF OnAir, Kept
<1>7. Conserved
  BY Joins DEF Conserved, Outstanding
<1> QED BY <1>1, <1>2, <1>4, <1>5, <1>6, <1>7 DEF HostInv, Exchange

\* The exchange does not see what main does with the buffers.
LEMMA ExchangeSame ==
  ASSUME Exchange, UNCHANGED <<rx, defers, tx, air, host, req>>, prefetch'.tx = prefetch.tx
  PROVE  Exchange'
BY DEF Exchange, Receiver, OneSide, Sequence, OnAir, Kept, Deferred, Working, Answered

\* The response that is outstanding is a sequence of blocks.
LEMMA OutstandingIs == Shapes => Outstanding \in Blocks
BY Joins DEF Shapes, Outstanding, Packets

LEMMA OutstandingSame ==
  ASSUME UNCHANGED <<tx, host>>
  PROVE  Outstanding' = Outstanding
BY DEF Outstanding

LEMMA AddStep ==
  ASSUME HostInv, NEW notify \in BOOLEAN, Add(notify)
  PROVE  HostInv'
<1>1. Shapes /\ Exchange /\ Conserved
  BY DEF HostInv
<1>2. /\ UNCHANGED <<buffers, prefetch, intr, defers, rx, tx, air, host, req, got, faults>>
      /\ main = Rest /\ main' = [at |-> "check", notify |-> notify, wake |-> Len(outQ) + 1]
      /\ outQ' = Append(outQ, Len(added) + 1) /\ added' = Append(added, Len(added) + 1)
  BY DEF Add
<1>3. outQ \in Blocks /\ added \in Blocks /\ Len(added) + 1 \in Nat
  BY <1>1, LenProperties DEF Shapes, Blocks
<1>4. outQ' \in Blocks /\ added' \in Blocks
  BY <1>2, <1>3, AppendProperties DEF Blocks
<1>5. Shapes'
  <2>1. main' \in [at : Label, notify : BOOLEAN, wake : Nat]
    BY <1>2, <1>3, LenProperties DEF Label, Blocks
  <2> QED BY <1>1, <1>2, <1>4, <2>1 DEF Shapes
<1>6. Exchange'
  BY <1>1, <1>2, ExchangeSame
<1>7. Conserved'
  <2> DEFINE x == ((got \o Outstanding) \o buffers.curr) \o buffers.next
             b == <<Len(added) + 1>>
  <2>1. got \in Blocks /\ Outstanding \in Blocks /\ buffers.curr \in Blocks /\ buffers.next \in Blocks
    BY <1>1, OutstandingIs DEF Shapes
  <2>2. x \in Blocks
    BY <2>1, Joins
  <2>3. x \o outQ = added
    BY <1>1, <1>2 DEF Conserved, Rest
  <2>4. ((got \o Outstanding) \o buffers.curr) \o buffers.next = x /\ Outstanding' = Outstanding
    BY <1>2, OutstandingSame
  <2>5. b \in Blocks /\ outQ' = outQ \o b /\ added' = added \o b
    <3>1. b \in Blocks
      BY <1>3 DEF Blocks
    <3>2. \A s \in Blocks, n \in Nat : Append(s, n) = s \o <<n>>
      BY AppendIsConcat DEF Blocks
    <3> QED BY <1>2, <1>3, <3>1, <3>2, Zenon
  <2> HIDE DEF x, b
  <2>6. x \o (outQ \o b) = added \o b
    BY <1>3, <2>2, <2>3, <2>5, Joins
  <2> QED BY <1>2, <2>4, <2>5, <2>6 DEF Conserved
<1> QED BY <1>5, <1>6, <1>7 DEF HostInv

\* A step of main that moves blocks between the buffers and keeps their order.
\* What mTxNext holds for good: not what it shares with mTxCurr.
Upcoming == IF main.at = "moved" THEN Empty ELSE buffers.next

LEMMA ConservedIs ==
  Conserved <=> Whole(got, Outstanding, buffers.curr, Upcoming, outQ) = added
BY DEF Conserved, Whole, Cat, Upcoming

LEMMA ConservedStep ==
  ASSUME Shapes, Conserved, UNCHANGED <<got, added>>,
         Outstanding' \in Blocks, buffers'.curr \in Blocks, Upcoming' \in Blocks, outQ' \in Blocks,
         Line(Outstanding', buffers'.curr, Upcoming', outQ')
           = Line(Outstanding, buffers.curr, Upcoming, outQ)
  PROVE  Conserved'
<1>1. /\ got \in Blocks /\ Outstanding \in Blocks /\ Upcoming \in Blocks
      /\ buffers.curr \in Blocks /\ outQ \in Blocks
  BY OutstandingIs, Cats DEF Shapes, Upcoming
<1>2. Whole(got, Outstanding, buffers.curr, Upcoming, outQ) = added
  BY ConservedIs
<1>3. Whole(got, Outstanding, buffers.curr, Upcoming, outQ)
        = Cat(got, Line(Outstanding, buffers.curr, Upcoming, outQ))
  BY <1>1, WholeIs
<1>4. Whole(got, Outstanding', buffers'.curr, Upcoming', outQ')
        = Cat(got, Line(Outstanding', buffers'.curr, Upcoming', outQ'))
  BY <1>1, WholeIs
<1>5. Whole(got', Outstanding', buffers'.curr, Upcoming', outQ') = added'
  BY <1>2, <1>3, <1>4
<1>6. ConservedIs'
  BY ConservedIs, PTL
<1> QED BY <1>5, <1>6

\* A step that touches neither the buffers nor a response.
LEMMA ConservedSame ==
  ASSUME Conserved, UNCHANGED <<got, added, buffers, outQ>>,
         Outstanding' = Outstanding, Upcoming' = Upcoming
  PROVE  Conserved'
<1>1. Whole(got, Outstanding, buffers.curr, Upcoming, outQ) = added
  BY ConservedIs
<1>2. ConservedIs'
  BY ConservedIs, PTL
<1> QED BY <1>1, <1>2

LEMMA BufferStep ==
  ASSUME HostInv,
         UNCHANGED <<defers, rx, host, req, got, added, tx, air>>, prefetch'.tx = prefetch.tx,
         prefetch' \in [active : BOOLEAN, tx : BOOLEAN],
         outQ' \in Blocks, buffers' \in [curr : Blocks, next : Blocks, wake : Nat],
         main' \in [at : Label, notify : BOOLEAN, wake : Nat],
         Cat(Cat(buffers'.curr, Upcoming'), outQ') = Cat(Cat(buffers.curr, Upcoming), outQ)
  PROVE  HostInv'
<1>1. Shapes /\ Exchange /\ Conserved
  BY DEF HostInv
<1>2. Shapes'
  BY <1>1 DEF Shapes
<1>3. Exchange'
  BY <1>1, ExchangeSame
<1>4. Conserved'
  <2>1. /\ Outstanding \in Blocks /\ Upcoming \in Blocks /\ Upcoming' \in Blocks
        /\ buffers.curr \in Blocks /\ outQ \in Blocks
    BY <1>1, OutstandingIs, Cats DEF Shapes, Upcoming
  <2>2. Outstanding' = Outstanding
    BY OutstandingSame
  <2>3. Line(Outstanding, buffers'.curr, Upcoming', outQ')
          = Cat(Outstanding, Cat(Cat(buffers'.curr, Upcoming'), outQ'))
    BY <2>1, CatFour DEF Line
  <2>4. Line(Outstanding, buffers.curr, Upcoming, outQ)
          = Cat(Outstanding, Cat(Cat(buffers.curr, Upcoming), outQ))
    BY <2>1, CatFour DEF Line
  <2> QED BY <1>1, <2>1, <2>2, <2>3, <2>4, ConservedStep
<1> QED BY <1>2, <1>3, <1>4 DEF HostInv

LEMMA MovingSteps ==
  ASSUME HostInv, Check \/ Begin \/ Move \/ Moved \/ Fill \/ Release \/ Update
  PROVE  HostInv'
<1>1. Shapes
  BY DEF HostInv
<1>2. /\ outQ \in Blocks /\ buffers.curr \in Blocks /\ buffers.next \in Blocks
      /\ buffers \in [curr : Blocks, next : Blocks, wake : Nat]
      /\ main \in [at : Label, notify : BOOLEAN, wake : Nat]
      /\ prefetch \in [active : BOOLEAN, tx : BOOLEAN]
  BY <1>1 DEF Shapes
<1>3. CASE Check
  <2>1. UNCHANGED <<outQ, buffers, prefetch, defers, rx, host, req, got, added, tx, air>>
    BY <1>3 DEF Check, OutsideMain
  <2>2. Upcoming' = Upcoming
    BY <1>2, <1>3, <2>1 DEF Check, Go, Rest, Upcoming
  <2>3. main' \in [at : Label, notify : BOOLEAN, wake : Nat]
    BY <1>2, <1>3 DEF Check, Go, Rest, Label, Larger
  <2> QED BY <1>2, <2>1, <2>2, <2>3, BufferStep
<1>4. CASE Begin
  <2>1. UNCHANGED <<outQ, buffers, defers, rx, host, req, got, added, tx, air>>
    BY <1>4 DEF Begin, OutsideMain
  <2>2. Upcoming' = Upcoming
    BY <1>2, <1>4, <2>1 DEF Begin, Go, Rest, Upcoming
  <2>3. main' \in [at : Label, notify : BOOLEAN, wake : Nat]
    BY <1>2, <1>4 DEF Begin, Go, Rest, Label
  <2>4. prefetch'.tx = prefetch.tx /\ prefetch' \in [active : BOOLEAN, tx : BOOLEAN]
    BY <1>2, <1>4 DEF Begin
  <2> QED BY <1>2, <2>1, <2>2, <2>3, <2>4, BufferStep
<1>5. CASE Release
  <2>1. UNCHANGED <<outQ, buffers, defers, rx, host, req, got, added, tx, air>>
    BY <1>5 DEF Release, OutsideMain
  <2>2. Upcoming' = Upcoming
    BY <1>2, <1>5, <2>1 DEF Release, Go, Rest, Upcoming
  <2>3. main' \in [at : Label, notify : BOOLEAN, wake : Nat]
    BY <1>2, <1>5 DEF Release, Go, Rest, Label
  <2>4. prefetch'.tx = prefetch.tx /\ prefetch' \in [active : BOOLEAN, tx : BOOLEAN]
    BY <1>2, <1>5 DEF Release
  <2> QED BY <1>2, <2>1, <2>2, <2>3, <2>4, BufferStep
<1>6. CASE Update
  <2>1. UNCHANGED <<outQ, buffers, prefetch, defers, rx, host, req, got, added, tx, air>>
    BY <1>6 DEF Update, OutsideMain
  <2>2. Upcoming' = Upcoming
    BY <1>2, <1>6, <2>1 DEF Update, Go, Rest, Upcoming
  <2>3. main' \in [at : Label, notify : BOOLEAN, wake : Nat]
    <3>1. main' = [main EXCEPT !.at = "move"] \/ main' = Rest
      BY <1>6 DEF Update, Go
    <3>2. [main EXCEPT !.at = "move"] \in [at : Label, notify : BOOLEAN, wake : Nat]
      BY <1>2 DEF Label
    <3>3. Rest \in [at : Label, notify : BOOLEAN, wake : Nat]
      BY DEF Rest, Label
    <3> QED BY <3>1, <3>2, <3>3
  <2> QED BY <1>2, <2>1, <2>2, <2>3, BufferStep
<1>7. CASE Move
  <2>1. UNCHANGED <<outQ, prefetch, defers, rx, host, req, got, added, tx, air>>
    BY <1>7 DEF Move, OutsideMain
  <2>2. main' \in [at : Label, notify : BOOLEAN, wake : Nat]
    BY <1>2, <1>7 DEF Move, Go, Label
  <2>3. CASE buffers.curr = Empty /\ buffers.next # Empty
    <3>1. /\ buffers'.curr = buffers.next /\ buffers'.next = buffers.next
          /\ buffers' \in [curr : Blocks, next : Blocks, wake : Nat]
      BY <1>2, <1>7, <2>3 DEF Move
    <3>2. Upcoming = buffers.next /\ Upcoming' = Empty
      BY <1>2, <1>7, <2>3 DEF Move, Go, Upcoming
    <3>3. Cat(buffers.next, Empty) = Cat(Empty, buffers.next)
      BY <1>2, Cats
    <3>4. Cat(Cat(buffers'.curr, Upcoming'), outQ') = Cat(Cat(buffers.curr, Upcoming), outQ)
      BY <2>1, <2>3, <3>1, <3>2, <3>3
    <3> QED BY <1>2, <2>1, <2>2, <3>1, <3>4, BufferStep
  <2>4. CASE ~(buffers.curr = Empty /\ buffers.next # Empty)
    <3>1. buffers' = buffers
      BY <1>7, <2>4 DEF Move
    <3>2. Upcoming' = Upcoming
      BY <1>2, <1>7, <2>4, <3>1 DEF Move, Go, Upcoming
    <3> QED BY <1>2, <2>1, <2>2, <3>1, <3>2, BufferStep
  <2> QED BY <2>3, <2>4
<1>8. CASE Moved
  <2>1. UNCHANGED <<outQ, prefetch, defers, rx, host, req, got, added, tx, air>>
    BY <1>8 DEF Moved, OutsideMain
  <2>2. main' \in [at : Label, notify : BOOLEAN, wake : Nat]
    BY <1>2, <1>8 DEF Moved, Go, Label
  <2>3. /\ buffers'.curr = buffers.curr /\ buffers'.next = Empty
        /\ buffers' \in [curr : Blocks, next : Blocks, wake : Nat]
    BY <1>2, <1>8, Cats DEF Moved
  <2>4. Upcoming' = Upcoming
    BY <1>2, <1>8, <2>3 DEF Moved, Go, Upcoming
  <2> QED BY <1>2, <2>1, <2>2, <2>3, <2>4, BufferStep
<1>9. CASE Fill
  <2>1. UNCHANGED <<prefetch, defers, rx, host, req, got, added, tx, air>>
    BY <1>9 DEF Fill, OutsideMain
  <2>2. CASE buffers.next = Empty
    <3> DEFINE f == Filled(buffers.curr, main.wake)
    <3>1. buffers.curr \in Blocks /\ main.wake \in Nat
      BY <1>2
    <3>2. f.buf \in Blocks /\ f.next \in Blocks /\ f.queue \in Blocks /\ f.wake \in Nat
      BY <1>2, <3>1, FilledIs
    <3>3. Cat(Cat(f.buf, f.next), f.queue) = Cat(buffers.curr, outQ)
      BY <1>2, <3>1, FilledIs
    <3>4. /\ outQ' = f.queue /\ buffers' = [curr |-> f.buf, next |-> f.next, wake |-> f.wake]
          /\ main' = [main EXCEPT !.at = "release", !.wake = f.wake]
      BY <1>9, <2>2 DEF Fill
    <3> HIDE DEF f
    <3>5. main' \in [at : Label, notify : BOOLEAN, wake : Nat] /\ main'.at = "release"
      BY <1>2, <3>2, <3>4 DEF Label
    <3>6. /\ buffers' \in [curr : Blocks, next : Blocks, wake : Nat]
          /\ buffers'.curr = f.buf /\ buffers'.next = f.next
      BY <3>2, <3>4
    <3>7. Upcoming = Empty /\ Upcoming' = f.next
      BY <1>9, <2>2, <3>5, <3>6 DEF Fill, Upcoming
    <3>8. Cat(buffers.curr, Empty) = buffers.curr
      BY <1>2, Cats
    <3>9. Cat(Cat(buffers'.curr, Upcoming'), outQ') = Cat(Cat(buffers.curr, Upcoming), outQ)
      BY <3>3, <3>4, <3>6, <3>7, <3>8
    <3> QED BY <1>2, <2>1, <3>2, <3>4, <3>5, <3>6, <3>9, BufferStep
  <2>3. CASE buffers.next # Empty
    <3>1. UNCHANGED <<outQ, buffers>> /\ main' = [main EXCEPT !.at = "release"]
      BY <1>9, <2>3 DEF Fill, Go
    <3>2. main' \in [at : Label, notify : BOOLEAN, wake : Nat] /\ main'.at = "release"
      BY <1>2, <3>1 DEF Label
    <3>3. Upcoming' = Upcoming
      BY <1>9, <3>1, <3>2 DEF Fill, Upcoming
    <3> QED BY <1>2, <2>1, <3>1, <3>2, <3>3, BufferStep
  <2> QED BY <2>2, <2>3
<1> QED BY <1>3, <1>4, <1>5, <1>6, <1>7, <1>8, <1>9

-----------------------------------------------------------------------------
\* The steps of the exchange.

\* A response to the host's open request is outstanding, or nothing is.
LEMMA OutstandingAt ==
  /\ host.open /\ tx.seq = host.seq /\ Answered => Outstanding = tx.buf.data
  /\ ~host.open \/ tx.seq # host.seq \/ ~Answered => Outstanding = Empty
BY DEF Outstanding, Answered

\* An answer from mTxCurr: what was the first block to go is outstanding.
LEMMA AnswerMoves ==
  ASSUME Shapes, Conserved, UNCHANGED <<got, added, outQ>>, Upcoming' = Upcoming,
         Outstanding = Empty, Outstanding' = buffers.curr, buffers'.curr = Empty
  PROVE  Conserved'
<1>1. buffers.curr \in Blocks /\ Upcoming \in Blocks /\ outQ \in Blocks /\ Empty \in Blocks
  BY Cats DEF Shapes, Upcoming
<1>2. Cat(buffers.curr, Empty) = Cat(Empty, buffers.curr)
  BY <1>1, Cats
<1>3. Line(Outstanding', buffers'.curr, Upcoming', outQ')
        = Line(Outstanding, buffers.curr, Upcoming, outQ)
  BY <1>2 DEF Line
<1> QED BY <1>1, <1>3, ConservedStep

LEMMA AnswerStep ==
  ASSUME HostInv, Answer
  PROVE  HostInv'
<1>1. Shapes /\ Exchange /\ Conserved
  BY DEF HostInv
<1>2. /\ buffers \in [curr : Blocks, next : Blocks, wake : Nat]
      /\ main \in [at : Label, notify : BOOLEAN, wake : Nat]
      /\ prefetch \in [active : BOOLEAN, tx : BOOLEAN]
      /\ tx \in [seq : {0} \cup Seqs, cmd : BOOLEAN, buf : Packets, size : Kinds]
  BY <1>1 DEF Shapes
<1>3. UNCHANGED <<outQ, defers, rx, host, req, got, added>> /\ main.at = "answer"
  BY DEF Answer, OutsideMain
<1>4. CASE ~prefetch.tx
  <2>1. UNCHANGED <<tx, air, prefetch, buffers>> /\ main' = Rest
    BY <1>4 DEF Answer
  <2>2. Upcoming' = Upcoming /\ main' \in [at : Label, notify : BOOLEAN, wake : Nat]
    BY <1>3, <2>1 DEF Upcoming, Rest, Label
  <2>3. outQ \in Blocks
    BY <1>1 DEF Shapes
  <2> QED BY <1>2, <1>3, <2>1, <2>2, <2>3, BufferStep
<1>5. CASE prefetch.tx
  <2>1. /\ tx' = [tx EXCEPT !.buf = Response(buffers.curr), !.size = "payload"]
        /\ air' = Sending(tx'.buf, "payload")
        /\ prefetch' = [prefetch EXCEPT !.tx = FALSE]
        /\ buffers' = [buffers EXCEPT !.curr = Empty]
        /\ main' = [main EXCEPT !.at = "update"]
    BY <1>5 DEF Answer, Go
  <2>2. Response(buffers.curr) = [kind |-> "payload", seq |-> tx.seq, data |-> buffers.curr]
    BY DEF Response, Packet
  <2>3. Response(buffers.curr) \in Packets
    BY <1>2, <2>2 DEF Packets, Kinds
  <2>4. /\ tx' \in [seq : {0} \cup Seqs, cmd : BOOLEAN, buf : Packets, size : Kinds]
        /\ tx'.seq = tx.seq /\ tx'.buf = Response(buffers.curr) /\ tx'.cmd = tx.cmd
    BY <1>2, <2>1, <2>3 DEF Kinds
  <2>5. /\ tx'.buf.kind = "payload" /\ tx'.buf.seq = tx.seq /\ tx'.buf.data = buffers.curr
    BY <2>2, <2>4
  <2>6. /\ air' = [packet |-> tx'.buf, done |-> "payload"]
        /\ air' \in [packet : Packets, done : {"ack", "payload"}]
        /\ air'.packet = tx'.buf /\ air'.done = "payload"
    BY <2>1, <2>4 DEF Sending
  <2>7. ~prefetch'.tx /\ prefetch' \in [active : BOOLEAN, tx : BOOLEAN]
    BY <1>2, <2>1
  <2>8. /\ buffers' \in [curr : Blocks, next : Blocks, wake : Nat]
        /\ buffers'.curr = Empty /\ buffers'.next = buffers.next
    BY <1>2, <2>1, Cats
  <2>9. main' \in [at : Label, notify : BOOLEAN, wake : Nat] /\ main'.at = "update"
    BY <1>2, <2>1 DEF Label
  <2>10. Shapes'
    BY <1>1, <1>3, <2>4, <2>6, <2>7, <2>8, <2>9 DEF Shapes
  <2>11. Working /\ air = None /\ ~Deferred /\ rx.write
    BY <1>1, <1>5 DEF Exchange, OneSide, Sequence
  <2>12. host.open /\ tx.seq = host.seq /\ ~Answered
    BY <2>11 DEF Working
  <2>13. Deferred' = Deferred
    BY <1>3 DEF Deferred
  <2>14. Receiver'
    BY <1>1, <1>3 DEF Exchange, Receiver
  <2>15. OneSide'
    BY <1>1, <1>3, <2>7, <2>11, <2>13 DEF Exchange, OneSide
  <2>16. Sequence'
    <3>1. req = 0 \/ req = host.seq
      BY <1>1, <1>5 DEF Exchange, Sequence
    <3> QED BY <1>1, <1>3, <2>4, <2>7, <2>11, <2>12, <2>13, <3>1 DEF Exchange, Sequence, Answered
  <2>17. OnAir'
    BY <2>4, <2>5, <2>6 DEF OnAir
  <2>18. Kept'
    BY <2>4, <2>5 DEF Kept
  <2>19. Outstanding = Empty
    BY <2>12, OutstandingAt
  <2>20. Outstanding' = buffers.curr
    BY <1>3, <2>4, <2>5, <2>12 DEF Outstanding
  <2>21. Upcoming' = Upcoming
    BY <1>3, <2>8, <2>9 DEF Upcoming
  <2>22. Conserved'
    BY <1>1, <1>3, <2>8, <2>19, <2>20, <2>21, AnswerMoves
  <2> QED BY <2>10, <2>14, <2>15, <2>16, <2>17, <2>18, <2>22 DEF HostInv, Exchange
<1> QED BY <1>4, <1>5

LEMMA PrefetchDeferStep ==
  ASSUME HostInv, PrefetchDefer
  PROVE  HostInv'
<1>1. Shapes /\ Exchange /\ Conserved
  BY DEF HostInv
<1>2. /\ UNCHANGED <<outQ, buffers, prefetch, rx, tx, air, host, req, got, added>>
      /\ main = Rest /\ main' = [at |-> "check", notify |-> FALSE, wake |-> 0]
      /\ defers # <<>> /\ Head(defers) = "prefetch" /\ defers' = Tail(defers)
  BY DEF PrefetchDefer, Empty
<1>3. defers \in Seq({"prefetch", "response"})
  BY <1>1 DEF Shapes
<1>4. /\ defers' \in Seq({"prefetch", "response"})
      /\ (Single(defers) => Single(defers'))
      /\ (Has(defers') <=> Has(defers))
  BY <1>2, <1>3, Defers
<1>5. Shapes'
  BY <1>1, <1>2, <1>4 DEF Shapes, Label
<1>6. Deferred' <=> Deferred
  BY <1>4 DEF Deferred
<1>7. Exchange'
  BY <1>1, <1>2, <1>4, <1>6
     DEF Exchange, Receiver, OneSide, Sequence, OnAir, Kept, Working, Answered
<1>8. Conserved'
  BY <1>1, <1>2, OutstandingSame, ConservedSame DEF Upcoming, Rest
<1> QED BY <1>5, <1>7, <1>8 DEF HostInv

LEMMA GenerateResponseStep ==
  ASSUME HostInv, GenerateResponse
  PROVE  HostInv'
<1>1. Shapes /\ Exchange /\ Conserved
  BY DEF HostInv
<1>2. /\ buffers \in [curr : Blocks, next : Blocks, wake : Nat] /\ outQ \in Blocks
      /\ tx \in [seq : {0} \cup Seqs, cmd : BOOLEAN, buf : Packets, size : Kinds]
      /\ defers \in Seq({"prefetch", "response"})
  BY <1>1 DEF Shapes
<1>3. /\ UNCHANGED <<prefetch, main, rx, host, req, got, added>> /\ main = Rest
      /\ defers # <<>> /\ Head(defers) = "response" /\ defers' = Tail(defers)
      /\ air' = Sending(tx'.buf, "payload")
  BY DEF GenerateResponse, Empty
<1>4. Deferred
  BY <1>2, <1>3, Defers DEF Deferred
<1>5. /\ Working /\ air = None /\ ~prefetch.tx /\ rx.write /\ Single(defers)
      /\ req = 0 \/ req = host.seq
  BY <1>1, <1>4 DEF Exchange, OneSide, Sequence
<1>6. host.open /\ tx.seq = host.seq /\ ~Answered
  BY <1>5 DEF Working
<1>7. defers' \in Seq({"prefetch", "response"}) /\ Single(defers') /\ ~Has(defers')
  BY <1>2, <1>3, <1>5, Defers
<1>8. ~Deferred'
  BY <1>7 DEF Deferred
<1>9. ASSUME NEW data \in Blocks, tx' = [tx EXCEPT !.buf = Response(data), !.size = "payload"],
             outQ' \in Blocks, buffers' \in [curr : Blocks, next : Blocks, wake : Nat]
      PROVE  Shapes' /\ Exchange' /\ Outstanding' = data
  <2>1. Response(data) = [kind |-> "payload", seq |-> tx.seq, data |-> data]
    BY DEF Response, Packet
  <2>2. Response(data) \in Packets
    BY <1>2, <2>1 DEF Packets, Kinds
  <2>3. /\ tx' \in [seq : {0} \cup Seqs, cmd : BOOLEAN, buf : Packets, size : Kinds]
        /\ tx'.seq = tx.seq /\ tx'.buf = Response(data)
    BY <1>2, <1>9, <2>2 DEF Kinds
  <2>4. tx'.buf.kind = "payload" /\ tx'.buf.seq = tx.seq /\ tx'.buf.data = data
    BY <2>1, <2>3
  <2>5. /\ air' \in [packet : Packets, done : {"ack", "payload"}]
        /\ air'.packet = tx'.buf /\ air'.done = "payload"
    BY <1>3, <2>3 DEF Sending
  <2>6. Shapes'
    BY <1>1, <1>3, <1>7, <1>9, <2>3, <2>5 DEF Shapes
  <2>7. Receiver'
    BY <1>1, <1>3 DEF Exchange, Receiver
  <2>8. OneSide'
    BY <1>3, <1>5, <1>7, <1>8 DEF OneSide
  <2>9. Sequence'
    BY <1>1, <1>3, <1>5, <1>6, <1>8, <2>3 DEF Exchange, Sequence, Answered
  <2>10. OnAir'
    BY <2>3, <2>4, <2>5 DEF OnAir
  <2>11. Kept'
    BY <2>3, <2>4 DEF Kept
  <2>12. Outstanding' = data
    BY <1>3, <1>6, <2>3, <2>4 DEF Outstanding
  <2> QED BY <2>6, <2>7, <2>8, <2>9, <2>10, <2>11, <2>12 DEF Exchange
<1>10. Outstanding = Empty
  BY <1>6, OutstandingAt
<1>11. CASE buffers.curr # Empty
  <2>1. /\ tx' = [tx EXCEPT !.buf = Response(buffers.curr), !.size = "payload"]
        /\ buffers' = [buffers EXCEPT !.curr = Empty] /\ outQ' = outQ
    BY <1>11 DEF GenerateResponse
  <2>2. /\ buffers' \in [curr : Blocks, next : Blocks, wake : Nat]
        /\ buffers'.curr = Empty /\ buffers'.next = buffers.next /\ buffers.curr \in Blocks
    BY <1>2, <2>1, Cats
  <2>3. Shapes' /\ Exchange' /\ Outstanding' = buffers.curr
    BY <1>2, <1>9, <2>1, <2>2
  <2>4. Upcoming' = Upcoming
    BY <1>3, <2>2 DEF Upcoming
  <2>5. Conserved'
    BY <1>1, <1>3, <1>10, <2>1, <2>2, <2>3, <2>4, AnswerMoves
  <2> QED BY <2>3, <2>5 DEF HostInv
<1>12. CASE buffers.curr = Empty
  <2> DEFINE f == Filled(buffers.next, buffers.wake)
  <2>1. buffers.next \in Blocks /\ buffers.wake \in Nat
    BY <1>2
  <2>2. f.buf \in Blocks /\ f.next \in Blocks /\ f.queue \in Blocks /\ f.wake \in Nat
    BY <1>2, <2>1, FilledIs
  <2>3. Cat(Cat(f.buf, f.next), f.queue) = Cat(buffers.next, outQ)
    BY <1>2, <2>1, FilledIs
  <2>4. /\ tx' = [tx EXCEPT !.buf = Response(f.buf), !.size = "payload"]
        /\ buffers' = [curr |-> Empty, next |-> f.next, wake |-> f.wake]
        /\ outQ' = f.queue
    BY <1>12 DEF GenerateResponse
  <2> HIDE DEF f
  <2>5. /\ buffers' \in [curr : Blocks, next : Blocks, wake : Nat]
        /\ buffers'.curr = Empty /\ buffers'.next = f.next
    BY <2>2, <2>4, Cats
  <2>6. Shapes' /\ Exchange' /\ Outstanding' = f.buf
    BY <1>9, <2>2, <2>4, <2>5
  <2>7. Upcoming = buffers.next /\ Upcoming' = f.next
    BY <1>3, <2>5 DEF Upcoming, Rest
  <2>8. Line(Outstanding', buffers'.curr, Upcoming', outQ') = Cat(Cat(f.buf, f.next), f.queue)
    BY <2>2, <2>4, <2>5, <2>6, <2>7, Cats DEF Line
  <2>9. Line(Outstanding, buffers.curr, Upcoming, outQ) = Cat(buffers.next, outQ)
    BY <1>10, <1>12, <2>1, <2>7, Cats DEF Line
  <2>10. Conserved'
    BY <1>1, <1>3, <2>2, <2>3, <2>4, <2>5, <2>6, <2>7, <2>8, <2>9, Cats, ConservedStep
  <2> QED BY <2>6, <2>10 DEF HostInv
<1> QED BY <1>11, <1>12

LEMMA BusyStep ==
  ASSUME HostInv, SetBusy \/ ClearBusy
  PROVE  HostInv'
<1>1. Shapes /\ Exchange /\ Conserved
  BY DEF HostInv
<1>2. UNCHANGED <<outQ, buffers, prefetch, main, defers, tx, air, got, added, host, req>>
  BY DEF SetBusy, ClearBusy, ByHost
<1>3. rx' = [rx EXCEPT !.busy = TRUE] \/ rx' = [rx EXCEPT !.busy = FALSE]
  BY DEF SetBusy, ClearBusy
<1>4. /\ rx' \in [armed : BOOLEAN, idle : BOOLEAN, wake : BOOLEAN, write : BOOLEAN,
                  restart : BOOLEAN, busy : BOOLEAN, complete : BOOLEAN]
      /\ rx'.armed = rx.armed /\ rx'.idle = rx.idle /\ rx'.write = rx.write
  BY <1>1, <1>3 DEF Shapes
<1>5. Shapes'
  BY <1>1, <1>2, <1>4 DEF Shapes
<1>6. Exchange'
  BY <1>1, <1>2, <1>4
     DEF Exchange, Receiver, OneSide, Sequence, OnAir, Kept, Deferred, Working, Answered
<1>7. Conserved'
  BY <1>1, <1>2, OutstandingSame, ConservedSame DEF Upcoming
<1> QED BY <1>5, <1>6, <1>7 DEF HostInv

\* The wake line never arms a receiver that is at a request.
LEMMA WakeLineIs ==
  ASSUME Shapes, Receiver, NEW active \in BOOLEAN, WakeLine(active)
  PROVE  /\ rx' \in [armed : BOOLEAN, idle : BOOLEAN, wake : BOOLEAN, write : BOOLEAN,
                     restart : BOOLEAN, busy : BOOLEAN, complete : BOOLEAN]
         /\ rx'.write = rx.write
         /\ Receiver'
<1> DEFINE complete1 == CASE rx.wake /\ (rx.idle \/ ~rx.write) -> active
                          [] ~rx.wake /\ active /\ ~rx.write -> TRUE
                          [] OTHER -> rx.complete
           armed1 == rx.armed \/ (rx.wake /\ rx.idle)
           idle1 == rx.idle /\ ~rx.wake
           restart1 == rx.restart \/ (rx.wake /\ ~rx.idle /\ rx.write)
<1>1. rx \in [armed : BOOLEAN, idle : BOOLEAN, wake : BOOLEAN, write : BOOLEAN,
              restart : BOOLEAN, busy : BOOLEAN, complete : BOOLEAN]
  BY DEF Shapes
<1>2. rx' = [rx EXCEPT !.wake = active, !.armed = armed1, !.idle = idle1,
                       !.restart = restart1, !.complete = complete1]
  BY DEF WakeLine
<1>3. complete1 \in BOOLEAN /\ armed1 \in BOOLEAN /\ idle1 \in BOOLEAN /\ restart1 \in BOOLEAN
  BY <1>1
<1>4. ~(armed1 /\ idle1) /\ (rx.write => ~armed1 /\ ~idle1)
  BY DEF Receiver
<1> HIDE DEF complete1, armed1, idle1, restart1
<1>5. /\ rx' \in [armed : BOOLEAN, idle : BOOLEAN, wake : BOOLEAN, write : BOOLEAN,
                  restart : BOOLEAN, busy : BOOLEAN, complete : BOOLEAN]
      /\ rx'.write = rx.write /\ rx'.armed = armed1 /\ rx'.idle = idle1
  <2>1. rx' = [armed |-> armed1, idle |-> idle1, wake |-> active, write |-> rx.write,
               restart |-> restart1, busy |-> rx.busy, complete |-> complete1]
    BY <1>1, <1>2
  <2> QED BY <1>1, <1>3, <2>1
<1> QED BY <1>4, <1>5 DEF Receiver

\* The host turns to another state under the same sequence number.
LEMMA HostTurns ==
  ASSUME HostInv, UNCHANGED ByHost, Receiver',
         rx' \in [armed : BOOLEAN, idle : BOOLEAN, wake : BOOLEAN, write : BOOLEAN,
                  restart : BOOLEAN, busy : BOOLEAN, complete : BOOLEAN],
         rx'.write = rx.write,
         host' \in [at : {"off", "waking", "sent", "done"}, seq : Seqs, open : BOOLEAN],
         host'.seq = host.seq, host.open => host'.open,
         host'.at \in {"waking", "sent"} => host'.open,
         req' = 0 \/ req' = req \/ (req' = host.seq /\ host.open)
  PROVE  HostInv'
<1>1. Shapes /\ Exchange /\ Conserved
  BY DEF HostInv
<1>2. UNCHANGED <<outQ, buffers, prefetch, main, defers, tx, air, got, added>>
  BY DEF ByHost
<1>3. req' \in {0} \cup Seqs
  BY <1>1 DEF Shapes
<1>4. Shapes'
  BY <1>1, <1>2, <1>3 DEF Shapes
<1>5. Deferred' = Deferred /\ Answered' = Answered
  BY <1>2 DEF Deferred, Answered
<1>6. Working => Working'
  BY <1>2, <1>5 DEF Working
<1>7. OneSide'
  BY <1>1, <1>2, <1>5 DEF Exchange, OneSide
<1>8. Sequence'
  <2>1. host.seq # 0 /\ host'.seq = host.seq
    BY <1>1 DEF Shapes, Seqs
  <2>2. ~host'.open => tx'.seq # host'.seq /\ req' # host'.seq
    BY <1>1, <1>2, <2>1 DEF Exchange, Sequence
  <2>3. req' # 0 /\ req' # host'.seq =>
          tx'.seq = req' /\ air' = None /\ ~prefetch'.tx /\ ~Deferred'
    BY <1>1, <1>2, <1>5, <2>1 DEF Exchange, Sequence
  <2>4. (Answered' => tx'.seq = host'.seq) /\ (prefetch'.tx => Working')
    BY <1>1, <1>2, <1>5, <1>6, <2>1 DEF Exchange, Sequence
  <2>5. Deferred' => Working' /\ tx'.buf.kind = "ack"
    BY <1>1, <1>2, <1>5, <1>6 DEF Exchange, Sequence
  <2> QED BY <2>2, <2>3, <2>4, <2>5 DEF Sequence
<1>9. OnAir' /\ Kept'
  BY <1>1, <1>2, <1>6 DEF Exchange, OnAir, Kept
<1>10. Outstanding' = Outstanding
  <2>1. CASE host.open
    BY <1>2, <2>1 DEF Outstanding
  <2>2. CASE ~host.open
    <3>1. tx.seq # host.seq
      BY <1>1, <2>2 DEF Exchange, Sequence
    <3> QED BY <1>2, <3>1 DEF Outstanding
  <2> QED BY <2>1, <2>2
<1>11. Conserved'
  BY <1>1, <1>2, <1>10, ConservedSame DEF Upcoming
<1> QED BY <1>4, <1>7, <1>8, <1>9, <1>11 DEF HostInv, Exchange

LEMMA HostSteps ==
  ASSUME HostInv,
         HostWake \/ HostSend \/ HostSleep \/ TimeoutLate \/ TimeoutEarly \/ RequestLost
  PROVE  HostInv'
<1>1. Shapes /\ Receiver /\ Sequence
  BY DEF HostInv, Exchange
<1>2. /\ host \in [at : {"off", "waking", "sent", "done"}, seq : Seqs, open : BOOLEAN]
      /\ rx \in [armed : BOOLEAN, idle : BOOLEAN, wake : BOOLEAN, write : BOOLEAN,
                 restart : BOOLEAN, busy : BOOLEAN, complete : BOOLEAN]
  BY <1>1 DEF Shapes
<1>3. CASE HostWake
  <2>1. /\ host' = [host EXCEPT !.at = "waking", !.open = TRUE]
        /\ WakeLine(TRUE) /\ UNCHANGED req /\ UNCHANGED ByHost
    BY <1>3 DEF HostWake
  <2>2. /\ host' \in [at : {"off", "waking", "sent", "done"}, seq : Seqs, open : BOOLEAN]
        /\ host'.seq = host.seq /\ host'.open
    BY <1>2, <2>1
  <2> QED BY <1>1, <2>1, <2>2, WakeLineIs, HostTurns
<1>4. CASE HostSend
  <2>1. /\ host' = [host EXCEPT !.at = "sent"] /\ host.at = "waking"
        /\ req' = host.seq /\ UNCHANGED rx /\ UNCHANGED ByHost
    BY <1>4 DEF HostSend
  <2>2. /\ host' \in [at : {"off", "waking", "sent", "done"}, seq : Seqs, open : BOOLEAN]
        /\ host'.seq = host.seq /\ host'.open = host.open
    BY <1>2, <2>1
  <2>3. host.open
    BY <1>1, <2>1 DEF Sequence
  <2>4. Receiver'
    BY <1>1, <2>1 DEF Receiver
  <2> QED BY <1>2, <2>1, <2>2, <2>3, <2>4, HostTurns
<1>5. ASSUME host' = [host EXCEPT !.at = "off"], WakeLine(FALSE), UNCHANGED req, UNCHANGED ByHost
      PROVE  HostInv'
  <2>1. /\ host' \in [at : {"off", "waking", "sent", "done"}, seq : Seqs, open : BOOLEAN]
        /\ host'.seq = host.seq /\ host'.open = host.open /\ host'.at = "off"
    BY <1>2, <1>5
  <2> QED BY <1>1, <1>5, <2>1, WakeLineIs, HostTurns
<1>6. CASE HostSleep
  BY <1>5, <1>6 DEF HostSleep
<1>7. CASE TimeoutLate \/ TimeoutEarly
  BY <1>5, <1>7 DEF TimeoutLate, TimeoutEarly, Timeout
<1>8. CASE RequestLost
  <2>1. req' = 0 /\ UNCHANGED <<host, rx>> /\ UNCHANGED ByHost
    BY <1>8 DEF RequestLost
  <2>2. Receiver'
    BY <1>1, <2>1 DEF Receiver
  <2>3. host'.at \in {"waking", "sent"} => host'.open
    BY <1>1, <2>1 DEF Sequence
  <2> QED BY <1>2, <2>1, <2>2, <2>3, HostTurns
<1> QED BY <1>3, <1>4, <1>6, <1>7, <1>8

\* The receiver hands over a request: the sequence number is known, the hub is
\* busy, or the request is executed.
LEMMA RxDoneStep ==
  ASSUME HostInv, RxDone
  PROVE  HostInv'
<1>1. Shapes /\ Exchange /\ Conserved
  BY DEF HostInv
<1>2. /\ buffers \in [curr : Blocks, next : Blocks, wake : Nat] /\ outQ \in Blocks
      /\ tx \in [seq : {0} \cup Seqs, cmd : BOOLEAN, buf : Packets, size : Kinds]
      /\ defers \in Seq({"prefetch", "response"})
      /\ prefetch \in [active : BOOLEAN, tx : BOOLEAN]
      /\ rx \in [armed : BOOLEAN, idle : BOOLEAN, wake : BOOLEAN, write : BOOLEAN,
                 restart : BOOLEAN, busy : BOOLEAN, complete : BOOLEAN]
      /\ req \in {0} \cup Seqs /\ 0 \notin Seqs
  BY <1>1 DEF Shapes, Seqs
<1>3. /\ UNCHANGED <<outQ, main, host, got, added>> /\ req # 0 /\ rx.armed /\ req' = 0
      /\ rx' = [rx EXCEPT !.armed = FALSE, !.write = TRUE, !.complete = TRUE]
  BY DEF RxDone
<1>4. /\ rx' \in [armed : BOOLEAN, idle : BOOLEAN, wake : BOOLEAN, write : BOOLEAN,
                  restart : BOOLEAN, busy : BOOLEAN, complete : BOOLEAN]
      /\ ~rx'.armed /\ rx'.write /\ rx'.idle = rx.idle
  BY <1>2, <1>3
<1>5. Receiver'
  BY <1>1, <1>3, <1>4 DEF Exchange, Receiver
<1>6. air = None /\ ~prefetch.tx /\ ~Deferred /\ Single(defers)
  BY <1>1, <1>3 DEF Exchange, Receiver, OneSide
<1>7. CASE Retransmit
  <2> DEFINE packet == IF tx.size = tx.buf.kind THEN tx.buf ELSE Packet("cut", req, Empty)
  <2>1. /\ tx' = [tx EXCEPT !.cmd = TRUE] /\ air' = Sending(packet, "payload")
        /\ UNCHANGED <<buffers, prefetch, intr, defers>> /\ tx.seq = req
    BY <1>7 DEF Retransmit, Known
  <2>2. packet \in Packets /\ (packet.kind = "payload" => packet = tx.buf)
    <3>1. CASE packet = tx.buf
      BY <1>2, <3>1
    <3>2. CASE packet = Packet("cut", req, Empty)
      <4>1. packet = [kind |-> "cut", seq |-> req, data |-> Empty]
        BY <3>2 DEF Packet
      <4> HIDE DEF packet
      <4> QED BY <1>2, <4>1, Cats DEF Packets, Kinds
    <3> QED BY <3>1, <3>2
  <2> HIDE DEF packet
  <2>3. /\ air' \in [packet : Packets, done : {"ack", "payload"}]
        /\ air'.packet = packet /\ air'.done = "payload"
    BY <2>1, <2>2 DEF Sending
  <2>4. /\ tx' \in [seq : {0} \cup Seqs, cmd : BOOLEAN, buf : Packets, size : Kinds]
        /\ tx'.seq = tx.seq /\ tx'.buf = tx.buf
    BY <1>2, <2>1
  <2>5. Shapes'
    BY <1>1, <1>3, <1>4, <2>1, <2>3, <2>4 DEF Shapes
  <2>6. Deferred' = Deferred
    BY <2>1 DEF Deferred
  <2>7. OneSide'
    BY <1>4, <1>6, <2>1, <2>6 DEF OneSide
  <2>8. Sequence'
    BY <1>1, <1>2, <1>3, <1>6, <2>1, <2>4, <2>6 DEF Exchange, Sequence, Answered, Shapes
  <2>9. OnAir'
    <3>1. tx.buf.seq = tx.seq
      BY <1>1, <1>3, <1>6, <2>1 DEF Exchange, Kept
    <3> QED BY <2>2, <2>3, <2>4, <3>1 DEF OnAir
  <2>10. Kept'
    BY <1>1, <2>1, <2>4 DEF Exchange, Kept
  <2>11. Outstanding' = Outstanding /\ Upcoming' = Upcoming
    BY <1>3, <2>1, <2>4 DEF Outstanding, Upcoming
  <2>12. Conserved'
    BY <1>1, <1>3, <2>1, <2>11, ConservedSame
  <2> QED BY <1>5, <2>5, <2>7, <2>8, <2>9, <2>10, <2>12 DEF HostInv, Exchange
<1>8. ASSUME ~Known
      PROVE  req = host.seq /\ host.open /\ tx.seq # host.seq /\ ~Answered
  BY <1>1, <1>3, <1>8 DEF Exchange, Sequence, Known
<1>9. CASE NakBusy
  <2>1. /\ tx' = [tx EXCEPT !.cmd = FALSE, !.size = "nak"]
        /\ air' = Sending(Packet("nak", req, Empty), "ack")
        /\ UNCHANGED <<buffers, prefetch, intr, defers>> /\ ~Known
    BY <1>9 DEF NakBusy
  <2>3. /\ air' \in [packet : Packets, done : {"ack", "payload"}]
        /\ air'.packet.kind = "nak" /\ air'.done = "ack"
    <3>1. PICK packet : packet = Packet("nak", req, Empty)
      OBVIOUS
    <3>2. packet \in Packets /\ packet.kind = "nak"
      BY <1>2, <3>1, Cats DEF Packet, Packets, Kinds
    <3> QED BY <2>1, <3>1, <3>2 DEF Sending
  <2>4. /\ tx' \in [seq : {0} \cup Seqs, cmd : BOOLEAN, buf : Packets, size : Kinds]
        /\ tx'.seq = tx.seq /\ tx'.buf = tx.buf /\ ~tx'.cmd
    BY <1>2, <2>1 DEF Kinds
  <2>5. Shapes'
    BY <1>1, <1>3, <1>4, <2>1, <2>3, <2>4 DEF Shapes
  <2>6. Deferred' = Deferred
    BY <2>1 DEF Deferred
  <2>7. OneSide'
    BY <1>4, <1>6, <2>1, <2>6 DEF OneSide
  <2>8. Sequence'
    BY <1>1, <1>2, <1>3, <1>6, <2>1, <2>4, <2>6 DEF Exchange, Sequence, Answered, Shapes
  <2>9. OnAir' /\ Kept'
    BY <1>1, <2>1, <2>3, <2>4 DEF Exchange, OnAir, Kept
  <2>10. Outstanding' = Outstanding /\ Upcoming' = Upcoming
    BY <1>3, <2>1, <2>4 DEF Outstanding, Upcoming
  <2>11. Conserved'
    BY <1>1, <1>3, <2>1, <2>10, ConservedSame
  <2> QED BY <1>5, <2>5, <2>7, <2>8, <2>9, <2>11 DEF HostInv, Exchange
<1>10. Outstanding = Empty \/ Known
  BY <1>8, OutstandingAt
<1>11. ASSUME ~Known, prefetch.active, prefetch' = [prefetch EXCEPT !.tx = TRUE],
              tx' = [tx EXCEPT !.seq = req, !.cmd = TRUE], UNCHANGED <<buffers, defers, air>>
       PROVE  HostInv'
  <2>1. /\ tx' \in [seq : {0} \cup Seqs, cmd : BOOLEAN, buf : Packets, size : Kinds]
        /\ tx'.seq = req /\ tx'.buf = tx.buf
    BY <1>2, <1>11
  <2>2. prefetch' \in [active : BOOLEAN, tx : BOOLEAN] /\ prefetch'.tx
    BY <1>2, <1>11
  <2>3. Shapes'
    BY <1>1, <1>3, <1>4, <1>11, <2>1, <2>2 DEF Shapes
  <2>4. ~Deferred' /\ Single(defers')
    BY <1>6, <1>11 DEF Deferred
  <2>5. OneSide'
    BY <1>4, <1>6, <1>11, <2>4 DEF OneSide
  <2>6. host.open /\ tx'.seq = host.seq /\ ~Answered' /\ ~Answered
    BY <1>3, <1>8, <1>11, <2>1 DEF Answered
  <2>7. Working'
    BY <1>3, <2>6 DEF Working
  <2>8. Sequence'
    BY <1>1, <1>3, <2>4, <2>6, <2>7 DEF Exchange, Sequence
  <2>9. OnAir' /\ Kept'
    BY <1>6, <1>11, <2>2 DEF OnAir, Kept
  <2>10. Outstanding' = Outstanding /\ Upcoming' = Upcoming
    <3>1. Outstanding' = Empty
      BY <2>6 DEF Outstanding, Answered
    <3> QED BY <1>3, <1>10, <1>11, <3>1 DEF Upcoming
  <2>11. Conserved'
    BY <1>1, <1>3, <1>11, <2>10, ConservedSame
  <2> QED BY <1>5, <2>3, <2>5, <2>8, <2>9, <2>11 DEF HostInv, Exchange
<1>12. ASSUME ~Known, NEW answer \in Packets, answer.seq = req, NEW size \in Kinds,
              \/ answer.kind = "payload" /\ air' = Sending(answer, "payload")
              \/ answer.kind = "ack" /\ air' = Sending(answer, "ack"),
              tx' = [seq |-> req, cmd |-> TRUE, buf |-> answer, size |-> size],
              UNCHANGED prefetch, buffers' \in [curr : Blocks, next : Blocks, wake : Nat],
              defers' = defers \/ defers' = <<"prefetch">> \o defers
       PROVE  /\ Shapes' /\ Exchange'
              /\ Outstanding' = IF answer.kind = "payload" THEN answer.data ELSE Empty
  <2>1. /\ tx' \in [seq : {0} \cup Seqs, cmd : BOOLEAN, buf : Packets, size : Kinds]
        /\ tx'.seq = req /\ tx'.buf = answer
    BY <1>2, <1>12
  <2>2. /\ air' \in [packet : Packets, done : {"ack", "payload"}]
        /\ air'.packet = answer
        /\ (answer.kind = "payload" => air'.done = "payload")
        /\ (air'.done = "ack" => answer.kind = "ack")
    BY <1>12 DEF Sending
  <2>3. /\ defers' \in Seq({"prefetch", "response"}) /\ Single(defers')
        /\ (Has(defers') <=> Has(defers))
    <3>1. CASE defers' = defers
      BY <1>2, <1>6, <3>1
    <3>2. CASE defers' = <<"prefetch">> \o defers
      BY <1>2, <1>6, <3>2, Defers
    <3> QED BY <1>12, <3>1, <3>2
  <2>4. ~Deferred'
    BY <1>6, <2>3 DEF Deferred
  <2>5. Shapes'
    BY <1>1, <1>3, <1>4, <1>12, <2>1, <2>2, <2>3 DEF Shapes
  <2>6. OneSide'
    BY <1>4, <1>6, <1>12, <2>3, <2>4 DEF OneSide
  <2>7. req = host.seq /\ host.open
    BY <1>8, <1>12
  <2>8. Sequence'
    BY <1>3, <1>6, <1>12, <2>1, <2>4, <2>7 DEF Sequence, Answered
  <2>9. air'.done = "ack" => Working'
    BY <1>3, <2>1, <2>2, <2>7 DEF Working, Answered
  <2>10. OnAir'
    BY <1>12, <2>1, <2>2, <2>9 DEF OnAir
  <2>11. Kept'
    BY <1>12, <2>1 DEF Kept
  <2>12. Outstanding' = IF answer.kind = "payload" THEN answer.data ELSE Empty
    BY <1>3, <1>12, <2>1, <2>7 DEF Outstanding
  <2> QED BY <1>5, <2>5, <2>6, <2>8, <2>10, <2>11, <2>12 DEF Exchange
<1>13. ASSUME ~Known, ~prefetch.active, buffers.curr # Empty,
              tx' = [seq |-> req, cmd |-> TRUE, buf |-> Packet("payload", req, buffers.curr),
                     size |-> "payload"],
              air' = Sending(Packet("payload", req, buffers.curr), "payload"),
              buffers' = [buffers EXCEPT !.curr = Empty], UNCHANGED prefetch,
              defers' = defers \/ defers' = <<"prefetch">> \o defers
       PROVE  HostInv'
  <2>1. PICK answer : answer = Packet("payload", req, buffers.curr)
    OBVIOUS
  <2>2. /\ answer \in Packets /\ answer.seq = req /\ answer.kind = "payload"
        /\ answer.data = buffers.curr
    BY <1>2, <2>1 DEF Packet, Packets, Kinds
  <2>3. /\ air' = Sending(answer, "payload")
        /\ tx' = [seq |-> req, cmd |-> TRUE, buf |-> answer, size |-> "payload"]
    BY <1>13, <2>1
  <2>4. /\ buffers' \in [curr : Blocks, next : Blocks, wake : Nat]
        /\ buffers'.curr = Empty /\ buffers'.next = buffers.next
    BY <1>2, <1>13, Cats
  <2>5. Shapes' /\ Exchange' /\ Outstanding' = buffers.curr
    BY <1>12, <1>13, <2>2, <2>3, <2>4 DEF Kinds
  <2>6. Upcoming' = Upcoming
    BY <1>3, <2>4 DEF Upcoming
  <2>7. Conserved'
    BY <1>1, <1>3, <1>10, <1>13, <2>4, <2>5, <2>6, AnswerMoves
  <2> QED BY <2>5, <2>7 DEF HostInv
<1>14. ASSUME ~Known, tx' = [seq |-> req, cmd |-> TRUE, buf |-> Packet("ack", req, Empty),
                             size |-> "ack"],
              air' = Sending(Packet("ack", req, Empty), "ack"),
              UNCHANGED <<buffers, prefetch, defers>>
       PROVE  HostInv'
  <2>1. PICK answer : answer = Packet("ack", req, Empty)
    OBVIOUS
  <2>2. answer \in Packets /\ answer.seq = req /\ answer.kind = "ack"
    BY <1>2, <2>1, Cats DEF Packet, Packets, Kinds
  <2>3. /\ air' = Sending(answer, "ack")
        /\ tx' = [seq |-> req, cmd |-> TRUE, buf |-> answer, size |-> "ack"]
    BY <1>14, <2>1
  <2>4. Shapes' /\ Exchange' /\ Outstanding' = Empty
    BY <1>2, <1>12, <1>14, <2>2, <2>3 DEF Kinds
  <2>5. Conserved'
    BY <1>1, <1>3, <1>10, <1>14, <2>4, ConservedSame DEF Upcoming
  <2> QED BY <2>4, <2>5 DEF HostInv
<1>15. CASE Execute
  <2>1. ~Known /\ ReadEventFast
    BY <1>15 DEF Execute
  <2>2. CASE prefetch.active
    BY <1>11, <2>1, <2>2 DEF ReadEventFast
  <2>3. CASE ~prefetch.active /\ buffers.curr # Empty
    BY <1>13, <2>1, <2>3 DEF ReadEventFast, Urgent
  <2>4. CASE ~prefetch.active /\ buffers.curr = Empty
    BY <1>14, <2>1, <2>4 DEF ReadEventFast
  <2> QED BY <2>2, <2>3, <2>4
<1> QED BY <1>7, <1>9, <1>15 DEF RxDone

\* The packet is out and nobody is to answer: the receiver starts anew or waits
\* for the wake line.
LEMMA TxCompletedIs ==
  ASSUME Shapes, NEW clear \in BOOLEAN, NEW restart \in BOOLEAN,
         rx' = TxCompleted(clear, restart)
  PROVE  /\ rx' \in [armed : BOOLEAN, idle : BOOLEAN, wake : BOOLEAN, write : BOOLEAN,
                     restart : BOOLEAN, busy : BOOLEAN, complete : BOOLEAN]
         /\ Receiver'
<1> DEFINE complete1 == restart \/ (rx.complete /\ ~clear /\ rx.wake)
           idle1 == ~restart
<1>1. rx \in [armed : BOOLEAN, idle : BOOLEAN, wake : BOOLEAN, write : BOOLEAN,
              restart : BOOLEAN, busy : BOOLEAN, complete : BOOLEAN]
  BY DEF Shapes
<1>2. rx' = [rx EXCEPT !.complete = complete1, !.write = FALSE, !.restart = FALSE,
                       !.armed = restart, !.idle = idle1]
  BY DEF TxCompleted
<1>3. complete1 \in BOOLEAN /\ idle1 \in BOOLEAN /\ ~(restart /\ idle1)
  BY <1>1
<1> HIDE DEF complete1, idle1
<1>4. /\ rx' \in [armed : BOOLEAN, idle : BOOLEAN, wake : BOOLEAN, write : BOOLEAN,
                  restart : BOOLEAN, busy : BOOLEAN, complete : BOOLEAN]
      /\ ~rx'.write /\ rx'.armed = restart /\ rx'.idle = idle1
  BY <1>1, <1>2, <1>3
<1> QED BY <1>3, <1>4 DEF Receiver

\* The host takes the response: it is the one that is outstanding.
LEMMA AcceptedStep ==
  ASSUME HostInv, air # None, air' = None, Accepts, PayloadDone,
         got' = Cat(got, air.packet.data),
         host' = [at |-> "done", seq |-> 3 - host.seq, open |-> FALSE],
         UNCHANGED <<outQ, buffers, prefetch, main, req, added>>
  PROVE  HostInv'
<1>1. Shapes /\ Exchange /\ Conserved
  BY DEF HostInv
<1>2. /\ outQ \in Blocks /\ got \in Blocks /\ Upcoming \in Blocks
      /\ tx \in [seq : {0} \cup Seqs, cmd : BOOLEAN, buf : Packets, size : Kinds]
      /\ buffers \in [curr : Blocks, next : Blocks, wake : Nat]
      /\ rx.restart \in BOOLEAN
  BY <1>1, Cats DEF Shapes, Upcoming
<1>3. UNCHANGED <<tx, defers>> /\ rx' = TxCompleted(TRUE, rx.restart)
  BY DEF PayloadDone
<1>4. /\ rx' \in [armed : BOOLEAN, idle : BOOLEAN, wake : BOOLEAN, write : BOOLEAN,
                  restart : BOOLEAN, busy : BOOLEAN, complete : BOOLEAN]
      /\ Receiver'
  BY <1>1, <1>2, <1>3, TxCompletedIs
<1>5. ~prefetch.tx /\ ~Deferred /\ Single(defers)
  BY <1>1 DEF Exchange, OneSide
<1>6. /\ host.seq \in {1, 2} /\ 3 - host.seq \in Seqs /\ 3 - host.seq # host.seq
      /\ host' \in [at : {"off", "waking", "sent", "done"}, seq : Seqs, open : BOOLEAN]
      /\ host'.seq = 3 - host.seq /\ ~host'.open /\ host'.at = "done"
  <2>1. host.seq \in {1, 2}
    BY <1>1 DEF Shapes, Seqs
  <2>2. 3 - host.seq \in Seqs /\ 3 - host.seq # host.seq
    BY <2>1 DEF Seqs
  <2> QED BY <2>1, <2>2
<1>7. /\ air.packet = tx.buf /\ tx.seq = tx.buf.seq /\ tx.buf.seq = host.seq
      /\ tx.buf.kind = "payload" /\ host.open
  BY <1>1 DEF Exchange, OnAir, Sequence, Accepts
<1>8. tx.buf.data \in Blocks
  <2>1. tx.buf \in Packets
    BY <1>2
  <2> QED BY <2>1 DEF Packets
<1>9. got' = Cat(got, tx.buf.data) /\ got' \in Blocks
  <2>1. got' = Cat(got, tx.buf.data)
    BY <1>7
  <2>2. Cat(got, tx.buf.data) \in Blocks
    BY <1>2, <1>8, Cats
  <2> QED BY <2>1, <2>2
<1>10. Shapes'
  BY <1>1, <1>3, <1>4, <1>6, <1>9 DEF Shapes
<1>11. Deferred' = Deferred
  BY <1>3 DEF Deferred
<1>12. OneSide'
  BY <1>3, <1>5, <1>11 DEF OneSide
<1>13. Sequence'
  <2>1. req = 0 \/ req = host.seq
    BY <1>1 DEF Exchange, Sequence
  <2>2. 3 - host.seq # 0
    BY <1>6 DEF Seqs
  <2>3. tx'.seq = tx.seq /\ tx'.buf = tx.buf /\ req' = req
    BY <1>3
  <2>4. ~Answered'
    BY <1>6, <1>7, <2>3 DEF Answered
  <2> QED BY <1>5, <1>6, <1>7, <1>11, <2>1, <2>2, <2>3, <2>4 DEF Sequence
<1>14. OnAir' /\ Kept'
  BY <1>1, <1>3 DEF Exchange, OnAir, Kept
<1>15. Conserved'
  <2>1. Outstanding = tx.buf.data /\ Outstanding' = Empty
    BY <1>6, <1>7 DEF Outstanding
  <2>2. Whole(got, Outstanding, buffers.curr, Upcoming, outQ) = added
    BY <1>1, ConservedIs
  <2>3. Cat(got', Empty) = got'
    BY <1>9, Cats
  <2>4. Upcoming' = Upcoming /\ buffers'.curr = buffers.curr
    BY DEF Upcoming
  <2>5. Whole(got', Outstanding', buffers'.curr, Upcoming', outQ') = added'
    BY <1>9, <2>1, <2>2, <2>3, <2>4 DEF Whole
  <2>6. ConservedIs'
    BY ConservedIs, PTL
  <2> QED BY <2>5, <2>6
<1> QED BY <1>4, <1>10, <1>12, <1>13, <1>14, <1>15 DEF HostInv, Exchange

\* The packet is lost, or nothing that the host takes.
LEMMA SentStep ==
  ASSUME HostInv, air # None, air' = None,
         Done \/ (air.done = "ack" /\ NotDeferred) \/ AckError,
         UNCHANGED <<got, host, outQ, buffers, prefetch, main, req, added>>
  PROVE  HostInv'
<1>1. Shapes /\ Exchange /\ Conserved
  BY DEF HostInv
<1>2. /\ tx \in [seq : {0} \cup Seqs, cmd : BOOLEAN, buf : Packets, size : Kinds]
      /\ defers \in Seq({"prefetch", "response"})
      /\ rx.restart \in BOOLEAN /\ host.seq # 0
  BY <1>1 DEF Shapes, Seqs
<1>3. /\ ~prefetch.tx /\ ~Deferred /\ Single(defers) /\ rx.write
      /\ (req = 0 \/ req = host.seq)
  BY <1>1 DEF Exchange, OneSide, Sequence
<1>4. OnAir'
  BY DEF OnAir
<1>5. ASSUME UNCHANGED <<tx, defers>>, NEW clear \in BOOLEAN, NEW restart \in BOOLEAN,
             rx' = TxCompleted(clear, restart)
      PROVE  HostInv'
  <2>1. /\ rx' \in [armed : BOOLEAN, idle : BOOLEAN, wake : BOOLEAN, write : BOOLEAN,
                    restart : BOOLEAN, busy : BOOLEAN, complete : BOOLEAN]
        /\ Receiver'
    BY <1>1, <1>2, <1>5, TxCompletedIs
  <2>2. Shapes'
    BY <1>1, <1>5, <2>1 DEF Shapes
  <2>3. Deferred' = Deferred /\ Answered' = Answered
    BY <1>5 DEF Deferred, Answered
  <2>4. OneSide'
    BY <1>3, <1>5, <2>3 DEF OneSide
  <2>5. Sequence'
    BY <1>1, <1>3, <1>5, <2>3 DEF Exchange, Sequence
  <2>6. Kept'
    BY <1>1, <1>5 DEF Exchange, Kept
  <2>7. Conserved'
    BY <1>1, <1>5, OutstandingSame, ConservedSame DEF Upcoming
  <2> QED BY <1>4, <2>1, <2>2, <2>4, <2>5, <2>6, <2>7 DEF HostInv, Exchange
<1>6. ASSUME air.done = "ack", tx.cmd
      PROVE  Working /\ tx.buf.kind = "ack" /\ Outstanding = Empty
  <2>1. Working /\ tx.buf.kind = "ack"
    BY <1>1, <1>6 DEF Exchange, OnAir
  <2> QED BY <2>1 DEF Outstanding
<1>7. ASSUME air.done = "ack", tx.cmd, tx' = Forgotten, UNCHANGED defers,
             NEW restart \in BOOLEAN, rx' = TxCompleted(FALSE, restart)
      PROVE  HostInv'
  <2>1. /\ rx' \in [armed : BOOLEAN, idle : BOOLEAN, wake : BOOLEAN, write : BOOLEAN,
                    restart : BOOLEAN, busy : BOOLEAN, complete : BOOLEAN]
        /\ Receiver'
    BY <1>1, <1>7, TxCompletedIs
  <2>2. /\ tx' \in [seq : {0} \cup Seqs, cmd : BOOLEAN, buf : Packets, size : Kinds]
        /\ tx'.seq = 0 /\ tx'.buf = tx.buf
    BY <1>2, <1>7 DEF Forgotten
  <2>3. Shapes'
    BY <1>1, <1>7, <2>1, <2>2 DEF Shapes
  <2>4. Deferred' = Deferred
    BY <1>7 DEF Deferred
  <2>5. OneSide'
    BY <1>3, <1>7, <2>4 DEF OneSide
  <2>6. ~Answered'
    BY <1>6, <1>7, <2>2 DEF Answered
  <2>7. Sequence'
    BY <1>1, <1>2, <1>3, <2>2, <2>4, <2>6 DEF Exchange, Sequence
  <2>8. Kept'
    BY <2>2 DEF Kept
  <2>9. Outstanding' = Outstanding
    BY <1>2, <1>6, <1>7, <2>2 DEF Outstanding
  <2>10. Conserved'
    BY <1>1, <2>9, ConservedSame DEF Upcoming
  <2> QED BY <1>4, <2>1, <2>3, <2>5, <2>7, <2>8, <2>10 DEF HostInv, Exchange
<1>8. ASSUME air.done = "ack", tx.cmd, UNCHANGED <<tx, rx>>, defers' = <<"response">> \o defers
      PROVE  HostInv'
  <2>1. defers' \in Seq({"prefetch", "response"}) /\ Single(defers')
    BY <1>2, <1>3, <1>8, Defers DEF Deferred
  <2>2. Shapes' /\ Receiver'
    BY <1>1, <1>8, <2>1 DEF Shapes, Exchange, Receiver
  <2>3. OneSide'
    BY <1>3, <1>8, <2>1 DEF OneSide
  <2>4. Answered' = Answered /\ Working' = Working
    BY <1>8 DEF Answered, Working
  <2>5. Working' /\ tx'.buf.kind = "ack"
    BY <1>6, <1>8, <2>4
  <2>6. Sequence'
    BY <1>1, <1>3, <1>8, <2>4, <2>5 DEF Exchange, Sequence
  <2>7. Kept'
    BY <1>1, <1>8 DEF Exchange, Kept
  <2>8. Conserved'
    BY <1>1, <1>8, OutstandingSame, ConservedSame DEF Upcoming
  <2> QED BY <1>4, <2>2, <2>3, <2>6, <2>7, <2>8 DEF HostInv, Exchange
<1>9. CASE air.done = "ack" /\ Acknowledged
  <2>1. CASE ~tx.cmd
    BY <1>2, <1>5, <1>9, <2>1 DEF Acknowledged
  <2>2. CASE tx.cmd /\ rx.restart
    BY <1>7, <1>9, <2>2 DEF Acknowledged
  <2>3. CASE tx.cmd /\ ~rx.restart
    BY <1>8, <1>9, <2>3 DEF Acknowledged, Urgent
  <2> QED BY <2>1, <2>2, <2>3
<1>10. CASE air.done = "ack" /\ NotDeferred
  BY <1>7, <1>10 DEF NotDeferred
<1>11. CASE air.done # "ack" /\ PayloadDone
  BY <1>2, <1>5, <1>11 DEF PayloadDone
<1>12. CASE AckError
  BY <1>5, <1>12 DEF AckError
<1> QED BY <1>9, <1>10, <1>11, <1>12 DEF Done

LEMMA TxDoneStep ==
  ASSUME HostInv, TxDone
  PROVE  HostInv'
<1>1. /\ air # None /\ air' = None
      /\ UNCHANGED <<outQ, buffers, prefetch, intr, main, req, added>>
  BY DEF TxDone
<1>2. CASE Done /\ Accepts /\ got' = got \o air.packet.data
           /\ host' = [at |-> "done", seq |-> 3 - host.seq, open |-> FALSE]
  <2>1. air.done = "payload"
    BY <1>1, <1>2 DEF HostInv, Exchange, OnAir, Accepts
  <2>2. PayloadDone
    BY <1>2, <2>1 DEF Done
  <2>3. got' = Cat(got, air.packet.data)
    BY <1>2 DEF Cat
  <2> QED BY <1>1, <1>2, <2>2, <2>3, AcceptedStep
<1>3. CASE /\ Done \/ (air.done = "ack" /\ NotDeferred) \/ AckError
           /\ UNCHANGED <<got, host>>
  BY <1>1, <1>3, SentStep
<1> QED BY <1>2, <1>3 DEF TxDone

LEMMA NextInv == HostInv /\ [Next]_vars => HostInv'
<1> SUFFICES ASSUME HostInv, [Next]_vars PROVE HostInv'
  OBVIOUS
<1>1. CASE Next
  <2>1. CASE Add(TRUE) \/ Add(FALSE)
    BY <2>1, AddStep
  <2>2. CASE MainLoop
    BY <2>2, MovingSteps, AnswerStep, PrefetchDeferStep, GenerateResponseStep, BusyStep
       DEF MainLoop
  <2> QED BY <1>1, <2>1, <2>2, BusyStep, RxDoneStep, TxDoneStep, HostSteps DEF Next
<1>2. CASE UNCHANGED vars
  <2>1. Shapes' /\ Exchange'
    BY <1>2 DEF vars, HostInv, Exchange, Shapes, Receiver, OneSide, Sequence, OnAir, Kept,
                Deferred, Working, Answered
  <2>2. Conserved'
    BY <1>2 DEF vars, HostInv, Conserved, Outstanding
  <2> QED BY <2>1, <2>2 DEF HostInv
<1> QED BY <1>1, <1>2

LEMMA Invariance == Spec => []HostInv
BY InitInv, NextInv, PTL DEF Spec

\* Exactly one side answers a request: hostIntfTxAck, hostIntfTxPayload and the
\* deferred response never run into one another (hostIntf.c).
THEOREM OneSideAnswers == Spec => []OneAnswer
<1>1. HostInv => OneAnswer
  BY DEF HostInv, Exchange, OneSide, Receiver, Single, Has, Deferred, OneAnswer
<1> QED BY <1>1, Invariance, PTL

\* No block is lost, sent twice or out of order on its way to the host.
THEOREM BlocksAreConserved == Spec => []Conserved
<1>1. HostInv => Conserved
  BY DEF HostInv
<1> QED BY <1>1, Invariance, PTL
=============================================================================
