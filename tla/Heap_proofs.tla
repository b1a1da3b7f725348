------------------------------ MODULE Heap_proofs ------------------------------
(***************************************************************************)
(* Proofs about Heap, for a heap, headers and requests of any size.        *)
(***************************************************************************)
EXTENDS Heap, TLAPS

\* No request is so close to 2^32 that rounding it up wraps around.
NoWrap == \A n \in Sizes : n + Align <= Word

\* Where the call under way is.
OpOK ==
  /\ op.do \in {"merge", "back", "forward"} => op.at \in nodes
  /\ op.do \in {"back", "forward"} => ~used[op.at]
  /\ op.do \in {"merge", "fit"} => op.sz \in Sizes /\ op.tid \in Tids

HeapInv == TypeOK /\ ChainOK /\ OpOK /\ LiveIntact

-----------------------------------------------------------------------------
LEMMA AddrFacts ==
  /\ Start \in Addr /\ NULL \notin Addr /\ 0 \notin Tids
  /\ \A a \in Addr : a \in Nat /\ a >= Start /\ a + Hdr <= End
  /\ \A a \in Nat : a >= Start /\ a + Hdr <= End => a \in Addr
  /\ Hdr \in Nat /\ Hdr > 0 /\ End \in Nat /\ Start \in Nat /\ Tids \subseteq Nat
BY HeapAssumption DEF Addr, End, NULL

\* Rounding up does not round down, unless it wraps.
LEMMA RoundUp ==
  ASSUME NEW n \in Sizes
  PROVE  Round(n) \in Nat /\ (NoWrap => n <= Round(n))
<1> DEFINE m == (n + Align - 1) % Word
<1>1. n \in Nat /\ Align \in Nat /\ Align > 0 /\ Word \in Nat /\ Word > 0
  BY HeapAssumption
<1>2. NoWrap => m = n + Align - 1
  BY <1>1 DEF NoWrap
<1>3. m \in Nat
  BY <1>1
<1> HIDE DEF m
<1>4. m \div Align \in Nat /\ (m \div Align) * Align \in Nat
  BY <1>1, <1>3
<1>5. (m \div Align) * Align > m - Align
  BY <1>1, <1>3
<1>6. NoWrap => n <= (m \div Align) * Align
  BY <1>1, <1>2, <1>4, <1>5
<1> QED BY <1>4, <1>6 DEF Round, m

\* Facts about any node of a chain.
LEMMA NodeFacts ==
  ASSUME TypeOK, ChainOK, NEW a \in nodes
  PROVE  /\ a \in Addr /\ a \in Nat /\ size[a] \in Nat /\ After(a) \in Nat
         /\ a + Hdr <= After(a) /\ After(a) <= End /\ After(a) > a
         /\ a # tail => /\ After(a) \in nodes /\ After(a) \in Addr
                        /\ prev[After(a)] = a /\ After(a) # Start /\ After(a) # a
         /\ a = tail => After(a) = End
<1>1. a \in Addr /\ a \in Nat /\ size[a] \in Nat /\ a >= Start
  BY AddrFacts DEF TypeOK
<1>2. After(a) \in Nat /\ a + Hdr <= After(a) /\ After(a) > a
  BY <1>1, AddrFacts DEF After
<1>3. CASE a = tail
  BY <1>1, <1>2, <1>3, AddrFacts DEF ChainOK
<1>4. CASE a # tail
  <2>1. After(a) \in nodes /\ prev[After(a)] = a
    BY <1>4 DEF ChainOK
  <2>2. After(a) \in Addr
    BY <2>1 DEF TypeOK
  <2>3. After(a) <= End
    BY <1>2, <2>2, AddrFacts
  <2> QED BY <1>1, <1>2, <1>4, <2>1, <2>2, <2>3
<1> QED BY <1>3, <1>4

\* Absorb keeps the chain, and no other chunk notices.
LEMMA AbsorbKeepsChain ==
  ASSUME TypeOK, ChainOK, NEW a \in nodes, FreeAfter(a), Absorb(a)
  PROVE  /\ UNCHANGED <<needMerge, op, live>> => TypeOK'
         /\ ChainOK'
         /\ After(a) \in nodes /\ ~used[After(a)] /\ nodes' = nodes \ {After(a)}
         /\ \A c \in nodes' : size'[c] >= size[c] /\ tidx'[c] = tidx[c]
<1> DEFINE b == After(a)
<1>1. /\ a # tail /\ ~used[b] /\ b \in nodes /\ b # a /\ a < b /\ b # Start
      /\ a \in Addr /\ b \in Addr /\ a \in Nat /\ b \in Nat /\ prev[b] = a
      /\ size[a] \in Nat /\ size[b] \in Nat
  BY NodeFacts DEF FreeAfter
<1>2. /\ nodes' = nodes \ {b}
      /\ size' = [size EXCEPT ![a] = size[a] + Hdr + size[b], ![b] = 0]
      /\ prev' = IF b = tail THEN [prev EXCEPT ![b] = NULL]
                 ELSE [prev EXCEPT ![b] = NULL, ![After(b)] = a]
      /\ tail' = IF b = tail THEN a ELSE tail
      /\ tidx' = [tidx EXCEPT ![b] = 0]
      /\ used' = used
  BY DEF Absorb
<1>3. b # tail => After(b) \in nodes /\ After(b) \in Addr /\ After(b) # a /\ After(b) # b
  BY <1>1, NodeFacts
<1>4. /\ \A c \in Addr : size'[c] = IF c = b THEN 0
                                   ELSE IF c = a THEN size[a] + Hdr + size[b] ELSE size[c]
      /\ \A c \in Addr : prev'[c] = IF b # tail /\ c = After(b) THEN a
                                   ELSE IF c = b THEN NULL ELSE prev[c]
      /\ \A c \in Addr : tidx'[c] = IF c = b THEN 0 ELSE tidx[c]
  BY <1>1, <1>2, <1>3 DEF TypeOK
<1>5. \A c \in nodes' : After(c)' = IF c = a THEN After(b) ELSE After(c)
  BY <1>1, <1>2, <1>4, AddrFacts DEF After, TypeOK
<1>6. ASSUME UNCHANGED <<needMerge, op, live>> PROVE TypeOK'
  <2>1. nodes' \in SUBSET Addr /\ tail' \in Addr
    BY <1>1, <1>2 DEF TypeOK
  <2>2. size' \in [Addr -> Nat] /\ prev' \in [Addr -> Addr \cup {NULL}]
    BY <1>1, <1>2, <1>3, AddrFacts DEF TypeOK
  <2>3. tidx' \in [Addr -> Tids \cup {0}] /\ used' \in [Addr -> BOOLEAN]
    BY <1>1, <1>2 DEF TypeOK
  <2> QED BY <1>6, <2>1, <2>2, <2>3 DEF TypeOK
<1>7. ChainOK'
  <2>0. b # tail => After(b) # Start /\ prev[After(b)] = b
    BY <1>1, NodeFacts
  <2>1. Start \in nodes' /\ tail' \in nodes' /\ prev'[Start] = NULL
    <3>1. Start \in nodes /\ tail \in nodes /\ prev[Start] = NULL
      BY DEF ChainOK
    <3>2. prev'[Start] = NULL
      BY <1>1, <1>4, <2>0, <3>1, AddrFacts
    <3> QED BY <1>1, <1>2, <3>1, <3>2
  <2>2. ASSUME NEW c \in nodes', c # Start
        PROVE  prev'[c] \in nodes' /\ prev'[c] # tail' /\ After(prev[c])' = c
    <3>1. /\ c \in nodes /\ c # b /\ c \in Addr
          /\ prev[c] \in nodes /\ prev[c] # tail /\ After(prev[c]) = c
      BY <1>2, <2>2 DEF ChainOK, TypeOK
    <3>2. CASE b # tail /\ c = After(b)
      <4>1. prev'[c] = a /\ tail' = tail
        BY <1>2, <1>4, <3>1, <3>2
      <4>2. a \in nodes' /\ a # tail'
        BY <1>1, <1>2, <4>1
      <4>3. \A x \in nodes' : x = a => x + Hdr + size'[x] = c
        BY <1>5, <3>2 DEF After
      <4>4. a + Hdr + size'[a] = c
        BY <4>2, <4>3
      <4>5. After(prev[c])' = prev'[c] + Hdr + size'[prev'[c]]
        BY DEF After
      <4> QED BY <4>1, <4>2, <4>4, <4>5
    <3>3. CASE ~(b # tail /\ c = After(b))
      <4>1. prev'[c] = prev[c]
        BY <1>4, <3>1, <3>3
      <4>2. prev[c] # b /\ prev[c] # a
        BY <3>1, <3>3
      <4>3. prev[c] \in nodes' /\ prev[c] # tail'
        BY <1>2, <3>1, <4>2
      <4>4. \A x \in nodes' : x = prev[c] => After(x)' = After(x)
        BY <1>5, <4>2
      <4> QED BY <3>1, <4>1, <4>3, <4>4 DEF After
    <3> QED BY <3>2, <3>3
  <2>3. ASSUME NEW c \in nodes'
        PROVE  IF c = tail' THEN After(c)' = End
               ELSE After(c)' \in nodes' /\ (prev[After(c)])' = c
    <3>1. c \in nodes /\ c # b
      BY <1>2
    <3>2. CASE c = a
      <4>1. After(c)' = After(b) /\ (b = tail => After(b) = End)
        BY <1>1, <1>5, <3>2, NodeFacts
      <4>2. b # tail => prev'[After(b)] = a /\ After(b) \in nodes' /\ tail' = tail
        BY <1>2, <1>3, <1>4
      <4> QED BY <1>1, <1>2, <3>2, <4>1, <4>2
    <3>3. CASE c # a
      <4>1. After(c)' = After(c) /\ (c = tail' <=> c = tail)
        BY <1>2, <1>5, <3>1, <3>3
      <4>2. c = tail => After(c) = End
        BY <3>1 DEF ChainOK
      <4>3. c # tail => /\ After(c) \in nodes /\ After(c) \in Addr
                        /\ prev[After(c)] = c
        BY <3>1, NodeFacts
      <4>4. c # tail => /\ After(c) # b /\ (b # tail => After(c) # After(b))
        BY <1>1, <2>0, <3>1, <3>3, <4>3
      <4>5. c # tail => prev'[After(c)] = c /\ After(c) \in nodes'
        BY <1>2, <1>4, <4>3, <4>4
      <4> QED BY <4>1, <4>2, <4>5
    <3> QED BY <3>2, <3>3
  <2>4. ASSUME NEW c \in nodes', NEW d \in nodes', c < d
        PROVE  After(c)' <= d
    <3>1. c \in nodes /\ d \in nodes /\ d # b /\ After(c) <= d /\ d \in Nat
      BY <1>2, <2>4, AddrFacts DEF ChainOK, TypeOK
    <3>2. CASE c = a
      <4>1. b < d
        BY <1>1, <3>1, <3>2
      <4>2. After(b) <= d
        BY <1>1, <3>1, <4>1 DEF ChainOK
      <4> QED BY <1>5, <3>2, <4>2
    <3> QED BY <1>5, <3>1, <3>2
  <2> QED BY <2>1, <2>2, <2>3, <2>4 DEF ChainOK
<1>8. \A c \in nodes' : size'[c] >= size[c] /\ tidx'[c] = tidx[c]
  <2>1. \A c \in nodes' : c \in Addr /\ c # b /\ size[c] \in Nat
    BY <1>2 DEF TypeOK
  <2>2. size[a] + Hdr + size[b] >= size[a]
    BY <1>1, AddrFacts
  <2>3. \A c \in nodes' : size'[c] = IF c = a THEN size[a] + Hdr + size[b] ELSE size[c]
    BY <1>4, <2>1
  <2>4. \A c \in nodes' : tidx'[c] = tidx[c]
    BY <1>4, <2>1
  <2> QED BY <2>1, <2>2, <2>3, <2>4
<1> QED BY <1>1, <1>2, <1>6, <1>7, <1>8

\* Splitting a chunk keeps the chain: the new header lies inside the chunk.
LEMMA SplitKeepsChain ==
  ASSUME TypeOK, ChainOK, NEW a \in nodes, NEW n \in Nat, SplitPays(a, n),
         NEW s, s = a + Hdr + n,
         nodes' = nodes \cup {s},
         size' = [size EXCEPT ![a] = n, ![s] = size[a] - n - Hdr],
         prev' = IF a = tail THEN [prev EXCEPT ![s] = a]
                 ELSE [prev EXCEPT ![s] = a, ![After(a)] = s],
         tail' = IF a = tail THEN s ELSE tail
  PROVE  /\ s \in Addr /\ s \notin nodes /\ ChainOK'
         /\ size' \in [Addr -> Nat] /\ prev' \in [Addr -> Addr \cup {NULL}]
         /\ \A c \in Addr : size'[c] = IF c = s THEN size[a] - n - Hdr
                                      ELSE IF c = a THEN n ELSE size[c]
<1> DEFINE z == After(a)
<1>1. /\ a \in Addr /\ a \in Nat /\ size[a] \in Nat /\ z \in Nat /\ z <= End
      /\ z = a + Hdr + size[a] /\ a >= Start /\ Start \in Nat /\ Hdr \in Nat /\ Hdr > 0
  BY NodeFacts, AddrFacts DEF After
<1>2. s \in Nat /\ a < s /\ s + Hdr < z /\ size[a] - n - Hdr \in Nat
  BY <1>1 DEF SplitPays
<1>3. s \in Addr /\ s # a
  BY <1>1, <1>2, AddrFacts
<1>4. s \notin nodes
  <2>1. SUFFICES ASSUME s \in nodes PROVE FALSE
    OBVIOUS
  <2>2. z <= s
    BY <1>2, <2>1 DEF ChainOK
  <2> QED BY <1>1, <1>2, <2>2
<1>5. a # tail => /\ z \in nodes /\ z \in Addr /\ prev[z] = a /\ z # a /\ z # s /\ z # Start
  BY <1>1, <1>2, NodeFacts
<1>6. /\ \A c \in Addr : size'[c] = IF c = s THEN size[a] - n - Hdr
                                   ELSE IF c = a THEN n ELSE size[c]
      /\ \A c \in Addr : prev'[c] = IF a # tail /\ c = z THEN s
                                   ELSE IF c = s THEN a ELSE prev[c]
  BY <1>1, <1>3, <1>5 DEF TypeOK
<1>7. size' \in [Addr -> Nat] /\ prev' \in [Addr -> Addr \cup {NULL}]
  BY <1>1, <1>2, <1>3, <1>5 DEF TypeOK
<1>8. \A c \in nodes' : c \in Nat /\ c \in Addr
  BY <1>3, AddrFacts DEF TypeOK
<1>9. \A c \in nodes' : c + Hdr + size'[c] = IF c = a THEN s ELSE IF c = s THEN z ELSE After(c)
  <2>1. s + Hdr + (size[a] - n - Hdr) = z
    BY <1>1, <1>2
  <2>2. size'[a] = n /\ size'[s] = size[a] - n - Hdr
    BY <1>1, <1>3, <1>6
  <2>3. ASSUME NEW c \in nodes', c # a, c # s PROVE c + Hdr + size'[c] = After(c)
    BY <1>6, <1>8, <2>3 DEF After
  <2>4. a + Hdr + size'[a] = s /\ s + Hdr + size'[s] = z
    BY <2>1, <2>2
  <2> SUFFICES ASSUME NEW c \in nodes'
               PROVE  c + Hdr + size'[c] = IF c = a THEN s ELSE IF c = s THEN z ELSE After(c)
    OBVIOUS
  <2>5. CASE c = a
    BY <2>4, <2>5
  <2>6. CASE c # a /\ c = s
    BY <2>4, <2>6
  <2>7. CASE c # a /\ c # s
    BY <2>3, <2>7
  <2> QED BY <2>5, <2>6, <2>7
<1>10. \A c \in nodes' : After(c)' = IF c = a THEN s ELSE IF c = s THEN z ELSE After(c)
  BY <1>9 DEF After
<1>11. ChainOK'
  <2>1. Start \in nodes' /\ tail' \in nodes' /\ prev'[Start] = NULL
    <3>1. Start \in nodes /\ tail \in nodes /\ prev[Start] = NULL
      BY DEF ChainOK
    <3>2. prev'[Start] = NULL
      BY <1>1, <1>2, <1>4, <1>5, <1>6, <3>1, AddrFacts
    <3> QED BY <3>1, <3>2
  <2>2. ASSUME NEW c \in nodes', c # Start
        PROVE  prev'[c] \in nodes' /\ prev'[c] # tail' /\ After(prev[c])' = c
    <3>1. After(prev[c])' = prev'[c] + Hdr + size'[prev'[c]]
      BY DEF After
    <3>2. CASE c = s
      <4>1. prev'[c] = a /\ a # tail' /\ a \in nodes'
        BY <1>3, <1>4, <1>5, <1>6, <3>2
      <4>2. a + Hdr + size'[a] = s
        BY <1>9, <4>1
      <4> QED BY <3>1, <3>2, <4>1, <4>2
    <3>3. CASE a # tail /\ c = z
      <4>1. prev'[c] = s /\ s # tail' /\ s \in nodes'
        BY <1>4, <1>5, <1>6, <3>3 DEF ChainOK
      <4>2. s + Hdr + size'[s] = z
        BY <1>3, <1>9, <4>1
      <4> QED BY <3>1, <3>3, <4>1, <4>2
    <3>4. CASE c # s /\ ~(a # tail /\ c = z)
      <4>1. c \in nodes /\ c \in Addr /\ prev'[c] = prev[c]
        BY <1>6, <1>8, <3>4
      <4>2. prev[c] \in nodes /\ prev[c] # tail /\ After(prev[c]) = c
        BY <2>2, <4>1 DEF ChainOK
      <4>3. prev[c] # a /\ prev[c] # s /\ prev[c] # tail'
        BY <1>4, <3>4, <4>2
      <4>4. prev[c] + Hdr + size'[prev[c]] = c /\ prev[c] \in nodes'
        BY <1>9, <4>2, <4>3
      <4> QED BY <3>1, <4>1, <4>3, <4>4
    <3> QED BY <3>2, <3>3, <3>4
  <2>3. ASSUME NEW c \in nodes'
        PROVE  IF c = tail' THEN After(c)' = End
               ELSE After(c)' \in nodes' /\ (prev[After(c)])' = c
    <3>1. CASE c = a
      BY <1>3, <1>4, <1>5, <1>6, <1>10, <3>1
    <3>2. CASE c = s
      <4>1. a = tail => z = End
        BY NodeFacts
      <4>2. After(c)' = z
        BY <1>3, <1>10, <3>2
      <4>3. s = tail' <=> a = tail
        BY <1>4 DEF ChainOK
      <4> QED BY <1>5, <1>6, <3>2, <4>1, <4>2, <4>3
    <3>3. CASE c # a /\ c # s
      <4>1. c \in nodes /\ After(c)' = After(c) /\ (c = tail' <=> c = tail)
        BY <1>10, <3>3
      <4>2. c = tail => After(c) = End
        BY <4>1, NodeFacts
      <4>3. c # tail => After(c) \in nodes /\ After(c) \in Addr /\ prev[After(c)] = c
        BY <4>1, NodeFacts
      <4>4. c # tail => After(c) # s /\ (a # tail => After(c) # z)
        BY <1>4, <1>5, <3>3, <4>3
      <4>5. c # tail => prev'[After(c)] = c
        BY <1>6, <4>3, <4>4
      <4> QED BY <4>1, <4>2, <4>3, <4>5
    <3> QED BY <3>1, <3>2, <3>3
  <2>4. ASSUME NEW c \in nodes', NEW d \in nodes', c < d
        PROVE  After(c)' <= d
    <3>1. c \in Nat /\ d \in Nat
      BY <1>8
    <3>2. \A e \in nodes : a < e => z <= e
      BY DEF ChainOK
    <3>3. CASE c = a
      <4>1. s <= d
        BY <1>1, <1>2, <2>4, <3>1, <3>2, <3>3
      <4> QED BY <1>10, <3>3, <4>1
    <3>4. CASE c = s
      <4>1. d \in nodes /\ a < d
        BY <1>1, <1>2, <2>4, <3>1, <3>4
      <4> QED BY <1>3, <1>10, <3>2, <3>4, <4>1
    <3>5. CASE c # a /\ c # s /\ d = s
      <4>1. c \in nodes /\ c < a
        BY <1>1, <1>2, <2>4, <3>1, <3>2, <3>5
      <4>2. After(c) <= a /\ After(c) \in Nat
        BY <4>1, NodeFacts DEF ChainOK
      <4> QED BY <1>1, <1>2, <1>10, <3>5, <4>2
    <3>6. CASE c # a /\ c # s /\ d # s
      <4>1. c \in nodes /\ d \in nodes
        BY <3>6
      <4>2. After(c) <= d
        BY <2>4, <4>1 DEF ChainOK
      <4> QED BY <1>10, <3>6, <4>2
    <3> QED BY <3>3, <3>4, <3>5, <3>6
  <2> QED BY <2>1, <2>2, <2>3, <2>4 DEF ChainOK
<1> QED BY <1>3, <1>4, <1>6, <1>7, <1>11

-----------------------------------------------------------------------------
LEMMA HeapInit ==
  ASSUME Init
  PROVE  HeapInv
<1> USE AddrFacts
<1>1. TypeOK
  <2>1. HeapSize - Hdr \in Nat
    BY HeapAssumption
  <2>2. size \in [Addr -> Nat] /\ prev \in [Addr -> Addr \cup {NULL}]
    BY <2>1 DEF Init
  <2>3. used \in [Addr -> BOOLEAN] /\ tidx \in [Addr -> Tids \cup {0}]
    BY DEF Init
  <2>4. op \in [do : {"idle", "merge", "fit", "back", "forward"},
               at : Addr \cup {NULL}, sz : Sizes \cup {0}, tid : Tids \cup {0}]
    BY DEF Init, Idle
  <2> QED BY <2>2, <2>3, <2>4 DEF Init, TypeOK
<1>2. After(Start) = End
  BY HeapAssumption DEF Init, After, End
<1>3. ChainOK
  BY <1>2 DEF Init, ChainOK
<1>4. OpOK /\ LiveIntact
  BY DEF Init, OpOK, LiveIntact, Idle
<1> QED BY <1>1, <1>3, <1>4 DEF HeapInv

\* The three steps that merge: heapMergeFreeChunks's and heapFree's.
LEMMA AbsorbStep ==
  ASSUME HeapInv, MergeAbsorb \/ FreeForward
  PROVE  HeapInv'
<1>0. TypeOK /\ ChainOK /\ OpOK /\ LiveIntact
  BY DEF HeapInv
<1> DEFINE a == op.at
<1>1. /\ a \in nodes /\ ~used[a] /\ FreeAfter(a) /\ Absorb(a)
      /\ UNCHANGED <<needMerge, op, live, used>>
  BY <1>0 DEF MergeAbsorb, FreeForward, OpOK, Absorb
<1>2. /\ TypeOK' /\ ChainOK' /\ After(a) \in nodes /\ ~used[After(a)]
      /\ nodes' = nodes \ {After(a)}
      /\ \A c \in nodes' : size'[c] >= size[c] /\ tidx'[c] = tidx[c]
  BY <1>0, <1>1, AbsorbKeepsChain
<1>3. a # After(a)
  BY <1>0, <1>1, NodeFacts
<1>4. OpOK'
  BY <1>0, <1>1, <1>2, <1>3 DEF OpOK
<1>5. LiveIntact'
  <2>0. \A b \in live : b.at - Hdr \in nodes /\ used[b.at - Hdr] /\ b.len \in Nat
    BY <1>0, HeapAssumption DEF LiveIntact, TypeOK
  <2>1. \A b \in live : b.at - Hdr \in nodes' /\ b.len \in Nat /\ size[b.at - Hdr] \in Nat
    BY <1>0, <1>2, <2>0 DEF TypeOK
  <2>2. \A b \in live : /\ used'[b.at - Hdr] /\ tidx'[b.at - Hdr] = b.tid
                        /\ b.len <= size'[b.at - Hdr]
    BY <1>0, <1>1, <1>2, <2>1, AddrFacts DEF LiveIntact, TypeOK
  <2> QED BY <1>0, <1>1, <1>2, <2>1, <2>2 DEF LiveIntact
<1> QED BY <1>2, <1>4, <1>5 DEF HeapInv

LEMMA FitStep ==
  ASSUME NoWrap, HeapInv, NEW a \in nodes, Fit(a)
  PROVE  HeapInv'
<1>0. TypeOK /\ ChainOK /\ OpOK /\ LiveIntact
  BY DEF HeapInv
<1> DEFINE n == Round(op.sz)
           s == a + Hdr + n
<1>1. /\ op.sz \in Sizes /\ op.tid \in Tids /\ n \in Nat /\ op.sz <= n /\ op.sz \in Nat
  BY <1>0, RoundUp, HeapAssumption DEF Fit, OpOK
<1>2. /\ ~used[a] /\ size[a] >= n /\ a \in Addr /\ a \in Nat /\ size[a] \in Nat
  BY <1>0, NodeFacts DEF Fit, IsBest, Fits
<1>3. Handed(a) = [at |-> a + Hdr, len |-> op.sz, tid |-> op.tid] /\ Handed(a).at - Hdr = a
  BY <1>2, AddrFacts DEF Handed
<1>4. live' = live \cup {Handed(a)} /\ op' = Idle /\ needMerge' = needMerge
  BY DEF Fit
<1>5. \A b \in live : b.at # a + Hdr
  BY <1>0, <1>2, AddrFacts DEF LiveIntact, TypeOK
<1>6. /\ live' \subseteq [at : Nat, len : Sizes, tid : Tids]
      /\ op' = [do |-> "idle", at |-> NULL, sz |-> 0, tid |-> 0]
  BY <1>0, <1>1, <1>2, <1>3, <1>4, AddrFacts DEF TypeOK, Idle
<1>7. OpOK'
  BY <1>6 DEF OpOK
<1>8. CASE SplitPays(a, n)
  <2>1. /\ nodes' = nodes \cup {s}
        /\ size' = [size EXCEPT ![a] = n, ![s] = size[a] - n - Hdr]
        /\ prev' = IF a = tail THEN [prev EXCEPT ![s] = a]
                   ELSE [prev EXCEPT ![s] = a, ![After(a)] = s]
        /\ tail' = IF a = tail THEN s ELSE tail
        /\ used' = [used EXCEPT ![a] = TRUE, ![s] = FALSE]
        /\ tidx' = [tidx EXCEPT ![a] = op.tid, ![s] = 0]
    BY <1>8 DEF Fit
  <2>2. /\ s \in Addr /\ s \notin nodes /\ ChainOK'
        /\ size' \in [Addr -> Nat] /\ prev' \in [Addr -> Addr \cup {NULL}]
        /\ \A c \in Addr : size'[c] = IF c = s THEN size[a] - n - Hdr
                                     ELSE IF c = a THEN n ELSE size[c]
    BY <1>0, <1>1, <1>8, <2>1, SplitKeepsChain
  <2> HIDE DEF s, n
  <2>3. TypeOK'
    <3>1. nodes' \in SUBSET Addr /\ tail' \in Addr
      BY <1>0, <2>1, <2>2 DEF TypeOK
    <3>2. used' \in [Addr -> BOOLEAN]
      BY <1>0, <2>1 DEF TypeOK
    <3>3. tidx' \in [Addr -> Tids \cup {0}]
      BY <1>0, <1>1, <2>1 DEF TypeOK
    <3>4. op' \in [do : {"idle", "merge", "fit", "back", "forward"},
                  at : Addr \cup {NULL}, sz : Sizes \cup {0}, tid : Tids \cup {0}]
      BY <1>6
    <3> QED BY <1>0, <1>4, <1>6, <2>2, <3>1, <3>2, <3>3, <3>4 DEF TypeOK
  <2>4. a # s /\ used'[a] /\ tidx'[a] = op.tid /\ size'[a] = n /\ ~used'[s]
    BY <1>0, <1>2, <2>1, <2>2 DEF TypeOK
  <2>5. \A c \in nodes : c # a => /\ used'[c] = used[c] /\ tidx'[c] = tidx[c]
                                  /\ size'[c] = size[c]
    BY <1>0, <1>2, <2>1, <2>2 DEF TypeOK
  <2>6. LiveIntact'
    <3>1. ASSUME NEW b \in live'
          PROVE  LET c == b.at - Hdr
                 IN c \in nodes' /\ used'[c] /\ tidx'[c] = b.tid /\ b.len <= size'[c]
      <4>1. CASE b = Handed(a)
        BY <1>1, <1>3, <2>1, <2>4, <4>1
      <4>2. CASE b \in live
        <5>1. b.at - Hdr \in nodes /\ b.at - Hdr # a
          BY <1>0, <1>2, <4>2 DEF LiveIntact
        <5> QED BY <1>0, <2>1, <2>5, <4>2, <5>1 DEF LiveIntact
      <4> QED BY <1>4, <4>1, <4>2
    <3>2. ASSUME NEW c \in nodes', used'[c] PROVE \E b \in live' : b.at = c + Hdr
      <4>1. CASE c = a
        BY <1>3, <1>4, <4>1
      <4>2. CASE c # a
        <5>1. c \in nodes
          BY <2>1, <2>4, <3>2
        <5>2. used[c]
          BY <2>5, <3>2, <4>2, <5>1
        <5>3. \E b \in live : b.at = c + Hdr
          BY <1>0, <5>1, <5>2 DEF LiveIntact
        <5> QED BY <1>4, <5>3
      <4> QED BY <4>1, <4>2
    <3>3. \A b, c \in live' : b.at = c.at => b = c
      BY <1>0, <1>3, <1>4, <1>5 DEF LiveIntact
    <3> QED BY <3>1, <3>2, <3>3 DEF LiveIntact
  <2> QED BY <1>7, <2>2, <2>3, <2>6 DEF HeapInv
<1>9. CASE ~SplitPays(a, n)
  <2>1. /\ UNCHANGED <<nodes, size, prev, tail>>
        /\ used' = [used EXCEPT ![a] = TRUE]
        /\ tidx' = [tidx EXCEPT ![a] = op.tid]
    BY <1>9 DEF Fit
  <2> HIDE DEF n
  <2>2. TypeOK'
    BY <1>0, <1>1, <1>2, <1>4, <1>6, <2>1 DEF TypeOK
  <2>3. ChainOK'
    BY <1>0, <2>1 DEF ChainOK, After
  <2>4. used'[a] /\ tidx'[a] = op.tid
    BY <1>0, <1>2, <2>1 DEF TypeOK
  <2>5. \A c \in nodes : c # a => used'[c] = used[c] /\ tidx'[c] = tidx[c]
    BY <1>0, <2>1 DEF TypeOK
  <2>6. LiveIntact'
    BY <1>0, <1>1, <1>2, <1>3, <1>4, <1>5, <2>1, <2>4, <2>5 DEF LiveIntact
  <2> QED BY <1>7, <2>2, <2>3, <2>6 DEF HeapInv
<1> QED BY <1>8, <1>9

LEMMA FreeStep ==
  ASSUME HeapInv, NEW b \in live, Free(b)
  PROVE  HeapInv'
<1>0. TypeOK /\ ChainOK /\ OpOK /\ LiveIntact
  BY DEF HeapInv
<1> DEFINE a == b.at - Hdr
<1>1. a \in nodes /\ a \in Addr /\ a \in Nat /\ b.at \in Nat /\ b.at = a + Hdr
  BY <1>0, AddrFacts, NodeFacts DEF LiveIntact, TypeOK
<1>2. /\ used' = [used EXCEPT ![a] = FALSE] /\ tidx' = [tidx EXCEPT ![a] = 0]
      /\ op' = [do |-> "back", at |-> a, sz |-> 0, tid |-> 0]
      /\ live' = live \ {b} /\ UNCHANGED <<nodes, size, prev, tail, needMerge>>
  BY DEF Free, Idle
<1> HIDE DEF a
<1>3. TypeOK'
  <2>1. used' \in [Addr -> BOOLEAN] /\ tidx' \in [Addr -> Tids \cup {0}]
    BY <1>0, <1>2 DEF TypeOK
  <2>2. op' \in [do : {"idle", "merge", "fit", "back", "forward"},
                at : Addr \cup {NULL}, sz : Sizes \cup {0}, tid : Tids \cup {0}]
    BY <1>1, <1>2
  <2> QED BY <1>0, <1>2, <2>1, <2>2 DEF TypeOK
<1>4. ChainOK'
  BY <1>0, <1>2 DEF ChainOK, After
<1>5. OpOK'
  BY <1>0, <1>1, <1>2 DEF OpOK, TypeOK
<1>6. \A c \in live' : c \in live /\ c.at # b.at /\ c.at - Hdr # a
  <2>1. \A c \in live' : c \in live /\ c.at # b.at /\ c.at \in Nat
    BY <1>0, <1>2 DEF LiveIntact, TypeOK
  <2> QED BY <1>1, <2>1, AddrFacts
<1>7. \A c \in nodes : c # a => used'[c] = used[c] /\ tidx'[c] = tidx[c]
  BY <1>0, <1>2 DEF TypeOK
<1>8. LiveIntact'
  <2>1. ASSUME NEW c \in live'
        PROVE  LET d == c.at - Hdr
               IN d \in nodes' /\ used'[d] /\ tidx'[d] = c.tid /\ c.len <= size'[d]
    BY <1>0, <1>2, <1>6, <1>7 DEF LiveIntact
  <2>2. ASSUME NEW c \in nodes', used'[c] PROVE \E d \in live' : d.at = c + Hdr
    <3>1. c \in nodes /\ c # a /\ used[c]
      BY <1>0, <1>1, <1>2, <1>7, <2>2 DEF TypeOK
    <3>2. PICK d \in live : d.at = c + Hdr
      BY <1>0, <3>1 DEF LiveIntact
    <3>3. d # b
      BY <1>0, <1>1, <3>1, <3>2, AddrFacts, NodeFacts
    <3> QED BY <1>2, <3>2, <3>3
  <2>3. \A c, d \in live' : c.at = d.at => c = d
    BY <1>0, <1>2 DEF LiveIntact
  <2> QED BY <2>1, <2>2, <2>3 DEF LiveIntact
<1> QED BY <1>3, <1>4, <1>5, <1>8 DEF HeapInv

LEMMA FreeAllStep ==
  ASSUME HeapInv, NEW tid \in Tids, FreeAll(tid)
  PROVE  HeapInv'
<1>0. TypeOK /\ ChainOK /\ OpOK /\ LiveIntact
  BY DEF HeapInv
<1>1. /\ used' = [a \in Addr |-> used[a] /\ a \notin Owned(tid)]
      /\ tidx' = [a \in Addr |-> IF a \in Owned(tid) THEN 0 ELSE tidx[a]]
      /\ needMerge' = (Owned(tid) # {})
      /\ live' = {b \in live : b.tid # tid}
      /\ op = Idle /\ UNCHANGED <<nodes, size, prev, tail, op>>
  BY DEF FreeAll
<1>2. TypeOK'
  <2>1. used' \in [Addr -> BOOLEAN]
    BY <1>1
  <2>2. tidx' \in [Addr -> Tids \cup {0}]
    BY <1>0, <1>1 DEF TypeOK
  <2>3. live' \subseteq [at : Nat, len : Sizes, tid : Tids] /\ needMerge' \in BOOLEAN
    BY <1>0, <1>1 DEF TypeOK
  <2> QED BY <1>0, <1>1, <2>1, <2>2, <2>3 DEF TypeOK
<1>3. ChainOK'
  BY <1>0, <1>1 DEF ChainOK, After
<1>4. OpOK'
  BY <1>1 DEF OpOK, Idle
<1>5. \A c \in nodes : tidx[c] # tid => used'[c] = used[c] /\ tidx'[c] = tidx[c]
  BY <1>0, <1>1 DEF TypeOK, Owned
<1>6. LiveIntact'
  <2>1. ASSUME NEW b \in live'
        PROVE  LET c == b.at - Hdr
               IN c \in nodes' /\ used'[c] /\ tidx'[c] = b.tid /\ b.len <= size'[c]
    BY <1>0, <1>1, <1>5 DEF LiveIntact
  <2>2. ASSUME NEW c \in nodes', used'[c] PROVE \E b \in live' : b.at = c + Hdr
    <3>1. c \in nodes /\ c \in Addr /\ used[c] /\ tidx[c] # tid
      BY <1>0, <1>1, <2>2 DEF TypeOK, Owned
    <3>2. PICK b \in live : b.at = c + Hdr
      BY <1>0, <3>1 DEF LiveIntact
    <3>3. b.at - Hdr = c
      BY <3>1, <3>2, AddrFacts
    <3>4. b.tid # tid
      BY <1>0, <3>1, <3>2, <3>3 DEF LiveIntact
    <3> QED BY <1>1, <3>2, <3>4
  <2>3. \A b, c \in live' : b.at = c.at => b = c
    BY <1>0, <1>1 DEF LiveIntact
  <2> QED BY <2>1, <2>2, <2>3 DEF LiveIntact
<1> QED BY <1>2, <1>3, <1>4, <1>6 DEF HeapInv

\* The steps that only move on.
LEMMA MoveStep ==
  ASSUME HeapInv,
         \/ \E sz \in Sizes, tid \in Tids : Alloc(sz, tid)
         \/ MergeMove \/ Fail \/ FreeBack \/ FreeDone
  PROVE  HeapInv'
<1>0. TypeOK /\ ChainOK /\ OpOK /\ LiveIntact
  BY DEF HeapInv
<1>1. UNCHANGED <<nodes, size, used, tidx, prev, tail, live>>
  BY DEF Alloc, MergeMove, Fail, FreeBack, FreeDone, header
<1>2. ChainOK' /\ LiveIntact'
  BY <1>0, <1>1 DEF ChainOK, LiveIntact, After
<1> DEFINE opType == [do : {"idle", "merge", "fit", "back", "forward"},
                      at : Addr \cup {NULL}, sz : Sizes \cup {0}, tid : Tids \cup {0}]
<1>3. ASSUME NEW sz \in Sizes, NEW tid \in Tids, Alloc(sz, tid)
      PROVE op' \in opType /\ needMerge' \in BOOLEAN /\ OpOK'
  BY <1>0, <1>1, <1>3, AddrFacts DEF Alloc, OpOK, ChainOK
<1>4. CASE MergeMove
  <2>1. op.at # tail => After(op.at) \in nodes /\ After(op.at) \in Addr
    BY <1>0, <1>4, NodeFacts DEF MergeMove, OpOK
  <2>2. op' \in opType /\ OpOK'
    BY <1>0, <1>1, <1>4, <2>1 DEF MergeMove, OpOK, TypeOK
  <2> QED BY <1>0, <1>1, <1>2, <1>4, <2>2 DEF MergeMove, TypeOK, HeapInv
<1>5. CASE Fail \/ FreeDone
  <2>1. op' = Idle /\ needMerge' = needMerge
    BY <1>5 DEF Fail, FreeDone
  <2>2. op' \in opType /\ OpOK'
    BY <2>1 DEF Idle, OpOK
  <2> QED BY <1>0, <1>1, <1>2, <2>1, <2>2 DEF TypeOK, HeapInv
<1>6. CASE FreeBack
  <2>1. op.at \in nodes /\ ~used[op.at]
    BY <1>0, <1>6 DEF FreeBack, OpOK
  <2>2. FreeBefore(op.at) => /\ prev[op.at] \in nodes /\ ~used[prev[op.at]]
                             /\ prev[op.at] \in Addr
    BY <1>0, <2>1 DEF FreeBefore, ChainOK, TypeOK
  <2>3. op' \in opType /\ OpOK'
    BY <1>0, <1>1, <1>6, <2>1, <2>2 DEF FreeBack, OpOK, TypeOK
  <2> QED BY <1>0, <1>1, <1>2, <1>6, <2>3 DEF FreeBack, TypeOK, HeapInv
<1>7. ASSUME op' \in opType, needMerge' \in BOOLEAN, OpOK' PROVE HeapInv'
  BY <1>0, <1>1, <1>2, <1>7 DEF TypeOK, HeapInv
<1> QED BY <1>3, <1>4, <1>5, <1>6, <1>7

LEMMA HeapStep ==
  ASSUME NoWrap, HeapInv, [Next]_vars
  PROVE  HeapInv'
<1>1. CASE UNCHANGED vars
  BY <1>1 DEF vars, HeapInv, TypeOK, ChainOK, OpOK, LiveIntact, After
<1>2. CASE Call
  BY <1>2, MoveStep, FreeStep, FreeAllStep DEF Call
<1>3. CASE Run
  BY <1>3, MoveStep, AbsorbStep, FitStep DEF Run
<1> QED BY <1>1, <1>2, <1>3 DEF Next

LEMMA HeapAlways ==
  ASSUME NoWrap
  PROVE  Spec => []HeapInv
BY HeapInit, HeapStep, PTL DEF Spec

\* Every field of the heap's state has its type in every state: nodes lie in the
\* heap, lengths fit, owners are tasks.
THEOREM HeapTypeCorrect ==
  ASSUME NoWrap
  PROVE  Spec => []TypeOK
<1>1. HeapInv => TypeOK
  BY DEF HeapInv
<1> QED BY <1>1, HeapAlways, PTL

\* The chunks cover the heap from end to end and the headers agree, in every
\* state of heapAlloc, heapFree and heapFreeAll, whatever is freed in whatever
\* order, also while merges are pending.
THEOREM ChainCorrect ==
  ASSUME NoWrap
  PROVE  Spec => []ChainOK
<1>1. HeapInv => ChainOK
  BY DEF HeapInv
<1> QED BY <1>1, HeapAlways, PTL

\* A live block keeps its chunk, its size and its owner until it is freed.
THEOREM BlocksIntact ==
  ASSUME NoWrap
  PROVE  Spec => []LiveIntact
<1>1. HeapInv => LiveIntact
  BY DEF HeapInv
<1> QED BY <1>1, HeapAlways, PTL

-----------------------------------------------------------------------------
\* A block handed out lies in the heap and overlaps no live block.
LEMMA FitGrants ==
  ASSUME NoWrap, HeapInv, NEW a \in nodes, Fit(a)
  PROVE  Promise!Next
<1>0. TypeOK /\ ChainOK /\ OpOK /\ LiveIntact
  BY DEF HeapInv
<1> DEFINE at == a + Hdr
<1>1. /\ op.sz \in Sizes /\ op.tid \in Tids /\ op.sz \in Nat /\ op.sz <= Round(op.sz)
      /\ Round(op.sz) \in Nat
  BY <1>0, RoundUp, HeapAssumption DEF Fit, OpOK
<1>2. ~used[a] /\ op.sz <= size[a] /\ a \in Nat /\ a >= Start /\ size[a] \in Nat
  BY <1>0, <1>1, NodeFacts, AddrFacts DEF Fit, IsBest, Fits
<1>3. at \in Nat /\ at \in Start + Hdr .. End /\ at + op.sz <= After(a) /\ After(a) <= End
      /\ After(a) \in Nat
  BY <1>0, <1>1, <1>2, NodeFacts, AddrFacts DEF After
<1>4. ASSUME NEW c \in live
      PROVE  at # c.at /\ (c.at + c.len <= at \/ at + op.sz <= c.at)
  <2> DEFINE d == c.at - Hdr
  <2>1. /\ d \in nodes /\ d # a /\ c.len <= size[d] /\ c.len \in Nat /\ c.at \in Nat
    BY <1>0, <1>2, HeapAssumption DEF LiveIntact, TypeOK
  <2>2. d \in Nat /\ size[d] \in Nat /\ After(d) \in Nat /\ c.at = d + Hdr
    BY <1>0, <2>1, NodeFacts, AddrFacts
  <2>3. c.at + c.len <= After(d)
    <3>1. After(d) = d + Hdr + size[d]
      BY DEF After
    <3> QED BY <2>1, <2>2, <3>1, AddrFacts
  <2> HIDE DEF d
  <2>4. CASE d < a
    <3>1. After(d) <= a
      BY <1>0, <2>1, <2>4 DEF ChainOK
    <3> QED BY <1>2, <2>1, <2>2, <2>3, <2>4, <3>1, AddrFacts
  <2>5. CASE a < d
    <3>1. After(a) <= d
      BY <1>0, <2>1, <2>5 DEF ChainOK
    <3> QED BY <1>1, <1>2, <1>3, <2>2, <2>5, <3>1, AddrFacts
  <2> QED BY <1>2, <2>1, <2>2, <2>4, <2>5
<1>5. live' = live \cup {[at |-> at, len |-> op.sz, tid |-> op.tid]}
  BY DEF Fit, Handed
<1> DEFINE b == [at |-> at, len |-> op.sz, tid |-> op.tid]
<1>6. b.at = at /\ b.len = op.sz
  OBVIOUS
<1> HIDE DEF at, b
<1>7. \A c \in live : b.at # c.at /\ ~Promise!Overlap(b, c)
  <2> SUFFICES ASSUME NEW c \in live PROVE b.at # c.at /\ ~Promise!Overlap(b, c)
    OBVIOUS
  <2>1. c.at \in Nat /\ c.len \in Nat
    BY <1>0, HeapAssumption DEF TypeOK
  <2> QED BY <1>1, <1>3, <1>4, <1>6, <2>1 DEF Promise!Overlap
<1>8. Start + Hdr <= b.at /\ b.at + b.len <= End
  BY <1>1, <1>3, <1>6, AddrFacts
<1>9. live' = live \cup {b}
  BY <1>5 DEF b
<1>10. Promise!Grant(b)
  BY <1>7, <1>8, <1>9 DEF Promise!Grant
<1> QED BY <1>1, <1>3, <1>10 DEF Promise!Next, b

LEMMA StepMaps ==
  ASSUME NoWrap, HeapInv, [Next]_vars
  PROVE  [Promise!Next]_live
<1>1. CASE UNCHANGED vars
  BY <1>1 DEF vars
<1>2. ASSUME NEW sz \in Sizes, NEW tid \in Tids, Alloc(sz, tid)
      PROVE  UNCHANGED live
  BY <1>2 DEF Alloc
<1>3. ASSUME NEW b \in live, Free(b)
      PROVE  Promise!Next
  BY <1>3 DEF Free, Promise!Next, Promise!Return
<1>4. ASSUME NEW tid \in Tids, FreeAll(tid)
      PROVE  Promise!Next
  BY <1>4 DEF FreeAll, Promise!Next, Promise!ReturnAll
<1>5. ASSUME NEW a \in nodes, Fit(a)
      PROVE  Promise!Next
  BY <1>5, FitGrants
<1>6. CASE MergeAbsorb \/ MergeMove \/ Fail \/ FreeBack \/ FreeForward \/ FreeDone
  BY <1>6 DEF MergeAbsorb, MergeMove, Fail, FreeBack, FreeForward, FreeDone
<1> QED BY <1>1, <1>2, <1>3, <1>4, <1>5, <1>6 DEF Next, Call, Run

\* heapAlloc, heapFree and heapFreeAll implement the allocator their callers
\* see: every block returned lies in the heap and shares no byte with a live
\* one, and only its owner's frees take it back.
THEOREM HeapRefines ==
  ASSUME NoWrap
  PROVE  Spec => Refinement
<1>1. Init => Promise!Init
  BY DEF Init, Promise!Init
<1> QED BY <1>1, StepMaps, HeapAlways, PTL DEF Spec, Refinement, Promise!Spec
=============================================================================
