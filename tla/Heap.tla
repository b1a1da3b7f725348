--------------------------------- MODULE Heap ---------------------------------
(***************************************************************************)
(* The SEOS heap, os/core/heap.c: chunks laid end to end, each behind a    *)
(* header with its size, its owner and a pointer to the header before it.  *)
(* Allocation takes the best fit and splits it, heapFree merges a chunk    *)
(* with its free neighbours, and heapFreeAll, which frees what a task left *)
(* behind, leaves the merging to the next allocation.                      *)
(*                                                                         *)
(* Every operation runs with interrupts disabled from its first to its     *)
(* last statement, so one is under way at a time and its trylock is always *)
(* granted; its loops are actions of their own.                            *)
(***************************************************************************)
EXTENDS Integers, FiniteSets

CONSTANTS
  Start,     \* gHeapHead: the address of the first header
  HeapSize,  \* REAL_HEAP_SIZE
  Hdr,       \* sizeof(struct HeapNode)
  Align,     \* allocations are rounded up to a multiple of this (4)
  Word,      \* the modulus of uint32_t
  Sizes,     \* the sizes asked for
  Tids       \* the tasks that ask, by the bits of their TID in HeapNode.tidx

ASSUME HeapAssumption ==
  /\ Start \in Nat \ {0} /\ Hdr \in Nat \ {0} /\ Align \in Nat \ {0} /\ Word \in Nat \ {0}
  /\ HeapSize \in Nat /\ HeapSize >= Hdr
  /\ Sizes \subseteq Nat /\ Tids \subseteq Nat \ {0}

VARIABLES
  nodes,                   \* history: the headers on the chain
  size, used, tidx, prev,  \* the fields of the headers
  tail,                    \* gHeapTail
  needMerge,               \* gNeedFreeMerge
  op,                      \* the call under way, and the chunk it is at
  live                     \* history: the blocks handed out and not yet freed

header == <<nodes, size, used, tidx, prev, tail>>
vars == <<nodes, size, used, tidx, prev, tail, needMerge, op, live>>

NULL == 0
End == Start + HeapSize
Addr == Start .. End - Hdr    \* where a header fits
Idle == [do |-> "idle", at |-> NULL, sz |-> 0, tid |-> 0]

\* heapPrvGetNext of a node that is not the tail.
After(a) == a + Hdr + size[a]
FreeAfter(a) == a # tail /\ ~used[After(a)]

\* Mutant of Round: sz &~ 3.
RoundDown(sz) == (sz \div Align) * Align

\* sz = (sz + 3) &~ 3, in 32 bits.
Round(sz) == (((sz + Align - 1) % Word) \div Align) * Align

-----------------------------------------------------------------------------
\* heapInit writes every field of the first header but tidx.
Init ==
  /\ nodes = {Start}
  /\ size = [a \in Addr |-> IF a = Start THEN HeapSize - Hdr ELSE 0]
  /\ used = [a \in Addr |-> FALSE]
  /\ prev = [a \in Addr |-> NULL]
  /\ \E t \in Tids \cup {0} : tidx = [a \in Addr |-> IF a = Start THEN t ELSE 0]
  /\ tail = Start
  /\ needMerge = FALSE
  /\ op = Idle
  /\ live = {}

\* Mutant of Absorb: gHeapTail stays at the chunk that is gone.
AbsorbNotTail(a) ==
  LET b == After(a)
  IN /\ nodes' = nodes \ {b}
     /\ size' = [size EXCEPT ![a] = @ + Hdr + size[b], ![b] = 0]
     /\ prev' = IF b = tail THEN [prev EXCEPT ![b] = NULL]
                ELSE [prev EXCEPT ![b] = NULL, ![After(b)] = a]
     /\ tidx' = [tidx EXCEPT ![b] = 0]
     /\ UNCHANGED <<used, tail>>

\* Chunk a takes over the chunk b behind it.  (What is left of b's header is
\* not read again; it is cleared here so that it does not tell states apart.)
Absorb(a) ==
  LET b == After(a)
  IN /\ nodes' = nodes \ {b}
     /\ size' = [size EXCEPT ![a] = @ + Hdr + size[b], ![b] = 0]
     /\ prev' = IF b = tail THEN [prev EXCEPT ![b] = NULL]
                ELSE [prev EXCEPT ![b] = NULL, ![After(b)] = a]
     /\ tail' = IF b = tail THEN a ELSE tail
     /\ tidx' = [tidx EXCEPT ![b] = 0]
     /\ UNCHANGED used

-----------------------------------------------------------------------------
\* heapAlloc: consume gNeedFreeMerge and, if it was set, walk over all chunks.
Alloc(sz, tid) ==
  /\ op = Idle
  /\ op' = [do |-> IF needMerge THEN "merge" ELSE "fit", at |-> Start,
            sz |-> sz, tid |-> tid]
  /\ needMerge' = FALSE
  /\ UNCHANGED <<header, live>>

\* heapMergeFreeChunks: absorb the next chunk and stay, ...
MergeAbsorb ==
  /\ op.do = "merge" /\ ~used[op.at] /\ FreeAfter(op.at)
  /\ Absorb(op.at)
  /\ UNCHANGED <<needMerge, op, live>>

\* Mutant of MergeMove: the walk goes on over used chunks only.
MergeMoveStuck ==
  /\ op.do = "merge" /\ (used[op.at] \/ ~FreeAfter(op.at))
  /\ op' = IF op.at = tail THEN [op EXCEPT !.do = "fit"]
           ELSE IF used[op.at] THEN [op EXCEPT !.at = After(@)] ELSE op
  /\ UNCHANGED <<header, needMerge, live>>

\* ... or go on to it, until there is none.
MergeMove ==
  /\ op.do = "merge" /\ (used[op.at] \/ ~FreeAfter(op.at))
  /\ op' = IF op.at = tail THEN [op EXCEPT !.do = "fit"]
           ELSE [op EXCEPT !.at = After(@)]
  /\ UNCHANGED <<header, needMerge, live>>

Fits(n) == {a \in nodes : ~used[a] /\ size[a] >= n}

\* The smallest chunk that fits, the first one of several.
IsBest(a, n) ==
  /\ a \in Fits(n)
  /\ \A b \in Fits(n) : size[a] < size[b] \/ (size[a] = size[b] /\ a <= b)

\* Mutant of SplitPays: a chunk may be split with no room for another header.
SplitPaysAlways(a, n) == size[a] > n

SplitPays(a, n) == size[a] - n > Hdr

Handed(a) == [at |-> a + Hdr, len |-> op.sz, tid |-> op.tid]

\* Take chunk a for the request, and make what is left of it a chunk.
Fit(a) ==
  LET n == Round(op.sz)
      s == a + Hdr + n
      split == SplitPays(a, n)
  IN /\ op.do = "fit" /\ IsBest(a, n)
     /\ IF split
        THEN /\ nodes' = nodes \cup {s}
             /\ size' = [size EXCEPT ![a] = n, ![s] = size[a] - n - Hdr]
             /\ prev' = IF a = tail THEN [prev EXCEPT ![s] = a]
                        ELSE [prev EXCEPT ![s] = a, ![After(a)] = s]
             /\ tail' = IF a = tail THEN s ELSE tail
             /\ used' = [used EXCEPT ![a] = TRUE, ![s] = FALSE]
             /\ tidx' = [tidx EXCEPT ![a] = op.tid, ![s] = 0]
        ELSE /\ used' = [used EXCEPT ![a] = TRUE]
             /\ tidx' = [tidx EXCEPT ![a] = op.tid]
             /\ UNCHANGED <<nodes, size, prev, tail>>
     /\ live' = live \cup {Handed(a)}
     /\ op' = Idle
     /\ UNCHANGED needMerge

\* Nothing fits: heapAlloc returns NULL.
Fail ==
  /\ op.do = "fit" /\ Fits(Round(op.sz)) = {}
  /\ op' = Idle
  /\ UNCHANGED <<header, needMerge, live>>

-----------------------------------------------------------------------------
\* heapFree of a block its caller owns: mark the chunk free, ...
Free(b) ==
  LET a == b.at - Hdr
  IN /\ op = Idle
     /\ used' = [used EXCEPT ![a] = FALSE]
     /\ tidx' = [tidx EXCEPT ![a] = 0]
     /\ op' = [Idle EXCEPT !.do = "back", !.at = a]
     /\ live' = live \ {b}
     /\ UNCHANGED <<nodes, size, prev, tail, needMerge>>

FreeBefore(a) == prev[a] # NULL /\ ~used[prev[a]]

\* ... go back over the free chunks before it, ...
FreeBack ==
  /\ op.do = "back"
  /\ op' = IF FreeBefore(op.at) THEN [op EXCEPT !.at = prev[@]]
           ELSE [op EXCEPT !.do = "forward"]
  /\ UNCHANGED <<header, needMerge, live>>

\* ... and absorb the free chunks behind.  (The code corrects the prev of the
\* chunk that follows once, after the loop, and not in every round.)
FreeForward ==
  /\ op.do = "forward" /\ FreeAfter(op.at)
  /\ Absorb(op.at)
  /\ UNCHANGED <<needMerge, op, live>>

FreeDone ==
  /\ op.do = "forward" /\ ~FreeAfter(op.at)
  /\ op' = Idle
  /\ UNCHANGED <<header, needMerge, live>>

\* Mutant of Owned: the chunks of all tasks.
OwnedByAny(tid) == {a \in nodes : used[a]}

Owned(tid) == {a \in nodes : tidx[a] = tid}

\* heapFreeAll: gNeedFreeMerge becomes (count > 0), whatever it was.
FreeAll(tid) ==
  /\ op = Idle
  /\ used' = [a \in Addr |-> used[a] /\ a \notin Owned(tid)]
  /\ tidx' = [a \in Addr |-> IF a \in Owned(tid) THEN 0 ELSE tidx[a]]
  /\ needMerge' = (Owned(tid) # {})
  /\ live' = {b \in live : b.tid # tid}
  /\ UNCHANGED <<nodes, size, prev, tail, op>>

-----------------------------------------------------------------------------
Call == \/ \E sz \in Sizes, tid \in Tids : Alloc(sz, tid)
        \/ \E b \in live : Free(b)
        \/ \E tid \in Tids : FreeAll(tid)

Run == \/ MergeAbsorb \/ MergeMove \/ Fail
       \/ \E a \in nodes : Fit(a)
       \/ FreeBack \/ FreeForward \/ FreeDone

Next == Call \/ Run

Spec == Init /\ [][Next]_vars

\* A call that was entered goes on; nothing can interrupt it.
FairSpec == Spec /\ WF_vars(Run)

-----------------------------------------------------------------------------
\* The types of the state; the one type invariant of this module.
TypeOK ==
  /\ nodes \in SUBSET Addr
  /\ size \in [Addr -> Nat]
  /\ used \in [Addr -> BOOLEAN]
  /\ tidx \in [Addr -> Tids \cup {0}]
  /\ prev \in [Addr -> Addr \cup {NULL}]
  /\ tail \in Addr
  /\ needMerge \in BOOLEAN
  /\ op \in [do : {"idle", "merge", "fit", "back", "forward"},
             at : Addr \cup {NULL}, sz : Sizes \cup {0}, tid : Tids \cup {0}]
  /\ live \subseteq [at : Nat, len : Sizes, tid : Tids]

\* The chain: chunks cover the heap from end to end without overlap, prev leads
\* from each to the one before it, and only the last is the tail.  It holds
\* between any two steps of heapFree's and heapMergeFreeChunks's loops.
ChainOK ==
  /\ Start \in nodes /\ tail \in nodes /\ prev[Start] = NULL
  /\ \A a \in nodes :
       /\ a # Start => prev[a] \in nodes /\ prev[a] # tail /\ After(prev[a]) = a
       /\ IF a = tail THEN After(a) = End
          ELSE After(a) \in nodes /\ prev[After(a)] = a
       /\ \A b \in nodes : a < b => After(a) <= b

\* The chunks in use are exactly those of the blocks handed out, each owned by
\* its task and at least as long as was asked for: no split, merge, heapFree or
\* heapFreeAll of another task moves, shrinks or frees a live block.  (heapAlloc,
\* heapFree, heapFreeAll.)
LiveIntact ==
  /\ \A b \in live : LET a == b.at - Hdr
                     IN a \in nodes /\ used[a] /\ tidx[a] = b.tid /\ b.len <= size[a]
  /\ \A a \in nodes : used[a] => \E b \in live : b.at = a + Hdr
  /\ \A b, c \in live : b.at = c.at => b = c

\* The loops of heapAlloc and heapFree come to an end.
Returns == op.do # "idle" ~> op = Idle

\* The heap implements the allocator its callers see.
Promise == INSTANCE Allocator WITH First <- Start + Hdr, Last <- End
Refinement == Promise!Spec
=============================================================================
