----------------------------- MODULE SimpleQueue -----------------------------
(***************************************************************************)
(* The output queue of the host interface, os/core/simpleQ.c: entries of an*)
(* array linked by index, those in use from head to tail and those that are*)
(* not from freeHead on.  Only the main loop uses it.  Whether a full queue*)
(* may lose an entry is up to a callback, hostIntf.c's queueDiscard, which *)
(* counts samples; here it may agree or not each time it is asked.         *)
(***************************************************************************)
EXTENDS Naturals, Sequences, FiniteSets

CONSTANTS
  Num,     \* numEntries
  Items    \* what is queued

ASSUME SimpleQueueAssumption == Num \in Nat \ {0}

VARIABLES
  head, tail, freeHead,
  next,          \* nextIdx of each entry
  discardable,   \* and its bit
  data,          \* what was copied into it
  out            \* history: what the last simpleQueueDequeue returned

list == <<head, tail, freeHead, next>>
vars == <<head, tail, freeHead, next, discardable, data, out>>

Entries == 0 .. (Num - 1)
NONE == Num + 1      \* SIMPLE_QUEUE_IDX_NONE
Indexes == Entries \cup {NONE}

\* simpleQueueAlloc
Init ==
  /\ head = NONE /\ tail = NONE /\ freeHead = 0
  /\ next = [e \in Entries |-> IF e = Num - 1 THEN NONE ELSE e + 1]
  /\ discardable = [e \in Entries |-> FALSE]
  /\ data \in [Entries -> {CHOOSE i \in Items : TRUE}]
  /\ out = <<>>

\* The entry reached in k steps along nextIdx.
Along(first) ==
  LET at[k \in 0 .. Num] ==
        IF k = 0 THEN first ELSE IF at[k - 1] = NONE THEN NONE ELSE next[at[k - 1]]
  IN at

Used == Along(head)
Reached(at) == {at[k] : k \in 0 .. Num} \ {NONE}

\* Mutant of Linked: the tail is not moved on.
LinkedHeadOnly(h, t, n, e) ==
  /\ head' = IF h = NONE THEN e ELSE h
  /\ tail' = IF h = NONE THEN e ELSE t
  /\ next' = IF h = NONE THEN [n EXCEPT ![e] = NONE]
             ELSE [n EXCEPT ![e] = NONE, ![t] = e]

\* The entry goes behind the tail of the list (h, t, n); head decides if empty.
Linked(h, t, n, e) ==
  /\ head' = IF h = NONE THEN e ELSE h
  /\ tail' = e
  /\ next' = IF h = NONE THEN [n EXCEPT ![e] = NONE]
             ELSE [n EXCEPT ![e] = NONE, ![t] = e]

Written(e, item, d) ==
  /\ data' = [data EXCEPT ![e] = item]
  /\ discardable' = [discardable EXCEPT ![e] = d]
  /\ out' = <<>>

Enqueue(item, d) ==
  /\ freeHead # NONE
  /\ freeHead' = next[freeHead]
  /\ Linked(head, tail, next, freeHead)
  /\ Written(freeHead, item, d)

\* Mutant of TailAfter: tail stays on the entry that was discarded.
TailAfterStale(k) == tail

\* The entry before it becomes the last one.
TailAfter(k) ==
  IF tail # Used[k] THEN tail ELSE IF k = 0 THEN NONE ELSE Used[k - 1]

\* simpleQueueAllocWithDiscard: the oldest entry the callback agrees to lose,
\* in step k from the head, is unlinked and used again.
EnqueueDiscarding(item, d, agreed) ==
  /\ freeHead = NONE
  /\ \E k \in 0 .. (Num - 1) :
       LET e == Used[k]
           first == k = 0
       IN /\ e \in agreed /\ discardable[e]
          /\ \A j \in 0 .. (k - 1) : ~(Used[j] \in agreed /\ discardable[Used[j]])
          /\ Linked(IF first THEN next[e] ELSE head, TailAfter(k),
                    IF first THEN next ELSE [next EXCEPT ![Used[k - 1]] = next[e]], e)
          /\ Written(e, item, d)
  /\ UNCHANGED freeHead

\* Mutant of TailLeft: the last entry leaves and tail stays.
TailLeftStale == tail

TailLeft == IF tail = head THEN NONE ELSE tail

Dequeue ==
  /\ head # NONE
  /\ head' = next[head]
  /\ tail' = TailLeft
  /\ next' = [next EXCEPT ![head] = freeHead]
  /\ freeHead' = head
  /\ out' = <<data[head]>>
  /\ UNCHANGED <<discardable, data>>

Next ==
  \/ \E item \in Items, d \in BOOLEAN :
       \/ Enqueue(item, d)
       \/ \E agreed \in SUBSET Entries : EnqueueDiscarding(item, d, agreed)
  \/ Dequeue

Spec == Init /\ [][Next]_vars

-----------------------------------------------------------------------------
\* Properties

\* Every index is one of an entry, or none.
TypeOK ==
  /\ {head, tail, freeHead} \subseteq Indexes
  /\ next \in [Entries -> Indexes]
  /\ discardable \in [Entries -> BOOLEAN]
  /\ data \in [Entries -> Items]

\* The entries in use and the free ones are two chains that end, share nothing
\* and leave nothing out, and tail is the end of the first: an entry is never
\* lost to both, nor handed out while it is queued.
Partition ==
  LET free == Along(freeHead)
  IN /\ Used[Num] = NONE /\ free[Num] = NONE
     /\ Reached(Used) \cap Reached(free) = {}
     /\ Reached(Used) \cup Reached(free) = Entries
     /\ head = NONE <=> tail = NONE
     /\ head # NONE => tail \in Reached(Used) /\ next[tail] = NONE

\* What the callers see is a bounded queue that discards its oldest.
Promise == INSTANCE DiscardQueue WITH
  Capacity <- Num,
  queue <- [k \in 1 .. Cardinality(Reached(Used)) |->
              [item |-> data[Used[k - 1]], discardable |-> discardable[Used[k - 1]]]]

Refinement == Promise!Spec
=============================================================================
