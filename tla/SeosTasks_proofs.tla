-------------------------- MODULE SeosTasks_proofs --------------------------
(* Theorems about SeosTasks.  TaskInv, the inductive invariant, ties together  *)
(* the lists of tasks, the tasks' records, the queue of events and the stack   *)
(* of what the main loop and the apps are in the middle of; one lemma per      *)
(* action says that it is kept.                                                *)
EXTENDS SeosTasks, WellFoundedInduction, TLAPS, SequenceTheorems, FiniteSetTheorems, FunctionTheorems

-----------------------------------------------------------------------------
(* Induction over the numbers, stated for sets.                             *)

\* A set of natural numbers that is not empty has a least element.
LEMMA Least ==
  ASSUME NEW S, S \subseteq Nat, S # {}
  PROVE  \E m \in S : \A k \in S : m <= k
<1> DEFINE Less == OpToRel(<, Nat)
<1>1. IsWellFoundedOn(Less, Nat)
  BY NatLessThanWellFounded
<1>2. \A a, b \in Nat : a < b => <<a, b>> \in Less
  BY DEF OpToRel
<1> HIDE DEF Less
<1>3. PICK m \in S : \A k \in S : ~(<<k, m>> \in Less)
  BY <1>1, WFMin
<1>4. ASSUME NEW k \in S PROVE ~(k < m)
  BY <1>2, <1>3, Zenon
<1> QED BY <1>3, <1>4

\* A set that holds 0, and k + 1 whenever it holds k < n, holds 0 to n.
LEMMA Climb ==
  ASSUME NEW n \in Nat, NEW S, 0 \in S,
         \A k \in 0 .. (n - 1) : k \in S => k + 1 \in S
  PROVE  0 .. n \subseteq S
<1> DEFINE M == (0 .. n) \ S
<1> SUFFICES ASSUME M # {} PROVE FALSE
  OBVIOUS
<1>1. M \subseteq Nat
  OBVIOUS
<1>2. PICK m \in M : \A k \in M : m <= k
  <2> HIDE DEF M
  <2> QED BY <1>1, Least
<1>3. m # 0 /\ m - 1 \in 0 .. (n - 1) /\ m - 1 \notin M
  BY <1>2
<1> QED BY <1>3


-----------------------------------------------------------------------------
(* The two lists of tasks.                                                  *)

Links == [prev : Slots \cup {NO_NODE}, next : Slots \cup {NO_NODE}]

\* The n tasks of q, in this order, are h's list; the system's is on none.
Chained(q, n, h, l) ==
  /\ q \in [1 .. n -> Slots \ {System}]
  /\ \A j, k \in 1 .. n : q[j] = q[k] => j = k
  /\ \A k \in 1 .. n : l[q[k]] = [prev |-> IF k = 1 THEN NO_NODE ELSE q[k - 1],
                                  next |-> IF k = n THEN NO_NODE ELSE q[k + 1]]
  /\ l[h] = [prev |-> IF n = 0 THEN NO_NODE ELSE q[n],
             next |-> IF n = 0 THEN NO_NODE ELSE q[1]]

Members(q, n) == {q[k] : k \in 1 .. n}

\* R is the list of running tasks and F the list of free ones.
TwoLists(R, F, l) ==
  /\ l \in [Nodes -> Links]
  /\ \E n, m \in Nat : \E q, p :
       /\ Chained(q, n, Tasks, l) /\ R = Members(q, n)
       /\ Chained(p, m, FreeTasks, l) /\ F = Members(p, m)
  /\ R \cap F = {}

Unlinked == [prev |-> NO_NODE, next |-> NO_NODE]

LEMMA Nodish ==
  /\ Slots \subseteq Nat /\ Slots \subseteq Nodes /\ System \in Slots
  /\ Tasks \in Nodes /\ FreeTasks \in Nodes /\ Tasks # FreeTasks
  /\ Tasks \notin Slots /\ FreeTasks \notin Slots /\ NO_NODE \notin Nodes
BY SeosAssumption DEF Slots, Nodes, System, Tasks, FreeTasks, NO_NODE

\* What one member taken out of a list leaves.
LEMMA Unlinking ==
  ASSUME NEW l \in [Nodes -> Links], NEW h \in {Tasks, FreeTasks},
         NEW n \in Nat, NEW q, Chained(q, n, h, l), NEW k \in 1 .. n
  PROVE  \E l2, r :
           /\ l2 = ListRemove(l, h, q[k])
           /\ l2 \in [Nodes -> Links] /\ l2[q[k]] = Unlinked
           /\ Chained(r, n - 1, h, l2)
           /\ Members(r, n - 1) = Members(q, n) \ {q[k]}
           /\ \A m \in Nodes : m \notin Members(q, n) \cup {h} => l2[m] = l[m]
<1> DEFINE r == [i \in 1 .. n - 1 |-> IF i < k THEN q[i] ELSE q[i + 1]]
           l2 == ListRemove(l, h, q[k])
           a == IF k = 1 THEN h ELSE q[k - 1]
           b == IF k = n THEN h ELSE q[k + 1]
           x == IF k = n THEN NO_NODE ELSE q[k + 1]
           y == IF k = 1 THEN NO_NODE ELSE q[k - 1]
<1>0. /\ q \in [1 .. n -> Slots \ {System}] /\ \A i, j \in 1 .. n : q[i] = q[j] => i = j
      /\ \A i \in 1 .. n : l[q[i]] = [prev |-> IF i = 1 THEN NO_NODE ELSE q[i - 1],
                                      next |-> IF i = n THEN NO_NODE ELSE q[i + 1]]
      /\ l[h] = [prev |-> IF n = 0 THEN NO_NODE ELSE q[n],
                 next |-> IF n = 0 THEN NO_NODE ELSE q[1]]
  BY DEF Chained
<1>1. /\ q[k] \in Slots /\ l[q[k]].prev = y /\ l[q[k]].next = x
      /\ x \in Slots \cup {NO_NODE} /\ y \in Slots \cup {NO_NODE}
  <2>1. \A i \in 1 .. n : q[i] \in Slots
    BY <1>0
  <2>2. l[q[k]] = [prev |-> y, next |-> x]
    BY <1>0
  <2>3. x \in Slots \cup {NO_NODE}
    BY <2>1
  <2>4. y \in Slots \cup {NO_NODE}
    BY <2>1
  <2> QED BY <2>1, <2>2, <2>3, <2>4
<1>2. Node(h, y) = a /\ Node(h, x) = b /\ a \in Nodes /\ b \in Nodes /\ h \in Nodes
      /\ a # q[k] /\ b # q[k] /\ q[k] \in Nodes /\ h \notin Slots
  <2>1. h \in Nodes /\ h \notin Slots /\ \A i \in 1 .. n : q[i] \in Slots /\ q[i] \in Nodes /\ q[i] # NO_NODE
    <3>1. h \in Nodes /\ h \notin Slots
      BY Nodish
    <3>2. \A s \in Slots : s \in Nodes /\ s # NO_NODE
      BY Nodish
    <3>3. \A i \in 1 .. n : q[i] \in Slots
      BY <1>0
    <3> QED BY <3>1, <3>2, <3>3
  <2>2. Node(h, y) = a /\ a \in Nodes /\ a # q[k]
    BY <1>0, <2>1 DEF Node
  <2>3. Node(h, x) = b /\ b \in Nodes /\ b # q[k]
    BY <1>0, <2>1 DEF Node
  <2> QED BY <2>1, <2>2, <2>3
<1>3. l2 = [l EXCEPT ![q[k]] = Unlinked, ![a].next = x, ![b].prev = y]
  BY <1>1, <1>2 DEF ListRemove, Unlinked
<1> HIDE DEF l2
<1>4. \A m \in Nodes : l2[m] = IF m = q[k] THEN Unlinked
                               ELSE [prev |-> IF m = b THEN y ELSE l[m].prev,
                                     next |-> IF m = a THEN x ELSE l[m].next]
  <2> TAKE m \in Nodes
  <2>1. l[m] \in Links
    OBVIOUS
  <2>2. l[m] = [prev |-> l[m].prev, next |-> l[m].next]
    BY <2>1 DEF Links
  <2> QED BY <1>2, <1>3, <2>2 DEF Unlinked
<1>5. l2 \in [Nodes -> Links]
  <2>1. DOMAIN l2 = Nodes
    BY <1>3
  <2>2. \A m \in Nodes : l2[m] \in Links
    <3> TAKE m \in Nodes
    <3>1. l[m] \in Links
      OBVIOUS
    <3>2. l[m].prev \in Slots \cup {NO_NODE} /\ l[m].next \in Slots \cup {NO_NODE}
      BY <3>1 DEF Links
    <3>3. \A c, d \in Slots \cup {NO_NODE} : [prev |-> c, next |-> d] \in Links
      BY DEF Links
    <3> HIDE DEF a, b, x, y
    <3>4. Unlinked \in Links
      BY <3>3 DEF Unlinked
    <3>5. (IF m = b THEN y ELSE l[m].prev) \in Slots \cup {NO_NODE}
          /\ (IF m = a THEN x ELSE l[m].next) \in Slots \cup {NO_NODE}
      BY <1>1, <3>2
    <3>6. [prev |-> IF m = b THEN y ELSE l[m].prev, next |-> IF m = a THEN x ELSE l[m].next] \in Links
      BY <3>3, <3>5
    <3> QED BY <1>4, <3>4, <3>6
  <2>3. l2 = [m \in Nodes |-> l2[m]]
    BY <1>3
  <2> QED BY <2>2, <2>3
<1>6. l2[q[k]] = Unlinked
  BY <1>2, <1>4
<1>7. \A m \in Nodes : m \notin Members(q, n) \cup {h} => l2[m] = l[m]
  <2> TAKE m \in Nodes
  <2> HAVE m \notin Members(q, n) \cup {h}
  <2>1. m # q[k] /\ m # a /\ m # b
    BY DEF Members
  <2>2. l[m] \in Links
    OBVIOUS
  <2> QED BY <1>4, <2>1, <2>2 DEF Links
<1>8. \A i \in 1 .. n - 1 : r[i] = IF i < k THEN q[i] ELSE q[i + 1]
  OBVIOUS
<1>9. r \in [1 .. n - 1 -> Slots \ {System}]
  BY <1>0
<1> HIDE DEF r
<1>10. \A i, j \in 1 .. n - 1 : r[i] = r[j] => i = j
  BY <1>0, <1>8
<1>11. l2[h] = [prev |-> IF n - 1 = 0 THEN NO_NODE ELSE r[n - 1],
                next |-> IF n - 1 = 0 THEN NO_NODE ELSE r[1]]
  <2>1. l2[h] = [prev |-> IF h = b THEN y ELSE l[h].prev, next |-> IF h = a THEN x ELSE l[h].next]
    <3>1. h \in Nodes /\ h # q[k]
      BY <1>1, <1>2
    <3> HIDE DEF a, b, x, y
    <3> QED BY <1>4, <3>1
  <2>2. l[h].prev = q[n] /\ l[h].next = q[1]
    BY <1>0
  <2>3. (h = b <=> k = n) /\ (h = a <=> k = 1)
    BY <1>0, <1>2
  <2> QED BY <1>8, <2>1, <2>2, <2>3
<1>12. ASSUME NEW i \in 1 .. n - 1
       PROVE  l2[r[i]] = [prev |-> IF i = 1 THEN NO_NODE ELSE r[i - 1],
                          next |-> IF i = n - 1 THEN NO_NODE ELSE r[i + 1]]
  <2> DEFINE e == IF i < k THEN i ELSE i + 1
  <2>1. e \in 1 .. n /\ e # k /\ r[i] = q[e] /\ q[e] # q[k] /\ q[e] # h /\ q[e] \in Nodes
    <3>1. e \in 1 .. n /\ e # k /\ r[i] = q[e]
      BY <1>8
    <3>2. q[e] \in Slots /\ q[e] # q[k]
      <4> HIDE DEF e
      <4> QED BY <1>0, <3>1
    <3> HIDE DEF e
    <3> QED BY <1>2, <3>1, <3>2, Nodish
  <2>2. l2[q[e]] = [prev |-> IF q[e] = b THEN y ELSE l[q[e]].prev,
                    next |-> IF q[e] = a THEN x ELSE l[q[e]].next]
    BY <1>4, <2>1
  <2>3. (q[e] = b <=> e = k + 1) /\ (q[e] = a <=> e = k - 1)
    BY <1>0, <2>1
  <2>4. l[q[e]].prev = (IF e = 1 THEN NO_NODE ELSE q[e - 1])
        /\ l[q[e]].next = (IF e = n THEN NO_NODE ELSE q[e + 1])
    <3> HIDE DEF e
    <3>1. l[q[e]] = [prev |-> IF e = 1 THEN NO_NODE ELSE q[e - 1],
                     next |-> IF e = n THEN NO_NODE ELSE q[e + 1]]
      BY <1>0, <2>1
    <3> QED BY <3>1
  <2>5. (IF q[e] = b THEN y ELSE l[q[e]].prev) = (IF i = 1 THEN NO_NODE ELSE r[i - 1])
    <3>1. CASE e = k + 1
      BY <1>8, <2>1, <2>3, <3>1
    <3>2. CASE e # k + 1
      BY <1>8, <2>1, <2>3, <2>4, <3>2
    <3> QED BY <3>1, <3>2
  <2>6. (IF q[e] = a THEN x ELSE l[q[e]].next) = (IF i = n - 1 THEN NO_NODE ELSE r[i + 1])
    <3>1. CASE e = k - 1
      BY <1>8, <2>1, <2>3, <3>1
    <3>2. CASE e # k - 1
      BY <1>8, <2>1, <2>3, <2>4, <3>2
    <3> QED BY <3>1, <3>2
  <2> HIDE DEF e
  <2> QED BY <2>1, <2>2, <2>5, <2>6
<1>13. Members(r, n - 1) = Members(q, n) \ {q[k]}
  <2>1. ASSUME NEW i \in 1 .. n - 1 PROVE r[i] \in Members(q, n) \ {q[k]}
    BY <1>0, <1>8 DEF Members
  <2>2. ASSUME NEW i \in 1 .. n, q[i] # q[k] PROVE q[i] \in Members(r, n - 1)
    <3>1. CASE i < k
      BY <1>8, <3>1 DEF Members
    <3>2. CASE i > k
      <4>1. i - 1 \in 1 .. n - 1 /\ r[i - 1] = q[i]
        BY <1>8, <3>2
      <4> QED BY <4>1 DEF Members
    <3> QED BY <2>2, <3>1, <3>2
  <2> QED BY <2>1, <2>2 DEF Members
<1>14. Chained(r, n - 1, h, l2)
  BY <1>9, <1>10, <1>11, <1>12 DEF Chained
<1>15. l2 = ListRemove(l, h, q[k])
  BY DEF l2
<1> QED
  BY <1>5, <1>6, <1>7, <1>13, <1>14, <1>15

\* A task that is on no list put at the end of one.
LEMMA Linking ==
  ASSUME NEW l \in [Nodes -> Links], NEW h \in {Tasks, FreeTasks},
         NEW n \in Nat, NEW q, Chained(q, n, h, l),
         NEW s \in Slots \ {System}, s \notin Members(q, n)
  PROVE  \E l2, r :
           /\ l2 = ListAddTail(l, h, s)
           /\ l2 \in [Nodes -> Links]
           /\ Chained(r, n + 1, h, l2)
           /\ Members(r, n + 1) = Members(q, n) \cup {s}
           /\ \A m \in Nodes : m \notin Members(q, n) \cup {h, s} => l2[m] = l[m]
<1> DEFINE r == [i \in 1 .. n + 1 |-> IF i <= n THEN q[i] ELSE s]
           l2 == ListAddTail(l, h, s)
           a == IF n = 0 THEN h ELSE q[n]
           y == IF n = 0 THEN NO_NODE ELSE q[n]
<1>0. /\ q \in [1 .. n -> Slots \ {System}] /\ \A i, j \in 1 .. n : q[i] = q[j] => i = j
      /\ \A i \in 1 .. n : l[q[i]] = [prev |-> IF i = 1 THEN NO_NODE ELSE q[i - 1],
                                      next |-> IF i = n THEN NO_NODE ELSE q[i + 1]]
      /\ l[h] = [prev |-> IF n = 0 THEN NO_NODE ELSE q[n],
                 next |-> IF n = 0 THEN NO_NODE ELSE q[1]]
  BY DEF Chained
<1>1. /\ \A i \in 1 .. n : q[i] \in Slots /\ q[i] \in Nodes /\ q[i] # s /\ q[i] # h /\ q[i] # NO_NODE
      /\ s \in Nodes /\ s # h /\ h \in Nodes /\ s \in Slots /\ s # NO_NODE
  <2>1. \A i \in 1 .. n : q[i] \in Slots /\ q[i] # s
    BY <1>0 DEF Members
  <2>2. \A t \in Slots : t \in Nodes /\ t # h /\ t # NO_NODE
    BY Nodish
  <2>3. h \in Nodes /\ s \in Slots
    BY Nodish
  <2> QED BY <2>1, <2>2, <2>3
<1>2. l[h].prev = y /\ y \in Slots \cup {NO_NODE} /\ Node(h, y) = a /\ a \in Nodes /\ a # s
  <2>1. l[h].prev = y
    BY <1>0
  <2>2. y \in Slots \cup {NO_NODE} /\ Node(h, y) = a /\ a \in Nodes /\ a # s
    BY <1>1 DEF Node
  <2> QED BY <2>1, <2>2
<1>3. l2 = [l EXCEPT ![s] = [prev |-> y, next |-> NO_NODE], ![a].next = s, ![h].prev = s]
  BY <1>2 DEF ListAddTail
<1> HIDE DEF l2
<1>4. \A m \in Nodes : l2[m] = IF m = s THEN [prev |-> y, next |-> NO_NODE]
                               ELSE [prev |-> IF m = h THEN s ELSE l[m].prev,
                                     next |-> IF m = a THEN s ELSE l[m].next]
  <2> TAKE m \in Nodes
  <2>1. l[m] \in Links
    OBVIOUS
  <2>2. l[m] = [prev |-> l[m].prev, next |-> l[m].next]
    BY <2>1 DEF Links
  <2> HIDE DEF y, a
  <2> QED BY <1>1, <1>2, <1>3, <2>2
<1>5. l2 \in [Nodes -> Links]
  <2>1. DOMAIN l2 = Nodes
    BY <1>3
  <2>2. \A m \in Nodes : l2[m] \in Links
    <3> TAKE m \in Nodes
    <3>1. l[m] \in Links
      OBVIOUS
    <3>2. l[m].prev \in Slots \cup {NO_NODE} /\ l[m].next \in Slots \cup {NO_NODE}
      BY <3>1 DEF Links
    <3>3. \A c, d \in Slots \cup {NO_NODE} : [prev |-> c, next |-> d] \in Links
      BY DEF Links
    <3> HIDE DEF a, y
    <3>4. [prev |-> y, next |-> NO_NODE] \in Links
      BY <1>2, <3>3
    <3>5. (IF m = h THEN s ELSE l[m].prev) \in Slots \cup {NO_NODE}
          /\ (IF m = a THEN s ELSE l[m].next) \in Slots \cup {NO_NODE}
      BY <1>1, <3>2
    <3>6. [prev |-> IF m = h THEN s ELSE l[m].prev, next |-> IF m = a THEN s ELSE l[m].next] \in Links
      BY <3>3, <3>5
    <3> QED BY <1>4, <3>4, <3>6
  <2>3. l2 = [m \in Nodes |-> l2[m]]
    BY <1>3
  <2> QED BY <2>2, <2>3
<1>6. \A m \in Nodes : m \notin Members(q, n) \cup {h, s} => l2[m] = l[m]
  <2> TAKE m \in Nodes
  <2> HAVE m \notin Members(q, n) \cup {h, s}
  <2>1. m # s /\ m # a /\ m # h
    BY DEF Members
  <2>2. l[m] \in Links
    OBVIOUS
  <2> QED BY <1>4, <2>1, <2>2 DEF Links
<1>7. \A i \in 1 .. n + 1 : r[i] = IF i <= n THEN q[i] ELSE s
  OBVIOUS
<1>8. r \in [1 .. n + 1 -> Slots \ {System}]
  BY <1>0
<1> HIDE DEF r
<1>9. \A i, j \in 1 .. n + 1 : r[i] = r[j] => i = j
  BY <1>0, <1>1, <1>7
<1>10. l2[h] = [prev |-> IF n + 1 = 0 THEN NO_NODE ELSE r[n + 1],
                next |-> IF n + 1 = 0 THEN NO_NODE ELSE r[1]]
  <2>1. l2[h] = [prev |-> IF h = h THEN s ELSE l[h].prev, next |-> IF h = a THEN s ELSE l[h].next]
    <3> HIDE DEF a, y
    <3> QED BY <1>1, <1>4
  <2>2. l[h].next = IF n = 0 THEN NO_NODE ELSE q[1]
    BY <1>0
  <2>3. h = a <=> n = 0
    BY <1>1
  <2>4. r[n + 1] = s /\ (n # 0 => r[1] = q[1])
    BY <1>7
  <2> QED BY <2>1, <2>2, <2>3, <2>4
<1>11. ASSUME NEW i \in 1 .. n + 1
       PROVE  l2[r[i]] = [prev |-> IF i = 1 THEN NO_NODE ELSE r[i - 1],
                          next |-> IF i = n + 1 THEN NO_NODE ELSE r[i + 1]]
  <2>1. CASE i = n + 1
    <3>1. r[i] = s /\ y = (IF i = 1 THEN NO_NODE ELSE r[i - 1])
      BY <1>7, <2>1
    <3>2. l2[s] = [prev |-> y, next |-> NO_NODE]
      BY <1>1, <1>4
    <3> QED BY <2>1, <3>1, <3>2
  <2>2. CASE i \in 1 .. n
    <3>1. l2[q[i]] = [prev |-> IF q[i] = h THEN s ELSE l[q[i]].prev,
                      next |-> IF q[i] = a THEN s ELSE l[q[i]].next]
      <4> HIDE DEF a, y
      <4> QED BY <1>1, <1>4, <2>2
    <3>2. q[i] # h /\ (q[i] = a <=> i = n)
      BY <1>0, <1>1, <2>2
    <3>3. l[q[i]] = [prev |-> IF i = 1 THEN NO_NODE ELSE q[i - 1],
                     next |-> IF i = n THEN NO_NODE ELSE q[i + 1]]
      BY <1>0, <2>2
    <3>4. r[i] = q[i] /\ (i # 1 => r[i - 1] = q[i - 1]) /\ (i # n => r[i + 1] = q[i + 1])
          /\ (i = n => r[i + 1] = s) /\ i # n + 1
      BY <1>7, <2>2
    <3>5. l[q[i]].prev = (IF i = 1 THEN NO_NODE ELSE q[i - 1])
          /\ l[q[i]].next = (IF i = n THEN NO_NODE ELSE q[i + 1])
      BY <3>3
    <3> QED BY <3>1, <3>2, <3>4, <3>5
  <2> QED BY <2>1, <2>2
<1>12. Members(r, n + 1) = Members(q, n) \cup {s}
  <2>1. ASSUME NEW i \in 1 .. n + 1 PROVE r[i] \in Members(q, n) \cup {s}
    BY <1>7 DEF Members
  <2>2. ASSUME NEW i \in 1 .. n PROVE q[i] \in Members(r, n + 1)
    <3>1. i \in 1 .. n + 1 /\ r[i] = q[i]
      BY <1>7
    <3> QED BY <3>1 DEF Members
  <2>3. s \in Members(r, n + 1)
    <3>1. n + 1 \in 1 .. n + 1 /\ r[n + 1] = s
      BY <1>7
    <3> QED BY <3>1 DEF Members
  <2> QED BY <2>1, <2>2, <2>3 DEF Members
<1>13. Chained(r, n + 1, h, l2)
  BY <1>8, <1>9, <1>10, <1>11 DEF Chained
<1>14. l2 = ListAddTail(l, h, s)
  BY DEF l2
<1> QED
  BY <1>5, <1>6, <1>12, <1>13, <1>14

\* A list does not depend on the other nodes.
LEMMA Elsewhere ==
  ASSUME NEW l, NEW l2, NEW h, NEW n \in Nat, NEW q, Chained(q, n, h, l),
         \A m \in Members(q, n) \cup {h} : l2[m] = l[m]
  PROVE  Chained(q, n, h, l2)
BY DEF Chained, Members

\* What the callers use: taking s out of h's list, adding it to h's list.
LEMMA TakenOut ==
  ASSUME NEW R, NEW F, NEW l, TwoLists(R, F, l), NEW s \in R
  PROVE  \E k : /\ k = ListRemove(l, Tasks, s) /\ TwoLists(R \ {s}, F, k)
                /\ k[s] = Unlinked /\ \A t \in Slots : t \notin R => k[t] = l[t]
<1>1. l \in [Nodes -> Links] /\ R \cap F = {}
  BY DEF TwoLists
<1>2. PICK n \in Nat, m \in Nat : \E q, p :
        /\ Chained(q, n, Tasks, l) /\ R = Members(q, n)
        /\ Chained(p, m, FreeTasks, l) /\ F = Members(p, m)
  BY DEF TwoLists
<1>3. PICK q, p : /\ Chained(q, n, Tasks, l) /\ R = Members(q, n)
                  /\ Chained(p, m, FreeTasks, l) /\ F = Members(p, m)
  BY <1>2
<1>4. R \subseteq Slots /\ F \subseteq Slots
  BY <1>3 DEF Chained, Members
<1>11. PICK k \in 1 .. n : q[k] = s
  BY <1>3 DEF Members
<1>12. PICK l2, r : /\ l2 = ListRemove(l, Tasks, q[k])
                   /\ l2 \in [Nodes -> Links] /\ l2[q[k]] = Unlinked
                   /\ Chained(r, n - 1, Tasks, l2)
                   /\ Members(r, n - 1) = Members(q, n) \ {q[k]}
                   /\ \A t \in Nodes : t \notin Members(q, n) \cup {Tasks} => l2[t] = l[t]
  <2>1. l \in [Nodes -> Links] /\ Tasks \in {Tasks, FreeTasks} /\ FreeTasks \in {Tasks, FreeTasks}
        /\ Chained(q, n, Tasks, l) /\ Chained(p, m, FreeTasks, l)
    BY <1>1, <1>3
  <2> QED BY ONLY <2>1, Unlinking, SMTT(60)
<1>13. \A t \in F \cup {FreeTasks} : l2[t] = l[t]
  BY <1>1, <1>3, <1>4, <1>12, Nodish
<1>14. Chained(p, m, FreeTasks, l2)
  BY <1>3, <1>13, Elsewhere
<1>15. n - 1 \in Nat
  BY <1>11
<1>16. TwoLists(R \ {s}, F, l2)
  <2>1. R \ {s} = Members(r, n - 1) /\ (R \ {s}) \cap F = {}
    BY <1>1, <1>3, <1>11, <1>12
  <2> QED BY <1>3, <1>12, <1>14, <1>15, <2>1 DEF TwoLists
<1>17. \A t \in Slots : t \notin R => l2[t] = l[t]
  BY <1>3, <1>12, Nodish
<1> QED BY <1>11, <1>12, <1>16, <1>17

LEMMA TakenFree ==
  ASSUME NEW R, NEW F, NEW l, TwoLists(R, F, l), NEW s \in F
  PROVE  TwoLists(R, F \ {s}, ListRemove(l, FreeTasks, s))
<1>1. l \in [Nodes -> Links] /\ R \cap F = {}
  BY DEF TwoLists
<1>2. PICK n \in Nat, m \in Nat : \E q, p :
        /\ Chained(q, n, Tasks, l) /\ R = Members(q, n)
        /\ Chained(p, m, FreeTasks, l) /\ F = Members(p, m)
  BY DEF TwoLists
<1>3. PICK q, p : /\ Chained(q, n, Tasks, l) /\ R = Members(q, n)
                  /\ Chained(p, m, FreeTasks, l) /\ F = Members(p, m)
  BY <1>2
<1>4. R \subseteq Slots /\ F \subseteq Slots
  BY <1>3 DEF Chained, Members
<1>11. PICK k \in 1 .. m : p[k] = s
  BY <1>3 DEF Members
<1>12. PICK l2, r : /\ l2 = ListRemove(l, FreeTasks, p[k])
                   /\ l2 \in [Nodes -> Links] /\ l2[p[k]] = Unlinked
                   /\ Chained(r, m - 1, FreeTasks, l2)
                   /\ Members(r, m - 1) = Members(p, m) \ {p[k]}
                   /\ \A t \in Nodes : t \notin Members(p, m) \cup {FreeTasks} => l2[t] = l[t]
  <2>1. l \in [Nodes -> Links] /\ Tasks \in {Tasks, FreeTasks} /\ FreeTasks \in {Tasks, FreeTasks}
        /\ Chained(q, n, Tasks, l) /\ Chained(p, m, FreeTasks, l)
    BY <1>1, <1>3
  <2> QED BY ONLY <2>1, Unlinking
<1>13. \A t \in R \cup {Tasks} : l2[t] = l[t]
  BY <1>1, <1>3, <1>4, <1>12, Nodish
<1>14. Chained(q, n, Tasks, l2)
  BY <1>3, <1>13, Elsewhere
<1>15. m - 1 \in Nat
  BY <1>11
<1>16. TwoLists(R, F \ {s}, l2)
  <2>1. F \ {s} = Members(r, m - 1) /\ R \cap (F \ {s}) = {}
    BY <1>1, <1>3, <1>11, <1>12
  <2> QED BY <1>3, <1>12, <1>14, <1>15, <2>1 DEF TwoLists
<1> QED BY <1>11, <1>12, <1>16

LEMMA PutBack ==
  ASSUME NEW R, NEW F, NEW l, TwoLists(R, F, l),
         NEW s \in Slots \ {System}, s \notin R \cup F
  PROVE  /\ TwoLists(R \cup {s}, F, ListAddTail(l, Tasks, s))
         /\ TwoLists(R, F \cup {s}, ListAddTail(l, FreeTasks, s))
<1>1. l \in [Nodes -> Links] /\ R \cap F = {}
  BY DEF TwoLists
<1>2. PICK n \in Nat, m \in Nat : \E q, p :
        /\ Chained(q, n, Tasks, l) /\ R = Members(q, n)
        /\ Chained(p, m, FreeTasks, l) /\ F = Members(p, m)
  BY DEF TwoLists
<1>3. PICK q, p : /\ Chained(q, n, Tasks, l) /\ R = Members(q, n)
                  /\ Chained(p, m, FreeTasks, l) /\ F = Members(p, m)
  BY <1>2
<1>4. R \subseteq Slots /\ F \subseteq Slots /\ s \notin Members(q, n) /\ s \notin Members(p, m)
  BY <1>3 DEF Chained, Members
<1>5. TwoLists(R \cup {s}, F, ListAddTail(l, Tasks, s))
  <2>1. PICK l2, r : /\ l2 = ListAddTail(l, Tasks, s)
                     /\ l2 \in [Nodes -> Links]
                     /\ Chained(r, n + 1, Tasks, l2)
                     /\ Members(r, n + 1) = Members(q, n) \cup {s}
                     /\ \A t \in Nodes : t \notin Members(q, n) \cup {Tasks, s} => l2[t] = l[t]
    BY <1>1, <1>3, <1>4, Linking
  <2>2. \A t \in F \cup {FreeTasks} : l2[t] = l[t]
    BY <1>1, <1>3, <1>4, <2>1, Nodish
  <2>3. Chained(p, m, FreeTasks, l2)
    BY <1>3, <2>2, Elsewhere
  <2>4. n + 1 \in Nat /\ R \cup {s} = Members(r, n + 1) /\ (R \cup {s}) \cap F = {}
    BY <1>1, <1>3, <2>1
  <2>5. TwoLists(R \cup {s}, F, l2)
    BY <1>3, <2>1, <2>3, <2>4 DEF TwoLists
  <2> QED BY <2>1, <2>5
<1>6. TwoLists(R, F \cup {s}, ListAddTail(l, FreeTasks, s))
  <2>1. PICK l2, r : /\ l2 = ListAddTail(l, FreeTasks, s)
                     /\ l2 \in [Nodes -> Links]
                     /\ Chained(r, m + 1, FreeTasks, l2)
                     /\ Members(r, m + 1) = Members(p, m) \cup {s}
                     /\ \A t \in Nodes : t \notin Members(p, m) \cup {FreeTasks, s} => l2[t] = l[t]
    BY <1>1, <1>3, <1>4, Linking
  <2>2. \A t \in R \cup {Tasks} : l2[t] = l[t]
    BY <1>1, <1>3, <1>4, <2>1, Nodish
  <2>3. Chained(q, n, Tasks, l2)
    BY <1>3, <2>2, Elsewhere
  <2>4. m + 1 \in Nat /\ F \cup {s} = Members(r, m + 1) /\ R \cap (F \cup {s}) = {}
    BY <1>1, <1>3, <2>1
  <2>5. TwoLists(R, F \cup {s}, l2)
    BY <1>3, <2>1, <2>3, <2>4 DEF TwoLists
  <2> QED BY <2>1, <2>5
<1> QED BY <1>5, <1>6

\* Another task's links may be written while it is on no list.
LEMMA Scribble ==
  ASSUME NEW R, NEW F, NEW l, TwoLists(R, F, l),
         NEW s \in Slots, s \notin R \cup F, NEW v \in Links
  PROVE  TwoLists(R, F, [l EXCEPT ![s] = v])
<1> DEFINE l2 == [l EXCEPT ![s] = v]
<1>1. l \in [Nodes -> Links] /\ R \cap F = {} /\ s \in Nodes
  BY Nodish DEF TwoLists
<1>2. l2 \in [Nodes -> Links] /\ \A t \in Nodes : t # s => l2[t] = l[t]
  BY <1>1
<1> HIDE DEF l2
<1>3. PICK n \in Nat, m \in Nat : \E q, p :
        /\ Chained(q, n, Tasks, l) /\ R = Members(q, n)
        /\ Chained(p, m, FreeTasks, l) /\ F = Members(p, m)
  BY DEF TwoLists
<1>4. PICK q, p : /\ Chained(q, n, Tasks, l) /\ R = Members(q, n)
                  /\ Chained(p, m, FreeTasks, l) /\ F = Members(p, m)
  BY <1>3
<1>5. R \subseteq Slots /\ F \subseteq Slots
  BY <1>4 DEF Chained, Members
<1>6. \A t \in R \cup F \cup {Tasks, FreeTasks} : l2[t] = l[t]
  BY <1>2, <1>5, Nodish
<1>7. Chained(q, n, Tasks, l2) /\ Chained(p, m, FreeTasks, l2)
  BY <1>4, <1>6, Elsewhere
<1>8. TwoLists(R, F, l2)
  BY <1>1, <1>2, <1>4, <1>7 DEF TwoLists
<1> QED BY <1>8 DEF l2

LEMMA LinksOf ==
  ASSUME NEW l, NEW h, NEW n, NEW q, Chained(q, n, h, l), NEW k \in 1 .. n
  PROVE  /\ l[q[k]].prev = IF k = 1 THEN NO_NODE ELSE q[k - 1]
         /\ l[q[k]].next = IF k = n THEN NO_NODE ELSE q[k + 1]
<1>1. l[q[k]] = [prev |-> IF k = 1 THEN NO_NODE ELSE q[k - 1],
                 next |-> IF k = n THEN NO_NODE ELSE q[k + 1]]
  BY DEF Chained
<1> QED BY <1>1

\* Where the links lead.
LEMMA Following ==
  ASSUME NEW R, NEW F, NEW l, TwoLists(R, F, l)
  PROVE  /\ R \subseteq Slots \ {System} /\ F \subseteq Slots \ {System} /\ R \cap F = {}
         /\ l \in [Nodes -> Links]
         /\ l[Tasks].next \in R \cup {NO_NODE} /\ l[FreeTasks].next \in F \cup {NO_NODE}
         /\ \A s \in R : l[s].next \in R \cup {NO_NODE}
<1>1. l \in [Nodes -> Links] /\ R \cap F = {}
  BY DEF TwoLists
<1>2. PICK n \in Nat, m \in Nat : \E q, p :
        /\ Chained(q, n, Tasks, l) /\ R = Members(q, n)
        /\ Chained(p, m, FreeTasks, l) /\ F = Members(p, m)
  BY DEF TwoLists
<1>3. PICK q, p : /\ Chained(q, n, Tasks, l) /\ R = Members(q, n)
                  /\ Chained(p, m, FreeTasks, l) /\ F = Members(p, m)
  BY <1>2
<1>4. R \subseteq Slots \ {System} /\ F \subseteq Slots \ {System}
  BY <1>3 DEF Chained, Members
<1>5. l[Tasks].next \in R \cup {NO_NODE}
  <2>1. l[Tasks].next = IF n = 0 THEN NO_NODE ELSE q[1]
    BY <1>3 DEF Chained
  <2> QED BY <1>3, <2>1 DEF Members
<1>6. l[FreeTasks].next \in F \cup {NO_NODE}
  <2>1. l[FreeTasks].next = IF m = 0 THEN NO_NODE ELSE p[1]
    BY <1>3 DEF Chained
  <2> QED BY <1>3, <2>1 DEF Members
<1>7. ASSUME NEW s \in R PROVE l[s].next \in R \cup {NO_NODE}
  <2>1. PICK k \in 1 .. n : q[k] = s
    BY <1>3 DEF Members
  <2>2. l[q[k]].next = IF k = n THEN NO_NODE ELSE q[k + 1]
    <3>1. l[q[k]] = [prev |-> IF k = 1 THEN NO_NODE ELSE q[k - 1],
                     next |-> IF k = n THEN NO_NODE ELSE q[k + 1]]
      BY <1>3 DEF Chained
    <3> QED BY <3>1
  <2>3. k # n => q[k + 1] \in R
    BY <1>3 DEF Members
  <2> QED BY <2>1, <2>2, <2>3
<1> QED BY <1>1, <1>4, <1>5, <1>6, <1>7

-----------------------------------------------------------------------------
(* for_each_task walks the list.                                            *)

Steps(h) ==
  LET at[i \in 0 .. MaxTasks] ==
        IF i = 0 THEN h
        ELSE IF at[i - 1] = NO_NODE THEN NO_NODE ELSE list[at[i - 1]].next
  IN at

LEMMA StepsAre ==
  \A h :
    /\ Steps(h)[0] = h
    /\ \A k \in 1 .. MaxTasks :
         Steps(h)[k] = IF Steps(h)[k - 1] = NO_NODE THEN NO_NODE
                       ELSE list[Steps(h)[k - 1]].next
<1> SUFFICES ASSUME NEW h
    PROVE  /\ Steps(h)[0] = h
           /\ \A k \in 1 .. MaxTasks :
                Steps(h)[k] = IF Steps(h)[k - 1] = NO_NODE THEN NO_NODE
                              ELSE list[Steps(h)[k - 1]].next
  OBVIOUS
<1> DEFINE IsWalk(m, g) ==
             g = [i \in 0 .. m |->
                    IF i = 0 THEN h
                    ELSE IF g[i - 1] = NO_NODE THEN NO_NODE ELSE list[g[i - 1]].next]
           S == {m \in Nat : \E g : IsWalk(m, g)}
<1>0. MaxTasks \in Nat
  BY SeosAssumption
<1>1. 0 \in S
  <2>1. IsWalk(0, [k \in 0 .. 0 |-> h])
    OBVIOUS
  <2> QED BY <2>1
<1>2. ASSUME NEW m \in 0 .. (MaxTasks - 1), m \in S PROVE m + 1 \in S
  <2>1. PICK g : IsWalk(m, g)
    BY <1>2
  <2> DEFINE f == [k \in 0 .. (m + 1) |->
                     IF k <= m THEN g[k] ELSE IF g[m] = NO_NODE THEN NO_NODE ELSE list[g[m]].next]
  <2>2. \A k \in 0 .. (m + 1) :
          f[k] = IF k = 0 THEN h ELSE IF f[k - 1] = NO_NODE THEN NO_NODE ELSE list[f[k - 1]].next
    <3> TAKE k \in 0 .. (m + 1)
    <3>1. CASE k <= m
      <4>1. g[k] = IF k = 0 THEN h ELSE IF g[k - 1] = NO_NODE THEN NO_NODE ELSE list[g[k - 1]].next
        <5> k \in 0 .. m
          BY <3>1
        <5> QED BY <2>1
      <4>2. f[k] = g[k] /\ (k # 0 => f[k - 1] = g[k - 1])
        BY <3>1
      <4> HIDE DEF f
      <4> QED BY <4>1, <4>2
    <3>2. CASE k = m + 1
      <4>1. f[k] = (IF g[m] = NO_NODE THEN NO_NODE ELSE list[g[m]].next)
            /\ f[k - 1] = g[m] /\ k # 0
        BY <3>2
      <4> HIDE DEF f
      <4> QED BY <4>1
    <3> QED BY <3>1, <3>2
  <2>3. IsWalk(m + 1, f)
    <3>1. f = [k \in 0 .. (m + 1) |-> f[k]]
      OBVIOUS
    <3> HIDE DEF f
    <3> QED BY <2>2, <3>1
  <2> HIDE DEF f
  <2>4. \E w : IsWalk(m + 1, w)
    BY <2>3
  <2> QED BY <2>4
<1>3. 0 .. MaxTasks \subseteq S
  <2> HIDE DEF S
  <2> QED BY <1>0, <1>1, <1>2, Climb
<1>4. MaxTasks \in S
  <2> HIDE DEF S
  <2> QED BY <1>0, <1>3
<1>5. PICK g : IsWalk(MaxTasks, g)
  BY <1>4
<1>6. Steps(h) = CHOOSE w : IsWalk(MaxTasks, w)
  BY DEF Steps
<1>7. IsWalk(MaxTasks, Steps(h))
  <2> HIDE DEF IsWalk
  <2> QED BY <1>5, <1>6
<1> HIDE DEF S
<1> DEFINE w == Steps(h)
<1>8. w = [i \in 0 .. MaxTasks |->
             IF i = 0 THEN h ELSE IF w[i - 1] = NO_NODE THEN NO_NODE ELSE list[w[i - 1]].next]
  BY <1>7
<1> HIDE DEF w, IsWalk
<1>9. \A k \in 0 .. MaxTasks :
        w[k] = IF k = 0 THEN h ELSE IF w[k - 1] = NO_NODE THEN NO_NODE ELSE list[w[k - 1]].next
  BY <1>8
<1>10. w[0] = h
  BY <1>0, <1>9
<1>11. \A k \in 1 .. MaxTasks : w[k] = IF w[k - 1] = NO_NODE THEN NO_NODE ELSE list[w[k - 1]].next
  BY <1>9
<1> QED BY <1>10, <1>11 DEF w

\* There are not more tasks than slots.
LEMMA FewTasks ==
  ASSUME NEW l, NEW h, NEW n \in Nat, NEW q, Chained(q, n, h, l)
  PROVE  n <= MaxTasks
<1>1. q \in Injection(1 .. n, Slots)
  BY DEF Chained, Injection, IsInjective
<1>2. IsFiniteSet(Slots) /\ Cardinality(Slots) = MaxTasks
  <2>1. 0 \in Int /\ MaxTasks - 1 \in Int /\ MaxTasks \in Nat /\ MaxTasks > 0
    BY SeosAssumption
  <2>2. IsFiniteSet(0 .. MaxTasks - 1)
        /\ Cardinality(0 .. MaxTasks - 1)
             = IF 0 > MaxTasks - 1 THEN 0 ELSE (MaxTasks - 1) - 0 + 1
    BY <2>1, FS_Interval, Zenon
  <2> QED BY <2>1, <2>2 DEF Slots
<1>3. Cardinality(1 .. n) <= Cardinality(Slots)
  BY <1>1, <1>2, FS_Injection
<1>4. Cardinality(1 .. n) = n
  <2>1. Cardinality(1 .. n) = IF 1 > n THEN 0 ELSE n - 1 + 1
    <3> 1 \in Int /\ n \in Int
      OBVIOUS
    <3> QED BY FS_Interval, Zenon
  <2> QED BY <2>1
<1> QED BY <1>2, <1>3, <1>4

LEMMA Visits ==
  ASSUME NEW h \in {Tasks, FreeTasks}, NEW n \in Nat, NEW q, Chained(q, n, h, list)
  PROVE  Reached(h) = Members(q, n)
<1>1. \A k \in 1 .. n : q[k] \in Slots /\ q[k] # NO_NODE
  <2>1. \A k \in 1 .. n : q[k] \in Slots
    BY DEF Chained
  <2>2. \A s \in Slots : s # NO_NODE
    BY Nodish
  <2> QED BY <2>1, <2>2
<1>2. n <= MaxTasks /\ MaxTasks \in Nat /\ h # NO_NODE
  BY FewTasks, SeosAssumption DEF Tasks, FreeTasks, NO_NODE
<1>3. Steps(h)[0] = h
      /\ \A k \in 1 .. MaxTasks :
           Steps(h)[k] = IF Steps(h)[k - 1] = NO_NODE THEN NO_NODE ELSE list[Steps(h)[k - 1]].next
  BY StepsAre
<1> DEFINE w == Steps(h)
<1>4. w[0] = h
      /\ \A k \in 1 .. MaxTasks : w[k] = IF w[k - 1] = NO_NODE THEN NO_NODE ELSE list[w[k - 1]].next
  BY <1>3
<1>5. Reached(h) = {w[i] : i \in 1 .. MaxTasks} \ {NO_NODE}
  BY Zenon DEF Reached, Steps
<1> HIDE DEF w
<1> DEFINE S == {k \in Nat : w[k] = IF k = 0 THEN h ELSE IF k <= n THEN q[k] ELSE NO_NODE}
<1>6. 0 \in S
  BY <1>4
<1>7. ASSUME NEW k \in 0 .. (MaxTasks - 1), k \in S PROVE k + 1 \in S
  <2>1. w[k + 1] = IF w[k] = NO_NODE THEN NO_NODE ELSE list[w[k]].next
    <3> DEFINE j == k + 1
    <3>1. j \in 1 .. MaxTasks /\ j - 1 = k
      BY <1>2
    <3>2. w[j] = IF w[j - 1] = NO_NODE THEN NO_NODE ELSE list[w[j - 1]].next
      <4> HIDE DEF j
      <4> QED BY <1>4, <3>1
    <3> QED BY <3>1, <3>2
  <2>2. w[k] = IF k = 0 THEN h ELSE IF k <= n THEN q[k] ELSE NO_NODE
    BY <1>7
  <2>3. CASE k = 0
    <3>1. list[h].next = IF n = 0 THEN NO_NODE ELSE q[1]
      BY DEF Chained
    <3> QED BY <1>2, <2>1, <2>2, <2>3, <3>1
  <2>4. CASE k \in 1 .. n
    <3>1. list[q[k]].next = IF k = n THEN NO_NODE ELSE q[k + 1]
      BY <2>4, LinksOf
    <3> QED BY <1>1, <2>1, <2>2, <2>4, <3>1
  <2>5. CASE k > n
    BY <2>1, <2>2, <2>5
  <2> QED BY <2>3, <2>4, <2>5
<1>8. 0 .. MaxTasks \subseteq S
  <2> HIDE DEF S
  <2> QED BY <1>2, <1>6, <1>7, Climb
<1>9. \A k \in 1 .. MaxTasks : w[k] = IF k <= n THEN q[k] ELSE NO_NODE
  BY <1>8
<1> HIDE DEF S
<1>10. \A k \in 1 .. n : w[k] = q[k] /\ k \in 1 .. MaxTasks
  BY <1>2, <1>9
<1> QED BY <1>1, <1>5, <1>9, <1>10 DEF Members

\* So the two lists are what the two walks see.
LEMMA Seen ==
  \A R, F : TwoLists(R, F, list) => Reached(Tasks) = R /\ Reached(FreeTasks) = F
<1> SUFFICES ASSUME NEW R, NEW F, TwoLists(R, F, list)
    PROVE  Reached(Tasks) = R /\ Reached(FreeTasks) = F
  OBVIOUS
<1>1. PICK n \in Nat, m \in Nat : \E q, p :
        /\ Chained(q, n, Tasks, list) /\ R = Members(q, n)
        /\ Chained(p, m, FreeTasks, list) /\ F = Members(p, m)
  BY DEF TwoLists
<1>2. PICK q, p : /\ Chained(q, n, Tasks, list) /\ R = Members(q, n)
                  /\ Chained(p, m, FreeTasks, list) /\ F = Members(p, m)
  BY <1>1
<1>3. Reached(Tasks) = R
  BY <1>2, Visits
<1>4. Reached(FreeTasks) = F
  BY <1>2, Visits
<1> QED BY <1>3, <1>4

LEMMA WellLinked ==
  ASSUME NEW h \in {Tasks, FreeTasks}, NEW n \in Nat, NEW q, Chained(q, n, h, list)
  PROVE  Linked(h)
<1>1. Reached(h) = Members(q, n)
  BY Visits
<1>2. /\ \A k \in 1 .. n : q[k] \in Slots /\ q[k] # NO_NODE /\ q[k] # h
      /\ \A j, k \in 1 .. n : q[j] = q[k] => j = k
  <2>1. \A k \in 1 .. n : q[k] \in Slots
    BY DEF Chained
  <2>2. \A t \in Slots : t # NO_NODE /\ t # h
    BY Nodish
  <2>3. \A j, k \in 1 .. n : q[j] = q[k] => j = k
    BY DEF Chained
  <2> QED BY <2>1, <2>2, <2>3
<1>3. list[h].prev = (IF n = 0 THEN NO_NODE ELSE q[n])
      /\ list[h].next = (IF n = 0 THEN NO_NODE ELSE q[1])
  BY DEF Chained
<1>4. \A k \in 1 .. n : list[q[k]].prev = (IF k = 1 THEN NO_NODE ELSE q[k - 1])
                        /\ list[q[k]].next = (IF k = n THEN NO_NODE ELSE q[k + 1])
  BY LinksOf
<1> DEFINE Fine(t) == /\ list[Node(h, list[t].next)].prev = (IF t = h THEN NO_NODE ELSE t)
                      /\ list[Node(h, list[t].prev)].next = (IF t = h THEN NO_NODE ELSE t)
<1>5. Fine(h)
  <2>1. CASE n = 0
    BY <1>3, <2>1 DEF Node
  <2>2. CASE n # 0
    <3>1. 1 \in 1 .. n /\ n \in 1 .. n
      BY <2>2
    <3> QED BY <1>2, <1>3, <1>4, <2>2, <3>1 DEF Node
  <2> QED BY <2>1, <2>2
<1>6. ASSUME NEW k \in 1 .. n PROVE Fine(q[k])
  <2>1. list[Node(h, list[q[k]].next)].prev = q[k]
    <3>1. CASE k = n
      BY <1>2, <1>3, <1>4, <3>1 DEF Node
    <3>2. CASE k # n
      <4>1. k + 1 \in 1 .. n /\ (k + 1) - 1 = k /\ k + 1 # 1
        BY <3>2
      <4> QED BY <1>2, <1>4, <3>2, <4>1 DEF Node
    <3> QED BY <3>1, <3>2
  <2>2. list[Node(h, list[q[k]].prev)].next = q[k]
    <3>1. CASE k = 1
      BY <1>2, <1>3, <1>4, <3>1 DEF Node
    <3>2. CASE k # 1
      <4>1. k - 1 \in 1 .. n /\ (k - 1) + 1 = k /\ k - 1 # n
        BY <3>2
      <4> QED BY <1>2, <1>4, <3>2, <4>1 DEF Node
    <3> QED BY <3>1, <3>2
  <2> QED BY <1>2, <2>1, <2>2
<1> HIDE DEF Fine
<1>7. \A t \in Reached(h) \cup {h} : Fine(t)
  BY <1>1, <1>5, <1>6 DEF Members
<1> QED BY <1>7 DEF Fine, Linked

LEMMA ListsAreOK ==
  ASSUME NEW R, NEW F, TwoLists(R, F, list)
  PROVE  ListsOK
<1>1. PICK n \in Nat, m \in Nat : \E q, p :
        /\ Chained(q, n, Tasks, list) /\ R = Members(q, n)
        /\ Chained(p, m, FreeTasks, list) /\ F = Members(p, m)
  BY DEF TwoLists
<1>2. PICK q, p : /\ Chained(q, n, Tasks, list) /\ R = Members(q, n)
                  /\ Chained(p, m, FreeTasks, list) /\ F = Members(p, m)
  BY <1>1
<1>3. Linked(Tasks)
  BY <1>2, WellLinked
<1>4. Linked(FreeTasks)
  BY <1>2, WellLinked
<1>5. Reached(Tasks) \cap Reached(FreeTasks) = {}
  BY Seen DEF TwoLists
<1> QED BY <1>3, <1>4, <1>5 DEF ListsOK

\* osStartTasks.
LEMMA ListsAtFirst ==
  ASSUME Init
  PROVE  TwoLists({}, Slots \ {System}, list)
<1> DEFINE m == MaxTasks - 1
           p == [k \in 1 .. m |-> k]
           q == [k \in 1 .. 0 |-> k]
<1>1. m \in Nat
  BY SeosAssumption
<1>2. list = [n \in Nodes |->
       CASE n = System -> [prev |-> 0, next |-> 0]
         [] n = Tasks -> [prev |-> NO_NODE, next |-> NO_NODE]
         [] n = FreeTasks -> IF MaxTasks = 1 THEN [prev |-> NO_NODE, next |-> NO_NODE]
                             ELSE [prev |-> MaxTasks - 1, next |-> 1]
         [] OTHER -> [prev |-> IF n = 1 THEN NO_NODE ELSE n - 1,
                      next |-> IF n = MaxTasks - 1 THEN NO_NODE ELSE n + 1]]
  BY DEF Init
<1>3. /\ list[Tasks] = [prev |-> NO_NODE, next |-> NO_NODE]
      /\ list[FreeTasks] = IF MaxTasks = 1 THEN [prev |-> NO_NODE, next |-> NO_NODE]
                           ELSE [prev |-> MaxTasks - 1, next |-> 1]
      /\ list[System] = [prev |-> 0, next |-> 0]
  <2>1. Tasks \in Nodes /\ FreeTasks \in Nodes /\ System \in Nodes
        /\ Tasks # System /\ FreeTasks # System /\ Tasks # FreeTasks
    BY SeosAssumption DEF Nodes, Tasks, FreeTasks, System, Slots
  <2> QED BY <1>2, <2>1
<1>4. \A k \in 1 .. m : k \in Slots \ {System} /\ k \in Nodes
  BY <1>1 DEF Slots, System, Nodes
<1>5. \A k \in 1 .. m : list[k] = [prev |-> IF k = 1 THEN NO_NODE ELSE k - 1,
                                   next |-> IF k = m THEN NO_NODE ELSE k + 1]
  BY <1>2, <1>4 DEF Tasks, FreeTasks, System
<1>6. list \in [Nodes -> Links]
  <2>1. \A c, d \in Slots \cup {NO_NODE} : [prev |-> c, next |-> d] \in Links
    BY DEF Links
  <2>2. \A k \in 1 .. m : k - 1 \in Slots /\ (k # m => k + 1 \in Slots)
    BY <1>1, SeosAssumption DEF Slots
  <2>3. ASSUME NEW k \in 1 .. m PROVE list[k] \in Links
    <3>1. (IF k = 1 THEN NO_NODE ELSE k - 1) \in Slots \cup {NO_NODE}
          /\ (IF k = m THEN NO_NODE ELSE k + 1) \in Slots \cup {NO_NODE}
      BY <2>2
    <3>2. list[k] = [prev |-> IF k = 1 THEN NO_NODE ELSE k - 1,
                     next |-> IF k = m THEN NO_NODE ELSE k + 1]
      BY <1>5
    <3> QED BY <2>1, <3>1, <3>2
  <2>4. list[Tasks] \in Links /\ list[System] \in Links
    BY <1>3, <2>1, Nodish DEF System
  <2>5. list[FreeTasks] \in Links
    <3>1. MaxTasks # 1 => MaxTasks - 1 \in Slots /\ 1 \in Slots
      BY SeosAssumption DEF Slots
    <3> QED BY <1>3, <2>1, <3>1
  <2>6. Nodes = {Tasks, FreeTasks, System} \cup 1 .. m
    BY SeosAssumption DEF Nodes, Slots, System
  <2>7. list = [n \in Nodes |-> list[n]]
    BY <1>2
  <2> HIDE DEF m
  <2>8. \A n \in Nodes : list[n] \in Links
    BY <2>3, <2>4, <2>5, <2>6
  <2> QED BY <2>7, <2>8
<1>7. Chained(q, 0, Tasks, list) /\ Members(q, 0) = {}
  BY <1>3 DEF Chained, Members
<1>8. Chained(p, m, FreeTasks, list)
  <2>1. p \in [1 .. m -> Slots \ {System}] /\ \A k \in 1 .. m : p[k] = k
    BY <1>4
  <2>2. list[FreeTasks] = [prev |-> IF m = 0 THEN NO_NODE ELSE p[m],
                           next |-> IF m = 0 THEN NO_NODE ELSE p[1]]
    <3>1. m = 0 <=> MaxTasks = 1
      BY SeosAssumption
    <3>2. m # 0 => p[m] = m /\ p[1] = 1
      <4> HIDE DEF p, m
      <4>1. m # 0 => m \in 1 .. m /\ 1 \in 1 .. m
        BY <1>1
      <4> QED BY <2>1, <4>1
    <3> HIDE DEF p
    <3> QED BY <1>3, <3>1, <3>2
  <2> HIDE DEF p, m
  <2>3. \A k \in 1 .. m : list[p[k]] = [prev |-> IF k = 1 THEN NO_NODE ELSE p[k - 1],
                                        next |-> IF k = m THEN NO_NODE ELSE p[k + 1]]
    BY <1>1, <1>5, <2>1
  <2> QED BY <1>1, <2>1, <2>2, <2>3 DEF Chained
<1>9. Members(p, m) = Slots \ {System}
  BY <1>1, SeosAssumption DEF Members, Slots, System
<1> HIDE DEF p, q, m
<1>10. 0 \in Nat /\ {} \cap (Slots \ {System}) = {}
  OBVIOUS
<1> QED BY <1>1, <1>6, <1>7, <1>8, <1>9, <1>10 DEF TwoLists

-----------------------------------------------------------------------------
(* The inductive invariant, part by part, over values of the variables: R   *)
(* and F are the tasks on the two lists, l to c stand for list to calls.    *)

Values == Evts \cup {APP_STARTED, APP_STOPPED}
Tids == [idx : Slots, ctr : 0 .. Counter - 1]
Posted == {"user", "sub", "unsub", "defer", "private", "begin", "end"}
Events == [type : Posted \cup {"boot", "none"}, org : Tids, by : Tids, to : Tids,
           evt : Values \cup {NULL}, id : 0 .. MaxCalls]
TaskRecords == [app : Apps \cup {NULL}, ctr : 0 .. Counter - 1, loaded : BOOLEAN,
                flags : SUBSET {"STOPPED", "ABORTED"}, io : 0 .. IoWidth - 1,
                subs : SUBSET Values, sz : Nat, short : BOOLEAN]

\* Frames of the OS that run nothing, that wait for an app, and both.
Leaves == {"event", "walk", "started", "failed"}
Kernels == {"host", "done", "ended", "starting", "visited", "freed", "stopping"} \cup Leaves
Nested == AppFrames \cup {"dropped"}
Launching == {"starting", "started", "failed"}
Frames == [do : Kernels \cup Nested, ev : Events, cur : Slots, at : Int, due : SUBSET Slots]

\* Code of s will run for e, or its list of subscriptions change; e is the end of s.
Concerns(e, s) == \/ e.id # 0 /\ Owner(e) = s
                  \/ e.type \in {"private", "sub", "unsub"} /\ e.to.idx = s
EndOf(e, s) == e.type = "end" /\ e.to.idx = s

Halted(t, s) == "STOPPED" \in t[s].flags
NoneFor(q, s) == \A i \in 1 .. Len(q) : ~Concerns(q[i], s)
NoEndOf(q, s) == \A i \in 1 .. Len(q) : ~EndOf(q[i], s)
Loose(e) == /\ e.id # 0 => e.type \in {"user", "private"}
            /\ e.type = "sub" => e.evt \in Values

Kinds(t, q, st, c) ==
  /\ t \in [Slots -> TaskRecords] /\ q \in Seq(Events) /\ st \in Seq(Frames)
  /\ c \in 0 .. MaxCalls
  /\ \A i \in 1 .. Len(q) : q[i].type \in Posted

\* Each task is free, running, stopped or being started; all but the free are loaded.
StatusOK(R, F, t, st) ==
  /\ ~Halted(t, System)
  /\ \A s \in Slots : t[s].loaded <=> s # System /\ s \notin F
  /\ \A s \in Slots : Halted(t, s) => s \notin R \cup F
  /\ \A s \in Slots \ {System} :
       s \in R \/ s \in F \/ Halted(t, s)
       \/ \E i \in 1 .. Len(st) : st[i].do \in Launching /\ st[i].at = s

\* An event that runs an app finds it loaded; after the end of a task, which there
\* is once and for stopped tasks only, nothing is about it.
QueueOK(q, t) ==
  /\ \A i \in 1 .. Len(q) : Loose(q[i])
  /\ \A i \in 1 .. Len(q), s \in Slots : Concerns(q[i], s) => t[s].loaded
  /\ \A i \in 1 .. Len(q), s \in Slots : EndOf(q[i], s) => Halted(t, s)
  /\ \A i, j \in 1 .. Len(q), s \in Slots :
       i < j /\ EndOf(q[i], s) => ~Concerns(q[j], s) /\ ~EndOf(q[j], s)

\* Code of apps lies on one frame of the OS, under which only boot goes on.
Shape(st) ==
  /\ \A i, j \in 1 .. Len(st) : i < j /\ st[i].do \in Kernels =>
       st[j].do = "host" /\ st[j].ev.type = "boot" /\ st[j].ev.id = 0
  /\ \A i \in 1 .. Len(st) : st[i].do \in Nested =>
       i + 1 \in 1 .. Len(st) /\ st[i + 1].do \notin Leaves \cup {"host"}
  /\ \A i \in 1 .. Len(st) : st[i].do = "init" =>
       st[i + 1].do = "starting" /\ st[i + 1].at = st[i].cur
  /\ \A i \in 1 .. Len(st) : st[i].do = "starting" =>
       i - 1 \in 1 .. Len(st) /\ st[i - 1].do = "init"

FrameOK(f, R, F, l, t, q, c) ==
  /\ Loose(f.ev)
  /\ f.do \in AppFrames => t[f.cur].loaded
  /\ f.do = "dropped" => t[f.ev.by.idx].loaded
  /\ f.do \in {"event", "walk", "visited", "done"} =>
       \A s \in Slots : Concerns(f.ev, s) => t[s].loaded
  /\ f.do \in {"host", "stopping"} \cup Launching => f.ev.type \in {"boot", "defer"}
  /\ f.do = "event" => f.ev.type \in Posted
  /\ f.do = "ended" => f.ev.type = "end"
  /\ f.do = "walk" => f.at \in R \cup {NO_NODE}
  /\ f.do = "visited" => /\ f.at \in Slots /\ f.at \notin F
                         /\ f.at \notin R => l[f.at].next = NO_NODE
  /\ f.do \in Launching =>
       f.at \in Slots \ {System} /\ f.at \notin R \cup F /\ ~Halted(t, f.at)
  /\ f.do \in {"event", "ended"} /\ f.ev.type = "end" =>
       Halted(t, f.ev.to.idx) /\ NoEndOf(q, f.ev.to.idx) /\ NoneFor(q, f.ev.to.idx)
  /\ f.do = "stopping" => f.at \in Slots /\ Halted(t, f.at) /\ NoEndOf(q, f.at)
  /\ f.do = "init" => f.at \in 0 .. c /\ (f.at = c => NoneFor(q, f.cur))
  /\ f.do = "failed" => NoneFor(q, f.at)

Good(R, F, l, t, q, st, c) ==
  /\ TwoLists(R, F, l)
  /\ Kinds(t, q, st, c)
  /\ StatusOK(R, F, t, st)
  /\ QueueOK(q, t)
  /\ Shape(st)
  /\ \A i \in 1 .. Len(st) : FrameOK(st[i], R, F, l, t, q, c)

Running == Reached(Tasks)
Spare == Reached(FreeTasks)

TaskInv == Good(Running, Spare, list, task, queue, stack, calls)

-----------------------------------------------------------------------------
(* Sequences.                                                               *)

LEMMA Elements ==
  ASSUME NEW S, NEW q \in Seq(S)
  PROVE  Len(q) \in Nat /\ \A i \in 1 .. Len(q) : q[i] \in S
BY LenProperties, ElementOfSeq

LEMMA Replaced ==
  ASSUME NEW S, NEW q \in Seq(S), q # <<>>, NEW f \in S
  PROVE  \E r \in Seq(S) :
           /\ r = <<f>> \o Tail(q) /\ Len(r) = Len(q) /\ Len(q) > 0
           /\ r[1] = f /\ \A i \in 2 .. Len(q) : r[i] = q[i]
<1> DEFINE r == <<f>> \o Tail(q)
<1>1. Len(q) \in Nat /\ Len(q) > 0 /\ Tail(q) \in Seq(S) /\ Len(Tail(q)) = Len(q) - 1
      /\ \A i \in 1 .. Len(q) - 1 : Tail(q)[i] = q[i + 1]
  BY LenProperties, EmptySeq, HeadTailProperties
<1>2. <<f>> \in Seq(S) /\ Len(<<f>>) = 1
  OBVIOUS
<1>3. r \in Seq(S) /\ Len(r) = Len(q)
      /\ \A i \in 1 .. Len(r) : r[i] = IF i <= 1 THEN <<f>>[i] ELSE Tail(q)[i - 1]
  <2>1. r \in Seq(S) /\ Len(r) = 1 + (Len(q) - 1)
        /\ \A i \in 1 .. 1 + (Len(q) - 1) : r[i] = IF i <= 1 THEN <<f>>[i] ELSE Tail(q)[i - 1]
    BY <1>1, <1>2, ConcatProperties
  <2> HIDE DEF r
  <2> QED BY <1>1, <2>1
<1> HIDE DEF r
<1>4. r[1] = f
  BY <1>1, <1>3
<1>5. ASSUME NEW i \in 2 .. Len(q) PROVE r[i] = q[i]
  <2>1. r[i] = Tail(q)[i - 1]
    BY <1>1, <1>3
  <2>2. i - 1 \in 1 .. Len(q) - 1 /\ (i - 1) + 1 = i
    BY <1>1
  <2>3. Tail(q)[i - 1] = q[(i - 1) + 1]
    BY <1>1, <2>2
  <2> QED BY <2>1, <2>2, <2>3
<1>6. r = <<f>> \o Tail(q)
  BY DEF r
<1> QED BY <1>1, <1>3, <1>4, <1>5, <1>6

Push(f, q) == <<f>> \o q

LEMMA Pushed ==
  ASSUME NEW S, NEW q \in Seq(S), NEW f \in S
  PROVE  \E r \in Seq(S) :
           /\ r = Push(f, q) /\ Len(r) = Len(q) + 1 /\ r[1] = f
           /\ \A i \in 2 .. Len(q) + 1 : r[i] = q[i - 1]
<1> DEFINE r == <<f>> \o q
<1>1. Len(q) \in Nat /\ <<f>> \in Seq(S) /\ Len(<<f>>) = 1
  BY LenProperties
<1>2. r \in Seq(S) /\ Len(r) = 1 + Len(q)
      /\ \A i \in 1 .. 1 + Len(q) : r[i] = IF i <= 1 THEN <<f>>[i] ELSE q[i - 1]
  BY <1>1, ConcatProperties
<1>3. r = Push(f, q)
  BY DEF Push
<1> HIDE DEF r
<1>4. r[1] = f /\ Len(r) = Len(q) + 1
  BY <1>1, <1>2
<1>5. ASSUME NEW i \in 2 .. Len(q) + 1 PROVE r[i] = q[i - 1]
  BY <1>1, <1>2
<1> QED BY <1>2, <1>3, <1>4, <1>5

PushTwo(g, f, q) == <<g, f>> \o Tail(q)

LEMMA PushedTwo ==
  ASSUME NEW q \in Seq(Frames), q # <<>>, NEW f \in Frames, NEW g \in Frames
  PROVE  \E r \in Seq(Frames) :
           /\ r = PushTwo(g, f, q) /\ Len(r) = Len(q) + 1 /\ Len(q) > 0
           /\ r[1] = g /\ r[2] = f /\ \A i \in 3 .. Len(q) + 1 : r[i] = q[i - 1]
<1> DEFINE r == <<g, f>> \o Tail(q)
<1>1. Len(q) \in Nat /\ Len(q) > 0 /\ Tail(q) \in Seq(Frames) /\ Len(Tail(q)) = Len(q) - 1
      /\ \A i \in 1 .. Len(q) - 1 : Tail(q)[i] = q[i + 1]
  BY LenProperties, EmptySeq, HeadTailProperties
<1>2. <<g, f>> \in Seq(Frames) /\ Len(<<g, f>>) = 2 /\ <<g, f>>[1] = g /\ <<g, f>>[2] = f
  OBVIOUS
<1>3. r \in Seq(Frames) /\ Len(r) = Len(q) + 1
      /\ \A i \in 1 .. Len(r) : r[i] = IF i <= 2 THEN <<g, f>>[i] ELSE Tail(q)[i - 2]
  <2>1. r \in Seq(Frames) /\ Len(r) = 2 + (Len(q) - 1)
        /\ \A i \in 1 .. 2 + (Len(q) - 1) : r[i] = IF i <= 2 THEN <<g, f>>[i] ELSE Tail(q)[i - 2]
    BY <1>1, <1>2, ConcatProperties
  <2> HIDE DEF r
  <2> QED BY <1>1, <2>1
<1>4. r = PushTwo(g, f, q)
  BY DEF PushTwo
<1> HIDE DEF r
<1>5. r[1] = g /\ r[2] = f
  BY <1>1, <1>2, <1>3
<1>6. ASSUME NEW i \in 3 .. Len(q) + 1 PROVE r[i] = q[i - 1]
  <2>1. r[i] = Tail(q)[i - 2]
    BY <1>1, <1>3
  <2>2. i - 2 \in 1 .. Len(q) - 1 /\ (i - 2) + 1 = i - 1
    BY <1>1
  <2>3. Tail(q)[i - 2] = q[(i - 2) + 1]
    <3>1. \A j \in 1 .. Len(q) - 1 : Tail(q)[j] = q[j + 1]
      BY <1>1
    <3> QED BY <2>2, <3>1, Zenon
  <2> QED BY <2>1, <2>2, <2>3
<1> QED BY <1>1, <1>3, <1>4, <1>5, <1>6

LEMMA Popped ==
  ASSUME NEW S, NEW q \in Seq(S), q # <<>>
  PROVE  \E r \in Seq(S) :
           /\ r = Tail(q) /\ Len(r) = Len(q) - 1 /\ Len(q) \in Nat /\ Len(q) > 0
           /\ Head(q) = q[1] /\ \A i \in 1 .. Len(q) - 1 : r[i] = q[i + 1]
<1>1. Len(q) \in Nat /\ Len(q) > 0 /\ Tail(q) \in Seq(S) /\ Len(Tail(q)) = Len(q) - 1
      /\ Head(q) = q[1] /\ \A i \in 1 .. Len(q) - 1 : Tail(q)[i] = q[i + 1]
  BY LenProperties, EmptySeq, HeadTailProperties
<1> QED BY <1>1, Zenon

LEMMA Landed ==
  ASSUME NEW S, NEW q \in Seq(S), Len(q) >= 2, NEW f \in S
  PROVE  \E r \in Seq(S) :
           /\ r = <<f>> \o SubSeq(q, 3, Len(q)) /\ Len(r) = Len(q) - 1
           /\ r[1] = f /\ \A i \in 2 .. Len(q) - 1 : r[i] = q[i + 1]
<1> DEFINE r == <<f>> \o SubSeq(q, 3, Len(q))
           u == SubSeq(q, 3, Len(q))
<1>1. Len(q) \in Nat /\ \A i \in 1 .. Len(q) : q[i] \in S
  BY Elements
<1>2. u = [i \in 1 .. Len(q) - 2 |-> q[i + 2]]
  <2>1. u = [i \in 1 .. (1 + Len(q) - 3) |-> q[3 + i - 1]]
    BY DEF SubSeq
  <2> HIDE DEF u
  <2>2. \A i \in 1 .. Len(q) - 2 : 3 + i - 1 = i + 2
    BY <1>1
  <2>3. 1 + Len(q) - 3 = Len(q) - 2
    BY <1>1
  <2> QED BY <2>1, <2>2, <2>3
<1>3. u \in Seq(S) /\ Len(u) = Len(q) - 2
  <2>1. \A i \in 1 .. Len(q) - 2 : i + 2 \in 1 .. Len(q)
    BY <1>1
  <2> HIDE DEF u
  <2>2. u \in [1 .. Len(q) - 2 -> S] /\ Len(q) - 2 \in Nat
    BY <1>1, <1>2, <2>1
  <2> QED BY <2>2, SeqDef, LenProperties
<1>4. <<f>> \in Seq(S) /\ Len(<<f>>) = 1
  OBVIOUS
<1>5. r \in Seq(S) /\ Len(r) = 1 + (Len(q) - 2)
      /\ \A i \in 1 .. 1 + (Len(q) - 2) : r[i] = IF i <= 1 THEN <<f>>[i] ELSE u[i - 1]
  <2> HIDE DEF u
  <2>1. r = <<f>> \o u
    BY DEF u
  <2> HIDE DEF r
  <2> QED BY <1>3, <1>4, <2>1, ConcatProperties
<1>6. r = <<f>> \o SubSeq(q, 3, Len(q))
  OBVIOUS
<1> HIDE DEF r, u
<1>7. r[1] = f /\ Len(r) = Len(q) - 1
  BY <1>1, <1>5
<1>8. ASSUME NEW i \in 2 .. Len(q) - 1 PROVE r[i] = q[i + 1]
  <2>1. r[i] = u[i - 1]
    BY <1>1, <1>5
  <2>2. i - 1 \in 1 .. Len(q) - 2 /\ (i - 1) + 2 = i + 1
    BY <1>1
  <2>3. u[i - 1] = q[(i - 1) + 2]
    BY <1>2, <2>2
  <2> QED BY <2>1, <2>2, <2>3
<1> QED BY <1>5, <1>6, <1>7, <1>8

Put(q, e) == Append(q, e)

LEMMA Appended ==
  ASSUME NEW S, NEW q \in Seq(S), NEW e \in S
  PROVE  \E r \in Seq(S) :
           /\ r = Put(q, e) /\ Len(r) = Len(q) + 1 /\ r[Len(q) + 1] = e
           /\ \A i \in 1 .. Len(q) : r[i] = q[i]
<1> DEFINE r == Append(q, e)
<1>1. r \in Seq(S) /\ Len(r) = Len(q) + 1 /\ (\A i \in 1 .. Len(q) : r[i] = q[i])
      /\ r[Len(q) + 1] = e
  BY AppendProperties
<1>2. r = Put(q, e)
  BY DEF Put
<1> HIDE DEF r
<1> QED BY <1>1, <1>2

-----------------------------------------------------------------------------
(* What the operations do to the stack keeps its shape.                     *)

\* No leaf frame has anything above it, but boot's.
LEMMA TopOnly ==
  ASSUME NEW st \in Seq(Frames), Shape(st), NEW i \in 2 .. Len(st)
  PROVE  st[i].do \notin Leaves
<1>1. Len(st) \in Nat /\ \A j \in 1 .. Len(st) : st[j] \in Frames
  BY Elements
<1>2. i - 1 \in 1 .. Len(st) /\ i \in 1 .. Len(st) /\ (i - 1) + 1 = i /\ i - 1 < i
  BY <1>1
<1>3. CASE st[i - 1].do \in Kernels
  <2>1. st[i].do = "host"
    BY <1>2, <1>3 DEF Shape
  <2> QED BY <2>1 DEF Leaves
<1>4. CASE st[i - 1].do \in Nested
  <2>1. st[(i - 1) + 1].do \notin Leaves
    BY <1>2, <1>4 DEF Shape
  <2> QED BY <1>2, <2>1
<1>5. st[i - 1].do \in Kernels \cup Nested
  BY <1>1, <1>2 DEF Frames
<1> QED BY <1>3, <1>4, <1>5

\* Under a frame of the OS there is only boot.
LEMMA OnlyBootBelow ==
  ASSUME NEW st \in Seq(Frames), Shape(st), Len(st) > 0, st[1].do \in Kernels
  PROVE  \A i \in 2 .. Len(st) : st[i].do = "host" /\ st[i].ev.type = "boot" /\ st[i].ev.id = 0
BY Elements DEF Shape

LEMMA KernelReplaced ==
  ASSUME NEW st \in Seq(Frames), Shape(st), Len(st) > 0, st[1].do \in Kernels,
         NEW f \in Frames, f.do \in Kernels \ {"starting"},
         NEW r \in Seq(Frames), Len(r) = Len(st), r[1] = f, \A i \in 2 .. Len(st) : r[i] = st[i]
  PROVE  Shape(r)
<1>1. Len(st) \in Nat
  BY Elements
<1>2. \A i \in 2 .. Len(r) : r[i].do = "host" /\ r[i].ev.type = "boot" /\ r[i].ev.id = 0
  BY OnlyBootBelow
<1>3. \A i \in 1 .. Len(r) : r[i].do \in Kernels \ {"starting"}
  BY <1>1, <1>2 DEF Kernels
<1> QED BY <1>1, <1>2, <1>3 DEF Shape, Nested, AppFrames, Kernels, Leaves

LEMMA KernelCalls ==
  ASSUME NEW st \in Seq(Frames), Shape(st), Len(st) > 0, st[1].do \in Kernels,
         NEW f \in Frames, f.do \in Kernels \ (Leaves \cup {"host"}),
         NEW g \in Frames, g.do \in Nested, g.do = "init" <=> f.do = "starting",
         g.do = "init" => f.at = g.cur,
         NEW r \in Seq(Frames), Len(r) = Len(st) + 1, r[1] = g, r[2] = f,
         \A i \in 3 .. Len(st) + 1 : r[i] = st[i - 1]
  PROVE  Shape(r)
<1>1. Len(st) \in Nat /\ Len(r) >= 2
  BY Elements
<1>2. \A i \in 3 .. Len(r) : r[i].do = "host" /\ r[i].ev.type = "boot" /\ r[i].ev.id = 0
  <2> TAKE i \in 3 .. Len(r)
  <2>1. i - 1 \in 2 .. Len(st)
    BY <1>1
  <2> QED BY <1>1, <2>1, OnlyBootBelow
<1>3. \A i \in 1 .. Len(r) : i = 1 \/ i = 2 \/ i \in 3 .. Len(r)
  BY <1>1
<1>4. g.do \notin Kernels /\ "host" \in Kernels /\ "host" \notin Nested
  BY DEF Kernels, Leaves, Nested, AppFrames
<1>5. ASSUME NEW i \in 1 .. Len(r), NEW j \in 1 .. Len(r), i < j, r[i].do \in Kernels
      PROVE  r[j].do = "host" /\ r[j].ev.type = "boot" /\ r[j].ev.id = 0
  <2>1. i # 1
    BY <1>4, <1>5
  <2>2. j \in 3 .. Len(r)
    BY <1>1, <1>5, <2>1
  <2> QED BY <1>2, <2>2
<1>6. ASSUME NEW i \in 1 .. Len(r), r[i].do \in Nested
      PROVE  i + 1 \in 1 .. Len(r) /\ r[i + 1].do \notin Leaves \cup {"host"}
  <2>1. f.do \notin Nested
    BY DEF Kernels, Leaves, Nested, AppFrames
  <2>2. i = 1
    BY <1>2, <1>3, <1>4, <1>6, <2>1
  <2> QED BY <1>1, <2>2
<1>7. ASSUME NEW i \in 1 .. Len(r), r[i].do = "init"
      PROVE  r[i + 1].do = "starting" /\ r[i + 1].at = r[i].cur
  <2>1. f.do # "init"
    BY DEF Kernels, Leaves
  <2>2. i = 1
    BY <1>2, <1>3, <1>7, <2>1
  <2> QED BY <1>7, <2>2
<1>8. ASSUME NEW i \in 1 .. Len(r), r[i].do = "starting"
      PROVE  i - 1 \in 1 .. Len(r) /\ r[i - 1].do = "init"
  <2>1. i = 2
    BY <1>2, <1>3, <1>8 DEF Nested, AppFrames
  <2> QED BY <1>1, <1>8, <2>1
<1> QED BY <1>5, <1>6, <1>7, <1>8 DEF Shape

LEMMA AppCalls ==
  ASSUME NEW st \in Seq(Frames), Shape(st), Len(st) > 0, st[1].do \in Nested,
         NEW f \in Frames, f.do \in Nested \ {"init"},
         NEW r \in Seq(Frames), Len(r) = Len(st) + 1, r[1] = f,
         \A i \in 2 .. Len(st) + 1 : r[i] = st[i - 1]
  PROVE  Shape(r)
<1>1. Len(st) \in Nat
  BY Elements
<1>2. \A i \in 1 .. Len(r) : i = 1 \/ (i - 1 \in 1 .. Len(st) /\ r[i] = st[i - 1])
  BY <1>1
<1>3. f.do \notin Kernels /\ st[1].do \notin Leaves \cup {"host"} /\ f.do # "starting"
  BY DEF Kernels, Leaves, Nested, AppFrames
<1>4. ASSUME NEW i \in 1 .. Len(r), NEW j \in 1 .. Len(r), i < j, r[i].do \in Kernels
      PROVE  r[j].do = "host" /\ r[j].ev.type = "boot" /\ r[j].ev.id = 0
  <2>1. i # 1
    BY <1>3, <1>4
  <2>2. i - 1 \in 1 .. Len(st) /\ j - 1 \in 1 .. Len(st) /\ r[i] = st[i - 1] /\ r[j] = st[j - 1]
        /\ i - 1 < j - 1
    BY <1>1, <1>2, <1>4, <2>1
  <2> QED BY <1>4, <2>2 DEF Shape
<1>5. ASSUME NEW i \in 1 .. Len(r), r[i].do \in Nested
      PROVE  i + 1 \in 1 .. Len(r) /\ r[i + 1].do \notin Leaves \cup {"host"}
  <2>1. CASE i = 1
    <3>1. 2 \in 2 .. Len(st) + 1
      BY <1>1
    <3>2. r[2] = st[1]
      BY <3>1
    <3> QED BY <1>1, <1>3, <2>1, <3>2
  <2>2. CASE i # 1
    <3>1. i - 1 \in 1 .. Len(st) /\ r[i] = st[i - 1] /\ (i - 1) + 1 = i
      BY <1>1, <1>2, <2>2
    <3>2. (i - 1) + 1 \in 1 .. Len(st) /\ st[(i - 1) + 1].do \notin Leaves \cup {"host"}
      BY <1>5, <3>1 DEF Shape
    <3>3. i + 1 \in 2 .. Len(st) + 1 /\ (i + 1) - 1 = i
      BY <1>1, <3>1, <3>2
    <3>4. r[i + 1] = st[i]
      BY <3>3
    <3> QED BY <1>1, <3>1, <3>2, <3>3, <3>4
  <2> QED BY <2>1, <2>2
<1>6. ASSUME NEW i \in 1 .. Len(r), r[i].do = "init"
      PROVE  r[i + 1].do = "starting" /\ r[i + 1].at = r[i].cur
  <2>1. i # 1
    BY <1>6
  <2>2. i - 1 \in 1 .. Len(st) /\ r[i] = st[i - 1] /\ (i - 1) + 1 = i
    BY <1>1, <1>2, <2>1
  <2>3. st[(i - 1) + 1].do = "starting" /\ st[(i - 1) + 1].at = st[i - 1].cur
    BY <1>6, <2>2 DEF Shape
  <2>4. (i - 1) + 1 \in 1 .. Len(st)
    BY <1>6, <2>2 DEF Shape, Nested, AppFrames
  <2>5. i + 1 \in 2 .. Len(st) + 1 /\ (i + 1) - 1 = i
    BY <1>1, <2>2, <2>4
  <2>6. r[i + 1] = st[i]
    BY <2>5
  <2> QED BY <2>2, <2>3, <2>6
<1>7. ASSUME NEW i \in 1 .. Len(r), r[i].do = "starting"
      PROVE  i - 1 \in 1 .. Len(r) /\ r[i - 1].do = "init"
  <2>1. i # 1
    BY <1>3, <1>7
  <2>2. i - 1 \in 1 .. Len(st) /\ r[i] = st[i - 1]
    BY <1>1, <1>2, <2>1
  <2>3. (i - 1) - 1 \in 1 .. Len(st) /\ st[(i - 1) - 1].do = "init"
    BY <1>7, <2>2 DEF Shape
  <2>4. i - 1 \in 2 .. Len(st) + 1
    BY <1>1, <2>2, <2>3
  <2>5. r[i - 1] = st[(i - 1) - 1]
    BY <2>4
  <2> QED BY <1>1, <2>3, <2>4, <2>5
<1> QED BY <1>4, <1>5, <1>6, <1>7 DEF Shape

LEMMA AppReplaced ==
  ASSUME NEW st \in Seq(Frames), Shape(st), Len(st) > 0, st[1].do = "dropped",
         NEW f \in Frames, f.do \in Nested \ {"init"},
         NEW r \in Seq(Frames), Len(r) = Len(st), r[1] = f, \A i \in 2 .. Len(st) : r[i] = st[i]
  PROVE  Shape(r)
<1>1. Len(st) \in Nat
  BY Elements
<1>2. \A i \in 1 .. Len(r) : r[i] = IF i = 1 THEN f ELSE st[i]
  BY <1>1
<1>3. f.do \notin Kernels /\ f.do # "starting" /\ "dropped" \in Nested /\ "init" # "dropped"
  BY DEF Kernels, Leaves, Nested, AppFrames
<1>4. ASSUME NEW i \in 1 .. Len(r), NEW j \in 1 .. Len(r), i < j, r[i].do \in Kernels
      PROVE  r[j].do = "host" /\ r[j].ev.type = "boot" /\ r[j].ev.id = 0
  BY <1>1, <1>2, <1>3, <1>4 DEF Shape
<1>5. ASSUME NEW i \in 1 .. Len(r), r[i].do \in Nested
      PROVE  i + 1 \in 1 .. Len(r) /\ r[i + 1].do \notin Leaves \cup {"host"}
  <2>1. i + 1 \in 1 .. Len(st) /\ st[i + 1].do \notin Leaves \cup {"host"}
    BY <1>2, <1>3, <1>5 DEF Shape
  <2> QED BY <1>1, <1>2, <2>1
<1>6. ASSUME NEW i \in 1 .. Len(r), r[i].do = "init"
      PROVE  r[i + 1].do = "starting" /\ r[i + 1].at = r[i].cur
  <2>1. i # 1 /\ r[i] = st[i]
    BY <1>2, <1>6
  <2>2. i + 1 \in 1 .. Len(st) /\ st[i + 1].do = "starting" /\ st[i + 1].at = st[i].cur
    BY <1>6, <2>1 DEF Shape, Nested, AppFrames
  <2> QED BY <1>1, <1>2, <2>1, <2>2
<1>7. ASSUME NEW i \in 1 .. Len(r), r[i].do = "starting"
      PROVE  i - 1 \in 1 .. Len(r) /\ r[i - 1].do = "init"
  <2>1. i # 1 /\ r[i] = st[i]
    BY <1>2, <1>3, <1>7
  <2>2. i - 1 \in 1 .. Len(st) /\ st[i - 1].do = "init"
    BY <1>7, <2>1 DEF Shape
  <2>3. i - 1 # 1
    BY <1>3, <2>2
  <2> QED BY <1>1, <1>2, <2>2, <2>3
<1> QED BY <1>4, <1>5, <1>6, <1>7 DEF Shape

LEMMA Returned ==
  ASSUME NEW st \in Seq(Frames), Shape(st), Len(st) > 0, st[1].do # "init",
         NEW r \in Seq(Frames), Len(r) = Len(st) - 1,
         \A i \in 1 .. Len(st) - 1 : r[i] = st[i + 1]
  PROVE  Shape(r)
<1>1. Len(st) \in Nat
  BY Elements
<1>2. \A i \in 1 .. Len(r) : i + 1 \in 1 .. Len(st) /\ r[i] = st[i + 1]
  BY <1>1
<1>3. ASSUME NEW i \in 1 .. Len(r), NEW j \in 1 .. Len(r), i < j, r[i].do \in Kernels
      PROVE  r[j].do = "host" /\ r[j].ev.type = "boot" /\ r[j].ev.id = 0
  <2>1. i + 1 < j + 1 /\ i + 1 \in 1 .. Len(st) /\ j + 1 \in 1 .. Len(st)
        /\ r[i] = st[i + 1] /\ r[j] = st[j + 1]
    BY <1>2, <1>3
  <2> QED BY <1>3, <2>1 DEF Shape
<1>4. ASSUME NEW i \in 1 .. Len(r), r[i].do \in Nested
      PROVE  i + 1 \in 1 .. Len(r) /\ r[i + 1].do \notin Leaves \cup {"host"}
  <2>1. (i + 1) + 1 \in 1 .. Len(st) /\ st[(i + 1) + 1].do \notin Leaves \cup {"host"}
    BY <1>2, <1>4 DEF Shape
  <2>2. i + 1 \in 1 .. Len(r)
    BY <1>1, <2>1
  <2> QED BY <1>2, <2>1, <2>2
<1>5. ASSUME NEW i \in 1 .. Len(r), r[i].do = "init"
      PROVE  r[i + 1].do = "starting" /\ r[i + 1].at = r[i].cur
  <2>1. st[(i + 1) + 1].do = "starting" /\ st[(i + 1) + 1].at = st[i + 1].cur
    BY <1>2, <1>5 DEF Shape
  <2>2. i + 1 \in 1 .. Len(r)
    BY <1>4, <1>5 DEF Nested, AppFrames
  <2> QED BY <1>2, <2>1, <2>2
<1>6. ASSUME NEW i \in 1 .. Len(r), r[i].do = "starting"
      PROVE  i - 1 \in 1 .. Len(r) /\ r[i - 1].do = "init"
  <2>1. (i + 1) - 1 \in 1 .. Len(st) /\ st[(i + 1) - 1].do = "init"
    BY <1>2, <1>6 DEF Shape
  <2>2. (i + 1) - 1 = i
    OBVIOUS
  <2>3. i # 1
    BY <2>1, <2>2
  <2>4. i - 1 \in 1 .. Len(r) /\ (i - 1) + 1 = i
    BY <2>3
  <2> QED BY <1>2, <2>1, <2>2, <2>4
<1> QED BY <1>3, <1>4, <1>5, <1>6 DEF Shape

LEMMA InitReturned ==
  ASSUME NEW st \in Seq(Frames), Shape(st), Len(st) > 0, st[1].do = "init",
         NEW f \in Frames, f.do \in {"started", "failed"},
         NEW r \in Seq(Frames), Len(r) = Len(st) - 1, r[1] = f,
         \A i \in 2 .. Len(st) - 1 : r[i] = st[i + 1]
  PROVE  Shape(r)
<1>1. Len(st) \in Nat
  BY Elements
<1>2. 2 \in 1 .. Len(st) /\ st[2].do = "starting"
  <2>1. 1 \in 1 .. Len(st) /\ 1 + 1 = 2
    BY <1>1
  <2>2. 1 + 1 \in 1 .. Len(st) /\ st[1 + 1].do = "starting"
    BY <2>1 DEF Shape, Nested, AppFrames
  <2> QED BY <2>1, <2>2
<1>3. \A i \in 2 .. Len(r) : r[i].do = "host" /\ r[i].ev.type = "boot" /\ r[i].ev.id = 0
  <2> TAKE i \in 2 .. Len(r)
  <2>1. i + 1 \in 1 .. Len(st) /\ 2 < i + 1 /\ r[i] = st[i + 1]
    BY <1>1
  <2> QED BY <1>2, <2>1 DEF Shape, Kernels
<1>4. \A i \in 1 .. Len(r) : r[i].do \in Kernels \ {"starting"}
  BY <1>1, <1>3 DEF Kernels, Leaves
<1> QED BY <1>1, <1>3, <1>4 DEF Shape, Nested, AppFrames, Kernels, Leaves

\* The innermost frame, alone.
LEMMA Alone ==
  ASSUME NEW f \in Frames, f.do \in Kernels \ {"starting"}
  PROVE  \E r \in Seq(Frames) : r = <<f>> /\ Len(r) = 1 /\ r[1] = f /\ Shape(r)
<1> DEFINE r == <<f>>
<1>1. r \in Seq(Frames) /\ Len(r) = 1 /\ r[1] = f /\ r = <<f>>
  OBVIOUS
<1> HIDE DEF r
<1>2. Shape(r)
  BY <1>1 DEF Shape, Nested, AppFrames, Kernels, Leaves
<1> QED BY <1>1, <1>2

-----------------------------------------------------------------------------
(* The moves the operations are made of.                                    *)

SameStatus(t, u) ==
  \A s \in Slots : u[s].loaded = t[s].loaded /\ (Halted(u, s) <=> Halted(t, s))

\* What does not stop, free or load a task.
LEMMA Retasked ==
  ASSUME NEW R, NEW F, NEW l, NEW t, NEW q, NEW st, NEW c, Good(R, F, l, t, q, st, c),
         NEW u \in [Slots -> TaskRecords], SameStatus(t, u)
  PROVE  Good(R, F, l, u, q, st, c)
<1>1. TwoLists(R, F, l) /\ Kinds(t, q, st, c) /\ StatusOK(R, F, t, st) /\ QueueOK(q, t) /\ Shape(st)
      /\ \A i \in 1 .. Len(st) : FrameOK(st[i], R, F, l, t, q, c)
  BY DEF Good
<1>2. R \subseteq Slots /\ F \subseteq Slots /\ System \in Slots
  BY <1>1, Following, Nodish
<1>3. Kinds(u, q, st, c)
  BY <1>1 DEF Kinds
<1>4. StatusOK(R, F, u, st)
  BY <1>1, <1>2 DEF StatusOK, SameStatus
<1>5. QueueOK(q, u)
  BY <1>1 DEF QueueOK, SameStatus
<1>6. ASSUME NEW i \in 1 .. Len(st) PROVE FrameOK(st[i], R, F, l, u, q, c)
  <2>1. PICK f \in Frames : f = st[i]
    BY <1>1, Elements DEF Kinds
  <2>2. f.cur \in Slots /\ f.ev.by.idx \in Slots /\ f.ev.to.idx \in Slots
    BY DEF Frames, Events, Tids
  <2>3. FrameOK(f, R, F, l, t, q, c)
    BY <1>1, <2>1
  <2>4. FrameOK(f, R, F, l, u, q, c)
    BY <2>2, <2>3 DEF FrameOK, SameStatus
  <2> QED BY <2>1, <2>4
<1> QED BY <1>1, <1>3, <1>4, <1>5, <1>6 DEF Good

\* A stack of frames that are as they should, with the same task being started.
LEMMA Restacked ==
  ASSUME NEW R, NEW F, NEW l, NEW t, NEW q, NEW st, NEW c, Good(R, F, l, t, q, st, c),
         NEW r \in Seq(Frames), Shape(r),
         \A i \in 1 .. Len(r) : FrameOK(r[i], R, F, l, t, q, c),
         \A i \in 1 .. Len(st) : st[i].do \in Launching =>
           \E j \in 1 .. Len(r) : r[j].do \in Launching /\ r[j].at = st[i].at
  PROVE  Good(R, F, l, t, q, r, c)
<1>1. StatusOK(R, F, t, st) /\ Kinds(t, q, st, c)
  BY DEF Good
<1>2. StatusOK(R, F, t, r)
  BY <1>1 DEF StatusOK
<1>3. Kinds(t, q, r, c)
  BY <1>1 DEF Kinds
<1> QED BY <1>2, <1>3 DEF Good

\* Boot's frames are always as they should.
LEMMA BootIsFine ==
  ASSUME NEW R, NEW F, NEW l, NEW t, NEW q, NEW c,
         NEW f \in Frames, f.do = "host", f.ev.type = "boot", f.ev.id = 0
  PROVE  FrameOK(f, R, F, l, t, q, c)
BY DEF FrameOK, Loose, AppFrames, Launching

\* The OS goes on: its frame becomes another one.
LEMMA GoesOn ==
  ASSUME NEW R, NEW F, NEW l, NEW t, NEW q, NEW st, NEW c, Good(R, F, l, t, q, st, c),
         st # <<>>, st[1].do \in Kernels \ Launching,
         NEW f \in Frames, f.do \in Kernels \ {"starting"},
         FrameOK(f, R, F, l, t, q, c)
  PROVE  Good(R, F, l, t, q, <<f>> \o Tail(st), c)
<1>1. st \in Seq(Frames) /\ Shape(st)
  BY DEF Good, Kinds
<1>2. PICK r \in Seq(Frames) :
        /\ r = <<f>> \o Tail(st) /\ Len(r) = Len(st) /\ Len(st) > 0
        /\ r[1] = f /\ \A i \in 2 .. Len(st) : r[i] = st[i]
  BY <1>1, Replaced
<1>3. Len(st) \in Nat
  BY <1>1, Elements
<1>4. Shape(r)
  BY <1>1, <1>2, KernelReplaced
<1>5. ASSUME NEW i \in 1 .. Len(r) PROVE FrameOK(r[i], R, F, l, t, q, c)
  <2>1. CASE i = 1
    BY <1>2, <2>1
  <2>2. CASE i # 1
    <3>1. i \in 1 .. Len(st) /\ r[i] = st[i]
      BY <1>2, <1>3, <2>2
    <3> QED BY <3>1 DEF Good
  <2> QED BY <2>1, <2>2
<1>6. \A i \in 1 .. Len(st) : st[i].do \notin Launching
  <2>1. \A i \in 2 .. Len(st) : st[i].do = "host"
    BY <1>1, <1>2, OnlyBootBelow
  <2> QED BY <1>3, <2>1 DEF Launching
<1>7. Good(R, F, l, t, q, r, c)
  BY <1>4, <1>5, <1>6, Restacked
<1> QED BY <1>2, <1>7

\* The OS runs an app on a frame that will go on as f.
LEMMA RunsApp ==
  ASSUME NEW R, NEW F, NEW l, NEW t, NEW q, NEW st, NEW c, Good(R, F, l, t, q, st, c),
         st # <<>>, st[1].do \in Kernels \ Launching,
         NEW f \in Frames, f.do \in {"done", "ended", "visited", "freed", "stopping"},
         FrameOK(f, R, F, l, t, q, c),
         NEW g \in Frames, g.do \in Nested \ {"init"},
         FrameOK(g, R, F, l, t, q, c)
  PROVE  Good(R, F, l, t, q, <<g, f>> \o Tail(st), c)
<1>1. st \in Seq(Frames) /\ Shape(st)
  BY DEF Good, Kinds
<1>2. PICK r \in Seq(Frames) :
        /\ r = PushTwo(g, f, st) /\ Len(r) = Len(st) + 1 /\ Len(st) > 0
        /\ r[1] = g /\ r[2] = f /\ \A i \in 3 .. Len(st) + 1 : r[i] = st[i - 1]
  BY <1>1, PushedTwo
<1>20. r = <<g, f>> \o Tail(st)
  BY <1>2 DEF PushTwo
<1>3. Len(st) \in Nat
  BY <1>1, Elements
<1>4. Shape(r)
  <2>1. f.do \in Kernels \ (Leaves \cup {"host"}) /\ g.do \in Nested /\ g.do # "init" /\ f.do # "starting"
    BY DEF Kernels, Leaves
  <2> QED BY <1>1, <1>2, <2>1, KernelCalls
<1>5. ASSUME NEW i \in 1 .. Len(r) PROVE FrameOK(r[i], R, F, l, t, q, c)
  <2>1. CASE i = 1
    BY <1>2, <2>1
  <2>2. CASE i = 2
    BY <1>2, <2>2
  <2>3. CASE i > 2
    <3>1. i - 1 \in 1 .. Len(st) /\ r[i] = st[i - 1]
      BY <1>2, <1>3, <2>3
    <3> QED BY <3>1 DEF Good
  <2> QED BY <1>2, <2>1, <2>2, <2>3
<1>6. \A i \in 1 .. Len(st) : st[i].do \notin Launching
  <2>1. \A i \in 2 .. Len(st) : st[i].do = "host"
    BY <1>1, <1>2, OnlyBootBelow
  <2> QED BY <1>3, <2>1 DEF Launching
<1>7. Good(R, F, l, t, q, r, c)
  BY <1>4, <1>5, <1>6, Restacked
<1> QED BY <1>7, <1>20

\* An app is run while an app runs.
LEMMA RunsNested ==
  ASSUME NEW R, NEW F, NEW l, NEW t, NEW q, NEW st, NEW c, Good(R, F, l, t, q, st, c),
         st # <<>>, st[1].do \in Nested,
         NEW f \in Frames, f.do \in Nested \ {"init"}, FrameOK(f, R, F, l, t, q, c)
  PROVE  Good(R, F, l, t, q, Push(f, st), c)
<1>1. st \in Seq(Frames) /\ Shape(st)
  BY DEF Good, Kinds
<1>2. PICK r \in Seq(Frames) :
        /\ r = Push(f, st) /\ Len(r) = Len(st) + 1
        /\ r[1] = f /\ \A i \in 2 .. Len(st) + 1 : r[i] = st[i - 1]
  BY <1>1, Pushed
<1>3. Len(st) \in Nat /\ Len(st) > 0
  BY <1>1, Elements, EmptySeq
<1>4. Shape(r)
  BY <1>1, <1>2, <1>3, AppCalls
<1>5. ASSUME NEW i \in 1 .. Len(r) PROVE FrameOK(r[i], R, F, l, t, q, c)
  <2>1. CASE i = 1
    BY <1>2, <2>1
  <2>2. CASE i # 1
    <3>1. i - 1 \in 1 .. Len(st) /\ r[i] = st[i - 1]
      BY <1>2, <1>3, <2>2
    <3> QED BY <3>1 DEF Good
  <2> QED BY <2>1, <2>2
<1>6. ASSUME NEW i \in 1 .. Len(st), st[i].do \in Launching
      PROVE  \E j \in 1 .. Len(r) : r[j].do \in Launching /\ r[j].at = st[i].at
  <2>1. i + 1 \in 2 .. Len(st) + 1 /\ (i + 1) - 1 = i /\ i + 1 \in 1 .. Len(r)
    BY <1>2, <1>3
  <2>2. r[i + 1] = st[i]
    BY <1>2, <2>1
  <2> QED BY <1>6, <2>1, <2>2
<1>7. Good(R, F, l, t, q, r, c)
  BY <1>4, <1>5, <1>6, Restacked
<1> QED BY <1>2, <1>7

\* The free callback takes the place of the frame of a refused message.
LEMMA RunsInstead ==
  ASSUME NEW R, NEW F, NEW l, NEW t, NEW q, NEW st, NEW c, Good(R, F, l, t, q, st, c),
         st # <<>>, st[1].do = "dropped",
         NEW f \in Frames, f.do \in Nested \ {"init"}, FrameOK(f, R, F, l, t, q, c)
  PROVE  Good(R, F, l, t, q, <<f>> \o Tail(st), c)
<1>1. st \in Seq(Frames) /\ Shape(st)
  BY DEF Good, Kinds
<1>2. PICK r \in Seq(Frames) :
        /\ r = <<f>> \o Tail(st) /\ Len(r) = Len(st) /\ Len(st) > 0
        /\ r[1] = f /\ \A i \in 2 .. Len(st) : r[i] = st[i]
  BY <1>1, Replaced
<1>3. Len(st) \in Nat
  BY <1>1, Elements
<1>4. Shape(r)
  BY <1>1, <1>2, AppReplaced
<1>5. ASSUME NEW i \in 1 .. Len(r) PROVE FrameOK(r[i], R, F, l, t, q, c)
  <2>1. CASE i = 1
    BY <1>2, <2>1
  <2>2. CASE i # 1
    <3>1. i \in 1 .. Len(st) /\ r[i] = st[i]
      BY <1>2, <1>3, <2>2
    <3> QED BY <3>1 DEF Good
  <2> QED BY <2>1, <2>2
<1>6. ASSUME NEW i \in 1 .. Len(st), st[i].do \in Launching
      PROVE  \E j \in 1 .. Len(r) : r[j].do \in Launching /\ r[j].at = st[i].at
  <2>1. i # 1
    BY <1>6 DEF Launching
  <2>2. i \in 1 .. Len(r) /\ r[i] = st[i]
    BY <1>2, <1>3, <2>1
  <2> QED BY <1>6, <2>2
<1>7. Good(R, F, l, t, q, r, c)
  BY <1>4, <1>5, <1>6, Restacked
<1> QED BY <1>2, <1>7

\* Something is done: the frame below goes on.
LEMMA Returns ==
  ASSUME NEW R, NEW F, NEW l, NEW t, NEW q, NEW st, NEW c, Good(R, F, l, t, q, st, c),
         st # <<>>, st[1].do \notin Launching \cup {"init"}
  PROVE  Good(R, F, l, t, q, Tail(st), c)
<1>1. st \in Seq(Frames) /\ Shape(st)
  BY DEF Good, Kinds
<1>2. PICK r \in Seq(Frames) :
        /\ r = Tail(st) /\ Len(r) = Len(st) - 1 /\ Len(st) \in Nat /\ Len(st) > 0
        /\ \A i \in 1 .. Len(st) - 1 : r[i] = st[i + 1]
  BY <1>1, Popped
<1>3. Shape(r)
  BY <1>1, <1>2, Returned
<1>4. ASSUME NEW i \in 1 .. Len(r) PROVE FrameOK(r[i], R, F, l, t, q, c)
  <2>1. i + 1 \in 1 .. Len(st) /\ r[i] = st[i + 1]
    BY <1>2
  <2> QED BY <2>1 DEF Good
<1>5. ASSUME NEW i \in 1 .. Len(st), st[i].do \in Launching
      PROVE  \E j \in 1 .. Len(r) : r[j].do \in Launching /\ r[j].at = st[i].at
  <2>1. i # 1
    BY <1>5
  <2>2. i - 1 \in 1 .. Len(r) /\ (i - 1) + 1 = i
    BY <1>2, <2>1
  <2>3. r[i - 1] = st[(i - 1) + 1]
    BY <1>2, <2>2
  <2> QED BY <1>5, <2>2, <2>3
<1>6. Good(R, F, l, t, q, r, c)
  BY <1>3, <1>4, <1>5, Restacked
<1> QED BY <1>2, <1>6

\* init returns.
LEMMA InitReturns ==
  ASSUME NEW R, NEW F, NEW l, NEW t, NEW q, NEW st, NEW c, Good(R, F, l, t, q, st, c),
         st # <<>>, st[1].do = "init",
         NEW d \in {"started", "failed"}, d = "failed" => st[1].at = c
  PROVE  Good(R, F, l, t, q, <<[st[2] EXCEPT !.do = d]>> \o SubSeq(st, 3, Len(st)), c)
<1>1. st \in Seq(Frames) /\ Shape(st) /\ Len(st) \in Nat /\ Len(st) > 0
  BY Elements, EmptySeq DEF Good, Kinds
<1>2. 2 \in 1 .. Len(st) /\ st[2].do = "starting" /\ st[2].at = st[1].cur
  <2>1. 1 \in 1 .. Len(st) /\ 1 + 1 = 2
    BY <1>1
  <2>2. 1 + 1 \in 1 .. Len(st) /\ st[1 + 1].do = "starting" /\ st[1 + 1].at = st[1].cur
    BY <1>1, <2>1 DEF Shape, Nested, AppFrames
  <2> QED BY <2>1, <2>2
<1>3. PICK f \in Frames : f = st[2]
  BY <1>1, <1>2, Elements
<1> DEFINE g == [st[2] EXCEPT !.do = d]
<1>4. g \in Frames /\ g.do = d /\ g.ev = f.ev /\ g.cur = f.cur /\ g.at = f.at
  <2>1. g = [do |-> d, ev |-> f.ev, cur |-> f.cur, at |-> f.at, due |-> f.due]
    BY <1>3 DEF Frames
  <2>2. d \in Kernels
    BY DEF Kernels, Leaves
  <2> HIDE DEF g
  <2> QED BY <1>3, <2>1, <2>2 DEF Frames
<1> HIDE DEF g
<1>5. PICK r \in Seq(Frames) :
        /\ r = <<g>> \o SubSeq(st, 3, Len(st)) /\ Len(r) = Len(st) - 1
        /\ r[1] = g /\ \A i \in 2 .. Len(st) - 1 : r[i] = st[i + 1]
  <2>1. Len(st) >= 2
    BY <1>1, <1>2
  <2> QED BY <1>1, <1>4, <2>1, Landed
<1>6. Shape(r)
  BY <1>1, <1>4, <1>5, InitReturned
<1>7. FrameOK(st[1], R, F, l, t, q, c) /\ FrameOK(f, R, F, l, t, q, c)
  BY <1>1, <1>2, <1>3 DEF Good
<1>8. d = "failed" => NoneFor(q, f.at)
  BY <1>2, <1>3, <1>7 DEF FrameOK
<1>9. FrameOK(g, R, F, l, t, q, c)
  BY <1>2, <1>3, <1>4, <1>7, <1>8 DEF FrameOK, Launching, AppFrames
<1>10. ASSUME NEW i \in 1 .. Len(r) PROVE FrameOK(r[i], R, F, l, t, q, c)
  <2>1. CASE i = 1
    BY <1>5, <1>9, <2>1
  <2>2. CASE i # 1
    <3>1. i + 1 \in 1 .. Len(st) /\ r[i] = st[i + 1]
      BY <1>1, <1>5, <2>2
    <3> QED BY <3>1 DEF Good
  <2> QED BY <2>1, <2>2
<1>11. ASSUME NEW i \in 1 .. Len(st), st[i].do \in Launching
       PROVE  \E j \in 1 .. Len(r) : r[j].do \in Launching /\ r[j].at = st[i].at
  <2>1. i # 1
    BY <1>11 DEF Launching
  <2>2. CASE i = 2
    <3>1. 1 \in 1 .. Len(r)
      BY <1>1, <1>2, <1>5
    <3> QED BY <1>3, <1>4, <1>5, <2>2, <3>1 DEF Launching
  <2>3. CASE i # 2
    <3>1. 2 < i /\ 2 \in 1 .. Len(st) /\ st[2].do \in Kernels
      BY <1>1, <1>2, <2>1, <2>3 DEF Kernels
    <3>2. st[i].do = "host"
      BY <1>1, <3>1 DEF Shape
    <3> QED BY <1>11, <3>2 DEF Launching
  <2> QED BY <2>2, <2>3
<1>12. Good(R, F, l, t, q, r, c)
  BY <1>6, <1>10, <1>11, Restacked
<1> QED BY <1>5, <1>12 DEF g

\* Time passes for init: it has made a call.
LEMMA Ticks ==
  ASSUME NEW R, NEW F, NEW l, NEW t, NEW q, NEW st, NEW c, Good(R, F, l, t, q, st, c),
         c < MaxCalls
  PROVE  /\ Good(R, F, l, t, q, st, c + 1)
         /\ \A i \in 1 .. Len(st) : st[i].do = "init" => st[i].at # c + 1
<1>1. Kinds(t, q, st, c) /\ c \in Nat /\ MaxCalls \in Nat
  BY SeosAssumption DEF Good, Kinds
<1>2. ASSUME NEW i \in 1 .. Len(st)
      PROVE  /\ FrameOK(st[i], R, F, l, t, q, c + 1)
             /\ st[i].do = "init" => st[i].at # c + 1
  <2>1. PICK f \in Frames : f = st[i]
    BY <1>1, Elements DEF Kinds
  <2>2. FrameOK(f, R, F, l, t, q, c)
    BY <2>1 DEF Good
  <2>3. f.do = "init" => f.at \in 0 .. c + 1 /\ f.at # c + 1
    BY <1>1, <2>2 DEF FrameOK
  <2>4. FrameOK(f, R, F, l, t, q, c + 1)
    BY <2>2, <2>3 DEF FrameOK
  <2> QED BY <2>1, <2>3, <2>4
<1>3. Kinds(t, q, st, c + 1)
  BY <1>1 DEF Kinds
<1> QED BY <1>2, <1>3 DEF Good

\* An event that is not an end, at the end of the queue.
LEMMA Posts ==
  ASSUME NEW R, NEW F, NEW l, NEW t, NEW q, NEW st, NEW c, Good(R, F, l, t, q, st, c),
         NEW e \in Events, e.type \in Posted \ {"end"}, Loose(e),
         \A s \in Slots : Concerns(e, s) =>
           /\ t[s].loaded /\ ~Halted(t, s)
           /\ \A i \in 1 .. Len(st) : st[i].do # "failed" /\ (st[i].do = "init" => st[i].at # c)
  PROVE  Good(R, F, l, t, Put(q, e), st, c)
<1>1. Kinds(t, q, st, c) /\ QueueOK(q, t) /\ Len(q) \in Nat /\ q \in Seq(Events)
  BY Elements DEF Good, Kinds
<1>2. PICK r \in Seq(Events) :
        /\ r = Put(q, e) /\ Len(r) = Len(q) + 1 /\ r[Len(q) + 1] = e
        /\ \A i \in 1 .. Len(q) : r[i] = q[i]
  BY <1>1, Appended
<1>3. \A i \in 1 .. Len(r) : \/ i \in 1 .. Len(q) /\ r[i] = q[i]
                             \/ i = Len(q) + 1 /\ r[i] = e
  BY <1>1, <1>2
<1>4. Kinds(t, r, st, c)
  BY <1>1, <1>3 DEF Kinds
<1>5. QueueOK(r, t)
  <2>1. \A s : ~EndOf(e, s)
    BY DEF EndOf
  <2>2. \A i \in 1 .. Len(r) : Loose(r[i])
    BY <1>1, <1>3 DEF QueueOK
  <2>3. \A i \in 1 .. Len(r), s \in Slots : Concerns(r[i], s) => t[s].loaded
    BY <1>1, <1>3 DEF QueueOK
  <2>4. \A i \in 1 .. Len(r), s \in Slots : EndOf(r[i], s) => Halted(t, s)
    BY <1>1, <1>3, <2>1 DEF QueueOK
  <2>5. ASSUME NEW i \in 1 .. Len(r), NEW j \in 1 .. Len(r), NEW s \in Slots,
               i < j, EndOf(r[i], s)
        PROVE  ~Concerns(r[j], s) /\ ~EndOf(r[j], s)
    <3>1. i \in 1 .. Len(q) /\ EndOf(q[i], s) /\ Halted(t, s)
      BY <1>3, <2>1, <2>4, <2>5
    <3>2. CASE j \in 1 .. Len(q)
      BY <1>1, <1>2, <2>5, <3>1, <3>2 DEF QueueOK
    <3>3. CASE j = Len(q) + 1
      BY <1>2, <2>1, <3>1, <3>3
    <3> QED BY <1>3, <3>2, <3>3
  <2> QED BY <2>2, <2>3, <2>4, <2>5 DEF QueueOK
<1>6. ASSUME NEW i \in 1 .. Len(st) PROVE FrameOK(st[i], R, F, l, t, r, c)
  <2>1. PICK f \in Frames : f = st[i]
    BY <1>1, Elements DEF Kinds
  <2>2. FrameOK(f, R, F, l, t, q, c)
    BY <2>1 DEF Good
  <2>3. \A s \in Slots : NoEndOf(q, s) => NoEndOf(r, s)
    BY <1>3 DEF NoEndOf, EndOf
  <2>4. \A s \in Slots : NoneFor(q, s) /\ ~Concerns(e, s) => NoneFor(r, s)
    BY <1>3 DEF NoneFor
  <2>5. f.do \in {"event", "ended"} /\ f.ev.type = "end" =>
          Halted(t, f.ev.to.idx) /\ NoEndOf(r, f.ev.to.idx) /\ NoneFor(r, f.ev.to.idx)
    <3>1. f.ev.to.idx \in Slots
      BY DEF Frames, Events, Tids
    <3> QED BY <2>2, <2>3, <2>4, <3>1 DEF FrameOK
  <2>6. f.do = "stopping" => f.at \in Slots /\ Halted(t, f.at) /\ NoEndOf(r, f.at)
    BY <2>2, <2>3 DEF FrameOK
  <2>7. f.do = "init" => f.at \in 0 .. c /\ (f.at = c => NoneFor(r, f.cur))
    <3>1. f.cur \in Slots
      BY DEF Frames
    <3> QED BY <2>1, <2>2, <2>4, <3>1 DEF FrameOK
  <2>8. f.do = "failed" => NoneFor(r, f.at)
    <3>1. f.do = "failed" => f.at \in Slots
      BY <2>2 DEF FrameOK, Launching
    <3> QED BY <2>1, <2>2, <2>4, <3>1 DEF FrameOK
  <2>9. FrameOK(f, R, F, l, t, r, c)
    BY <2>2, <2>5, <2>6, <2>7, <2>8 DEF FrameOK
  <2> QED BY <2>1, <2>9
<1>7. Good(R, F, l, t, r, st, c)
  BY <1>4, <1>5, <1>6 DEF Good
<1> QED BY <1>2, <1>7

\* An event that is no message and no end, at the head of the queue.
LEMMA PostsUrgent ==
  ASSUME NEW R, NEW F, NEW l, NEW t, NEW q, NEW st, NEW c, Good(R, F, l, t, q, st, c),
         NEW e \in Events, e.type \in Posted \ {"end", "private", "sub", "unsub"}, e.id = 0
  PROVE  Good(R, F, l, t, Push(e, q), st, c)
<1>1. Kinds(t, q, st, c) /\ QueueOK(q, t) /\ Len(q) \in Nat /\ q \in Seq(Events)
  BY Elements DEF Good, Kinds
<1>2. PICK r \in Seq(Events) :
        /\ r = Push(e, q) /\ Len(r) = Len(q) + 1 /\ r[1] = e
        /\ \A i \in 2 .. Len(q) + 1 : r[i] = q[i - 1]
  <2>1. q \in Seq(Events) /\ e \in Events
    BY <1>1
  <2> QED BY ONLY <2>1, Pushed
<1>3. \A i \in 1 .. Len(r) : \/ i = 1 /\ r[i] = e
                             \/ i - 1 \in 1 .. Len(q) /\ r[i] = q[i - 1]
  BY <1>1, <1>2
<1>4. \A s : ~EndOf(e, s) /\ ~Concerns(e, s)
  BY DEF EndOf, Concerns
<1>5. Kinds(t, r, st, c)
  BY <1>1, <1>3 DEF Kinds
<1>6. QueueOK(r, t)
  <2>1. Loose(e)
    BY DEF Loose
  <2>2. \A i \in 1 .. Len(r) : Loose(r[i])
    BY <1>1, <1>3, <2>1 DEF QueueOK
  <2>3. \A i \in 1 .. Len(r), s \in Slots : Concerns(r[i], s) => t[s].loaded
    BY <1>1, <1>3, <1>4 DEF QueueOK
  <2>4. \A i \in 1 .. Len(r), s \in Slots : EndOf(r[i], s) => Halted(t, s)
    BY <1>1, <1>3, <1>4 DEF QueueOK
  <2>5. ASSUME NEW i \in 1 .. Len(r), NEW j \in 1 .. Len(r), NEW s \in Slots,
               i < j, EndOf(r[i], s)
        PROVE  ~Concerns(r[j], s) /\ ~EndOf(r[j], s)
    <3>1. i - 1 \in 1 .. Len(q) /\ EndOf(q[i - 1], s) /\ j # 1
      BY <1>3, <1>4, <2>5
    <3>2. j - 1 \in 1 .. Len(q) /\ i - 1 < j - 1 /\ r[j] = q[j - 1]
      BY <1>3, <2>5, <3>1
    <3> QED BY <1>1, <3>1, <3>2 DEF QueueOK
  <2> QED BY <2>2, <2>3, <2>4, <2>5 DEF QueueOK
<1>7. ASSUME NEW i \in 1 .. Len(st) PROVE FrameOK(st[i], R, F, l, t, r, c)
  <2>1. PICK f \in Frames : f = st[i]
    BY <1>1, Elements DEF Kinds
  <2>2. FrameOK(f, R, F, l, t, q, c)
    BY <2>1 DEF Good
  <2>3. \A s : NoEndOf(q, s) => NoEndOf(r, s)
    BY <1>3, <1>4 DEF NoEndOf
  <2>4. \A s : NoneFor(q, s) => NoneFor(r, s)
    BY <1>3, <1>4 DEF NoneFor
  <2>5. FrameOK(f, R, F, l, t, r, c)
    BY <2>2, <2>3, <2>4 DEF FrameOK
  <2> QED BY <2>1, <2>5
<1>8. Good(R, F, l, t, r, st, c)
  BY <1>5, <1>6, <1>7 DEF Good
<1> QED BY <1>2, <1>8

\* No frame of st handles the end of s or is about to post it.
NotEnding(st, s) ==
  \A i \in 1 .. Len(st) :
    /\ st[i].do \in {"event", "ended"} => ~EndOf(st[i].ev, s)
    /\ st[i].do = "stopping" => st[i].at # s

\* The end of a stopped task that has none yet.
LEMMA PostsEnd ==
  ASSUME NEW R, NEW F, NEW l, NEW t, NEW q, NEW st, NEW c, Good(R, F, l, t, q, st, c),
         NEW s \in Slots, Halted(t, s), NoEndOf(q, s), NotEnding(st, s),
         NEW e \in Events, e.type = "end", e.to.idx = s, e.id = 0
  PROVE  Good(R, F, l, t, Put(q, e), st, c)
<1>1. Kinds(t, q, st, c) /\ QueueOK(q, t) /\ Len(q) \in Nat /\ q \in Seq(Events)
  BY Elements DEF Good, Kinds
<1>2. PICK r \in Seq(Events) :
        /\ r = Put(q, e) /\ Len(r) = Len(q) + 1 /\ r[Len(q) + 1] = e
        /\ \A i \in 1 .. Len(q) : r[i] = q[i]
  BY <1>1, Appended
<1>3. \A i \in 1 .. Len(r) : \/ i \in 1 .. Len(q) /\ r[i] = q[i]
                             \/ i = Len(q) + 1 /\ r[i] = e
  BY <1>1, <1>2
<1>4. (\A x : ~Concerns(e, x)) /\ (\A x : EndOf(e, x) => x = s) /\ e.type \in Posted /\ Loose(e)
  BY DEF Concerns, EndOf, Posted, Loose
<1>5. Kinds(t, r, st, c)
  BY <1>1, <1>3, <1>4 DEF Kinds
<1>6. QueueOK(r, t)
  <2>2. \A i \in 1 .. Len(r) : Loose(r[i])
    BY <1>1, <1>3, <1>4 DEF QueueOK
  <2>3. \A i \in 1 .. Len(r), x \in Slots : Concerns(r[i], x) => t[x].loaded
    BY <1>1, <1>3, <1>4 DEF QueueOK
  <2>4. \A i \in 1 .. Len(r), x \in Slots : EndOf(r[i], x) => Halted(t, x)
    BY <1>1, <1>3, <1>4 DEF QueueOK
  <2>5. ASSUME NEW i \in 1 .. Len(r), NEW j \in 1 .. Len(r), NEW x \in Slots,
               i < j, EndOf(r[i], x)
        PROVE  ~Concerns(r[j], x) /\ ~EndOf(r[j], x)
    <3>1. i \in 1 .. Len(q) /\ EndOf(q[i], x)
      BY <1>1, <1>2, <1>3, <2>5
    <3>2. CASE j \in 1 .. Len(q)
      BY <1>1, <1>2, <2>5, <3>1, <3>2 DEF QueueOK
    <3>3. CASE j = Len(q) + 1
      <4>1. x # s
        BY <3>1 DEF NoEndOf
      <4> QED BY <1>2, <1>4, <3>3, <4>1
    <3> QED BY <1>3, <3>2, <3>3
  <2> QED BY <2>2, <2>3, <2>4, <2>5 DEF QueueOK
<1>7. ASSUME NEW i \in 1 .. Len(st) PROVE FrameOK(st[i], R, F, l, t, r, c)
  <2>1. PICK f \in Frames : f = st[i]
    BY <1>1, Elements DEF Kinds
  <2>2. FrameOK(f, R, F, l, t, q, c)
    BY <2>1 DEF Good
  <2>3. \A x : NoEndOf(q, x) /\ x # s => NoEndOf(r, x)
    BY <1>3, <1>4 DEF NoEndOf
  <2>4. \A x : NoneFor(q, x) => NoneFor(r, x)
    BY <1>3, <1>4 DEF NoneFor
  <2>5. /\ f.do \in {"event", "ended"} => ~EndOf(f.ev, s)
        /\ f.do = "stopping" => f.at # s
    BY <2>1 DEF NotEnding
  <2>6. FrameOK(f, R, F, l, t, r, c)
    BY <2>2, <2>3, <2>4, <2>5 DEF FrameOK, EndOf
  <2> QED BY <2>1, <2>6
<1>8. Good(R, F, l, t, r, st, c)
  BY <1>5, <1>6, <1>7 DEF Good
<1> QED BY <1>2, <1>8

\* The main loop takes an event.
LEMMA Takes ==
  ASSUME NEW R, NEW F, NEW l, NEW t, NEW q, NEW c, Good(R, F, l, t, q, <<>>, c), q # <<>>,
         NEW f \in Frames, f.ev = Head(q),
         \/ f.do = "event"
         \/ f.do = "walk" /\ f.at \in R \cup {NO_NODE} /\ f.ev.type # "end"
  PROVE  Good(R, F, l, t, Tail(q), <<f>>, c)
<1>1. Kinds(t, q, <<>>, c) /\ QueueOK(q, t) /\ q \in Seq(Events) /\ StatusOK(R, F, t, <<>>)
      /\ TwoLists(R, F, l)
  BY DEF Good, Kinds
<1>2. PICK r \in Seq(Events) :
        /\ r = Tail(q) /\ Len(r) = Len(q) - 1 /\ Len(q) \in Nat /\ Len(q) > 0
        /\ Head(q) = q[1] /\ \A i \in 1 .. Len(q) - 1 : r[i] = q[i + 1]
  BY <1>1, Popped
<1>3. f.do \in Kernels \ {"starting"}
  BY DEF Kernels, Leaves
<1>4. PICK st \in Seq(Frames) : st = <<f>> /\ Len(st) = 1 /\ st[1] = f /\ Shape(st)
  BY <1>3, Alone
<1>5. \A i \in 1 .. Len(r) : i + 1 \in 1 .. Len(q) /\ r[i] = q[i + 1]
  BY <1>2
<1>6. Kinds(t, r, st, c)
  BY <1>1, <1>5 DEF Kinds
<1>7. QueueOK(r, t)
  <2>1. \A i, j \in 1 .. Len(r) : i < j => i + 1 < j + 1
    BY <1>2
  <2> QED BY <1>1, <1>5, <2>1 DEF QueueOK
<1>8. StatusOK(R, F, t, st)
  BY <1>1 DEF StatusOK
<1>9. FrameOK(f, R, F, l, t, r, c)
  <2>1. 1 \in 1 .. Len(q) /\ f.ev = q[1] /\ f.ev.to.idx \in Slots
    BY <1>2 DEF Frames, Events, Tids
  <2>2. \A i \in 1 .. Len(r) : 1 < i + 1 /\ i + 1 \in 1 .. Len(q)
    BY <1>2
  <2>3. \A s \in Slots : EndOf(f.ev, s) => Halted(t, s) /\ NoEndOf(r, s) /\ NoneFor(r, s)
    BY <1>1, <1>5, <2>1, <2>2 DEF QueueOK, NoEndOf, NoneFor
  <2>4. Loose(f.ev) /\ f.ev.type \in Posted /\ \A s \in Slots : Concerns(f.ev, s) => t[s].loaded
    BY <1>1, <2>1 DEF QueueOK, Kinds
  <2>5. f.ev.type = "end" => Halted(t, f.ev.to.idx) /\ NoEndOf(r, f.ev.to.idx) /\ NoneFor(r, f.ev.to.idx)
    BY <2>1, <2>3 DEF EndOf
  <2> QED BY <2>4, <2>5 DEF FrameOK, AppFrames, Launching
<1>10. \A i \in 1 .. Len(st) : FrameOK(st[i], R, F, l, t, r, c)
  BY <1>4, <1>9
<1>11. Good(R, F, l, t, r, st, c)
  BY <1>1, <1>4, <1>6, <1>7, <1>8, <1>10 DEF Good
<1> QED BY <1>2, <1>4, <1>11

\* The same tasks on the same lists, in another order.
LEMMA Relisted ==
  ASSUME NEW R, NEW F, NEW l, NEW t, NEW q, NEW st, NEW c, Good(R, F, l, t, q, st, c),
         NEW m, TwoLists(R, F, m), \A i \in 1 .. Len(st) : st[i].do # "visited"
  PROVE  Good(R, F, m, t, q, st, c)
<1>1. ASSUME NEW i \in 1 .. Len(st) PROVE FrameOK(st[i], R, F, m, t, q, c)
  <2>1. PICK f \in Frames : f = st[i]
    BY Elements DEF Good, Kinds
  <2>2. FrameOK(f, R, F, l, t, q, c) /\ f.do # "visited"
    BY <2>1 DEF Good
  <2>3. FrameOK(f, R, F, m, t, q, c)
    BY <2>2 DEF FrameOK
  <2> QED BY <2>1, <2>3
<1> QED BY <1>1 DEF Good

\* A running task is stopped.
LEMMA Halts ==
  ASSUME NEW R, NEW F, NEW l, NEW t, NEW q, NEW st, NEW c, Good(R, F, l, t, q, st, c),
         NEW s \in R, \A i \in 1 .. Len(st) : st[i].do # "walk",
         NEW u \in [Slots -> TaskRecords], Halted(u, s), u[s].loaded = t[s].loaded,
         \A x \in Slots : x # s => u[x].loaded = t[x].loaded /\ (Halted(u, x) <=> Halted(t, x))
  PROVE  /\ Good(R \ {s}, F, ListRemove(l, Tasks, s), u, q, st, c)
         /\ s \in Slots /\ ~Halted(t, s) /\ NoEndOf(q, s) /\ NotEnding(st, s)
<1>1. TwoLists(R, F, l) /\ Kinds(t, q, st, c) /\ StatusOK(R, F, t, st) /\ QueueOK(q, t) /\ Shape(st)
      /\ \A i \in 1 .. Len(st) : FrameOK(st[i], R, F, l, t, q, c)
  BY DEF Good
<1>2. R \subseteq Slots \ {System} /\ F \subseteq Slots \ {System} /\ R \cap F = {} /\ System \in Slots
      /\ \A x \in R : l[x].next \in R \cup {NO_NODE}
  BY <1>1, Following, Nodish
<1>0. PICK k : /\ k = ListRemove(l, Tasks, s) /\ TwoLists(R \ {s}, F, k)
               /\ k[s] = Unlinked /\ \A x \in Slots : x \notin R => k[x] = l[x]
  <2>1. TwoLists(R, F, l) /\ s \in R
    BY <1>1
  <2> QED BY ONLY <2>1, TakenOut
<1>3. PICK m : /\ m = ListRemove(l, Tasks, s) /\ TwoLists(R \ {s}, F, m)
               /\ m[s] = Unlinked /\ \A x \in Slots : x \notin R => m[x] = l[x]
  BY <1>0
<1>4. s \in Slots /\ ~Halted(t, s) /\ s \notin F /\ t[s].loaded
  BY <1>1, <1>2 DEF StatusOK
<1>5. NoEndOf(q, s)
  BY <1>1, <1>4 DEF QueueOK, NoEndOf
<1>6. Kinds(u, q, st, c)
  BY <1>1 DEF Kinds
<1>7. StatusOK(R \ {s}, F, u, st)
  <2>1. ~Halted(u, System)
    BY <1>1, <1>2 DEF StatusOK
  <2>2. \A x \in Slots : u[x].loaded <=> x # System /\ x \notin F
    BY <1>1 DEF StatusOK
  <2>3. \A x \in Slots : Halted(u, x) => x \notin (R \ {s}) \cup F
    BY <1>1, <1>4 DEF StatusOK
  <2>4. \A x \in Slots \ {System} :
          x \in R \ {s} \/ x \in F \/ Halted(u, x)
          \/ \E i \in 1 .. Len(st) : st[i].do \in Launching /\ st[i].at = x
    BY <1>1 DEF StatusOK
  <2> QED BY <2>1, <2>2, <2>3, <2>4 DEF StatusOK
<1>8. QueueOK(q, u)
  <2>1. \A x \in Slots : (t[x].loaded => u[x].loaded) /\ (Halted(t, x) => Halted(u, x))
    BY <1>4
  <2> QED BY <1>1, <2>1 DEF QueueOK
<1>9. ASSUME NEW i \in 1 .. Len(st)
      PROVE  /\ FrameOK(st[i], R \ {s}, F, m, u, q, c)
             /\ st[i].do \in {"event", "ended"} => ~EndOf(st[i].ev, s)
             /\ st[i].do = "stopping" => st[i].at # s
  <2>1. PICK f \in Frames : f = st[i]
    BY <1>1, Elements DEF Kinds
  <2>2. FrameOK(f, R, F, l, t, q, c) /\ f.do # "walk"
    BY <1>1, <2>1
  <2>3. f.cur \in Slots /\ f.ev.by.idx \in Slots /\ f.ev.to.idx \in Slots
    BY DEF Frames, Events, Tids
  <2>4. \A x \in Slots : (t[x].loaded => u[x].loaded) /\ (Halted(t, x) => Halted(u, x))
    BY <1>4
  <2>5. f.do = "visited" => /\ f.at \in Slots /\ f.at \notin F
                            /\ f.at \notin R \ {s} => m[f.at].next = NO_NODE
    BY <1>3, <2>2 DEF FrameOK, Unlinked
  <2>6. f.do \in Launching =>
          f.at \in Slots \ {System} /\ f.at \notin (R \ {s}) \cup F /\ ~Halted(u, f.at)
    BY <2>2 DEF FrameOK
  <2>7. FrameOK(f, R \ {s}, F, m, u, q, c)
    BY <2>2, <2>3, <2>4, <2>5, <2>6 DEF FrameOK
  <2>8. f.do \in {"event", "ended"} => ~EndOf(f.ev, s)
    BY <1>4, <2>2 DEF FrameOK, EndOf
  <2>9. f.do = "stopping" => f.at # s
    BY <1>4, <2>2 DEF FrameOK
  <2> QED BY <2>1, <2>7, <2>8, <2>9
<1>10. Good(R \ {s}, F, m, u, q, st, c)
  BY <1>1, <1>3, <1>6, <1>7, <1>8, <1>9 DEF Good
<1>11. NotEnding(st, s)
  BY <1>9 DEF NotEnding
<1> QED BY <1>3, <1>4, <1>5, <1>10, <1>11

\* A task that is done with becomes free, and the OS goes on.
LEMMA Frees ==
  ASSUME NEW R, NEW F, NEW l, NEW t, NEW q, NEW st, NEW c, Good(R, F, l, t, q, st, c),
         st # <<>>, st[1].do \in Kernels,
         NEW s \in Slots \ {System}, s \notin R \cup F, NoneFor(q, s), NoEndOf(q, s),
         st[1].do \in Launching => st[1].at = s,
         NEW u \in [Slots -> TaskRecords], ~u[s].loaded, ~Halted(u, s),
         \A x \in Slots : x # s => u[x].loaded = t[x].loaded /\ (Halted(u, x) <=> Halted(t, x)),
         NEW f \in Frames, Loose(f.ev), f.ev.id = 0, f.ev.type \notin {"private", "sub", "unsub"},
         \/ f.do = "done"
         \/ f.do = "walk" /\ f.at \in R \cup {NO_NODE}
  PROVE  Good(R, F \cup {s}, ListAddTail(l, FreeTasks, s), u, q, <<f>> \o Tail(st), c)
<1> DEFINE m == ListAddTail(l, FreeTasks, s)
<1>1. TwoLists(R, F, l) /\ Kinds(t, q, st, c) /\ StatusOK(R, F, t, st) /\ QueueOK(q, t) /\ Shape(st)
      /\ st \in Seq(Frames) /\ \A i \in 1 .. Len(st) : FrameOK(st[i], R, F, l, t, q, c)
  BY DEF Good, Kinds
<1>2. PICK r \in Seq(Frames) :
        /\ r = <<f>> \o Tail(st) /\ Len(r) = Len(st) /\ Len(st) > 0
        /\ r[1] = f /\ \A i \in 2 .. Len(st) : r[i] = st[i]
  BY <1>1, Replaced
<1>3. TwoLists(R, F \cup {s}, m)
  BY <1>1, PutBack
<1> HIDE DEF m
<1>4. Len(st) \in Nat /\ \A i \in 2 .. Len(st) : st[i].do = "host" /\ st[i].ev.type = "boot" /\ st[i].ev.id = 0
  BY <1>1, <1>2, Elements, OnlyBootBelow
<1>5. Shape(r)
  <2>1. f.do \in Kernels \ {"starting"}
    BY DEF Kernels, Leaves
  <2> QED BY <1>1, <1>2, <2>1, KernelReplaced
<1>6. Kinds(u, q, r, c)
  BY <1>1 DEF Kinds
<1>7. StatusOK(R, F \cup {s}, u, r)
  <2>1. ~Halted(u, System) /\ System \in Slots
    BY <1>1, Nodish DEF StatusOK
  <2>2. \A x \in Slots : u[x].loaded <=> x # System /\ x \notin F \cup {s}
    BY <1>1 DEF StatusOK
  <2>3. \A x \in Slots : Halted(u, x) => x \notin R \cup F \cup {s}
    BY <1>1 DEF StatusOK
  <2>4. ASSUME NEW x \in Slots \ {System}, x \notin R, x # s, x \notin F PROVE Halted(u, x)
    <3>1. ~\E i \in 1 .. Len(st) : st[i].do \in Launching /\ st[i].at = x
      <4> SUFFICES ASSUME NEW i \in 1 .. Len(st), st[i].do \in Launching, st[i].at = x PROVE FALSE
        OBVIOUS
      <4>1. i # 1
        BY <2>4
      <4>2. st[i].do = "host"
        BY <1>4, <4>1
      <4> QED BY <4>2 DEF Launching
    <3> QED BY <1>1, <2>4, <3>1 DEF StatusOK
  <2> QED BY <2>1, <2>2, <2>3, <2>4 DEF StatusOK
<1>8. QueueOK(q, u)
  <2>1. \A i \in 1 .. Len(q) : Loose(q[i])
    BY <1>1 DEF QueueOK
  <2>2. \A i \in 1 .. Len(q), x \in Slots : Concerns(q[i], x) => u[x].loaded
    BY <1>1 DEF QueueOK, NoneFor
  <2>3. \A i \in 1 .. Len(q), x \in Slots : EndOf(q[i], x) => Halted(u, x)
    BY <1>1 DEF QueueOK, NoEndOf
  <2> QED BY <1>1, <2>1, <2>2, <2>3 DEF QueueOK
<1>9. FrameOK(f, R, F \cup {s}, m, u, q, c)
  <2>1. Loose(f.ev) /\ \A x : ~Concerns(f.ev, x)
    BY DEF Loose, Concerns
  <2> QED BY <2>1 DEF FrameOK, AppFrames, Launching
<1>10. ASSUME NEW i \in 1 .. Len(r) PROVE FrameOK(r[i], R, F \cup {s}, m, u, q, c)
  <2>1. CASE i = 1
    BY <1>2, <1>9, <2>1
  <2>2. CASE i # 1
    <3>1. PICK g \in Frames : g = st[i] /\ g = r[i]
      BY <1>1, <1>2, <1>4, <2>2, Elements
    <3>2. g.do = "host" /\ g.ev.type = "boot" /\ g.ev.id = 0
      BY <1>2, <1>4, <2>2, <3>1
    <3> QED BY <3>1, <3>2, BootIsFine
  <2> QED BY <2>1, <2>2
<1>11. Good(R, F \cup {s}, m, u, q, r, c)
  BY <1>3, <1>5, <1>6, <1>7, <1>8, <1>10 DEF Good
<1> QED BY <1>2, <1>11 DEF m

\* A task that has been started runs.
LEMMA Adds ==
  ASSUME NEW R, NEW F, NEW l, NEW t, NEW q, NEW st, NEW c, Good(R, F, l, t, q, st, c),
         st # <<>>, st[1].do = "started",
         NEW f \in Frames, f.do = "done", f.ev = st[1].ev
  PROVE  Good(R \cup {st[1].at}, F, ListAddTail(l, Tasks, st[1].at), t, q, <<f>> \o Tail(st), c)
<1> DEFINE s == st[1].at
           m == ListAddTail(l, Tasks, s)
<1>1. TwoLists(R, F, l) /\ Kinds(t, q, st, c) /\ StatusOK(R, F, t, st) /\ QueueOK(q, t) /\ Shape(st)
      /\ st \in Seq(Frames) /\ \A i \in 1 .. Len(st) : FrameOK(st[i], R, F, l, t, q, c)
  BY DEF Good, Kinds
<1>2. PICK r \in Seq(Frames) :
        /\ r = <<f>> \o Tail(st) /\ Len(r) = Len(st) /\ Len(st) > 0
        /\ r[1] = f /\ \A i \in 2 .. Len(st) : r[i] = st[i]
  BY <1>1, Replaced
<1>3. Len(st) \in Nat /\ \A i \in 2 .. Len(st) : st[i].do = "host" /\ st[i].ev.type = "boot" /\ st[i].ev.id = 0
  BY <1>1, <1>2, Elements, OnlyBootBelow DEF Kernels, Leaves
<1>4. s \in Slots \ {System} /\ s \notin R \cup F /\ ~Halted(t, s) /\ f.ev.type \in {"boot", "defer"}
      /\ Loose(f.ev)
  <2>1. FrameOK(st[1], R, F, l, t, q, c)
    BY <1>1, <1>2, <1>3
  <2> QED BY <2>1 DEF FrameOK, Launching
<1> HIDE DEF s
<1>5. TwoLists(R \cup {s}, F, m)
  BY <1>1, <1>4, PutBack
<1> HIDE DEF m
<1>6. Shape(r)
  <2>1. f.do \in Kernels \ {"starting"} /\ st[1].do \in Kernels
    BY DEF Kernels, Leaves
  <2> QED BY <1>1, <1>2, <2>1, KernelReplaced
<1>7. Kinds(t, q, r, c)
  BY <1>1 DEF Kinds
<1>8. StatusOK(R \cup {s}, F, t, r)
  <2>1. ASSUME NEW x \in Slots \ {System}, x \notin R \cup {s}, x \notin F PROVE Halted(t, x)
    <3>1. ~\E i \in 1 .. Len(st) : st[i].do \in Launching /\ st[i].at = x
      <4> SUFFICES ASSUME NEW i \in 1 .. Len(st), st[i].do \in Launching, st[i].at = x PROVE FALSE
        OBVIOUS
      <4>1. i # 1
        BY <2>1 DEF s
      <4>2. st[i].do = "host"
        BY <1>3, <4>1
      <4> QED BY <4>2 DEF Launching
    <3> QED BY <1>1, <2>1, <3>1 DEF StatusOK
  <2> QED BY <1>1, <1>4, <2>1 DEF StatusOK
<1>9. FrameOK(f, R \cup {s}, F, m, t, q, c)
  <2>1. \A x : ~Concerns(f.ev, x)
    BY <1>4 DEF Loose, Concerns
  <2> QED BY <1>4, <2>1 DEF FrameOK, AppFrames, Launching
<1>10. ASSUME NEW i \in 1 .. Len(r) PROVE FrameOK(r[i], R \cup {s}, F, m, t, q, c)
  <2>1. CASE i = 1
    BY <1>2, <1>9, <2>1
  <2>2. CASE i # 1
    <3>1. PICK g \in Frames : g = st[i] /\ g = r[i]
      BY <1>1, <1>2, <1>3, <2>2, Elements
    <3>2. g.do = "host" /\ g.ev.type = "boot" /\ g.ev.id = 0
      BY <1>2, <1>3, <2>2, <3>1
    <3> QED BY <3>1, <3>2, BootIsFine
  <2> QED BY <2>1, <2>2
<1>11. Good(R \cup {s}, F, m, t, q, r, c)
  BY <1>1, <1>5, <1>6, <1>7, <1>8, <1>10 DEF Good
<1> QED BY <1>2, <1>11 DEF m, s

\* A free task is loaded and its init runs.
LEMMA Begins ==
  ASSUME NEW R, NEW F, NEW l, NEW t, NEW q, NEW st, NEW c, Good(R, F, l, t, q, st, c),
         st # <<>>, st[1].do = "host",
         NEW s \in F, NEW m, TwoLists(R, F \ {s}, m),
         NEW u \in [Slots -> TaskRecords], u[s].loaded, ~Halted(u, s),
         \A x \in Slots : x # s => u[x].loaded = t[x].loaded /\ (Halted(u, x) <=> Halted(t, x)),
         NEW f \in Frames, f.do = "starting", f.ev = st[1].ev, f.at = s,
         NEW g \in Frames, g.do = "init", g.ev.id = 0, g.ev.type # "sub", g.cur = s, g.at = c
  PROVE  Good(R, F \ {s}, m, u, q, <<g, f>> \o Tail(st), c)
<1>1. TwoLists(R, F, l) /\ Kinds(t, q, st, c) /\ StatusOK(R, F, t, st) /\ QueueOK(q, t) /\ Shape(st)
      /\ st \in Seq(Frames) /\ \A i \in 1 .. Len(st) : FrameOK(st[i], R, F, l, t, q, c)
  BY DEF Good, Kinds
<1>2. PICK r \in Seq(Frames) :
        /\ r = PushTwo(g, f, st) /\ Len(r) = Len(st) + 1 /\ Len(st) > 0
        /\ r[1] = g /\ r[2] = f /\ \A i \in 3 .. Len(st) + 1 : r[i] = st[i - 1]
  <2>1. st \in Seq(Frames) /\ st # <<>> /\ f \in Frames /\ g \in Frames
    BY <1>1
  <2> QED BY ONLY <2>1, PushedTwo
<1>20. r = <<g, f>> \o Tail(st)
  BY <1>2 DEF PushTwo
<1>3. Len(st) \in Nat /\ \A i \in 2 .. Len(st) : st[i].do = "host" /\ st[i].ev.type = "boot" /\ st[i].ev.id = 0
  BY <1>1, <1>2, Elements, OnlyBootBelow DEF Kernels
<1>4. s \in Slots \ {System} /\ s \notin R /\ ~Halted(t, s) /\ ~t[s].loaded
  BY <1>1, Following DEF StatusOK
<1>5. Shape(r)
  <2>1. f.do \in Kernels \ (Leaves \cup {"host"}) /\ g.do \in Nested /\ st[1].do \in Kernels
        /\ (g.do = "init" <=> f.do = "starting") /\ (g.do = "init" => f.at = g.cur)
    BY DEF Kernels, Leaves, Nested, AppFrames
  <2>2. st \in Seq(Frames) /\ Shape(st) /\ Len(st) > 0 /\ Len(r) = Len(st) + 1
        /\ r[1] = g /\ r[2] = f /\ \A i \in 3 .. Len(st) + 1 : r[i] = st[i - 1]
    BY <1>1, <1>2
  <2> QED BY <2>1, <2>2, KernelCalls
<1>6. Kinds(u, q, r, c)
  BY <1>1 DEF Kinds
<1>7. NoneFor(q, s) /\ NoEndOf(q, s)
  BY <1>1, <1>4 DEF QueueOK, NoneFor, NoEndOf
<1>8. StatusOK(R, F \ {s}, u, r)
  <2>1. ~Halted(u, System) /\ System \in Slots
    BY <1>1, <1>4, Nodish DEF StatusOK
  <2>2. \A x \in Slots : u[x].loaded <=> x # System /\ x \notin F \ {s}
    BY <1>1, <1>4 DEF StatusOK
  <2>3. \A x \in Slots : Halted(u, x) => x \notin R \cup (F \ {s})
    BY <1>1 DEF StatusOK
  <2>4. ASSUME NEW x \in Slots \ {System}, x \notin R, x \notin F \ {s}, ~Halted(u, x)
        PROVE  \E i \in 1 .. Len(r) : r[i].do \in Launching /\ r[i].at = x
    <3>1. CASE x = s
      <4>1. 2 \in 1 .. Len(r)
        BY <1>2, <1>3
      <4> QED BY <1>2, <3>1, <4>1 DEF Launching
    <3>2. CASE x # s
      <4>1. PICK i \in 1 .. Len(st) : st[i].do \in Launching /\ st[i].at = x
        BY <1>1, <2>4, <3>2 DEF StatusOK
      <4>2. st[i].do = "host"
        BY <1>3, <4>1
      <4> QED BY <4>1, <4>2 DEF Launching
    <3> QED BY <3>1, <3>2
  <2> QED BY <2>1, <2>2, <2>3, <2>4 DEF StatusOK
<1>9. QueueOK(q, u)
  <2>1. \A i \in 1 .. Len(q), x \in Slots : Concerns(q[i], x) => u[x].loaded
    BY <1>1, <1>7 DEF QueueOK, NoneFor
  <2>2. \A i \in 1 .. Len(q), x \in Slots : EndOf(q[i], x) => Halted(u, x)
    BY <1>1, <1>7 DEF QueueOK, NoEndOf
  <2> QED BY <1>1, <2>1, <2>2 DEF QueueOK
<1>10. FrameOK(f, R, F \ {s}, m, u, q, c)
  <2>1. FrameOK(st[1], R, F, l, t, q, c)
    BY <1>1, <1>2, <1>3
  <2>2. f.ev.type \in {"boot", "defer"} /\ Loose(f.ev)
    BY <2>1 DEF FrameOK
  <2> QED BY <1>4, <2>2 DEF FrameOK, AppFrames, Launching
<1>11. FrameOK(g, R, F \ {s}, m, u, q, c)
  <2>1. c \in 0 .. c
    BY <1>1 DEF Kinds
  <2> QED BY <1>7, <2>1 DEF FrameOK, AppFrames, Launching, Loose
<1>12. ASSUME NEW i \in 1 .. Len(r) PROVE FrameOK(r[i], R, F \ {s}, m, u, q, c)
  <2>1. CASE i = 1
    BY <1>2, <1>11, <2>1
  <2>2. CASE i = 2
    BY <1>2, <1>10, <2>2
  <2>3. CASE i > 2
    <3>1. i - 1 \in 2 .. Len(st) /\ r[i] = st[i - 1]
      BY <1>2, <1>3, <2>3
    <3>2. PICK h \in Frames : h = st[i - 1] /\ h = r[i]
      BY <1>1, <1>3, <3>1, Elements
    <3>3. h.do = "host" /\ h.ev.type = "boot" /\ h.ev.id = 0
      BY <1>3, <3>1, <3>2
    <3> QED BY <3>2, <3>3, BootIsFine
  <2> QED BY <1>2, <2>1, <2>2, <2>3
<1>13. Good(R, F \ {s}, m, u, q, r, c)
  BY <1>5, <1>6, <1>8, <1>9, <1>12 DEF Good
<1> QED BY <1>13, <1>20

-----------------------------------------------------------------------------
(* Frames, events and tasks as the actions build them.                      *)

LEMMA FrameIs ==
  ASSUME NEW d \in Kernels \cup Nested, NEW e \in Events, NEW s \in Slots
  PROVE  /\ Frame(d, e, s) \in Frames
         /\ Frame(d, e, s).do = d /\ Frame(d, e, s).ev = e /\ Frame(d, e, s).cur = s
         /\ Frame(d, e, s).at = NO_NODE /\ Frame(d, e, s).due = {}
BY DEF Frame, Frames, NO_NODE

LEMMA FrameFields ==
  ASSUME NEW f \in Frames
  PROVE  /\ f.do \in Kernels \cup Nested /\ f.ev \in Events /\ f.cur \in Slots /\ f.at \in Int
         /\ f.due \in SUBSET Slots
         /\ f = [do |-> f.do, ev |-> f.ev, cur |-> f.cur, at |-> f.at, due |-> f.due]
BY DEF Frames

LEMMA InFrames ==
  ASSUME NEW d \in Kernels \cup Nested, NEW e \in Events, NEW s \in Slots, NEW a \in Int,
         NEW u \in SUBSET Slots
  PROVE  [do |-> d, ev |-> e, cur |-> s, at |-> a, due |-> u] \in Frames
BY DEF Frames

LEMMA EventFields ==
  ASSUME NEW e \in Events
  PROVE  /\ e.type \in Posted \cup {"boot", "none"} /\ e.org \in Tids /\ e.by \in Tids /\ e.to \in Tids
         /\ e.evt \in Values \cup {NULL} /\ e.id \in 0 .. MaxCalls
         /\ e.org.idx \in Slots /\ e.by.idx \in Slots /\ e.to.idx \in Slots
         /\ Owner(e) \in Slots
<1>1. e.type \in Posted \cup {"boot", "none"} /\ e.org \in Tids /\ e.by \in Tids /\ e.to \in Tids
      /\ e.evt \in Values \cup {NULL} /\ e.id \in 0 .. MaxCalls
  BY DEF Events
<1>2. e.org.idx \in Slots /\ e.by.idx \in Slots /\ e.to.idx \in Slots
  BY <1>1 DEF Tids
<1> QED BY <1>1, <1>2, Nodish DEF Owner

LEMMA SystemTidIs == SystemTid \in Tids /\ SystemTid.idx = System
BY SeosAssumption, Nodish DEF SystemTid, Tids

LEMMA TidIs ==
  ASSUME task \in [Slots -> TaskRecords], NEW s \in Slots
  PROVE  Tid(s) \in Tids /\ Tid(s).idx = s
<1>1. task[s].ctr \in 0 .. Counter - 1
  BY DEF TaskRecords
<1> QED BY <1>1 DEF Tid, Tids

LEMMA EvtIs ==
  ASSUME NEW d \in Posted \cup {"boot", "none"}, NEW o \in Tids, NEW v \in Values \cup {NULL}
  PROVE  /\ Evt(d, o, v) \in Events
         /\ Evt(d, o, v).type = d /\ Evt(d, o, v).to = o /\ Evt(d, o, v).evt = v
         /\ Evt(d, o, v).id = 0 /\ Evt(d, o, v).org = SystemTid /\ Evt(d, o, v).by = SystemTid
<1>1. 0 \in 0 .. MaxCalls
  BY SeosAssumption
<1> QED BY <1>1, SystemTidIs DEF Evt, Events

\* Enter(why, s)
LEMMA EnterIs ==
  ASSUME NEW d \in Nested, NEW s \in Slots
  PROVE  /\ Enter(d, s) \in Frames
         /\ Enter(d, s).do = d /\ Enter(d, s).cur = s
         /\ Enter(d, s).ev.type = "none" /\ Enter(d, s).ev.id = 0
<1> DEFINE e == Evt("none", SystemTid, NULL)
<1>1. e \in Events /\ e.type = "none" /\ e.id = 0
  BY SystemTidIs, EvtIs
<1> HIDE DEF e
<1>2. Enter(d, s) = Frame(d, e, s)
  BY DEF Enter, e
<1> QED BY <1>1, <1>2, FrameIs

LEMMA TaskFields ==
  ASSUME NEW k \in TaskRecords
  PROVE  /\ k.app \in Apps \cup {NULL} /\ k.ctr \in 0 .. Counter - 1 /\ k.loaded \in BOOLEAN
         /\ k.flags \in SUBSET {"STOPPED", "ABORTED"} /\ k.io \in 0 .. IoWidth - 1
         /\ k.subs \in SUBSET Values /\ k.sz \in Nat /\ k.short \in BOOLEAN
         /\ k = [app |-> k.app, ctr |-> k.ctr, loaded |-> k.loaded, flags |-> k.flags,
                 io |-> k.io, subs |-> k.subs, sz |-> k.sz, short |-> k.short]
BY DEF TaskRecords

LEMMA InTasks ==
  ASSUME NEW a \in Apps \cup {NULL}, NEW n \in 0 .. Counter - 1, NEW b \in BOOLEAN,
         NEW f \in SUBSET {"STOPPED", "ABORTED"}, NEW i \in 0 .. IoWidth - 1,
         NEW v \in SUBSET Values, NEW z \in Nat, NEW h \in BOOLEAN
  PROVE  [app |-> a, ctr |-> n, loaded |-> b, flags |-> f, io |-> i, subs |-> v, sz |-> z, short |-> h]
           \in TaskRecords
BY DEF TaskRecords

\* osTaskAddIoCount leaves the rest alone.
LEMMA Charged ==
  ASSUME NEW t \in [Slots -> TaskRecords], NEW s \in Slots, NEW n \in Int
  PROVE  /\ Charge(t, s, n) \in [Slots -> TaskRecords]
         /\ SameStatus(t, Charge(t, s, n))
<1> DEFINE k == t[s]
           i == (k.io + n) % IoWidth
           k2 == [app |-> k.app, ctr |-> k.ctr, loaded |-> k.loaded, flags |-> k.flags,
                  io |-> i, subs |-> k.subs, sz |-> k.sz, short |-> k.short]
           u == Charge(t, s, n)
<1>1. k \in TaskRecords
  OBVIOUS
<1>2. i \in 0 .. IoWidth - 1
  <2>1. k.io \in Int /\ IoWidth \in Nat \ {0}
    BY <1>1, TaskFields, SeosAssumption
  <2> QED BY <2>1
<1>3. k2 \in TaskRecords
  <2> HIDE DEF k, i
  <2> QED BY <1>1, <1>2, TaskFields, InTasks
<1>4. u = [t EXCEPT ![s] = k2]
  <2>1. u = [t EXCEPT ![s] = [t[s] EXCEPT !.io = i]]
    BY DEF Charge
  <2>2. [k EXCEPT !.io = i] = k2
    <3> HIDE DEF i
    <3> QED BY <1>1, TaskFields
  <2> QED BY <2>1, <2>2
<1> HIDE DEF u
<1>5. u \in [Slots -> TaskRecords] /\ u[s] = k2 /\ \A x \in Slots : x # s => u[x] = t[x]
  <2> HIDE DEF k2
  <2> QED BY <1>3, <1>4
<1>6. u[s].loaded = t[s].loaded /\ u[s].flags = t[s].flags
  BY <1>5
<1>7. SameStatus(t, u)
  BY <1>5, <1>6 DEF SameStatus, Halted
<1> QED BY <1>5, <1>7 DEF u

-----------------------------------------------------------------------------
LEMMA Opened ==
  ASSUME TaskInv
  PROVE  /\ Good(Running, Spare, list, task, queue, stack, calls)
         /\ TwoLists(Running, Spare, list) /\ Kinds(task, queue, stack, calls)
         /\ StatusOK(Running, Spare, task, stack) /\ QueueOK(queue, task) /\ Shape(stack)
         /\ \A i \in 1 .. Len(stack) : FrameOK(stack[i], Running, Spare, list, task, queue, calls)
         /\ task \in [Slots -> TaskRecords] /\ queue \in Seq(Events) /\ stack \in Seq(Frames)
         /\ calls \in 0 .. MaxCalls
         /\ Running \subseteq Slots \ {System} /\ Spare \subseteq Slots \ {System}
<1>1. Good(Running, Spare, list, task, queue, stack, calls)
  BY DEF TaskInv
<1>2. /\ TwoLists(Running, Spare, list) /\ Kinds(task, queue, stack, calls)
      /\ StatusOK(Running, Spare, task, stack) /\ QueueOK(queue, task) /\ Shape(stack)
      /\ \A i \in 1 .. Len(stack) : FrameOK(stack[i], Running, Spare, list, task, queue, calls)
  BY <1>1 DEF Good
<1>3. Running \subseteq Slots \ {System} /\ Spare \subseteq Slots \ {System}
  BY <1>2, Following
<1> QED BY <1>1, <1>2, <1>3 DEF Kinds

LEMMA TopIs ==
  ASSUME TaskInv, stack # <<>>
  PROVE  /\ Top \in Frames /\ Len(stack) \in Nat /\ Len(stack) > 0
         /\ FrameOK(Top, Running, Spare, list, task, queue, calls)
<1>1. stack \in Seq(Frames)
      /\ \A i \in 1 .. Len(stack) : FrameOK(stack[i], Running, Spare, list, task, queue, calls)
  BY Opened
<1>2. Len(stack) \in Nat /\ Len(stack) > 0
  BY <1>1, Elements, EmptySeq
<1> QED BY <1>1, <1>2, Elements DEF Top

IsGood == \E R, F : Good(R, F, list, task, queue, stack, calls)

LEMMA Closed == IsGood => TaskInv
BY Seen DEF IsGood, TaskInv, Good, Running, Spare

LEMMA Closes ==
  ASSUME NEW R, NEW F, Good(R, F, list', task', queue', stack', calls')
  PROVE  TaskInv'
<1>1. IsGood'
  BY DEF IsGood
<1>2. (IsGood => TaskInv)'
  BY Closed, PTL
<1> QED BY <1>1, <1>2

-----------------------------------------------------------------------------
(* Frames with some of their fields changed.                                *)

WithDo(f, d) == [f EXCEPT !.do = d]

LEMMA WithDoIs ==
  ASSUME NEW f \in Frames, NEW d \in Kernels \cup Nested
  PROVE  /\ WithDo(f, d) \in Frames /\ WithDo(f, d).do = d /\ WithDo(f, d).ev = f.ev /\ WithDo(f, d).cur = f.cur
         /\ WithDo(f, d).at = f.at /\ WithDo(f, d).due = f.due
<1>1. f = [do |-> f.do, ev |-> f.ev, cur |-> f.cur, at |-> f.at, due |-> f.due]
  BY FrameFields
<1>2. [f EXCEPT !.do = d] = [do |-> d, ev |-> f.ev, cur |-> f.cur, at |-> f.at, due |-> f.due]
  BY <1>1
<1>3. WithDo(f, d) = [do |-> d, ev |-> f.ev, cur |-> f.cur, at |-> f.at, due |-> f.due]
  BY <1>2 DEF WithDo
<1>4. /\ f.do \in Kernels \cup Nested /\ f.ev \in Events /\ f.cur \in Slots
      /\ f.at \in Int /\ f.due \in SUBSET Slots
      /\ d \in Kernels \cup Nested
  BY FrameFields
<1>5. [do |-> d, ev |-> f.ev, cur |-> f.cur, at |-> f.at, due |-> f.due] \in Frames
  BY ONLY <1>4, InFrames
<1> QED BY <1>3, <1>5

WithAt(f, a) == [f EXCEPT !.at = a]

LEMMA WithAtIs ==
  ASSUME NEW f \in Frames, NEW a \in Int
  PROVE  /\ WithAt(f, a) \in Frames /\ WithAt(f, a).do = f.do /\ WithAt(f, a).ev = f.ev /\ WithAt(f, a).cur = f.cur
         /\ WithAt(f, a).at = a /\ WithAt(f, a).due = f.due
<1>1. f = [do |-> f.do, ev |-> f.ev, cur |-> f.cur, at |-> f.at, due |-> f.due]
  BY FrameFields
<1>2. [f EXCEPT !.at = a] = [do |-> f.do, ev |-> f.ev, cur |-> f.cur, at |-> a, due |-> f.due]
  BY <1>1
<1>3. WithAt(f, a) = [do |-> f.do, ev |-> f.ev, cur |-> f.cur, at |-> a, due |-> f.due]
  BY <1>2 DEF WithAt
<1>4. /\ f.do \in Kernels \cup Nested /\ f.ev \in Events /\ f.cur \in Slots
      /\ f.at \in Int /\ f.due \in SUBSET Slots
      /\ a \in Int
  BY FrameFields
<1>5. [do |-> f.do, ev |-> f.ev, cur |-> f.cur, at |-> a, due |-> f.due] \in Frames
  BY ONLY <1>4, InFrames
<1> QED BY <1>3, <1>5

WithDoAt(f, d, a) == [f EXCEPT !.do = d, !.at = a]

LEMMA WithDoAtIs ==
  ASSUME NEW f \in Frames, NEW d \in Kernels \cup Nested, NEW a \in Int
  PROVE  /\ WithDoAt(f, d, a) \in Frames /\ WithDoAt(f, d, a).do = d /\ WithDoAt(f, d, a).ev = f.ev /\ WithDoAt(f, d, a).cur = f.cur
         /\ WithDoAt(f, d, a).at = a /\ WithDoAt(f, d, a).due = f.due
<1>1. f = [do |-> f.do, ev |-> f.ev, cur |-> f.cur, at |-> f.at, due |-> f.due]
  BY FrameFields
<1>2. [f EXCEPT !.do = d] = [do |-> d, ev |-> f.ev, cur |-> f.cur, at |-> f.at, due |-> f.due]
  BY <1>1
<1>3. [f EXCEPT !.do = d, !.at = a] = [do |-> d, ev |-> f.ev, cur |-> f.cur, at |-> a, due |-> f.due]
  <2>1. [f EXCEPT !.do = d, !.at = a] = [[f EXCEPT !.do = d] EXCEPT !.at = a]
    OBVIOUS
  <2>2. [[do |-> d, ev |-> f.ev, cur |-> f.cur, at |-> f.at, due |-> f.due] EXCEPT !.at = a]
          = [do |-> d, ev |-> f.ev, cur |-> f.cur, at |-> a, due |-> f.due]
    OBVIOUS
  <2> QED BY <1>2, <2>1, <2>2, Zenon
<1>4. WithDoAt(f, d, a) = [do |-> d, ev |-> f.ev, cur |-> f.cur, at |-> a, due |-> f.due]
  BY <1>3 DEF WithDoAt
<1>5. /\ f.do \in Kernels \cup Nested /\ f.ev \in Events /\ f.cur \in Slots
      /\ f.at \in Int /\ f.due \in SUBSET Slots
      /\ d \in Kernels \cup Nested /\ a \in Int
  BY FrameFields
<1>6. [do |-> d, ev |-> f.ev, cur |-> f.cur, at |-> a, due |-> f.due] \in Frames
  BY ONLY <1>5, InFrames
<1> QED BY <1>4, <1>6

WithDoCur(f, d, s) == [f EXCEPT !.do = d, !.cur = s]

LEMMA WithDoCurIs ==
  ASSUME NEW f \in Frames, NEW d \in Kernels \cup Nested, NEW s \in Slots
  PROVE  /\ WithDoCur(f, d, s) \in Frames /\ WithDoCur(f, d, s).do = d /\ WithDoCur(f, d, s).ev = f.ev /\ WithDoCur(f, d, s).cur = s
         /\ WithDoCur(f, d, s).at = f.at /\ WithDoCur(f, d, s).due = f.due
<1>1. f = [do |-> f.do, ev |-> f.ev, cur |-> f.cur, at |-> f.at, due |-> f.due]
  BY FrameFields
<1>2. [f EXCEPT !.do = d] = [do |-> d, ev |-> f.ev, cur |-> f.cur, at |-> f.at, due |-> f.due]
  BY <1>1
<1>3. [f EXCEPT !.do = d, !.cur = s] = [do |-> d, ev |-> f.ev, cur |-> s, at |-> f.at, due |-> f.due]
  <2>1. [f EXCEPT !.do = d, !.cur = s] = [[f EXCEPT !.do = d] EXCEPT !.cur = s]
    OBVIOUS
  <2>2. [[do |-> d, ev |-> f.ev, cur |-> f.cur, at |-> f.at, due |-> f.due] EXCEPT !.cur = s]
          = [do |-> d, ev |-> f.ev, cur |-> s, at |-> f.at, due |-> f.due]
    OBVIOUS
  <2> QED BY <1>2, <2>1, <2>2, Zenon
<1>4. WithDoCur(f, d, s) = [do |-> d, ev |-> f.ev, cur |-> s, at |-> f.at, due |-> f.due]
  BY <1>3 DEF WithDoCur
<1>5. /\ f.do \in Kernels \cup Nested /\ f.ev \in Events /\ f.cur \in Slots
      /\ f.at \in Int /\ f.due \in SUBSET Slots
      /\ d \in Kernels \cup Nested /\ s \in Slots
  BY FrameFields
<1>6. [do |-> d, ev |-> f.ev, cur |-> s, at |-> f.at, due |-> f.due] \in Frames
  BY ONLY <1>5, InFrames
<1> QED BY <1>4, <1>6

WithDoDue(f, d, u) == [f EXCEPT !.do = d, !.due = u]

LEMMA WithDoDueIs ==
  ASSUME NEW f \in Frames, NEW d \in Kernels \cup Nested, NEW u \in SUBSET Slots
  PROVE  /\ WithDoDue(f, d, u) \in Frames /\ WithDoDue(f, d, u).do = d /\ WithDoDue(f, d, u).ev = f.ev /\ WithDoDue(f, d, u).cur = f.cur
         /\ WithDoDue(f, d, u).at = f.at /\ WithDoDue(f, d, u).due = u
<1>1. f = [do |-> f.do, ev |-> f.ev, cur |-> f.cur, at |-> f.at, due |-> f.due]
  BY FrameFields
<1>2. [f EXCEPT !.do = d] = [do |-> d, ev |-> f.ev, cur |-> f.cur, at |-> f.at, due |-> f.due]
  BY <1>1
<1>3. [f EXCEPT !.do = d, !.due = u] = [do |-> d, ev |-> f.ev, cur |-> f.cur, at |-> f.at, due |-> u]
  <2>1. [f EXCEPT !.do = d, !.due = u] = [[f EXCEPT !.do = d] EXCEPT !.due = u]
    OBVIOUS
  <2>2. [[do |-> d, ev |-> f.ev, cur |-> f.cur, at |-> f.at, due |-> f.due] EXCEPT !.due = u]
          = [do |-> d, ev |-> f.ev, cur |-> f.cur, at |-> f.at, due |-> u]
    OBVIOUS
  <2> QED BY <1>2, <2>1, <2>2, Zenon
<1>4. WithDoDue(f, d, u) = [do |-> d, ev |-> f.ev, cur |-> f.cur, at |-> f.at, due |-> u]
  BY <1>3 DEF WithDoDue
<1>5. /\ f.do \in Kernels \cup Nested /\ f.ev \in Events /\ f.cur \in Slots
      /\ f.at \in Int /\ f.due \in SUBSET Slots
      /\ d \in Kernels \cup Nested /\ u \in SUBSET Slots
  BY FrameFields
<1>6. [do |-> d, ev |-> f.ev, cur |-> f.cur, at |-> f.at, due |-> u] \in Frames
  BY ONLY <1>5, InFrames
<1> QED BY <1>4, <1>6

WithAtDue(f, a, u) == [f EXCEPT !.at = a, !.due = u]

LEMMA WithAtDueIs ==
  ASSUME NEW f \in Frames, NEW a \in Int, NEW u \in SUBSET Slots
  PROVE  /\ WithAtDue(f, a, u) \in Frames /\ WithAtDue(f, a, u).do = f.do /\ WithAtDue(f, a, u).ev = f.ev /\ WithAtDue(f, a, u).cur = f.cur
         /\ WithAtDue(f, a, u).at = a /\ WithAtDue(f, a, u).due = u
<1>1. f = [do |-> f.do, ev |-> f.ev, cur |-> f.cur, at |-> f.at, due |-> f.due]
  BY FrameFields
<1>2. [f EXCEPT !.at = a] = [do |-> f.do, ev |-> f.ev, cur |-> f.cur, at |-> a, due |-> f.due]
  BY <1>1
<1>3. [f EXCEPT !.at = a, !.due = u] = [do |-> f.do, ev |-> f.ev, cur |-> f.cur, at |-> a, due |-> u]
  <2>1. [f EXCEPT !.at = a, !.due = u] = [[f EXCEPT !.at = a] EXCEPT !.due = u]
    OBVIOUS
  <2>2. [[do |-> f.do, ev |-> f.ev, cur |-> f.cur, at |-> a, due |-> f.due] EXCEPT !.due = u]
          = [do |-> f.do, ev |-> f.ev, cur |-> f.cur, at |-> a, due |-> u]
    OBVIOUS
  <2> QED BY <1>2, <2>1, <2>2, Zenon
<1>4. WithAtDue(f, a, u) = [do |-> f.do, ev |-> f.ev, cur |-> f.cur, at |-> a, due |-> u]
  BY <1>3 DEF WithAtDue
<1>5. /\ f.do \in Kernels \cup Nested /\ f.ev \in Events /\ f.cur \in Slots
      /\ f.at \in Int /\ f.due \in SUBSET Slots
      /\ a \in Int /\ u \in SUBSET Slots
  BY FrameFields
<1>6. [do |-> f.do, ev |-> f.ev, cur |-> f.cur, at |-> a, due |-> u] \in Frames
  BY ONLY <1>5, InFrames
<1> QED BY <1>4, <1>6

WithDoAtCur(f, d, a, s) == [f EXCEPT !.do = d, !.at = a, !.cur = s]

LEMMA WithDoAtCurIs ==
  ASSUME NEW f \in Frames, NEW d \in Kernels \cup Nested, NEW a \in Int, NEW s \in Slots
  PROVE  /\ WithDoAtCur(f, d, a, s) \in Frames /\ WithDoAtCur(f, d, a, s).do = d /\ WithDoAtCur(f, d, a, s).ev = f.ev /\ WithDoAtCur(f, d, a, s).cur = s
         /\ WithDoAtCur(f, d, a, s).at = a /\ WithDoAtCur(f, d, a, s).due = f.due
<1>1. f = [do |-> f.do, ev |-> f.ev, cur |-> f.cur, at |-> f.at, due |-> f.due]
  BY FrameFields
<1>2. [f EXCEPT !.do = d] = [do |-> d, ev |-> f.ev, cur |-> f.cur, at |-> f.at, due |-> f.due]
  BY <1>1
<1>3. [f EXCEPT !.do = d, !.at = a] = [do |-> d, ev |-> f.ev, cur |-> f.cur, at |-> a, due |-> f.due]
  <2>1. [f EXCEPT !.do = d, !.at = a] = [[f EXCEPT !.do = d] EXCEPT !.at = a]
    OBVIOUS
  <2>2. [[do |-> d, ev |-> f.ev, cur |-> f.cur, at |-> f.at, due |-> f.due] EXCEPT !.at = a]
          = [do |-> d, ev |-> f.ev, cur |-> f.cur, at |-> a, due |-> f.due]
    OBVIOUS
  <2> QED BY <1>2, <2>1, <2>2, Zenon
<1>4. [f EXCEPT !.do = d, !.at = a, !.cur = s] = [do |-> d, ev |-> f.ev, cur |-> s, at |-> a, due |-> f.due]
  <2>1. [f EXCEPT !.do = d, !.at = a, !.cur = s] = [[f EXCEPT !.do = d, !.at = a] EXCEPT !.cur = s]
    OBVIOUS
  <2>2. [[do |-> d, ev |-> f.ev, cur |-> f.cur, at |-> a, due |-> f.due] EXCEPT !.cur = s]
          = [do |-> d, ev |-> f.ev, cur |-> s, at |-> a, due |-> f.due]
    OBVIOUS
  <2> QED BY <1>3, <2>1, <2>2, Zenon
<1>5. WithDoAtCur(f, d, a, s) = [do |-> d, ev |-> f.ev, cur |-> s, at |-> a, due |-> f.due]
  BY <1>4 DEF WithDoAtCur
<1>6. /\ f.do \in Kernels \cup Nested /\ f.ev \in Events /\ f.cur \in Slots
      /\ f.at \in Int /\ f.due \in SUBSET Slots
      /\ d \in Kernels \cup Nested /\ a \in Int /\ s \in Slots
  BY FrameFields
<1>7. [do |-> d, ev |-> f.ev, cur |-> s, at |-> a, due |-> f.due] \in Frames
  BY ONLY <1>6, InFrames
<1> QED BY <1>5, <1>7

-----------------------------------------------------------------------------
(* The main loop.                                                           *)

LEMMA WalkIs ==
  ASSUME TaskInv, NEW e \in Events
  PROVE  /\ Walk(e) \in Frames /\ Walk(e).do = "walk" /\ Walk(e).ev = e
         /\ Walk(e).at \in Running \cup {NO_NODE}
<1> DEFINE s == IF e.type = "user" THEN System ELSE e.org.idx
           b == Frame("walk", e, s)
           a == list[Tasks].next
           u == Subscribers(e.evt) \ {e.to.idx}
<1>1. b \in Frames /\ b.do = "walk" /\ b.ev = e
  <2>1. s \in Slots
    BY EventFields, Nodish
  <2>2. "walk" \in Kernels \cup Nested
    BY DEF Kernels, Leaves
  <2> HIDE DEF s
  <2> QED BY <2>1, <2>2, FrameIs
<1>2. a \in Running \cup {NO_NODE} /\ a \in Int /\ Running \subseteq Slots
  <2>1. TwoLists(Running, Spare, list)
    BY Opened
  <2>2. PICK R, F, l : R = Running /\ F = Spare /\ l = list /\ TwoLists(R, F, l)
    BY <2>1
  <2>3. l[Tasks].next \in R \cup {NO_NODE} /\ R \subseteq Slots \ {System}
    BY <2>2, Following
  <2>4. NO_NODE \in Int /\ Slots \subseteq Int
    BY Nodish DEF NO_NODE
  <2>5. list[Tasks].next \in Running \cup {NO_NODE} /\ Running \subseteq Slots
    BY <2>2, <2>3
  <2> QED BY <2>4, <2>5
<1>3. u \in SUBSET Slots
  BY <1>2 DEF Subscribers, Running
<1>4. Walk(e) = WithAtDue(b, a, u)
  BY DEF Walk, WithAtDue
<1> HIDE DEF b, a, u
<1> QED BY <1>1, <1>2, <1>3, <1>4, WithAtDueIs

LEMMA DequeueKeeps ==
  ASSUME TaskInv, Dequeue
  PROVE  TaskInv'
<1> DEFINE e == Head(queue)
           f == IF e.type = "user" THEN Walk(e) ELSE Frame("event", e, e.org.idx)
<1>1. stack = <<>> /\ queue # <<>> /\ queue' = Tail(queue) /\ stack' = <<f>>
      /\ UNCHANGED <<list, task, calls>>
  BY DEF Dequeue
<1>2. PICK R, F : R = Running /\ F = Spare
  OBVIOUS
<1>3. Good(R, F, list, task, queue, <<>>, calls)
  BY <1>1, <1>2, Opened
<1>4. e \in Events
  BY <1>1, Opened, Popped, Elements, EmptySeq
<1>5. f \in Frames /\ f.ev = e
      /\ \/ f.do = "event"
         \/ f.do = "walk" /\ f.at \in R \cup {NO_NODE} /\ f.ev.type # "end"
  <2>1. CASE e.type = "user"
    <3> HIDE DEF e
    <3>1. f = Walk(e)
      BY <2>1
    <3> HIDE DEF f
    <3> QED BY <1>2, <1>4, <2>1, <3>1, WalkIs
  <2>2. CASE e.type # "user"
    <3> HIDE DEF e
    <3>1. f = Frame("event", e, e.org.idx)
      BY <2>2
    <3>2. "event" \in Kernels \cup Nested /\ e.org.idx \in Slots
      BY <1>4, EventFields DEF Kernels, Leaves
    <3>3. f \in Frames /\ f.do = "event" /\ f.ev = e
      <4> HIDE DEF f
      <4>1. e \in Events
        BY <1>4
      <4> QED BY ONLY <4>1, <3>1, <3>2, FrameIs
    <3> HIDE DEF f
    <3> QED BY <3>3
  <2> QED BY <2>1, <2>2
<1> HIDE DEF f
<1>6. Good(R, F, list, task, Tail(queue), <<f>>, calls)
  BY <1>1, <1>3, <1>5, Takes
<1> QED BY <1>1, <1>6, Closes

\* What the frame on top says when it is one of the main loop's.
LEMMA Going ==
  ASSUME TaskInv, NEW d \in Kernels \ Launching, At(d)
  PROVE  /\ stack # <<>> /\ Top = stack[1] /\ Top.do = d /\ Top \in Frames /\ Top.ev \in Events
         /\ Top.ev.org.idx \in Slots /\ Top.ev.by.idx \in Slots /\ Top.ev.to.idx \in Slots
         /\ Loose(Top.ev) /\ FrameOK(Top, Running, Spare, list, task, queue, calls)
<1>1. stack # <<>> /\ Top.do = d /\ Top = stack[1]
  BY DEF At, Top
<1>2. Top \in Frames /\ FrameOK(Top, Running, Spare, list, task, queue, calls)
  BY <1>1, TopIs
<1>3. Loose(Top.ev)
  BY <1>2 DEF FrameOK
<1>4. Top.ev \in Events
  BY <1>2, FrameFields
<1> QED BY <1>1, <1>2, <1>3, <1>4, EventFields

\* The frame on top goes on as f.
LEMMA GoesOnAs ==
  ASSUME TaskInv, NEW d \in Kernels \ Launching, At(d),
         NEW f \in Frames, f.do \in Kernels \ {"starting"},
         FrameOK(f, Running, Spare, list, task, queue, calls),
         Replace(f), list' = list, queue' = queue, calls' = calls,
         task' \in [Slots -> TaskRecords], SameStatus(task, task')
  PROVE  TaskInv'
<1>1. PICK R, F : R = Running /\ F = Spare
  OBVIOUS
<1>2. Good(R, F, list, task, queue, stack, calls)
  BY <1>1, Opened
<1>3. stack # <<>> /\ stack[1].do \in Kernels \ Launching
  BY Going
<1>4. FrameOK(f, R, F, list, task, queue, calls)
  BY <1>1
<1>5. Good(R, F, list, task, queue, <<f>> \o Tail(stack), calls)
  BY <1>2, <1>3, <1>4, GoesOn
<1>6. stack' = <<f>> \o Tail(stack)
  BY DEF Replace
<1>7. Good(R, F, list, task, queue, stack', calls)
  BY <1>5, <1>6
<1>8. Good(R, F, list, task', queue, stack', calls)
  BY <1>7, Retasked
<1> QED BY <1>8, Closes

\* App code runs on top of f.
LEMMA CallsAs ==
  ASSUME TaskInv, NEW d \in Kernels \ Launching, At(d),
         NEW f \in Frames, f.do \in {"done", "ended", "visited", "freed", "stopping"},
         FrameOK(f, Running, Spare, list, task, queue, calls),
         NEW w \in AppFrames \ {"init"}, NEW s \in Slots, task[s].loaded,
         CallThen(f, w, s), list' = list, queue' = queue, calls' = calls, task' = task
  PROVE  TaskInv'
<1>1. PICK R, F : R = Running /\ F = Spare
  OBVIOUS
<1>2. Good(R, F, list, task, queue, stack, calls)
  BY <1>1, Opened
<1>3. stack # <<>> /\ stack[1].do \in Kernels \ Launching
  BY Going
<1>4. FrameOK(f, R, F, list, task, queue, calls)
  BY <1>1
<1> DEFINE g == Enter(w, s)
<1>5. g \in Frames /\ g.do = w /\ g.cur = s /\ g.ev.type = "none" /\ g.ev.id = 0
      /\ g.do \in Nested \ {"init"}
  BY EnterIs DEF Nested
<1> HIDE DEF g
<1>6. FrameOK(g, R, F, list, task, queue, calls)
  BY <1>5 DEF FrameOK, Loose, AppFrames, Launching
<1>7. Good(R, F, list, task, queue, <<g, f>> \o Tail(stack), calls)
  BY <1>2, <1>3, <1>4, <1>5, <1>6, RunsApp
<1>8. stack' = <<g, f>> \o Tail(stack)
  BY DEF CallThen, g
<1> QED BY <1>7, <1>8, Closes

LEMMA Labels ==
  ASSUME TaskInv, NEW d \in Kernels \ Launching, At(d),
         NEW k \in Kernels \ {"starting"}, Label(k),
         \A f \in Frames : f.do = k /\ f.ev = Top.ev =>
           FrameOK(f, Running, Spare, list, task, queue, calls),
         list' = list, queue' = queue, calls' = calls,
         task' \in [Slots -> TaskRecords], SameStatus(task, task')
  PROVE  TaskInv'
<1> DEFINE f == WithDo(Top, k)
<1>1. f \in Frames /\ f.do = k /\ f.ev = Top.ev
  BY Going, WithDoIs
<1>2. Replace(f)
  BY DEF Label, WithDo
<1> HIDE DEF f
<1>3. FrameOK(f, Running, Spare, list, task, queue, calls)
  BY <1>1
<1> QED BY <1>1, <1>2, <1>3, GoesOnAs

LEMMA Unchanged == ASSUME NEW t \in [Slots -> TaskRecords] PROVE SameStatus(t, t)
BY DEF SameStatus

LEMMA Same ==
  ASSUME TaskInv, task' = task
  PROVE  task' \in [Slots -> TaskRecords] /\ SameStatus(task, task')
BY Opened, Unchanged

\* The end of an event that was handled, as a frame.
LEMMA DoneIsFine ==
  ASSUME NEW R, NEW F, NEW l, NEW t, NEW q, NEW c, NEW f, f.do = "done",
         Loose(f.ev), \A s \in Slots : Concerns(f.ev, s) => t[s].loaded
  PROVE  FrameOK(f, R, F, l, t, q, c)
BY DEF FrameOK, AppFrames, Launching

\* Done with, since the frame on top was about the same event.
LEMMA DoneWith ==
  ASSUME TaskInv, NEW d \in {"event", "walk", "visited", "done"}, At(d)
  PROVE  /\ d \in Kernels \ Launching
         /\ Loose(Top.ev) /\ \A s \in Slots : Concerns(Top.ev, s) => task[s].loaded
         /\ \A f \in Frames : f.do = "done" /\ f.ev = Top.ev =>
              FrameOK(f, Running, Spare, list, task, queue, calls)
<1>1. d \in Kernels \ Launching
  BY DEF Kernels, Leaves, Launching
<1>2. Loose(Top.ev) /\ Top.do = d /\ FrameOK(Top, Running, Spare, list, task, queue, calls)
  BY <1>1, Going
<1>3. \A s \in Slots : Concerns(Top.ev, s) => task[s].loaded
  BY <1>2 DEF FrameOK
<1> QED BY <1>1, <1>2, <1>3, DoneIsFine

\* A task's record with another list of subscriptions.
LEMMA Resubscribed ==
  ASSUME NEW k \in TaskRecords, NEW v \in SUBSET Values, NEW z \in Nat, NEW h \in BOOLEAN
  PROVE  [app |-> k.app, ctr |-> k.ctr, loaded |-> k.loaded, flags |-> k.flags,
          io |-> k.io, subs |-> v, sz |-> z, short |-> h] \in TaskRecords
BY DEF TaskRecords

LEMMA SubscribeApplied ==
  ASSUME TaskInv, ApplySubscribe
  PROVE  TaskInv'
<1>1. At("event") /\ Top.ev.type = "sub" /\ Label("done")
      /\ list' = list /\ queue' = queue /\ calls' = calls
  BY DEF ApplySubscribe, Event
<1>2. Top.ev \in Events /\ Top.ev.to.idx \in Slots /\ Loose(Top.ev)
  BY <1>1, Going DEF Kernels, Leaves, Launching
<1>3. task \in [Slots -> TaskRecords]
  BY Opened
<1> DEFINE s == Top.ev.to.idx
           v == Top.ev.evt
<1>4. v \in Values /\ s \in Slots
  BY <1>1, <1>2 DEF Loose
<1>5. PICK g \in BOOLEAN : task' = Added(s, v, g)
  BY DEF ApplySubscribe
<1> HIDE DEF s, v
<1> DEFINE k == task[s]
<1>6. k \in TaskRecords /\ task[s] = k
  BY <1>3, <1>4
<1>60. k = [app |-> k.app, ctr |-> k.ctr, loaded |-> k.loaded, flags |-> k.flags,
           io |-> k.io, subs |-> k.subs, sz |-> k.sz, short |-> k.short]
  <2> HIDE DEF k
  <2> QED BY <1>6, TaskFields
<1>7. \/ task' = task
      \/ task' = [task EXCEPT ![s].short = TRUE]
      \/ \E z \in Nat : task' = [task EXCEPT ![s].subs = @ \cup {v}, ![s].sz = z]
  <2> DEFINE full == Cardinality(task[s].subs) = task[s].sz
             z == IF full THEN (task[s].sz * 3 + 1) \div 2 ELSE task[s].sz
  <2>1. z \in Nat
    <3>1. task[s].sz \in Nat
      BY <1>6, TaskFields
    <3>2. \A n \in Nat : (n * 3 + 1) \div 2 \in Nat
      OBVIOUS
    <3> QED BY <3>1, <3>2
  <2>2. CASE v \in task[s].subs
    BY <1>5, <2>2 DEF Added
  <2>3. CASE v \notin task[s].subs /\ full /\ ~g
    BY <1>5, <2>3 DEF Added
  <2>4. CASE v \notin task[s].subs /\ ~(full /\ ~g)
    <3>1. task' = [task EXCEPT ![s].subs = @ \cup {v}, ![s].sz = z]
      BY <1>5, <2>4 DEF Added
    <3> HIDE DEF z
    <3> QED BY <2>1, <3>1
  <2> QED BY <2>2, <2>3, <2>4
<1>8. task' \in [Slots -> TaskRecords] /\ SameStatus(task, task')
  <2>1. CASE task' = task
    BY <2>1, Same
  <2>2. CASE task' = [task EXCEPT ![s].short = TRUE]
    <3>0. PICK h \in BOOLEAN : task' = [task EXCEPT ![s].short = h]
      BY <2>2
    <3> DEFINE k2 == [app |-> k.app, ctr |-> k.ctr, loaded |-> k.loaded, flags |-> k.flags,
                      io |-> k.io, subs |-> k.subs, sz |-> k.sz, short |-> h]
    <3>1. k2 \in TaskRecords
      <4> HIDE DEF k
      <4>1. k.subs \in SUBSET Values /\ k.sz \in Nat
        BY <1>6, TaskFields
      <4> QED BY <1>6, <4>1, Resubscribed
    <3>2. [k EXCEPT !.short = h] = k2
      <4> HIDE DEF k
      <4> QED BY <1>60
    <3>3. task' = [task EXCEPT ![s] = [task[s] EXCEPT !.short = h]]
      BY <3>0
    <3>4. task' = [task EXCEPT ![s] = k2]
      BY <3>2, <3>3
    <3>5. k2.loaded = task[s].loaded /\ k2.flags = task[s].flags
      OBVIOUS
    <3> HIDE DEF k2
    <3> QED BY <1>3, <1>4, <3>1, <3>4, <3>5 DEF SameStatus, Halted
  <2>3. ASSUME NEW z \in Nat, task' = [task EXCEPT ![s].subs = @ \cup {v}, ![s].sz = z]
        PROVE  task' \in [Slots -> TaskRecords] /\ SameStatus(task, task')
    <3> DEFINE k1 == [app |-> k.app, ctr |-> k.ctr, loaded |-> k.loaded, flags |-> k.flags,
                      io |-> k.io, subs |-> k.subs \cup {v}, sz |-> k.sz, short |-> k.short]
               k2 == [app |-> k.app, ctr |-> k.ctr, loaded |-> k.loaded, flags |-> k.flags,
                      io |-> k.io, subs |-> k.subs \cup {v}, sz |-> z, short |-> k.short]
    <3>1. k2 \in TaskRecords
      <4>1. k.subs \cup {v} \in SUBSET Values
        BY <1>4, <1>6, TaskFields
      <4>2. k.short \in BOOLEAN
        BY <1>6, TaskFields
      <4> HIDE DEF k
      <4> QED BY <1>6, <4>1, <4>2, Resubscribed
    <3>2. [k EXCEPT !.subs = @ \cup {v}] = k1
      <4> HIDE DEF k
      <4> QED BY <1>60
    <3>3. [k1 EXCEPT !.sz = z] = k2
      OBVIOUS
    <3>4. task' = [[task EXCEPT ![s] = [task[s] EXCEPT !.subs = @ \cup {v}]] EXCEPT ![s].sz = z]
      BY <2>3
    <3>5. task' = [[task EXCEPT ![s] = k1] EXCEPT ![s].sz = z]
      BY <3>2, <3>4
    <3>6. task' = [task EXCEPT ![s] = k2]
      <4> DEFINE m == [task EXCEPT ![s] = k1]
      <4>1. task' = [m EXCEPT ![s] = [m[s] EXCEPT !.sz = z]]
        BY <3>5
      <4>2. m[s] = k1
        BY <1>3, <1>4
      <4>3. task' = [m EXCEPT ![s] = k2]
        BY <3>3, <4>1, <4>2
      <4> HIDE DEF k1, k2, k
      <4> QED BY <1>3, <1>4, <4>3
    <3>7. k2.loaded = task[s].loaded /\ k2.flags = task[s].flags
      OBVIOUS
    <3> HIDE DEF k2
    <3> QED BY <1>3, <1>4, <3>1, <3>6, <3>7 DEF SameStatus, Halted
  <2> QED BY <1>7, <2>1, <2>2, <2>3
<1>9. "event" \in Kernels \ Launching /\ "done" \in Kernels \ {"starting"}
  BY DEF Kernels, Leaves, Launching
<1>10. \A f \in Frames : f.do = "done" /\ f.ev = Top.ev =>
         FrameOK(f, Running, Spare, list, task, queue, calls)
  BY <1>1, DoneWith
<1> QED BY <1>1, <1>8, <1>9, <1>10, Labels

LEMMA UnsubscribeApplied ==
  ASSUME TaskInv, ApplyUnsubscribe
  PROVE  TaskInv'
<1>1. At("event") /\ Top.ev.type = "unsub" /\ Label("done")
      /\ list' = list /\ queue' = queue /\ calls' = calls
  BY DEF ApplyUnsubscribe, Event
<1>2. Top.ev \in Events /\ Top.ev.to.idx \in Slots
  BY <1>1, Going DEF Kernels, Leaves, Launching
<1>3. task \in [Slots -> TaskRecords]
  BY Opened
<1> DEFINE s == Top.ev.to.idx
           v == Top.ev.evt
           k == task[s]
           k2 == [app |-> k.app, ctr |-> k.ctr, loaded |-> k.loaded, flags |-> k.flags,
                  io |-> k.io, subs |-> k.subs \ {v}, sz |-> k.sz, short |-> k.short]
<1>5. task' = [task EXCEPT ![s].subs = @ \ {v}] /\ s \in Slots
  BY <1>2 DEF ApplyUnsubscribe
<1> HIDE DEF s, v
<1>6. k \in TaskRecords /\ task[s] = k
  BY <1>3, <1>5
<1>7. task' \in [Slots -> TaskRecords] /\ SameStatus(task, task')
  <2>1. k2 \in TaskRecords
    <3> HIDE DEF k
    <3>1. k.subs \ {v} \in SUBSET Values /\ k.sz \in Nat /\ k.short \in BOOLEAN
      BY <1>6, TaskFields
    <3> QED BY <1>6, <3>1, Resubscribed
  <2>2. [k EXCEPT !.subs = @ \ {v}] = k2
    <3> HIDE DEF k
    <3>1. k = [app |-> k.app, ctr |-> k.ctr, loaded |-> k.loaded, flags |-> k.flags,
            io |-> k.io, subs |-> k.subs, sz |-> k.sz, short |-> k.short]
      BY <1>6, TaskFields
    <3> QED BY <3>1
  <2>3. task' = [task EXCEPT ![s] = [task[s] EXCEPT !.subs = @ \ {v}]]
    BY <1>5
  <2>4. task' = [task EXCEPT ![s] = k2]
    BY <2>2, <2>3
  <2>5. k2.loaded = task[s].loaded /\ k2.flags = task[s].flags
    OBVIOUS
  <2> HIDE DEF k2
  <2> QED BY <1>3, <1>5, <2>1, <2>4, <2>5 DEF SameStatus, Halted
<1>9. "event" \in Kernels \ Launching /\ "done" \in Kernels \ {"starting"}
  BY DEF Kernels, Leaves, Launching
<1>10. \A f \in Frames : f.do = "done" /\ f.ev = Top.ev =>
         FrameOK(f, Running, Spare, list, task, queue, calls)
  BY <1>1, DoneWith
<1> QED BY <1>1, <1>7, <1>9, <1>10, Labels

LEMMA Labelling ==
  /\ {"event", "walk", "visited", "done", "ended", "freed", "host", "stopping"}
       \subseteq Kernels \ Launching
  /\ {"event", "walk", "visited", "done", "ended", "freed", "host", "stopping"}
       \subseteq Kernels \ {"starting"}
BY DEF Kernels, Leaves, Launching

\* A stopped task is on neither list and still loaded.
LEMMA StoppedIsLoaded ==
  ASSUME TaskInv, NEW s \in Slots, Halted(task, s)
  PROVE  s # System /\ s \notin Running \cup Spare /\ task[s].loaded
<1>1. StatusOK(Running, Spare, task, stack)
  BY Opened
<1> QED BY <1>1 DEF StatusOK

LEMMA DispatchKeeps ==
  ASSUME TaskInv, Dispatch
  PROVE  TaskInv'
<1>1. At("event") /\ list' = list /\ task' = task /\ queue' = queue /\ calls' = calls
  BY DEF Dispatch, Event
<1>2. /\ stack # <<>> /\ Top = stack[1] /\ Top.do = "event" /\ Top \in Frames /\ Top.ev \in Events
      /\ Top.ev.to.idx \in Slots /\ Loose(Top.ev)
      /\ FrameOK(Top, Running, Spare, list, task, queue, calls)
  BY <1>1, Going, Labelling
<1>3. \A s \in Slots : Concerns(Top.ev, s) => task[s].loaded
  BY <1>1, DoneWith
<1>4. task' \in [Slots -> TaskRecords] /\ SameStatus(task, task')
  BY <1>1, Same
<1> DEFINE s == Top.ev.to.idx
<1>5. CASE Event("begin") /\ Replace(Walk(Top.ev))
  <2> DEFINE f == Walk(Top.ev)
  <2>1. f \in Frames /\ f.do = "walk" /\ f.ev = Top.ev /\ f.at \in Running \cup {NO_NODE}
    BY <1>2, WalkIs
  <2>2. Replace(f)
    BY <1>5
  <2> HIDE DEF f
  <2>3. FrameOK(f, Running, Spare, list, task, queue, calls)
    BY <1>2, <1>3, <2>1 DEF FrameOK, AppFrames, Launching
  <2> QED BY <1>1, <1>4, <2>1, <2>2, <2>3, Labelling, GoesOnAs
<1>6. CASE Event("defer") /\ Label("host")
  <2>1. \A f \in Frames : f.do = "host" /\ f.ev = Top.ev =>
          FrameOK(f, Running, Spare, list, task, queue, calls)
    BY <1>2, <1>6 DEF FrameOK, AppFrames, Launching, Event
  <2> QED BY <1>1, <1>4, <1>6, <2>1, Labelling, Labels
<1>7. CASE Event("private") /\ Call("handle", s, "done")
  <2> DEFINE f == WithDo(Top, "done")
  <2>1. f \in Frames /\ f.do = "done" /\ f.ev = Top.ev
    BY <1>2, Labelling, WithDoIs
  <2>2. CallThen(f, "handle", s)
    BY <1>7 DEF Call, WithDo
  <2> HIDE DEF f
  <2>3. FrameOK(f, Running, Spare, list, task, queue, calls)
    BY <1>2, <1>3, <2>1, DoneIsFine
  <2>4. task[s].loaded
    BY <1>2, <1>3, <1>7 DEF Concerns, Event
  <2>5. "handle" \in AppFrames \ {"init"}
    BY DEF AppFrames
  <2> QED BY <1>1, <1>2, <2>1, <2>2, <2>3, <2>4, <2>5, Labelling, CallsAs
<1>8. CASE Event("end")
  <2>1. Halted(task, s) /\ NoEndOf(queue, s) /\ NoneFor(queue, s)
    BY <1>2, <1>8 DEF FrameOK, Event
  <2>2. \A f \in Frames : f.do = "ended" /\ f.ev = Top.ev =>
          FrameOK(f, Running, Spare, list, task, queue, calls)
    BY <1>2, <1>8, <2>1 DEF FrameOK, AppFrames, Launching, Event
  <2>3. CASE Label("ended")
    BY <1>1, <1>4, <2>2, <2>3, Labelling, Labels
  <2>4. CASE Call("end", s, "ended")
    <3> DEFINE f == WithDo(Top, "ended")
    <3>1. f \in Frames /\ f.do = "ended" /\ f.ev = Top.ev
      BY <1>2, Labelling, WithDoIs
    <3>2. CallThen(f, "end", s)
      BY <2>4 DEF Call, WithDo
    <3> HIDE DEF f
    <3>3. FrameOK(f, Running, Spare, list, task, queue, calls)
      BY <2>2, <3>1
    <3>4. task[s].loaded
      BY <1>2, <2>1, StoppedIsLoaded
    <3>5. "end" \in AppFrames \ {"init"}
      BY DEF AppFrames
    <3> QED BY <1>1, <1>2, <3>1, <3>2, <3>3, <3>4, <3>5, Labelling, CallsAs
  <2>5. Label("ended") \/ Call("end", s, "ended")
    BY <1>8, <1>5, <1>6, <1>7 DEF Dispatch, Event
  <2> QED BY <2>3, <2>4, <2>5
<1> QED BY <1>5, <1>6, <1>7, <1>8 DEF Dispatch

\* A task with its flags, its count and its app gone.
LEMMA FreedIs ==
  ASSUME task \in [Slots -> TaskRecords], NEW s \in Slots
  PROVE  /\ Freed(s) \in [Slots -> TaskRecords]
         /\ ~Freed(s)[s].loaded /\ ~Halted(Freed(s), s)
         /\ \A x \in Slots : x # s => Freed(s)[x] = task[x]
<1> DEFINE k == task[s]
<1>1. k \in TaskRecords /\ 0 \in 0 .. IoWidth - 1
  BY SeosAssumption
<1>2. PICK no \in BOOLEAN : no = FALSE
  OBVIOUS
<1>3. PICK z \in 0 .. IoWidth - 1, e \in SUBSET {"STOPPED", "ABORTED"} : z = 0 /\ e = {}
  BY <1>1
<1> DEFINE k1 == [app |-> k.app, ctr |-> k.ctr, loaded |-> k.loaded, flags |-> e,
                  io |-> k.io, subs |-> k.subs, sz |-> k.sz, short |-> k.short]
           k2 == [app |-> k.app, ctr |-> k.ctr, loaded |-> k.loaded, flags |-> e,
                  io |-> z, subs |-> k.subs, sz |-> k.sz, short |-> k.short]
           k3 == [app |-> k.app, ctr |-> k.ctr, loaded |-> no, flags |-> e,
                  io |-> z, subs |-> k.subs, sz |-> k.sz, short |-> k.short]
<1>4. k3 \in TaskRecords
  <2> HIDE DEF k
  <2> QED BY <1>1, TaskFields, InTasks
<1>5. k = [app |-> k.app, ctr |-> k.ctr, loaded |-> k.loaded, flags |-> k.flags,
           io |-> k.io, subs |-> k.subs, sz |-> k.sz, short |-> k.short]
  <2> HIDE DEF k
  <2> QED BY <1>1, TaskFields
<1>6. [k EXCEPT !.flags = e] = k1
  <2> HIDE DEF k
  <2> QED BY <1>5
<1>7. [k1 EXCEPT !.io = z] = k2
  OBVIOUS
<1>8. [k2 EXCEPT !.loaded = no] = k3
  OBVIOUS
<1>9. Freed(s) = [[[task EXCEPT ![s].flags = e] EXCEPT ![s].io = z] EXCEPT ![s].loaded = no]
  BY <1>2, <1>3 DEF Freed
<1>10. Freed(s) = [task EXCEPT ![s] = k3]
  <2> DEFINE m1 == [task EXCEPT ![s] = k1]
             m2 == [m1 EXCEPT ![s] = k2]
  <2>1. [task EXCEPT ![s].flags = e] = m1
    BY <1>6
  <2>2. [m1 EXCEPT ![s].io = z] = [m1 EXCEPT ![s] = [m1[s] EXCEPT !.io = z]] /\ m1[s] = k1
    <3> HIDE DEF k1, k
    <3> QED OBVIOUS
  <2>3. [m1 EXCEPT ![s].io = z] = m2
    BY <1>7, <2>2
  <2>4. [m2 EXCEPT ![s].loaded = no] = [m2 EXCEPT ![s] = [m2[s] EXCEPT !.loaded = no]] /\ m2[s] = k2
    <3> HIDE DEF k1, k2, k
    <3> QED OBVIOUS
  <2>5. [m2 EXCEPT ![s].loaded = no] = [m2 EXCEPT ![s] = k3]
    BY <1>8, <2>4
  <2>6. [m2 EXCEPT ![s] = k3] = [task EXCEPT ![s] = k3]
    <3> HIDE DEF k1, k2, k3, k
    <3> QED OBVIOUS
  <2> HIDE DEF m1, m2, k1, k2, k3
  <2> QED BY <1>9, <2>1, <2>3, <2>5, <2>6
<1>11. k3.loaded = no /\ k3.flags = e
  OBVIOUS
<1> HIDE DEF k3
<1>12. Freed(s)[s] = k3 /\ \A x \in Slots : x # s => Freed(s)[x] = task[x]
  BY <1>10
<1> QED BY <1>2, <1>3, <1>4, <1>10, <1>11, <1>12 DEF Halted

LEMMA EndTaskKeeps ==
  ASSUME TaskInv, EndTask
  PROVE  TaskInv'
<1> DEFINE s == Top.ev.to.idx
           f == Walk(Top.ev)
<1>1. /\ At("ended") /\ queue' = queue /\ calls' = calls
      /\ list' = ListAddTail(list, FreeTasks, s) /\ task' = Freed(s) /\ Replace(f)
  BY DEF EndTask
<1>2. /\ stack # <<>> /\ Top = stack[1] /\ Top.do = "ended" /\ Top \in Frames /\ Top.ev \in Events
      /\ s \in Slots /\ Loose(Top.ev)
      /\ FrameOK(Top, Running, Spare, list, task, queue, calls)
  BY <1>1, Going, Labelling
<1>3. Top.ev.type = "end" /\ Halted(task, s) /\ NoEndOf(queue, s) /\ NoneFor(queue, s)
  BY <1>2 DEF FrameOK
<1>4. f \in Frames /\ f.do = "walk" /\ f.ev = Top.ev /\ f.at \in Running \cup {NO_NODE}
  BY <1>2, WalkIs
<1>5. s \in Slots \ {System} /\ s \notin Running \cup Spare
  BY <1>2, <1>3, StoppedIsLoaded
<1>6. /\ task' \in [Slots -> TaskRecords] /\ ~task'[s].loaded /\ ~Halted(task', s)
      /\ \A x \in Slots : x # s => task'[x] = task[x]
  BY <1>1, <1>2, Opened, FreedIs
<1>7. stack' = <<f>> \o Tail(stack)
  BY <1>1 DEF Replace
<1> HIDE DEF s, f
<1>8. PICK R, F : R = Running /\ F = Spare
  OBVIOUS
<1>9. Good(R, F, list, task, queue, stack, calls)
  BY <1>8, Opened
<1>10. \A x \in Slots : x # s => task'[x].loaded = task[x].loaded /\ (Halted(task', x) <=> Halted(task, x))
  BY <1>6 DEF Halted
<1>11. f.ev.id = 0 /\ f.ev.type \notin {"private", "sub", "unsub"} /\ Loose(f.ev)
  BY <1>2, <1>3, <1>4 DEF Loose
<1>12. stack[1].do \in Kernels /\ stack[1].do \notin Launching
  BY <1>2, Labelling
<1>13. Good(R, F \cup {s}, ListAddTail(list, FreeTasks, s), task', queue, <<f>> \o Tail(stack), calls)
  <2>1. s \notin R \cup F /\ (f.do = "done" \/ (f.do = "walk" /\ f.at \in R \cup {NO_NODE}))
    BY <1>4, <1>5, <1>8
  <2> QED BY <1>2, <1>3, <1>4, <1>5, <1>6, <1>9, <1>10, <1>11, <1>12, <2>1, Frees
<1> QED BY <1>1, <1>7, <1>13, Closes

LEMMA RunningIsLoaded ==
  ASSUME TaskInv, NEW s \in Running
  PROVE  s \in Slots \ {System} /\ s \notin Spare /\ task[s].loaded /\ ~Halted(task, s)
<1>1. StatusOK(Running, Spare, task, stack) /\ TwoLists(Running, Spare, list)
      /\ Running \subseteq Slots \ {System}
  BY Opened
<1>2. Running \cap Spare = {}
  BY <1>1 DEF TwoLists
<1> QED BY <1>1, <1>2 DEF StatusOK

\* Where a task's next link leads.
LEMMA NextIs ==
  ASSUME TaskInv
  PROVE  \A s \in Running : list[s].next \in Running \cup {NO_NODE} /\ list[s].next \in Int
<1>1. PICK R, F, l : R = Running /\ F = Spare /\ l = list /\ TwoLists(R, F, l)
  BY Opened
<1>2. (\A s \in R : l[s].next \in R \cup {NO_NODE}) /\ R \subseteq Slots \ {System}
  BY <1>1, Following
<1>3. NO_NODE \in Int /\ Slots \subseteq Int
  BY Nodish DEF NO_NODE
<1>4. \A s \in R : l[s].next \in R \cup {NO_NODE} /\ l[s].next \in Int
  BY <1>2, <1>3
<1> QED BY <1>1, <1>4

LEMMA VisitKeeps ==
  ASSUME TaskInv, Visit
  PROVE  TaskInv'
<1> DEFINE s == Top.at
<1>1. At("walk") /\ list' = list /\ task' = task /\ queue' = queue /\ calls' = calls
  BY DEF Visit
<1>2. /\ stack # <<>> /\ Top = stack[1] /\ Top.do = "walk" /\ Top \in Frames /\ Top.ev \in Events
      /\ Loose(Top.ev) /\ FrameOK(Top, Running, Spare, list, task, queue, calls)
  BY <1>1, Going, Labelling
<1>3. \A x \in Slots : Concerns(Top.ev, x) => task[x].loaded
  BY <1>1, DoneWith
<1>4. task' \in [Slots -> TaskRecords] /\ SameStatus(task, task')
  BY <1>1, Same
<1>5. s \in Running \cup {NO_NODE}
  BY <1>2 DEF FrameOK
<1>6. CASE s = NO_NODE
  <2>1. Label("done")
    BY <1>6 DEF Visit
  <2>2. \A f \in Frames : f.do = "done" /\ f.ev = Top.ev =>
          FrameOK(f, Running, Spare, list, task, queue, calls)
    BY <1>1, DoneWith
  <2> QED BY <1>1, <1>4, <2>1, <2>2, Labelling, Labels
<1>7. CASE s \in Running /\ s # NO_NODE
  <2>1. s \in Slots /\ s \notin Spare /\ task[s].loaded
    BY <1>7, RunningIsLoaded
  <2> DEFINE u == Top.due \ {s}
             f == WithDoDue(Top, "visited", u)
             g == WithAt(Top, list[s].next)
  <2>2. \/ CallThen(f, "handle", s)
        \/ Replace(g)
    BY <1>7 DEF Visit, WithDoDue, WithAt
  <2>3. CASE CallThen(f, "handle", s)
    <3>1. u \in SUBSET Slots
      BY <1>2, FrameFields
    <3> HIDE DEF u
    <3>2. f \in Frames /\ f.do = "visited" /\ f.ev = Top.ev /\ f.at = s
      BY <1>2, <3>1, Labelling, WithDoDueIs
    <3> HIDE DEF f
    <3>3. FrameOK(f, Running, Spare, list, task, queue, calls)
      BY <1>2, <1>3, <1>7, <2>1, <3>2 DEF FrameOK, AppFrames, Launching
    <3>4. "handle" \in AppFrames \ {"init"}
      BY DEF AppFrames
    <3> QED BY <1>1, <2>1, <2>3, <3>2, <3>3, <3>4, Labelling, CallsAs
  <2>4. CASE Replace(g)
    <3> DEFINE a == list[s].next
    <3>1. a \in Running \cup {NO_NODE} /\ a \in Int
      BY <1>7, NextIs
    <3>2. g = WithAt(Top, a)
      OBVIOUS
    <3> HIDE DEF a, g
    <3>3. g \in Frames /\ g.do = "walk" /\ g.ev = Top.ev /\ g.at = a
      BY <1>2, <3>1, <3>2, WithAtIs
    <3>4. FrameOK(g, Running, Spare, list, task, queue, calls)
      BY <1>2, <1>3, <3>1, <3>3 DEF FrameOK, AppFrames, Launching
    <3> QED BY <1>1, <1>4, <2>4, <3>3, <3>4, Labelling, GoesOnAs
  <2> QED BY <2>2, <2>3, <2>4
<1> QED BY <1>5, <1>6, <1>7

LEMMA VisitedKeeps ==
  ASSUME TaskInv, Visited
  PROVE  TaskInv'
<1> DEFINE s == Top.at
           a == list[s].next
           g == WithDoAt(Top, "walk", a)
<1>1. At("visited") /\ list' = list /\ task' = task /\ queue' = queue /\ calls' = calls
      /\ Replace(g)
  BY DEF Visited, WithDoAt
<1>2. /\ stack # <<>> /\ Top = stack[1] /\ Top.do = "visited" /\ Top \in Frames /\ Top.ev \in Events
      /\ Loose(Top.ev) /\ FrameOK(Top, Running, Spare, list, task, queue, calls)
  BY <1>1, Going, Labelling
<1>3. \A x \in Slots : Concerns(Top.ev, x) => task[x].loaded
  BY <1>1, DoneWith
<1>4. task' \in [Slots -> TaskRecords] /\ SameStatus(task, task')
  BY <1>1, Same
<1>5. a \in Running \cup {NO_NODE} /\ a \in Int
  <2>1. s \notin Running => a = NO_NODE
    BY <1>2 DEF FrameOK
  <2>2. NO_NODE \in Int
    BY DEF NO_NODE
  <2> QED BY <2>1, <2>2, NextIs
<1> HIDE DEF a
<1>6. g \in Frames /\ g.do = "walk" /\ g.ev = Top.ev /\ g.at = a
  <2>1. "walk" \in Kernels \cup Nested /\ a \in Int /\ Top \in Frames
    BY <1>2, <1>5 DEF Kernels, Leaves
  <2>2. \A x \in Frames : \A d \in Kernels \cup Nested : \A n \in Int :
          /\ WithDoAt(x, d, n) \in Frames /\ WithDoAt(x, d, n).do = d
          /\ WithDoAt(x, d, n).ev = x.ev /\ WithDoAt(x, d, n).at = n
    BY WithDoAtIs
  <2> QED BY <2>1, <2>2
<1> HIDE DEF g
<1>7. FrameOK(g, Running, Spare, list, task, queue, calls)
  BY <1>2, <1>3, <1>5, <1>6 DEF FrameOK, AppFrames, Launching
<1> QED BY <1>1, <1>4, <1>6, <1>7, Labelling, GoesOnAs

LEMMA FreeKeeps ==
  ASSUME TaskInv, Free
  PROVE  TaskInv'
<1> DEFINE f == WithDoCur(Top, "freed", System)
           s == Owner(Top.ev)
<1>1. At("done") /\ list' = list /\ task' = task /\ queue' = queue /\ calls' = calls
  BY DEF Free
<1>2. \/ Replace(f)
      \/ Top.ev.id # 0 /\ CallThen(f, "free", s)
  BY DEF Free, WithDoCur
<1>3. Top \in Frames /\ Top.ev \in Events /\ Loose(Top.ev)
  BY <1>1, Going, Labelling
<1>4. f \in Frames /\ f.do = "freed" /\ f.ev = Top.ev
  BY <1>3, Labelling, Nodish, WithDoCurIs
<1> HIDE DEF f
<1>5. FrameOK(f, Running, Spare, list, task, queue, calls)
  BY <1>3, <1>4 DEF FrameOK, AppFrames, Launching
<1>6. task' \in [Slots -> TaskRecords] /\ SameStatus(task, task')
  BY <1>1, Same
<1>7. CASE Replace(f)
  BY <1>1, <1>4, <1>5, <1>6, <1>7, Labelling, GoesOnAs
<1>8. CASE Top.ev.id # 0 /\ CallThen(f, "free", s)
  <2>1. s \in Slots
    BY <1>3, EventFields
  <2>2. task[s].loaded
    BY <1>1, <1>8, <2>1, DoneWith DEF Concerns
  <2>3. "free" \in AppFrames \ {"init"}
    BY DEF AppFrames
  <2> HIDE DEF s
  <2> QED BY <1>1, <1>4, <1>5, <1>8, <2>1, <2>2, <2>3, Labelling, CallsAs
<1> QED BY <1>2, <1>7, <1>8

-----------------------------------------------------------------------------
(* What apps do.                                                            *)

LEMMA StatusChain ==
  ASSUME NEW t, NEW u, NEW v, SameStatus(t, u), SameStatus(u, v)
  PROVE  SameStatus(t, v)
BY DEF SameStatus

LEMMA Uncharged ==
  ASSUME task \in [Slots -> TaskRecords], NEW e \in Events
  PROVE  Uncharge(e) \in [Slots -> TaskRecords] /\ SameStatus(task, Uncharge(e))
<1> DEFINE a == Charge(task, e.org.idx, -1)
           b == Charge(a, e.by.idx, -1)
<1>1. e.org.idx \in Slots /\ e.by.idx \in Slots /\ -1 \in Int
  BY EventFields
<1>2. a \in [Slots -> TaskRecords] /\ SameStatus(task, a)
  BY <1>1, Charged
<1>3. Uncharge(e) = IF e.type = "private" THEN b ELSE a
  BY DEF Uncharge
<1> HIDE DEF a
<1>4. b \in [Slots -> TaskRecords] /\ SameStatus(a, b)
  BY <1>1, <1>2, Charged
<1> HIDE DEF b
<1> QED BY <1>2, <1>3, <1>4, StatusChain

LEMMA FinishKeeps ==
  ASSUME TaskInv, Finish
  PROVE  TaskInv'
<1>1. At("freed") /\ list' = list /\ queue' = queue /\ calls' = calls /\ stack' = Tail(stack)
      /\ (task' = task \/ task' = Uncharge(Top.ev))
  BY DEF Finish, Return
<1>2. stack # <<>> /\ stack[1].do = "freed" /\ Top.ev \in Events
  BY <1>1, Going, Labelling
<1>3. task' \in [Slots -> TaskRecords] /\ SameStatus(task, task')
  BY <1>1, <1>2, Opened, Unchanged, Uncharged
<1>4. PICK R, F : R = Running /\ F = Spare
  OBVIOUS
<1>5. Good(R, F, list, task, queue, stack, calls)
  BY <1>4, Opened
<1>6. stack[1].do \notin Launching \cup {"init"}
  BY <1>2 DEF Launching
<1>7. Good(R, F, list, task, queue, Tail(stack), calls)
  BY <1>2, <1>5, <1>6, Returns
<1>8. Good(R, F, list, task', queue, Tail(stack), calls)
  BY <1>3, <1>7, Retasked
<1> QED BY <1>1, <1>8, Closes

LEMMA DroppedKeeps ==
  ASSUME TaskInv, Dropped
  PROVE  TaskInv'
<1> DEFINE s == Top.ev.by.idx
           g == Enter("free", s)
<1>1. /\ stack # <<>> /\ Top = stack[1] /\ Top.do = "dropped" /\ list' = list /\ queue' = queue
      /\ calls' = calls /\ task' = Charge(task, s, -1) /\ stack' = <<g>> \o Tail(stack)
  BY DEF Dropped, At, Replace, Top
<1>2. Top \in Frames /\ FrameOK(Top, Running, Spare, list, task, queue, calls)
  BY <1>1, TopIs
<1>3. s \in Slots /\ task[s].loaded
  <2>1. Top.ev \in Events
    BY <1>2, FrameFields
  <2> QED BY <1>1, <1>2, <2>1, EventFields DEF FrameOK
<1>4. task' \in [Slots -> TaskRecords] /\ SameStatus(task, task')
  <2>1. -1 \in Int /\ task \in [Slots -> TaskRecords]
    BY Opened
  <2> HIDE DEF s
  <2> QED BY <1>1, <1>3, <2>1, Charged
<1> HIDE DEF s
<1>5. g \in Frames /\ g.do = "free" /\ g.cur = s /\ g.ev.type = "none" /\ g.ev.id = 0
      /\ g.do \in Nested \ {"init"}
  BY <1>3, EnterIs DEF Nested, AppFrames
<1> HIDE DEF g
<1>6. PICK R, F : R = Running /\ F = Spare
  OBVIOUS
<1>7. Good(R, F, list, task, queue, stack, calls)
  BY <1>6, Opened
<1>8. FrameOK(g, R, F, list, task, queue, calls)
  BY <1>3, <1>5 DEF FrameOK, Loose, AppFrames, Launching
<1>9. Good(R, F, list, task, queue, <<g>> \o Tail(stack), calls)
  BY <1>1, <1>5, <1>7, <1>8, RunsInstead
<1>10. Good(R, F, list, task', queue, <<g>> \o Tail(stack), calls)
  BY <1>4, <1>9, Retasked
<1> QED BY <1>1, <1>10, Closes

LEMMA AppReturnKeeps ==
  ASSUME TaskInv, AppReturn
  PROVE  TaskInv'
<1>1. /\ stack # <<>> /\ Top = stack[1] /\ Top.do \in AppFrames
      /\ UNCHANGED <<list, task, queue, calls>>
  BY DEF AppReturn, InApp, Top
<1>2. PICK R, F : R = Running /\ F = Spare
  OBVIOUS
<1>3. Good(R, F, list, task, queue, stack, calls)
  BY <1>2, Opened
<1>4. CASE Top.do # "init" /\ Return
  <2>1. stack[1].do \notin Launching \cup {"init"}
    BY <1>1, <1>4 DEF Launching, AppFrames
  <2>2. Good(R, F, list, task, queue, Tail(stack), calls)
    BY <1>1, <1>3, <2>1, Returns
  <2> QED BY <1>1, <1>4, <2>2, Closes DEF Return
<1>5. ASSUME NEW d \in {"started", "failed"}, Top.do = "init", d = "failed" => Top.at = calls,
             stack' = <<[stack[2] EXCEPT !.do = d]>> \o SubSeq(stack, 3, Len(stack))
      PROVE  TaskInv'
  <2>1. Good(R, F, list, task, queue, <<[stack[2] EXCEPT !.do = d]>> \o SubSeq(stack, 3, Len(stack)), calls)
    BY <1>1, <1>3, <1>5, InitReturns
  <2> QED BY <1>1, <1>5, <2>1, Closes
<1> QED BY <1>4, <1>5 DEF AppReturn

\* The task whose code runs is loaded; no frame of a walk or a failure is open.
LEMMA Mine ==
  ASSUME TaskInv, InApp
  PROVE  /\ stack # <<>> /\ stack[1].do \in Nested /\ Me \in Slots /\ task[Me].loaded /\ Me # System
         /\ \A i \in 1 .. Len(stack) : stack[i].do \notin Leaves
<1>1. stack # <<>> /\ Top.do \in AppFrames /\ Top = stack[1]
  BY DEF InApp, Top
<1>2. Top \in Frames /\ FrameOK(Top, Running, Spare, list, task, queue, calls)
      /\ Len(stack) \in Nat /\ Len(stack) > 0
  BY <1>1, TopIs
<1>3. Me \in Slots /\ task[Me].loaded
  BY <1>1, <1>2, FrameFields DEF Me, FrameOK
<1>4. Me # System
  BY <1>3, Opened DEF StatusOK
<1>5. stack[1].do \in Nested /\ stack[1].do \notin Leaves
  BY <1>1 DEF Nested, AppFrames, Leaves
<1>6. ASSUME NEW i \in 1 .. Len(stack), i # 1 PROVE stack[i].do \notin Leaves
  <2>1. i \in 2 .. Len(stack) /\ stack \in Seq(Frames) /\ Shape(stack)
    BY <1>2, <1>6, Opened
  <2> QED BY <2>1, TopOnly
<1> QED BY <1>1, <1>3, <1>4, <1>5, <1>6

From(e, o) == [e EXCEPT !.org = o]
WithId(e, i) == [e EXCEPT !.id = i]
WithById(e, o, i) == [e EXCEPT !.by = o, !.id = i]

LEMMA FromIs ==
  ASSUME NEW e \in Events, NEW o \in Tids
  PROVE  /\ From(e, o) \in Events /\ From(e, o).org = o /\ From(e, o).type = e.type
         /\ From(e, o).to = e.to /\ From(e, o).evt = e.evt /\ From(e, o).id = e.id
         /\ From(e, o).by = e.by
<1>1. e = [type |-> e.type, org |-> e.org, by |-> e.by, to |-> e.to, evt |-> e.evt, id |-> e.id]
  BY DEF Events
<1>2. From(e, o) = [type |-> e.type, org |-> o, by |-> e.by, to |-> e.to, evt |-> e.evt, id |-> e.id]
  BY <1>1 DEF From
<1>3. [type |-> e.type, org |-> o, by |-> e.by, to |-> e.to, evt |-> e.evt, id |-> e.id] \in Events
  BY EventFields DEF Events
<1> QED BY <1>2, <1>3

LEMMA WithIdIs ==
  ASSUME NEW e \in Events, NEW i \in 0 .. MaxCalls
  PROVE  /\ WithId(e, i) \in Events /\ WithId(e, i).org = e.org /\ WithId(e, i).type = e.type
         /\ WithId(e, i).to = e.to /\ WithId(e, i).evt = e.evt /\ WithId(e, i).id = i
         /\ WithId(e, i).by = e.by
<1>1. e = [type |-> e.type, org |-> e.org, by |-> e.by, to |-> e.to, evt |-> e.evt, id |-> e.id]
  BY DEF Events
<1>2. WithId(e, i) = [type |-> e.type, org |-> e.org, by |-> e.by, to |-> e.to, evt |-> e.evt, id |-> i]
  BY <1>1 DEF WithId
<1>3. [type |-> e.type, org |-> e.org, by |-> e.by, to |-> e.to, evt |-> e.evt, id |-> i] \in Events
  BY EventFields DEF Events
<1> QED BY <1>2, <1>3

LEMMA WithByIdIs ==
  ASSUME NEW e \in Events, NEW o \in Tids, NEW i \in 0 .. MaxCalls
  PROVE  /\ WithById(e, o, i) \in Events /\ WithById(e, o, i).org = e.org
         /\ WithById(e, o, i).type = e.type /\ WithById(e, o, i).to = e.to
         /\ WithById(e, o, i).evt = e.evt /\ WithById(e, o, i).id = i /\ WithById(e, o, i).by = o
<1>1. e = [type |-> e.type, org |-> e.org, by |-> e.by, to |-> e.to, evt |-> e.evt, id |-> e.id]
  BY DEF Events
<1>2. [e EXCEPT !.by = o]
        = [type |-> e.type, org |-> e.org, by |-> o, to |-> e.to, evt |-> e.evt, id |-> e.id]
  BY <1>1
<1>3. [e EXCEPT !.by = o, !.id = i] = [[e EXCEPT !.by = o] EXCEPT !.id = i]
  OBVIOUS
<1>4. [[type |-> e.type, org |-> e.org, by |-> o, to |-> e.to, evt |-> e.evt, id |-> e.id] EXCEPT !.id = i]
        = [type |-> e.type, org |-> e.org, by |-> o, to |-> e.to, evt |-> e.evt, id |-> i]
  OBVIOUS
<1>5. [e EXCEPT !.by = o, !.id = i]
        = [type |-> e.type, org |-> e.org, by |-> o, to |-> e.to, evt |-> e.evt, id |-> i]
  BY <1>2, <1>3, <1>4, Zenon
<1>6. WithById(e, o, i)
        = [type |-> e.type, org |-> e.org, by |-> o, to |-> e.to, evt |-> e.evt, id |-> i]
  BY <1>5 DEF WithById
<1>7. [type |-> e.type, org |-> e.org, by |-> o, to |-> e.to, evt |-> e.evt, id |-> i] \in Events
  BY EventFields DEF Events
<1> QED BY <1>6, <1>7

\* What PostAs can do: nothing, or add the event, signed, and charge its sender.
LEMMA PostIs ==
  ASSUME NEW t, NEW s, NEW e, NEW b \in BOOLEAN, PostAs(t, s, e, b)
  PROVE  \/ ~Accepted(s) /\ queue' = queue /\ task' = t
         \/ /\ Accepted(s) /\ task' = Charge(t, s, 1)
            /\ queue' = IF b THEN Push(From(e, Tid(s)), queue) ELSE Put(queue, From(e, Tid(s)))
BY DEF PostAs, Push, Put, From

\* A call of an app is counted first.
LEMMA Called ==
  ASSUME TaskInv, AppCall
  PROVE  /\ calls' = calls + 1 /\ calls + 1 \in 1 .. MaxCalls
         /\ Good(Running, Spare, list, task, queue, stack, calls + 1)
         /\ \A i \in 1 .. Len(stack) :
              stack[i].do # "failed" /\ (stack[i].do = "init" => stack[i].at # calls + 1)
         /\ stack # <<>> /\ stack[1].do \in Nested /\ Me \in Slots /\ task[Me].loaded
         /\ Tid(Me) \in Tids /\ Tid(Me).idx = Me
<1>1. calls' = calls + 1 /\ InApp /\ calls < MaxCalls
  BY DEF AppCall
<1>2. calls \in 0 .. MaxCalls /\ task \in [Slots -> TaskRecords]
  BY Opened
<1>3. calls + 1 \in 1 .. MaxCalls
  BY <1>1, <1>2, SeosAssumption
<1>4. PICK R, F : R = Running /\ F = Spare
  OBVIOUS
<1>5. Good(R, F, list, task, queue, stack, calls)
  BY <1>4, Opened
<1>6. /\ Good(R, F, list, task, queue, stack, calls + 1)
      /\ \A i \in 1 .. Len(stack) : stack[i].do = "init" => stack[i].at # calls + 1
  BY <1>1, <1>5, Ticks
<1>7. /\ stack # <<>> /\ stack[1].do \in Nested /\ Me \in Slots /\ task[Me].loaded
      /\ \A i \in 1 .. Len(stack) : stack[i].do # "failed"
  BY <1>1, Mine DEF Leaves
<1>8. Tid(Me) \in Tids /\ Tid(Me).idx = Me
  BY <1>2, <1>7, TidIs
<1> QED BY <1>1, <1>3, <1>4, <1>6, <1>7, <1>8

LEMMA PublishKeeps ==
  ASSUME TaskInv, NEW v \in Evts, Publish(v)
  PROVE  TaskInv'
<1> DEFINE a == Evt("user", SystemTid, v)
           e == WithId(a, calls + 1)
           o == Tid(Me)
           f == From(e, o)
           m == Me
<1>1. AppCall /\ list' = list /\ stack' = stack /\ PostAs(task, m, e, FALSE)
  BY DEF Publish, WithId
<1>2. /\ calls' = calls + 1 /\ calls + 1 \in 1 .. MaxCalls
      /\ Good(Running, Spare, list, task, queue, stack, calls + 1)
      /\ \A i \in 1 .. Len(stack) :
           stack[i].do # "failed" /\ (stack[i].do = "init" => stack[i].at # calls + 1)
      /\ m \in Slots /\ task[m].loaded /\ o \in Tids /\ o.idx = m
  BY <1>1, Called
<1>3. a \in Events /\ a.type = "user"
  BY SystemTidIs, EvtIs DEF Posted, Values
<1> HIDE DEF a
<1>4. e \in Events /\ e.type = "user" /\ e.id = calls + 1
  <2>1. calls + 1 \in 0 .. MaxCalls
    BY <1>2
  <2> QED BY <1>3, <2>1, WithIdIs
<1> HIDE DEF e
<1>5. f \in Events /\ f.type = "user" /\ f.id = calls + 1 /\ f.org = o
  BY <1>2, <1>4, FromIs
<1>6. \/ queue' = queue /\ task' = task
      \/ Accepted(m) /\ task' = Charge(task, m, 1) /\ queue' = Put(queue, f)
  BY <1>1, PostIs
<1> HIDE DEF f, m, o
<1>7. task \in [Slots -> TaskRecords]
  BY Opened
<1>8. PICK R, F : R = Running /\ F = Spare
  OBVIOUS
<1>9. Good(R, F, list, task, queue, stack, calls + 1)
  BY <1>2, <1>8
<1>10. CASE queue' = queue /\ task' = task
  BY <1>1, <1>2, <1>9, <1>10, Closes
<1>11. CASE Accepted(m) /\ task' = Charge(task, m, 1) /\ queue' = Put(queue, f)
  <2>1. ~Halted(task, m)
    BY <1>11 DEF Accepted, Stopped, Halted
  <2>2. \A x \in Slots : Concerns(f, x) => x = m
    BY <1>2, <1>5 DEF Concerns, Owner
  <2>3. Loose(f) /\ f.type \in Posted \ {"end"}
    BY <1>5 DEF Loose, Posted
  <2>4. Good(R, F, list, task, Put(queue, f), stack, calls + 1)
    BY <1>2, <1>5, <1>9, <2>1, <2>2, <2>3, Posts
  <2>5. task' \in [Slots -> TaskRecords] /\ SameStatus(task, task')
    BY <1>2, <1>7, <1>11, Charged
  <2>6. Good(R, F, list, task', Put(queue, f), stack, calls + 1)
    BY <2>4, <2>5, Retasked
  <2> QED BY <1>1, <1>2, <1>11, <2>6, Closes
<1> QED BY <1>6, <1>10, <1>11

LEMMA AskKeeps ==
  ASSUME TaskInv, AppCall, NEW d \in {"sub", "unsub"}, NEW v \in Values,
         list' = list, stack' = stack,
         (queue' = queue /\ task' = task) \/ PostAs(task, Me, Evt(d, Tid(Me), v), FALSE)
  PROVE  TaskInv'
<1> DEFINE o == Tid(Me)
           e == Evt(d, o, v)
           f == From(e, o)
           m == Me
<1>2. /\ calls' = calls + 1
      /\ Good(Running, Spare, list, task, queue, stack, calls + 1)
      /\ \A i \in 1 .. Len(stack) :
           stack[i].do # "failed" /\ (stack[i].do = "init" => stack[i].at # calls + 1)
      /\ m \in Slots /\ task[m].loaded /\ o \in Tids /\ o.idx = m
  BY Called
<1>3. (queue' = queue /\ task' = task) \/ PostAs(task, m, e, FALSE)
  OBVIOUS
<1>4. e \in Events /\ e.type = d /\ e.id = 0 /\ e.evt = v /\ e.to = o
  BY <1>2, EvtIs DEF Posted
<1> HIDE DEF e
<1>5. f \in Events /\ f.type = d /\ f.id = 0 /\ f.evt = v /\ f.to = o
  BY <1>2, <1>4, FromIs
<1>6. \/ queue' = queue /\ task' = task
      \/ Accepted(m) /\ task' = Charge(task, m, 1) /\ queue' = Put(queue, f)
  BY <1>3, PostIs
<1> HIDE DEF f, m, o
<1>7. task \in [Slots -> TaskRecords]
  BY Opened
<1>8. PICK R, F : R = Running /\ F = Spare
  OBVIOUS
<1>9. Good(R, F, list, task, queue, stack, calls + 1)
  BY <1>2, <1>8
<1>10. CASE queue' = queue /\ task' = task
  BY <1>2, <1>9, <1>10, Closes
<1>11. CASE Accepted(m) /\ task' = Charge(task, m, 1) /\ queue' = Put(queue, f)
  <2>1. ~Halted(task, m)
    BY <1>11 DEF Accepted, Stopped, Halted
  <2>2. \A x \in Slots : Concerns(f, x) => x = m
    BY <1>2, <1>5 DEF Concerns
  <2>3. Loose(f) /\ f.type \in Posted \ {"end"}
    BY <1>5 DEF Loose, Posted
  <2>4. Good(R, F, list, task, Put(queue, f), stack, calls + 1)
    BY <1>2, <1>5, <1>9, <2>1, <2>2, <2>3, Posts
  <2>5. task' \in [Slots -> TaskRecords] /\ SameStatus(task, task')
    BY <1>2, <1>7, <1>11, Charged
  <2>6. Good(R, F, list, task', Put(queue, f), stack, calls + 1)
    BY <2>4, <2>5, Retasked
  <2> QED BY <1>2, <1>11, <2>6, Closes
<1> QED BY <1>6, <1>10, <1>11

LEMMA SubscribeKeeps ==
  ASSUME TaskInv, NEW v \in Values, Subscribe(v)
  PROVE  TaskInv'
<1>1. /\ AppCall /\ list' = list /\ stack' = stack
      /\ (queue' = queue /\ task' = task) \/ PostAs(task, Me, Evt("sub", Tid(Me), v), FALSE)
  BY DEF Subscribe, Ask
<1> QED BY <1>1, AskKeeps

LEMMA UnsubscribeKeeps ==
  ASSUME TaskInv, NEW v \in Values, Unsubscribe(v)
  PROVE  TaskInv'
<1>1. /\ AppCall /\ list' = list /\ stack' = stack
      /\ (queue' = queue /\ task' = task) \/ PostAs(task, Me, Evt("unsub", Tid(Me), v), FALSE)
  BY DEF Unsubscribe, Ask
<1> QED BY <1>1, AskKeeps

LEMMA Told ==
  ASSUME NEW st \in Seq(Frames), NEW f \in Frames, NEW g \in Frames
  PROVE  /\ <<f>> \o <<g>> \o st = Push(f, Push(g, st))
         /\ <<f>> \o <<>> \o st = Push(f, st)
         /\ <<>> \o <<>> \o st = st
<1>1. <<f>> \in Seq(Frames) /\ <<g>> \in Seq(Frames) /\ <<>> \in Seq(Frames)
  OBVIOUS
<1>2. (<<f>> \o <<g>>) \o st = <<f>> \o (<<g>> \o st)
  BY <1>1, ConcatAssociative
<1>3. <<f>> \o <<>> = <<f>> /\ <<>> \o <<>> = <<>> /\ <<>> \o st = st
  BY <1>1, ConcatEmptySeq
<1>4. <<f>> \o <<>> \o st = <<f>> \o st /\ <<>> \o <<>> \o st = st
  BY <1>3, Zenon
<1> QED BY <1>2, <1>4 DEF Push

\* What apps do of the misdeeds: they may fail and they may abort, but not while
\* they start, and they do not send after they were told to stop or to others.
Orderly == Faults \subseteq {"load", "init", "abort"}

LEMMA SendPrivateKeeps ==
  ASSUME TaskInv, Orderly, NEW to \in Slots \ {System}, SendPrivate(to)
  PROVE  TaskInv'
<1> DEFINE a == Evt("private", Tid(to), NULL)
           o == Tid(Me)
           c == calls + 1
           e == WithById(a, o, c)
           p == Tid(System)
           f == From(e, p)
           m == Me
           g == Enter("free", m)
           h == Frame("dropped", e, System)
<1>1. /\ AppCall /\ list' = list /\ ~Stopped(m) /\ to = m
      /\ IF SlabLeft THEN PostAs(Charge(task, m, 1), System, e, FALSE)
                     ELSE queue' = queue /\ task' = task
      /\ stack' = (IF Refused THEN <<g>> ELSE <<>>)
                  \o (IF SlabLeft /\ Refused THEN <<h>> ELSE <<>>) \o stack
  BY DEF SendPrivate, WithById, Orderly
<1>2. /\ calls' = c /\ c \in 1 .. MaxCalls
      /\ Good(Running, Spare, list, task, queue, stack, c)
      /\ \A i \in 1 .. Len(stack) :
           stack[i].do # "failed" /\ (stack[i].do = "init" => stack[i].at # c)
      /\ stack # <<>> /\ stack[1].do \in Nested
      /\ m \in Slots /\ task[m].loaded /\ o \in Tids /\ o.idx = m
  BY <1>1, Called
<1>3. task \in [Slots -> TaskRecords] /\ stack \in Seq(Frames) /\ ~Halted(task, m)
  BY <1>1, Opened DEF Stopped, Halted
<1>4. Tid(to) \in Tids /\ Tid(to).idx = m /\ p \in Tids
  BY <1>1, <1>3, TidIs, Nodish
<1>5. a \in Events /\ a.type = "private" /\ a.to = Tid(to)
  BY <1>4, EvtIs DEF Posted
<1> HIDE DEF a, o, p
<1>6. e \in Events /\ e.type = "private" /\ e.id = c /\ e.by.idx = m /\ e.to.idx = m
  <2>1. c \in 0 .. MaxCalls
    BY <1>2
  <2> HIDE DEF c
  <2> QED BY <1>2, <1>4, <1>5, <2>1, WithByIdIs
<1> HIDE DEF e
<1>7. f \in Events /\ f.type = "private" /\ f.id = c /\ f.by.idx = m /\ f.to.idx = m
  BY <1>4, <1>6, FromIs
<1> HIDE DEF f
<1>8. g \in Frames /\ g.do = "free" /\ g.cur = m /\ g.ev.type = "none" /\ g.ev.id = 0
      /\ g.do \in Nested \ {"init"}
  BY <1>2, EnterIs DEF Nested, AppFrames
<1>9. h \in Frames /\ h.do = "dropped" /\ h.ev = e /\ h.do \in Nested \ {"init"}
  <2>1. "dropped" \in Kernels \cup Nested /\ "dropped" \in Nested \ {"init"} /\ System \in Slots
    BY Nodish DEF Nested, AppFrames
  <2> QED BY <1>6, <2>1, FrameIs
<1> HIDE DEF g, h, m
<1>10. PICK R, F : R = Running /\ F = Spare
  OBVIOUS
<1>11. Good(R, F, list, task, queue, stack, c)
  BY <1>2, <1>10
<1>12. FrameOK(g, R, F, list, task, queue, c) /\ FrameOK(h, R, F, list, task, queue, c)
  BY <1>2, <1>6, <1>8, <1>9 DEF FrameOK, Loose, AppFrames, Launching
<1>13. Good(R, F, list, task, queue, Push(g, stack), c)
  BY <1>2, <1>8, <1>11, <1>12, RunsNested
<1>14. Charge(task, m, 1) \in [Slots -> TaskRecords] /\ SameStatus(task, Charge(task, m, 1))
  BY <1>2, <1>3, Charged
<1>15. CASE ~SlabLeft
  <2>1. stack' = <<g>> \o <<>> \o stack
    BY <1>1, <1>15 DEF Refused
  <2>2. stack' = Push(g, stack)
    BY <1>3, <1>8, <1>9, <2>1, Told
  <2> QED BY <1>1, <1>2, <1>13, <1>15, <2>2, Closes
<1>16. CASE SlabLeft /\ ~Accepted(System)
  <2>1. stack' = <<g>> \o <<h>> \o stack
    BY <1>1, <1>16 DEF Refused
  <2>2. stack' = Push(g, Push(h, stack))
    BY <1>3, <1>8, <1>9, <2>1, Told
  <2>3. Good(R, F, list, task, queue, Push(h, stack), c)
    BY <1>2, <1>9, <1>11, <1>12, RunsNested
  <2>4. PICK st \in Seq(Frames) : st = Push(h, stack) /\ st # <<>> /\ st[1].do = "dropped"
    <3>1. \E st \in Seq(Frames) : st = Push(h, stack) /\ Len(st) = Len(stack) + 1 /\ st[1] = h
      BY <1>3, <1>9, Pushed
    <3>2. PICK st \in Seq(Frames) : st = Push(h, stack) /\ Len(st) = Len(stack) + 1 /\ st[1] = h
      BY <3>1
    <3>3. st # <<>>
      BY <1>3, <3>2, Elements, EmptySeq
    <3> QED BY <1>9, <3>2, <3>3
  <2>5. Good(R, F, list, task, queue, Push(g, st), c)
    <3>1. st[1].do \in Nested
      BY <2>4 DEF Nested
    <3> QED BY <1>8, <1>12, <2>3, <2>4, <3>1, RunsNested
  <2>6. queue' = queue /\ task' = Charge(task, m, 1)
    BY <1>1, <1>16, PostIs
  <2>7. Good(R, F, list, task', queue, Push(g, st), c)
    BY <1>14, <2>5, <2>6, Retasked
  <2>8. stack' = Push(g, st)
    BY <2>2, <2>4
  <2> QED BY <1>1, <1>2, <2>6, <2>7, <2>8, Closes
<1>17. CASE SlabLeft /\ Accepted(System)
  <2>1. stack' = <<>> \o <<>> \o stack
    BY <1>1, <1>17 DEF Refused
  <2>2. stack' = stack
    BY <1>3, <1>8, <1>9, <2>1, Told
  <2>3. task' = Charge(Charge(task, m, 1), System, 1) /\ queue' = Put(queue, f)
    BY <1>1, <1>17, PostIs DEF f, p
  <2>4. \A x \in Slots : Concerns(f, x) => x = m
    BY <1>7 DEF Concerns, Owner
  <2>5. Loose(f) /\ f.type \in Posted \ {"end"}
    BY <1>7 DEF Loose, Posted
  <2>6. Good(R, F, list, task, Put(queue, f), stack, c)
    BY <1>2, <1>3, <1>7, <1>11, <2>4, <2>5, Posts
  <2>7. task' \in [Slots -> TaskRecords] /\ SameStatus(task, task')
    <3> DEFINE u == Charge(task, m, 1)
    <3>1. u \in [Slots -> TaskRecords] /\ SameStatus(task, u) /\ task' = Charge(u, System, 1)
      BY <1>14, <2>3
    <3> HIDE DEF u
    <3>2. task' \in [Slots -> TaskRecords] /\ SameStatus(u, task')
      BY <3>1, Nodish, Charged
    <3> QED BY <3>1, <3>2, StatusChain
  <2>8. Good(R, F, list, task', Put(queue, f), stack, c)
    BY <2>6, <2>7, Retasked
  <2> QED BY <1>1, <1>2, <2>2, <2>3, <2>8, Closes
<1> QED BY <1>15, <1>16, <1>17

\* s with these flags.
Flagged(t, s, g) == [t EXCEPT ![s].flags = g]

LEMMA FlaggedIs ==
  ASSUME NEW t \in [Slots -> TaskRecords], NEW s \in Slots,
         NEW g \in SUBSET {"STOPPED", "ABORTED"}
  PROVE  /\ Flagged(t, s, g) \in [Slots -> TaskRecords]
         /\ Flagged(t, s, g)[s].flags = g /\ Flagged(t, s, g)[s].loaded = t[s].loaded
         /\ \A x \in Slots : x # s => Flagged(t, s, g)[x] = t[x]
<1> DEFINE u == Flagged(t, s, g)
           k == t[s]
           k2 == [app |-> k.app, ctr |-> k.ctr, loaded |-> k.loaded, flags |-> g,
                  io |-> k.io, subs |-> k.subs, sz |-> k.sz, short |-> k.short]
<1>1. k \in TaskRecords
  OBVIOUS
<1>2. k2 \in TaskRecords
  <2> HIDE DEF k
  <2> QED BY <1>1, TaskFields, InTasks
<1>3. k = [app |-> k.app, ctr |-> k.ctr, loaded |-> k.loaded, flags |-> k.flags,
           io |-> k.io, subs |-> k.subs, sz |-> k.sz, short |-> k.short]
  <2> HIDE DEF k
  <2> QED BY <1>1, TaskFields
<1>4. [k EXCEPT !.flags = g] = k2
  <2> HIDE DEF k
  <2> QED BY <1>3
<1>5. u = [t EXCEPT ![s] = k2]
  <2>1. u = [t EXCEPT ![s] = [t[s] EXCEPT !.flags = g]]
    BY DEF Flagged
  <2> QED BY <1>4, <2>1
<1>6. k2.loaded = t[s].loaded /\ k2.flags = g
  OBVIOUS
<1> HIDE DEF k2, u
<1>7. /\ u \in [Slots -> TaskRecords] /\ u[s].flags = g /\ u[s].loaded = t[s].loaded
      /\ \A x \in Slots : x # s => u[x] = t[x]
  BY <1>2, <1>5, <1>6
<1> QED BY <1>7 DEF u

\* A task leaves the list and its end is posted, or lost.
LEMMA Left ==
  ASSUME TaskInv, NEW R, NEW F, NEW c, Good(R, F, list, task, queue, stack, c),
         \A i \in 1 .. Len(stack) : stack[i].do # "walk",
         NEW s \in R, s \in Slots,
         NEW g \in SUBSET {"STOPPED", "ABORTED"}, "STOPPED" \in g, Leave(s, g)
  PROVE  /\ Good(R \ {s}, F, list', task', queue', stack, c)
<1> DEFINE u == Flagged(task, s, g)
           e == Evt("end", Tid(s), APP_STOPPED)
           f == From(e, Tid(System))
           m == ListRemove(list, Tasks, s)
<1>1. list' = m /\ PostAs(u, System, e, FALSE)
  BY DEF Leave, Flagged
<1>2. task \in [Slots -> TaskRecords] /\ Tid(System) \in Tids /\ Tid(s) \in Tids /\ Tid(s).idx = s
  BY Opened, TidIs, Nodish
<1>3. /\ u \in [Slots -> TaskRecords] /\ u[s].flags = g /\ u[s].loaded = task[s].loaded
      /\ \A x \in Slots : x # s => u[x] = task[x]
  BY <1>2, FlaggedIs
<1>4. e \in Events /\ e.type = "end" /\ e.to.idx = s /\ e.id = 0
  BY <1>2, EvtIs DEF Posted, Values
<1> HIDE DEF e, u
<1>5. f \in Events /\ f.type = "end" /\ f.to.idx = s /\ f.id = 0
  BY <1>2, <1>4, FromIs
<1>6. \/ queue' = queue /\ task' = u
      \/ task' = Charge(u, System, 1) /\ queue' = Put(queue, f)
  BY <1>1, PostIs
<1> HIDE DEF f
<1>7. Halted(u, s) /\ \A x \in Slots : x # s => u[x].loaded = task[x].loaded /\ (Halted(u, x) <=> Halted(task, x))
  BY <1>3 DEF Halted
<1>8. Good(R \ {s}, F, m, u, queue, stack, c) /\ NoEndOf(queue, s) /\ NotEnding(stack, s)
  BY <1>3, <1>7, Halts
<1> HIDE DEF m
<1>9. CASE queue' = queue /\ task' = u
  BY <1>1, <1>8, <1>9
<1>10. CASE task' = Charge(u, System, 1) /\ queue' = Put(queue, f)
  <2>1. Good(R \ {s}, F, m, u, Put(queue, f), stack, c)
    BY <1>5, <1>7, <1>8, PostsEnd
  <2>2. task' \in [Slots -> TaskRecords] /\ SameStatus(u, task')
    BY <1>3, <1>10, Nodish, Charged
  <2>3. Good(R \ {s}, F, m, task', Put(queue, f), stack, c)
    BY <2>1, <2>2, Retasked
  <2> QED BY <1>1, <1>10, <2>3
<1> QED BY <1>6, <1>9, <1>10

LEMMA AbortKeeps ==
  ASSUME TaskInv, Orderly, Abort
  PROVE  TaskInv'
<1> DEFINE m == Me
           c == calls + 1
           g == {"STOPPED", "ABORTED"}
<1>1. AppCall /\ ~Stopped(m) /\ stack' = stack /\ Leave(m, g)
      /\ \A i \in DOMAIN stack : stack[i].do # "init"
  BY DEF Abort, Orderly
<1>2. /\ calls' = c /\ Good(Running, Spare, list, task, queue, stack, c)
      /\ m \in Slots /\ task[m].loaded
  BY <1>1, Called
<1>3. /\ stack # <<>> /\ stack[1].do \in Nested /\ m # System
      /\ \A i \in 1 .. Len(stack) : stack[i].do \notin Leaves
  BY <1>1, Mine DEF AppCall
<1>4. stack \in Seq(Frames) /\ Shape(stack) /\ StatusOK(Running, Spare, task, stack)
      /\ Len(stack) \in Nat /\ DOMAIN stack = 1 .. Len(stack)
  BY Opened, LenProperties
<1> HIDE DEF m, c
<1>5. ASSUME NEW i \in 1 .. Len(stack), stack[i].do \in Launching, stack[i].at = m
      PROVE  FALSE
  <2>1. stack[i].do = "starting"
    BY <1>3, <1>5 DEF Launching, Leaves
  <2>2. i - 1 \in 1 .. Len(stack) /\ stack[i - 1].do = "init"
    BY <1>4, <2>1 DEF Shape
  <2> QED BY <1>1, <1>4, <2>2
<1>6. m \in Running
  <2>1. m \notin Spare /\ ~Halted(task, m)
    BY <1>1, <1>2, <1>3, <1>4 DEF StatusOK, Stopped, Halted
  <2> QED BY <1>2, <1>3, <1>4, <1>5, <2>1 DEF StatusOK
<1>7. PICK R, F : R = Running /\ F = Spare
  OBVIOUS
<1>8. Good(R, F, list, task, queue, stack, c) /\ m \in R
  BY <1>2, <1>6, <1>7
<1>9. \A i \in 1 .. Len(stack) : stack[i].do # "walk"
  BY <1>3 DEF Leaves
<1>10. g \in SUBSET {"STOPPED", "ABORTED"} /\ "STOPPED" \in g
  OBVIOUS
<1> HIDE DEF g
<1>11. Good(R \ {m}, F, list', task', queue', stack, c)
  BY <1>1, <1>2, <1>8, <1>9, <1>10, Left
<1> QED BY <1>1, <1>2, <1>11, Closes

\* Nothing is on the stack but commands when a command is on top.
LEMMA Commanded ==
  ASSUME TaskInv, At("host")
  PROVE  /\ stack # <<>> /\ Top = stack[1] /\ Top.do = "host" /\ Top \in Frames /\ Top.ev \in Events
         /\ Loose(Top.ev) /\ Top.ev.id = 0 /\ Top.ev.type # "private"
         /\ Top.ev.type \in {"boot", "defer"} /\ \A x : ~Concerns(Top.ev, x)
         /\ \A i \in 1 .. Len(stack) : stack[i].do = "host"
<1>1. /\ stack # <<>> /\ Top = stack[1] /\ Top.do = "host" /\ Top \in Frames /\ Top.ev \in Events
      /\ Loose(Top.ev) /\ FrameOK(Top, Running, Spare, list, task, queue, calls)
  BY Going, Labelling
<1>2. Top.ev.type \in {"boot", "defer"}
  BY <1>1 DEF FrameOK
<1>3. Top.ev.id = 0 /\ Top.ev.type # "private"
  BY <1>1, <1>2 DEF Loose
<1>4. \A x : ~Concerns(Top.ev, x)
  BY <1>2, <1>3 DEF Concerns
<1>5. stack \in Seq(Frames) /\ Shape(stack) /\ Len(stack) > 0 /\ Len(stack) \in Nat /\ stack[1].do \in Kernels
  BY <1>1, Opened, TopIs, Labelling
<1>6. \A i \in 2 .. Len(stack) : stack[i].do = "host"
  BY <1>5, OnlyBootBelow
<1>7. \A i \in 1 .. Len(stack) : i = 1 \/ i \in 2 .. Len(stack)
  BY <1>5
<1> QED BY <1>1, <1>2, <1>3, <1>4, <1>6, <1>7

LEMMA OtherWorkKeeps ==
  ASSUME TaskInv, OtherWork
  PROVE  TaskInv'
<1>1. At("host") /\ Label("done") /\ list' = list /\ task' = task /\ queue' = queue /\ calls' = calls
  BY DEF OtherWork
<1>2. Loose(Top.ev) /\ \A x : ~Concerns(Top.ev, x)
  BY <1>1, Commanded
<1>3. \A f \in Frames : f.do = "done" /\ f.ev = Top.ev =>
        FrameOK(f, Running, Spare, list, task, queue, calls)
  BY <1>2, DoneIsFine
<1>4. task' \in [Slots -> TaskRecords] /\ SameStatus(task, task')
  BY <1>1, Same
<1> QED BY <1>1, <1>3, <1>4, Labelling, Labels

LEMMA InterruptKeeps ==
  ASSUME TaskInv, Interrupt
  PROVE  TaskInv'
<1> DEFINE e == Evt("defer", SystemTid, NULL)
           m == Current
           f == From(e, Tid(m))
<1>1. PostAs(task, m, e, TRUE) /\ list' = list /\ stack' = stack /\ calls' = calls
  BY DEF Interrupt
<1>2. m \in Slots
  BY TopIs, FrameFields, Nodish DEF Current
<1>3. task \in [Slots -> TaskRecords] /\ Tid(m) \in Tids
  BY <1>2, Opened, TidIs
<1>4. e \in Events /\ e.type = "defer" /\ e.id = 0
  BY SystemTidIs, EvtIs DEF Posted
<1> HIDE DEF e, m
<1>5. f \in Events /\ f.type = "defer" /\ f.id = 0
  BY <1>3, <1>4, FromIs
<1>6. \/ queue' = queue /\ task' = task
      \/ task' = Charge(task, m, 1) /\ queue' = Push(f, queue)
  BY <1>1, PostIs
<1> HIDE DEF f
<1>7. PICK R, F : R = Running /\ F = Spare
  OBVIOUS
<1>8. Good(R, F, list, task, queue, stack, calls)
  BY <1>7, Opened
<1>9. CASE queue' = queue /\ task' = task
  BY <1>1, <1>8, <1>9, Closes
<1>10. CASE task' = Charge(task, m, 1) /\ queue' = Push(f, queue)
  <2>1. f.type \in Posted \ {"end", "private", "sub", "unsub"}
    BY <1>5 DEF Posted
  <2>2. Good(R, F, list, task, Push(f, queue), stack, calls)
    BY <1>5, <1>8, <2>1, PostsUrgent
  <2>3. task' \in [Slots -> TaskRecords] /\ SameStatus(task, task')
    BY <1>2, <1>3, <1>10, Charged
  <2>4. Good(R, F, list, task', Push(f, queue), stack, calls)
    BY <2>2, <2>3, Retasked
  <2> QED BY <1>1, <1>10, <2>4, Closes
<1> QED BY <1>6, <1>9, <1>10

\* What the top says of a command that starts or has started an app.
LEMMA Launched ==
  ASSUME TaskInv, NEW d \in {"started", "failed"}, At(d)
  PROVE  /\ stack # <<>> /\ Top = stack[1] /\ Top.do = d /\ Top \in Frames /\ Top.ev \in Events
         /\ Top.cur \in Slots /\ Loose(Top.ev) /\ Top.ev.id = 0
         /\ Top.ev.type \in {"boot", "defer"}
         /\ Top.at \in Slots \ {System} /\ Top.at \notin Running \cup Spare /\ ~Halted(task, Top.at)
         /\ d = "failed" => NoneFor(queue, Top.at)
<1>1. stack # <<>> /\ Top.do = d /\ Top = stack[1]
  BY DEF At, Top
<1>2. Top \in Frames /\ FrameOK(Top, Running, Spare, list, task, queue, calls)
  BY <1>1, TopIs
<1>3. d \in Launching /\ Loose(Top.ev)
  BY <1>2 DEF FrameOK, Launching
<1>4. /\ Top.at \in Slots \ {System} /\ Top.at \notin Running \cup Spare /\ ~Halted(task, Top.at)
      /\ d = "failed" => NoneFor(queue, Top.at)
      /\ Top.ev.type \in {"boot", "defer"}
  BY <1>1, <1>2, <1>3 DEF FrameOK
<1> QED BY <1>1, <1>2, <1>3, <1>4, FrameFields DEF Loose

LEMMA FailedKeeps ==
  ASSUME TaskInv, Failed
  PROVE  TaskInv'
<1> DEFINE s == Top.at
           f == WithDoAt(Top, "done", NO_NODE)
<1>1. /\ At("failed") /\ queue' = queue /\ calls' = calls
      /\ list' = ListAddTail(list, FreeTasks, s) /\ task' = Freed(s) /\ stack' = <<f>> \o Tail(stack)
  BY DEF Failed, Replace, WithDoAt
<1>2. /\ stack # <<>> /\ Top = stack[1] /\ Top.do = "failed" /\ Top \in Frames /\ Top.ev \in Events
      /\ Loose(Top.ev) /\ Top.ev.id = 0 /\ Top.ev.type \in {"boot", "defer"}
      /\ s \in Slots \ {System} /\ s \notin Running \cup Spare /\ ~Halted(task, s)
      /\ NoneFor(queue, s)
  BY <1>1, Launched
<1>3. "done" \in Kernels \cup Nested /\ NO_NODE \in Int
  BY DEF Kernels, Leaves, NO_NODE
<1>4. f \in Frames /\ f.do = "done" /\ f.ev = Top.ev
  <2>1. Top \in Frames
    BY <1>2
  <2> QED BY <1>3, <2>1, WithDoAtIs
<1>5. NoEndOf(queue, s)
  BY <1>2, Opened DEF QueueOK, NoEndOf
<1>6. /\ task' \in [Slots -> TaskRecords] /\ ~task'[s].loaded /\ ~Halted(task', s)
      /\ \A x \in Slots : x # s => task'[x] = task[x]
  BY <1>1, <1>2, Opened, FreedIs
<1>7. \A x \in Slots : x # s => task'[x].loaded = task[x].loaded /\ (Halted(task', x) <=> Halted(task, x))
  BY <1>6 DEF Halted
<1> HIDE DEF f
<1>8. PICK R, F, u : R = Running /\ F = Spare /\ u = task'
  OBVIOUS
<1>9. Good(R, F, list, task, queue, stack, calls)
  BY <1>8, Opened
<1>10. Good(R, F \cup {s}, ListAddTail(list, FreeTasks, s), u, queue, <<f>> \o Tail(stack), calls)
  <2>1. /\ s \notin R \cup F /\ stack[1].do \in Kernels /\ stack[1].at = s
        /\ Loose(f.ev) /\ f.ev.id = 0 /\ f.ev.type \notin {"private", "sub", "unsub"}
    BY <1>2, <1>4, <1>8 DEF Kernels, Leaves
  <2>2. /\ u \in [Slots -> TaskRecords] /\ ~u[s].loaded /\ ~Halted(u, s)
        /\ \A x \in Slots : x # s => u[x].loaded = task[x].loaded /\ (Halted(u, x) <=> Halted(task, x))
    BY <1>6, <1>7, <1>8
  <2> HIDE DEF s
  <2> QED BY <1>2, <1>4, <1>5, <1>9, <2>1, <2>2, Frees
<1> QED BY <1>1, <1>8, <1>10, Closes

LEMMA StartedKeeps ==
  ASSUME TaskInv, Started
  PROVE  TaskInv'
<1> DEFINE s == Top.at
           f == WithDoAt(Top, "done", NO_NODE)
           m == Current
           e == Evt("begin", Tid(s), APP_STARTED)
           g == From(e, Tid(m))
           l == ListAddTail(list, Tasks, s)
           r == <<f>> \o Tail(stack)
<1>1. /\ At("started") /\ calls' = calls /\ list' = l /\ PostAs(task, m, e, FALSE) /\ stack' = r
  BY DEF Started, Replace, WithDoAt
<1>2. /\ stack # <<>> /\ Top = stack[1] /\ Top.do = "started" /\ Top \in Frames
      /\ s \in Slots /\ m \in Slots
  BY <1>1, Launched DEF Current
<1>3. "done" \in Kernels \cup Nested /\ NO_NODE \in Int
  BY DEF Kernels, Leaves, NO_NODE
<1>4. f \in Frames /\ f.do = "done" /\ f.ev = Top.ev
  BY <1>2, <1>3, WithDoAtIs
<1>5. task \in [Slots -> TaskRecords] /\ Tid(s) \in Tids /\ Tid(m) \in Tids
  BY <1>2, Opened, TidIs
<1>6. e \in Events /\ e.type = "begin" /\ e.id = 0
  BY <1>5, EvtIs DEF Posted, Values
<1> HIDE DEF e, m
<1>7. g \in Events /\ g.type = "begin" /\ g.id = 0
  BY <1>5, <1>6, FromIs
<1>8. \/ queue' = queue /\ task' = task
      \/ task' = Charge(task, m, 1) /\ queue' = Put(queue, g)
  BY <1>1, PostIs
<1> HIDE DEF g, f
<1>9. PICK R, F : R = Running /\ F = Spare
  OBVIOUS
<1>10. Good(R, F, list, task, queue, stack, calls)
  BY <1>9, Opened
<1>11. Good(R \cup {s}, F, l, task, queue, r, calls)
  BY <1>2, <1>4, <1>10, Adds
<1> HIDE DEF l, r, s
<1>12. CASE queue' = queue /\ task' = task
  BY <1>1, <1>11, <1>12, Closes
<1>13. CASE task' = Charge(task, m, 1) /\ queue' = Put(queue, g)
  <2>1. (\A x \in Slots : ~Concerns(g, x)) /\ Loose(g) /\ g.type \in Posted \ {"end"}
    BY <1>7 DEF Concerns, Loose, Posted
  <2>2. Good(R \cup {s}, F, l, task, Put(queue, g), r, calls)
    BY <1>7, <1>11, <2>1, Posts
  <2>3. task' \in [Slots -> TaskRecords] /\ SameStatus(task, task')
    BY <1>2, <1>5, <1>13, Charged
  <2>4. Good(R \cup {s}, F, l, task', Put(queue, g), r, calls)
    BY <2>2, <2>3, Retasked
  <2> QED BY <1>1, <1>13, <2>4, Closes
<1> QED BY <1>8, <1>12, <1>13

LEMMA StoppingKeeps ==
  ASSUME TaskInv, Stopping
  PROVE  TaskInv'
<1> DEFINE s == Top.at
           o == Top.ev.org.idx
           f == WithDoAtCur(Top, "done", NO_NODE, o)
           e == Evt("end", Tid(s), APP_STOPPED)
           g == From(e, Tid(System))
           r == <<f>> \o Tail(stack)
<1>1. /\ At("stopping") /\ calls' = calls /\ list' = list /\ PostAs(task, System, e, FALSE)
      /\ stack' = r
  BY DEF Stopping, Replace, WithDoAtCur
<1>2. /\ stack # <<>> /\ Top = stack[1] /\ Top.do = "stopping" /\ Top \in Frames /\ Top.ev \in Events
      /\ o \in Slots /\ Loose(Top.ev) /\ FrameOK(Top, Running, Spare, list, task, queue, calls)
  BY <1>1, Going, Labelling
<1>3. s \in Slots /\ Halted(task, s) /\ NoEndOf(queue, s) /\ Top.ev.type \in {"boot", "defer"}
  BY <1>2 DEF FrameOK
<1>4. f \in Frames /\ f.do = "done" /\ f.ev = Top.ev
  <2>1. "done" \in Kernels \cup Nested /\ NO_NODE \in Int
    BY DEF Kernels, Leaves, NO_NODE
  <2> HIDE DEF o
  <2> QED BY <1>2, <2>1, WithDoAtCurIs
<1>5. task \in [Slots -> TaskRecords] /\ Tid(s) \in Tids /\ Tid(s).idx = s /\ Tid(System) \in Tids
  BY <1>3, Opened, TidIs, Nodish
<1>6. e \in Events /\ e.type = "end" /\ e.id = 0 /\ e.to.idx = s
  BY <1>5, EvtIs DEF Posted, Values
<1> HIDE DEF e
<1>7. g \in Events /\ g.type = "end" /\ g.id = 0 /\ g.to.idx = s
  BY <1>5, <1>6, FromIs
<1>8. \/ queue' = queue /\ task' = task
      \/ task' = Charge(task, System, 1) /\ queue' = Put(queue, g)
  BY <1>1, PostIs
<1> HIDE DEF g, f, s
<1>9. PICK R, F : R = Running /\ F = Spare
  OBVIOUS
<1>10. Good(R, F, list, task, queue, stack, calls)
  BY <1>9, Opened
<1>11. Good(R, F, list, task, queue, r, calls)
  <2>1. FrameOK(f, R, F, list, task, queue, calls)
    BY <1>2, <1>3, <1>4 DEF FrameOK, AppFrames, Launching, Concerns, Loose
  <2>2. f.do \in Kernels \ {"starting"} /\ stack[1].do \in Kernels \ Launching
    BY <1>2, <1>4, Labelling
  <2> QED BY <1>2, <1>4, <1>10, <2>1, <2>2, GoesOn
<1>12. NotEnding(r, s)
  <2>1. stack \in Seq(Frames) /\ Shape(stack) /\ Len(stack) > 0 /\ stack[1].do \in Kernels
    BY <1>2, Opened, TopIs, Labelling
  <2>2. \A i \in 2 .. Len(stack) : stack[i].do = "host"
    BY <2>1, OnlyBootBelow
  <2>3. PICK st \in Seq(Frames) : /\ st = <<f>> \o Tail(stack) /\ Len(st) = Len(stack)
                                  /\ st[1] = f /\ \A i \in 2 .. Len(stack) : st[i] = stack[i]
    BY <1>2, <1>4, <2>1, Replaced
  <2>4. ASSUME NEW i \in 1 .. Len(st) PROVE st[i].do \in {"done", "host"}
    <3>1. Len(stack) \in Nat
      BY <2>1, Elements
    <3>2. i = 1 \/ i \in 2 .. Len(stack)
      BY <2>3, <3>1
    <3> QED BY <1>4, <2>2, <2>3, <3>2
  <2>5. NotEnding(st, s)
    BY <2>4 DEF NotEnding
  <2> QED BY <2>3, <2>5
<1> HIDE DEF r
<1>13. CASE queue' = queue /\ task' = task
  BY <1>1, <1>11, <1>13, Closes
<1>14. CASE task' = Charge(task, System, 1) /\ queue' = Put(queue, g)
  <2>1. Good(R, F, list, task, Put(queue, g), r, calls)
    BY <1>3, <1>7, <1>11, <1>12, PostsEnd
  <2>2. task' \in [Slots -> TaskRecords] /\ SameStatus(task, task')
    BY <1>5, <1>14, Nodish, Charged
  <2>3. Good(R, F, list, task', Put(queue, g), r, calls)
    BY <2>1, <2>2, Retasked
  <2> QED BY <1>1, <1>14, <2>3, Closes
<1> QED BY <1>8, <1>13, <1>14

LEMMA StopAppKeeps ==
  ASSUME TaskInv, NEW s \in Slots, StopApp(s)
  PROVE  TaskInv'
<1>1. At("host") /\ s \in Running /\ ~Stopped(s) /\ calls' = calls
  BY DEF StopApp, Running
<1>2. /\ stack # <<>> /\ Top = stack[1] /\ Top.do = "host" /\ Top \in Frames /\ Top.ev \in Events
      /\ Loose(Top.ev) /\ Top.ev.id = 0 /\ Top.ev.type # "private"
      /\ Top.ev.type \in {"boot", "defer"} /\ \A x : ~Concerns(Top.ev, x)
      /\ \A i \in 1 .. Len(stack) : stack[i].do = "host"
  BY <1>1, Commanded
<1>3. PICK R, F : R = Running /\ F = Spare
  OBVIOUS
<1>4. Good(R, F, list, task, queue, stack, calls) /\ s \in R
  BY <1>1, <1>3, Opened
<1>5. stack[1].do \in Kernels \ Launching /\ \A i \in 1 .. Len(stack) : stack[i].do # "walk"
  BY <1>2, Labelling
<1>6. task \in [Slots -> TaskRecords] /\ task[s].loaded
  BY <1>1, Opened, RunningIsLoaded
<1> DEFINE g == {"STOPPED"}
<1>7. g \in SUBSET {"STOPPED", "ABORTED"} /\ "STOPPED" \in g
  OBVIOUS
<1>8. CASE Leave(s, g) /\ Label("done")
  <2> DEFINE f == WithDo(Top, "done")
  <2>1. f \in Frames /\ f.do = "done" /\ f.ev = Top.ev
    BY <1>2, Labelling, WithDoIs
  <2>2. stack' = <<f>> \o Tail(stack)
    BY <1>8 DEF Label, Replace, WithDo
  <2> HIDE DEF f, g
  <2>3. PICK l, t, q : l = list' /\ t = task' /\ q = queue'
    OBVIOUS
  <2>4. Good(R \ {s}, F, list', task', queue', stack, calls)
    BY <1>4, <1>5, <1>7, <1>8, Left
  <2>5. Good(R \ {s}, F, l, t, q, stack, calls)
    BY <2>3, <2>4
  <2>6. FrameOK(f, R \ {s}, F, l, t, q, calls)
    BY <1>2, <2>1, DoneIsFine
  <2>7. f.do \in Kernels \ {"starting"}
    BY <2>1, Labelling
  <2>8. Good(R \ {s}, F, l, t, q, <<f>> \o Tail(stack), calls)
    BY <1>2, <1>5, <2>1, <2>5, <2>6, <2>7, GoesOn
  <2> QED BY <1>1, <2>2, <2>3, <2>8, Closes
<1>9. ASSUME list' = ListRemove(list, Tasks, s), task' = Flagged(task, s, g),
             CallThen(WithDoAtCur(Top, "stopping", s, System), "stop", s), queue' = queue
      PROVE  TaskInv'
  <2> DEFINE f == WithDoAtCur(Top, "stopping", s, System)
             h == Enter("stop", s)
  <2>1. f \in Frames /\ f.do = "stopping" /\ f.ev = Top.ev /\ f.at = s
    <3>1. "stopping" \in Kernels \cup Nested /\ s \in Int /\ System \in Slots
      BY Labelling, Nodish
    <3> QED BY <1>2, <3>1, WithDoAtCurIs
  <2>2. h \in Frames /\ h.do = "stop" /\ h.cur = s /\ h.ev.type = "none" /\ h.ev.id = 0
        /\ h.do \in Nested \ {"init"}
    BY EnterIs DEF Nested, AppFrames
  <2>3. stack' = <<h, f>> \o Tail(stack)
    BY <1>9 DEF CallThen
  <2> HIDE DEF f, h, g
  <2>4. PICK u : u = task'
    OBVIOUS
  <2>5. /\ u \in [Slots -> TaskRecords] /\ u[s].flags = g /\ u[s].loaded = task[s].loaded
        /\ \A x \in Slots : x # s => u[x] = task[x]
    <3>1. u = Flagged(task, s, g)
      BY <1>9, <2>4
    <3>2. g \in SUBSET {"STOPPED", "ABORTED"} /\ s \in Slots /\ task \in [Slots -> TaskRecords]
      BY <1>6, <1>7
    <3>3. /\ Flagged(task, s, g) \in [Slots -> TaskRecords]
          /\ Flagged(task, s, g)[s].flags = g /\ Flagged(task, s, g)[s].loaded = task[s].loaded
          /\ \A x \in Slots : x # s => Flagged(task, s, g)[x] = task[x]
      BY <3>2, FlaggedIs
    <3> QED BY <3>1, <3>3
  <2>6. Halted(u, s) /\ \A x \in Slots : x # s => u[x].loaded = task[x].loaded /\ (Halted(u, x) <=> Halted(task, x))
    BY <1>7, <2>5 DEF Halted
  <2>7. /\ Good(R \ {s}, F, ListRemove(list, Tasks, s), u, queue, stack, calls) /\ NoEndOf(queue, s)
    BY <1>4, <1>5, <2>5, <2>6, Halts
  <2> DEFINE l == ListRemove(list, Tasks, s)
  <2>8. Good(R \ {s}, F, l, u, queue, stack, calls)
    BY <2>7
  <2>9. list' = l
    BY <1>9
  <2> HIDE DEF l
  <2>10. FrameOK(f, R \ {s}, F, l, u, queue, calls) /\ FrameOK(h, R \ {s}, F, l, u, queue, calls)
    BY <1>2, <1>6, <2>1, <2>2, <2>5, <2>6, <2>7 DEF FrameOK, AppFrames, Launching, Loose
  <2>11. Good(R \ {s}, F, l, u, queue, <<h, f>> \o Tail(stack), calls)
    BY <1>2, <1>5, <2>1, <2>2, <2>8, <2>10, RunsApp
  <2> QED BY <1>1, <1>9, <2>3, <2>4, <2>9, <2>11, Closes
<1> QED BY <1>8, <1>9 DEF StopApp, WithDoAtCur, Flagged

New(a, n) == [Cleared EXCEPT !.app = a, !.ctr = n]
Begun(k) == [k EXCEPT !.loaded = TRUE, !.ctr = (@ + 1) % Counter]
Bumped(k) == [k EXCEPT !.ctr = (@ + 1) % Counter]

LEMMA WithApp ==
  ASSUME NEW k \in TaskRecords, NEW a \in Apps \cup {NULL}
  PROVE  /\ [k EXCEPT !.app = a] \in TaskRecords
         /\ [k EXCEPT !.app = a].loaded = k.loaded /\ [k EXCEPT !.app = a].flags = k.flags
BY DEF TaskRecords

LEMMA WithCtr ==
  ASSUME NEW k \in TaskRecords, NEW n \in 0 .. Counter - 1
  PROVE  /\ [k EXCEPT !.ctr = n] \in TaskRecords /\ [k EXCEPT !.ctr = n].ctr = n
         /\ [k EXCEPT !.ctr = n].loaded = k.loaded /\ [k EXCEPT !.ctr = n].flags = k.flags
BY DEF TaskRecords

LEMMA WithLoaded ==
  ASSUME NEW k \in TaskRecords, NEW b \in BOOLEAN
  PROVE  /\ [k EXCEPT !.loaded = b] \in TaskRecords /\ [k EXCEPT !.loaded = b].ctr = k.ctr
         /\ [k EXCEPT !.loaded = b].loaded = b /\ [k EXCEPT !.loaded = b].flags = k.flags
BY DEF TaskRecords

LEMMA ClearedIs ==
  /\ Cleared \in TaskRecords /\ ~Cleared.loaded /\ Cleared.flags = {}
  /\ \A a \in Apps \cup {NULL}, n \in 0 .. Counter - 1 :
       /\ New(a, n) \in TaskRecords /\ ~New(a, n).loaded /\ New(a, n).flags = {}
       /\ Begun(New(a, n)) \in TaskRecords /\ Begun(New(a, n)).loaded /\ Begun(New(a, n)).flags = {}
<1>1. PICK no \in BOOLEAN, yes \in BOOLEAN : no = FALSE /\ yes = TRUE
  OBVIOUS
<1>2. /\ 0 \in 0 .. Counter - 1 /\ 0 \in 0 .. IoWidth - 1 /\ Embedded \in Nat
      /\ \A n \in 0 .. Counter - 1 : (n + 1) % Counter \in 0 .. Counter - 1
  <2>1. Counter \in Nat \ {0} /\ IoWidth \in Nat \ {0} /\ Embedded \in Nat
    BY SeosAssumption
  <2>2. ASSUME NEW n \in 0 .. Counter - 1 PROVE (n + 1) % Counter \in 0 .. Counter - 1
    <3>1. n + 1 \in Int
      BY <2>1
    <3> QED BY <2>1, <3>1
  <2> QED BY <2>1, <2>2
<1>3. Cleared = [app |-> NULL, ctr |-> 0, loaded |-> no, flags |-> {}, io |-> 0,
                 subs |-> {}, sz |-> Embedded, short |-> no]
  BY <1>1 DEF Cleared
<1>4. Cleared \in TaskRecords
  <2>1. /\ NULL \in Apps \cup {NULL} /\ {} \in SUBSET {"STOPPED", "ABORTED"} /\ {} \in SUBSET Values
    OBVIOUS
  <2>2. [app |-> NULL, ctr |-> 0, loaded |-> no, flags |-> {}, io |-> 0,
         subs |-> {}, sz |-> Embedded, short |-> no] \in TaskRecords
    BY <1>2, <2>1, InTasks
  <2> QED BY <1>3, <2>2
<1>5. ~Cleared.loaded /\ Cleared.flags = {}
  BY <1>1, <1>3
<1>6. ASSUME NEW a \in Apps \cup {NULL}, NEW n \in 0 .. Counter - 1
      PROVE  /\ New(a, n) \in TaskRecords /\ ~New(a, n).loaded /\ New(a, n).flags = {}
             /\ New(a, n).ctr = n
  <2>1. PICK k : k = [Cleared EXCEPT !.app = a]
    OBVIOUS
  <2>2. k \in TaskRecords /\ ~k.loaded /\ k.flags = {}
    BY <1>4, <1>5, <2>1, WithApp
  <2>3. New(a, n) = [k EXCEPT !.ctr = n]
    BY <2>1 DEF New
  <2> QED BY <2>2, <2>3, WithCtr
<1>7. ASSUME NEW k \in TaskRecords, k.flags = {}
      PROVE  Begun(k) \in TaskRecords /\ Begun(k).loaded /\ Begun(k).flags = {}
  <2>1. PICK u : u = [k EXCEPT !.loaded = yes]
    OBVIOUS
  <2>2. u \in TaskRecords /\ u.loaded = yes /\ u.flags = {}
    BY <1>7, <2>1, WithLoaded
  <2>3. Begun(k) = Bumped(u)
    <3>1. Begun(k) = Bumped([k EXCEPT !.loaded = yes])
      BY <1>1 DEF Begun, Bumped
    <3> QED BY <2>1, <3>1, Zenon
  <2>4. Bumped(u) \in TaskRecords /\ Bumped(u).loaded = u.loaded /\ Bumped(u).flags = u.flags
    <3>1. u.ctr \in 0 .. Counter - 1
      BY <2>2, TaskFields
    <3>2. (u.ctr + 1) % Counter \in 0 .. Counter - 1
      BY <1>2, <3>1
    <3>3. ASSUME NEW j \in TaskRecords, (j.ctr + 1) % Counter \in 0 .. Counter - 1
          PROVE  /\ Bumped(j) \in TaskRecords
                 /\ Bumped(j).loaded = j.loaded /\ Bumped(j).flags = j.flags
      <4>1. Bumped(j) = [j EXCEPT !.ctr = (j.ctr + 1) % Counter]
        BY Zenon DEF Bumped
      <4> QED BY <3>3, <4>1, WithCtr
    <3> QED BY <2>2, <3>2, <3>3
  <2> QED BY <1>1, <2>2, <2>3, <2>4
<1> QED BY <1>4, <1>5, <1>6, <1>7

LEMMA StartAppKeeps ==
  ASSUME TaskInv, NEW a \in Apps, StartApp(a)
  PROVE  TaskInv'
<1> DEFINE s == list[FreeTasks].next
           v == [prev |-> 0, next |-> 0]
           taken == [ListRemove(list, FreeTasks, s) EXCEPT ![s] = v]
           n == task[s].ctr
           new == New(a, n)
           f == WithDo(Top, "done")
           g == WithAt(Enter("init", s), calls)
           h == WithDoAt(Top, "starting", s)
<1>1. At("host") /\ s # NO_NODE /\ queue' = queue /\ calls' = calls
  BY DEF StartApp
<1>2. \/ /\ list' = ListAddTail(taken, FreeTasks, s) /\ task' = [task EXCEPT ![s] = new]
         /\ stack' = <<f>> \o Tail(stack)
      \/ /\ list' = taken /\ task' = [task EXCEPT ![s] = Begun(new)]
         /\ stack' = <<g, h>> \o Tail(stack)
  BY DEF StartApp, New, Begun, WithDo, WithAt, WithDoAt, Label, Replace
<1>3. /\ stack # <<>> /\ Top = stack[1] /\ Top.do = "host" /\ Top \in Frames /\ Top.ev \in Events
      /\ Loose(Top.ev) /\ Top.ev.id = 0 /\ Top.ev.type # "private"
      /\ Top.ev.type \in {"boot", "defer"} /\ \A x : ~Concerns(Top.ev, x)
      /\ \A i \in 1 .. Len(stack) : stack[i].do = "host"
  BY <1>1, Commanded
<1>4. PICK R, F, l : R = Running /\ F = Spare /\ l = list
  OBVIOUS
<1>5. Good(R, F, l, task, queue, stack, calls) /\ TwoLists(R, F, l)
  BY <1>4, Opened
<1>6. s \in F /\ s \in Slots \ {System} /\ R \cap F = {}
  <2>1. l[FreeTasks].next \in F \cup {NO_NODE} /\ F \subseteq Slots \ {System} /\ R \cap F = {}
    BY <1>5, Following
  <2> QED BY <1>1, <1>4, <2>1
<1>7. task \in [Slots -> TaskRecords] /\ calls \in 0 .. MaxCalls
      /\ StatusOK(R, F, task, stack)
  BY <1>4, Opened
<1>8. ~task[s].loaded /\ ~Halted(task, s)
  BY <1>6, <1>7 DEF StatusOK
<1>9. n \in 0 .. Counter - 1
  BY <1>6, <1>7, TaskFields
<1> HIDE DEF s, n
<1>10. /\ new \in TaskRecords /\ ~new.loaded /\ new.flags = {}
       /\ Begun(new) \in TaskRecords /\ Begun(new).loaded /\ Begun(new).flags = {}
  BY <1>9, ClearedIs
<1> HIDE DEF new
<1>11. TwoLists(R, F \ {s}, taken)
  <2>1. TwoLists(R, F \ {s}, ListRemove(l, FreeTasks, s))
    BY <1>5, <1>6, TakenFree
  <2>2. v \in Links
    BY Nodish DEF Links, System
  <2>3. s \in Slots /\ s \notin R \cup (F \ {s})
    BY <1>6
  <2> HIDE DEF v
  <2>4. TwoLists(R, F \ {s}, [ListRemove(l, FreeTasks, s) EXCEPT ![s] = v])
    BY <2>1, <2>2, <2>3, Scribble
  <2> QED BY <1>4, <2>4
<1> HIDE DEF taken
<1>12. CASE /\ list' = ListAddTail(taken, FreeTasks, s) /\ task' = [task EXCEPT ![s] = new]
            /\ stack' = <<f>> \o Tail(stack)
  <2>1. TwoLists(R, F, ListAddTail(taken, FreeTasks, s))
    <3>1. s \in Slots \ {System} /\ s \notin R \cup (F \ {s})
      BY <1>6
    <3>2. TwoLists(R, (F \ {s}) \cup {s}, ListAddTail(taken, FreeTasks, s))
      BY <1>11, <3>1, PutBack
    <3>3. (F \ {s}) \cup {s} = F
      BY <1>6
    <3> QED BY <3>2, <3>3
  <2>2. \A i \in 1 .. Len(stack) : stack[i].do # "visited"
    BY <1>3
  <2> DEFINE m == ListAddTail(taken, FreeTasks, s)
  <2>3. Good(R, F, m, task, queue, stack, calls)
    BY <1>5, <2>1, <2>2, Relisted
  <2>4. list' = m
    BY <1>12
  <2> HIDE DEF m
  <2>5. f \in Frames /\ f.do = "done" /\ f.ev = Top.ev
    BY <1>3, Labelling, WithDoIs
  <2>6. f.do \in Kernels \ {"starting"} /\ stack[1].do \in Kernels \ Launching
    BY <1>3, <2>5, Labelling
  <2>7. FrameOK(f, R, F, m, task, queue, calls)
    BY <1>3, <2>5, DoneIsFine
  <2> HIDE DEF f
  <2>8. Good(R, F, m, task, queue, <<f>> \o Tail(stack), calls)
    BY <1>3, <2>3, <2>5, <2>6, <2>7, GoesOn
  <2>9. task' \in [Slots -> TaskRecords] /\ SameStatus(task, task')
    <3>1. PICK t, u : t = task /\ u = task' /\ u = [t EXCEPT ![s] = new]
      BY <1>12
    <3>2. t \in [Slots -> TaskRecords] /\ ~t[s].loaded /\ "STOPPED" \notin t[s].flags
      BY <1>7, <1>8, <3>1 DEF Halted
    <3>3. /\ u \in [Slots -> TaskRecords] /\ u[s] = new
          /\ \A x \in Slots : x # s => u[x] = t[x]
      BY <1>6, <1>10, <3>1, <3>2
    <3>4. t[s].loaded \in BOOLEAN /\ u[s].loaded \in BOOLEAN
      BY <1>6, <3>2, <3>3, TaskFields
    <3>5. PICK b, c \in BOOLEAN : b = t[s].loaded /\ c = u[s].loaded
      BY <3>4
    <3>6. ~b /\ ~c
      BY <1>10, <3>2, <3>3, <3>5
    <3>7. u[s].loaded = t[s].loaded
      BY <3>5, <3>6
    <3>8. "STOPPED" \notin u[s].flags
      BY <1>10, <3>3
    <3>9. SameStatus(t, u)
      <4> SUFFICES ASSUME NEW x \in Slots
                   PROVE  u[x].loaded = t[x].loaded /\ (Halted(u, x) <=> Halted(t, x))
        BY DEF SameStatus
      <4>1. CASE x = s
        BY <3>2, <3>7, <3>8, <4>1 DEF Halted
      <4>2. CASE x # s
        BY <3>3, <4>2 DEF Halted
      <4> QED BY <4>1, <4>2
    <3> QED BY <3>1, <3>3, <3>9
  <2>10. Good(R, F, m, task', queue, <<f>> \o Tail(stack), calls)
    BY <2>8, <2>9, Retasked
  <2> QED BY <1>1, <1>12, <2>4, <2>10, Closes
<1>13. CASE /\ list' = taken /\ task' = [task EXCEPT ![s] = Begun(new)]
            /\ stack' = <<g, h>> \o Tail(stack)
  <2>1. PICK u : u = task' /\ u = [task EXCEPT ![s] = Begun(new)]
    BY <1>13
  <2>2. /\ u \in [Slots -> TaskRecords] /\ u[s] = Begun(new)
        /\ \A x \in Slots : x # s => u[x] = task[x]
    BY <1>6, <1>7, <1>10, <2>1
  <2>3. /\ u[s].loaded /\ ~Halted(u, s)
        /\ \A x \in Slots : x # s => u[x].loaded = task[x].loaded /\ (Halted(u, x) <=> Halted(task, x))
    BY <1>10, <2>2 DEF Halted
  <2>4. h \in Frames /\ h.do = "starting" /\ h.ev = Top.ev /\ h.at = s
    <3>1. "starting" \in Kernels \cup Nested /\ s \in Int /\ Top \in Frames
      BY <1>3, <1>6, Nodish DEF Kernels
    <3> QED BY <3>1, WithDoAtIs
  <2>5. g \in Frames /\ g.do = "init" /\ g.ev.id = 0 /\ g.ev.type # "sub" /\ g.cur = s /\ g.at = calls
    <3> DEFINE e == Enter("init", s)
    <3>1. e \in Frames /\ e.do = "init" /\ e.cur = s /\ e.ev.type = "none" /\ e.ev.id = 0
      BY <1>6, EnterIs DEF Nested, AppFrames
    <3>2. calls \in Int
      BY <1>7, SeosAssumption
    <3>3. g = WithAt(e, calls)
      OBVIOUS
    <3> HIDE DEF e, g
    <3> QED BY <3>1, <3>2, <3>3, WithAtIs
  <2> HIDE DEF g, h
  <2>6. Good(R, F \ {s}, taken, u, queue, <<g, h>> \o Tail(stack), calls)
    <3>1. Good(R, F, list, task, queue, stack, calls)
      BY <1>4, <1>5
    <3>2. stack[1].do = "host" /\ h.ev = stack[1].ev
      BY <1>3, <2>4
    <3> QED BY <1>3, <1>6, <1>11, <2>2, <2>3, <2>4, <2>5, <3>1, <3>2, Begins
  <2> QED BY <1>1, <1>13, <2>1, <2>6, Closes
<1> QED BY <1>2, <1>12, <1>13

LEMMA TaskInvAtFirst ==
  ASSUME Init
  PROVE  TaskInv
<1> DEFINE F == Slots \ {System}
           f == Command("boot")
<1>1. TwoLists({}, F, list)
  BY ListsAtFirst
<1>2. /\ task = [s \in Slots |-> Cleared] /\ queue = <<>> /\ calls = 0
      /\ stack = [i \in 1 .. Cardinality(Apps) |-> f]
  BY DEF Init
<1>3. f \in Frames /\ f.do = "host" /\ f.ev.type = "boot" /\ f.ev.id = 0
  <2> DEFINE e == Evt("boot", SystemTid, NULL)
  <2>1. e \in Events /\ e.type = "boot" /\ e.id = 0
    BY SystemTidIs, EvtIs
  <2>2. f = Frame("host", e, System)
    BY DEF Command
  <2>3. "host" \in Kernels \cup Nested /\ System \in Slots
    BY Nodish DEF Kernels
  <2> HIDE DEF e, f
  <2> QED BY <2>1, <2>2, <2>3, FrameIs
<1> HIDE DEF f
<1>4. Cardinality(Apps) \in Nat
  BY SeosAssumption, FS_CardinalityType
<1>5. stack \in Seq(Frames) /\ Len(stack) = Cardinality(Apps)
      /\ \A i \in 1 .. Len(stack) : stack[i] = f
  <2>1. stack \in [1 .. Cardinality(Apps) -> Frames]
    BY <1>2, <1>3
  <2>2. stack \in Seq(Frames) /\ Len(stack) = Cardinality(Apps)
    BY <1>4, <2>1, SeqDef, LenProperties
  <2> QED BY <1>2, <2>2
<1>6. Len(queue) = 0 /\ queue \in Seq(Events) /\ \A i : i \notin 1 .. Len(queue)
  BY <1>2
<1>7. task \in [Slots -> TaskRecords] /\ \A s \in Slots : ~task[s].loaded /\ ~Halted(task, s)
  BY <1>2, ClearedIs DEF Halted
<1>8. Kinds(task, queue, stack, calls)
  <2>1. calls \in 0 .. MaxCalls
    BY <1>2, SeosAssumption
  <2> QED BY <1>5, <1>6, <1>7, <2>1 DEF Kinds
<1>9. StatusOK({}, F, task, stack)
  BY <1>7, Nodish DEF StatusOK
<1>10. QueueOK(queue, task)
  BY <1>6 DEF QueueOK
<1>11. Shape(stack)
  <2>1. "host" \notin Nested \cup {"init", "starting"}
    BY DEF Nested, AppFrames
  <2> QED BY <1>3, <1>5, <2>1 DEF Shape
<1>12. \A i \in 1 .. Len(stack) : FrameOK(stack[i], {}, F, list, task, queue, calls)
  BY <1>3, <1>5, BootIsFine
<1>13. Good({}, F, list, task, queue, stack, calls)
  BY <1>1, <1>8, <1>9, <1>10, <1>11, <1>12 DEF Good
<1> QED BY <1>13, Closed DEF IsGood

-----------------------------------------------------------------------------
(* Every step keeps the invariant.                                          *)

LEMMA KernelKeeps ==
  ASSUME TaskInv, Kernel
  PROVE  TaskInv'
BY DequeueKeeps, SubscribeApplied, UnsubscribeApplied, DispatchKeeps, EndTaskKeeps,
   VisitKeeps, VisitedKeeps, FreeKeeps, FinishKeeps, DroppedKeeps DEF Kernel

LEMMA AppKeeps ==
  ASSUME TaskInv, Orderly, App
  PROVE  TaskInv'
<1>1. CASE \E v \in Evts : Publish(v)
  BY <1>1, PublishKeeps
<1>2. CASE \E v \in Evts \cup {APP_STARTED, APP_STOPPED} : Subscribe(v) \/ Unsubscribe(v)
  BY <1>2, SubscribeKeeps, UnsubscribeKeeps DEF Values
<1>3. CASE \E s \in Slots \ {System} : SendPrivate(s)
  BY <1>3, SendPrivateKeeps
<1>4. CASE Abort \/ AppReturn
  BY <1>4, AbortKeeps, AppReturnKeeps
<1> QED BY <1>1, <1>2, <1>3, <1>4 DEF App

LEMMA HostKeeps ==
  ASSUME TaskInv, Host
  PROVE  TaskInv'
<1>1. CASE \E a \in Apps : StartApp(a)
  BY <1>1, StartAppKeeps
<1>2. CASE \E s \in Slots : StopApp(s)
  BY <1>2, StopAppKeeps
<1>3. CASE Started \/ Failed \/ Stopping \/ OtherWork
  BY <1>3, StartedKeeps, FailedKeeps, StoppingKeeps, OtherWorkKeeps
<1> QED BY <1>1, <1>2, <1>3 DEF Host

LEMMA TaskInvKept ==
  ASSUME TaskInv, Orderly, [Next]_vars
  PROVE  TaskInv'
<1>1. CASE UNCHANGED vars
  <2>1. /\ list' = list /\ task' = task /\ queue' = queue /\ stack' = stack /\ calls' = calls
    BY <1>1 DEF vars
  <2>2. PICK R, F : R = Running /\ F = Spare
    OBVIOUS
  <2>3. Good(R, F, list, task, queue, stack, calls)
    BY <2>2, Opened
  <2> QED BY <2>1, <2>3, Closes
<1>2. CASE Next
  BY <1>2, KernelKeeps, AppKeeps, HostKeeps, InterruptKeeps DEF Next, MainLoop
<1> QED BY <1>1, <1>2

LEMMA TaskInvAlways ==
  ASSUME Orderly
  PROVE  Spec => []TaskInv
<1>1. Init => TaskInv
  BY TaskInvAtFirst
<1>2. TaskInv /\ [Next]_vars => TaskInv'
  BY TaskInvKept
<1> QED BY <1>1, <1>2, PTL DEF Spec

LEMMA LinkedLists == TaskInv => ListsOK
<1> SUFFICES ASSUME TaskInv PROVE ListsOK
  OBVIOUS
<1>1. PICK R, F : R = Running /\ F = Spare
  OBVIOUS
<1>2. TwoLists(R, F, list)
  BY <1>1, Opened
<1> QED BY <1>2, ListsAreOK

\* mTasks and mFreeTasks stay well linked in both directions and apart, through
\* aborts in the middle of a broadcast, failed starts and the ends of apps.  Left
\* out is an abort in an app's init, after which the lists do break, and what
\* apps can make run late: messages to others, or sent when told to stop.
THEOREM ListsWellLinked ==
  ASSUME Faults \subseteq {"load", "init", "abort"}
  PROVE  Spec => []ListsOK
<1>1. TaskInv => ListsOK
  BY LinkedLists
<1>2. Spec => []TaskInv
  BY TaskInvAlways DEF Orderly
<1> QED BY <1>1, <1>2, PTL

\* When every app sends messages to itself only, none after it was told to stop,
\* and none aborts in its init, then no code of an app runs after osUnloadApp:
\* neither a free callback of an event it left behind, nor a handler of a message,
\* nor the rest of a broadcast.  The code demands none of the three of an app:
\* osEnqueuePrivateEvtEx (seos.c:1398) posts such messages in the name of the
\* system, they are delivered behind EVT_APP_END, and the unloaded code runs.
THEOREM UnloadedCodeRests ==
  ASSUME "late" \notin Faults,
         "to others" \notin Faults,
         "abort in init" \notin Faults
  PROVE  Spec => []OnlyLoadedRun
<1>. Faults \subseteq {"load", "init", "abort"}
  BY SeosAssumption DEF Misdeeds
<1>1. TaskInv => OnlyLoadedRun
  BY Mine DEF OnlyLoadedRun
<1>2. Spec => []TaskInv
  BY TaskInvAlways DEF Orderly
<1> QED BY <1>1, <1>2, PTL

\* What is unloaded was not loaded, or ran no longer.
Unloading == \A s \in Slots : task[s].loaded /\ ~task'[s].loaded => s \notin Running

LEMMA StatusHolds == TaskInv => StatusOK(Running, Spare, task, stack)
BY Opened

LEMMA UnloadingIs ==
  ASSUME TaskInv, TaskInv', [Next]_vars
  PROVE  Unloading
<1> SUFFICES ASSUME NEW s \in Slots, task[s].loaded, ~task'[s].loaded, s \in Running
             PROVE  FALSE
  BY DEF Unloading
<1>1. task \in [Slots -> TaskRecords] /\ s \notin Spare /\ s # System /\ ~Halted(task, s)
  BY Opened DEF StatusOK
<1>2. s \in Spare'
  <2>1. (TaskInv => StatusOK(Running, Spare, task, stack))'
    BY StatusHolds, PTL
  <2>2. \A x \in Slots : task'[x].loaded <=> x # System /\ x \notin Spare'
    BY <2>1 DEF StatusOK
  <2> QED BY <1>1, <2>2
<1>3. list' # list
  BY <1>1, <1>2 DEF Spare, Reached
<1>4. \A u \in [Slots -> TaskRecords], x \in Slots :
        \A y \in Slots : Charge(u, x, 1)[y].loaded = u[y].loaded
  BY Charged DEF SameStatus
<1>5. ASSUME NEW x \in Slots, NEW g \in SUBSET {"STOPPED", "ABORTED"}
      PROVE  ~Leave(x, g)
  <2> SUFFICES ASSUME Leave(x, g) PROVE FALSE
    OBVIOUS
  <2> DEFINE u == Flagged(task, x, g)
  <2>1. /\ u \in [Slots -> TaskRecords] /\ u[x].loaded = task[x].loaded
        /\ \A y \in Slots : y # x => u[y] = task[y]
    BY <1>1, FlaggedIs
  <2> HIDE DEF u
  <2>4. u[s].loaded = task[s].loaded
    BY <2>1
  <2>2. PostAs(u, System, Evt("end", Tid(x), APP_STOPPED), FALSE)
    BY DEF Leave, Flagged, u
  <2>3. task' = u \/ task' = Charge(u, System, 1)
    BY <2>2, PostIs
  <2> QED BY <1>4, <2>1, <2>3, <2>4, Nodish
<1>6. ~Kernel
  <2>1. ~EndTask
    <3> SUFFICES ASSUME EndTask PROVE FALSE
      OBVIOUS
    <3>1. At("ended") /\ "ended" \in Kernels \ Launching
      BY Labelling DEF EndTask
    <3>2. /\ Top.do = "ended" /\ Top.ev.to.idx \in Slots
          /\ FrameOK(Top, Running, Spare, list, task, queue, calls)
      BY <3>1, Going
    <3>4. Top.ev.type = "end" /\ Halted(task, Top.ev.to.idx)
      BY <3>2 DEF FrameOK
    <3>3. \A x \in Slots : x # Top.ev.to.idx => task'[x] = task[x]
      BY <1>1, <3>2, FreedIs DEF EndTask
    <3> QED BY <1>1, <3>3, <3>4
  <2>2. ~(Kernel /\ ~EndTask)
    BY <1>3 DEF Kernel, Dequeue, ApplySubscribe, ApplyUnsubscribe, Dispatch, Visit, Visited, Free,
                Finish, Dropped
  <2> QED BY <2>1, <2>2
<1>7. ~App
  <2>1. ~Abort
    <3> SUFFICES ASSUME Abort PROVE FALSE
      OBVIOUS
    <3>1. Me \in Slots /\ Leave(Me, {"STOPPED", "ABORTED"})
      BY Mine DEF Abort, AppCall
    <3> QED BY <1>5, <3>1
  <2>2. ~(App /\ ~Abort)
    BY <1>3 DEF App, Publish, Subscribe, Unsubscribe, SendPrivate, AppReturn
  <2> QED BY <2>1, <2>2
<1>8. ~Host
  <2>1. ASSUME NEW a \in Apps, StartApp(a) PROVE FALSE
    <3> DEFINE x == list[FreeTasks].next
    <3>1. x # NO_NODE /\ \E k : task' = [task EXCEPT ![x] = k]
      BY <2>1 DEF StartApp
    <3>2. x \in Spare
      <4>1. PICK R, F, l : R = Running /\ F = Spare /\ l = list
        OBVIOUS
      <4>2. TwoLists(R, F, l)
        BY <4>1, Opened
      <4>3. l[FreeTasks].next \in F \cup {NO_NODE}
        BY <4>2, Following
      <4> QED BY <3>1, <4>1, <4>3
    <3> HIDE DEF x
    <3>3. task'[s] = task[s]
      BY <1>1, <3>1, <3>2
    <3> QED BY <3>3
  <2>2. ASSUME NEW x \in Slots, StopApp(x) PROVE FALSE
    <3>1. CASE Leave(x, {"STOPPED"})
      BY <1>5, <3>1
    <3>2. CASE task' = Flagged(task, x, {"STOPPED"})
      <4>1. task'[s].loaded = task[s].loaded
        BY <1>1, <3>2, FlaggedIs
      <4> QED BY <4>1
    <3> QED BY <2>2, <3>1, <3>2 DEF StopApp, Flagged
  <2>3. ASSUME Started PROVE FALSE
    <3>1. PostAs(task, Current, Evt("begin", Tid(Top.at), APP_STARTED), FALSE)
      BY <2>3 DEF Started
    <3>2. task' = task \/ task' = Charge(task, Current, 1)
      BY <3>1, PostIs
    <3>3. Current \in Slots
      BY TopIs, FrameFields, Nodish DEF Current
    <3> QED BY <1>1, <1>4, <3>2, <3>3
  <2>4. ASSUME Failed PROVE FALSE
    <3>1. Top.at \in Slots /\ Top.at \notin Running /\ task' = Freed(Top.at)
      BY <2>4, Launched DEF Failed
    <3>2. \A x \in Slots : x # Top.at => task'[x] = task[x]
      BY <1>1, <3>1, FreedIs
    <3> QED BY <3>1, <3>2
  <2>5. ~Stopping /\ ~OtherWork
    BY <1>3 DEF Stopping, OtherWork
  <2> QED BY <2>1, <2>2, <2>3, <2>4, <2>5 DEF Host
<1>9. ~Interrupt /\ ~UNCHANGED vars
  BY <1>3 DEF Interrupt, vars
<1> QED BY <1>6, <1>7, <1>8, <1>9 DEF Next, MainLoop

\* osUnloadApp "is called on task that has stopped running, or had never run"
\* (seos.c:747), unless an app aborts in its init.
THEOREM OnlyStoppedUnload ==
  ASSUME Faults \subseteq {"load", "init", "abort"}
  PROVE  Spec => UnloadsStopped
<1>1. TaskInv /\ TaskInv' /\ [Next]_vars =>
        [\A s \in Slots : task[s].loaded /\ ~task'[s].loaded => s \notin Reached(Tasks)]_vars
  BY UnloadingIs DEF Unloading, Running
<1>2. Spec => []TaskInv
  BY TaskInvAlways DEF Orderly
<1> QED BY <1>1, <1>2, PTL DEF Spec, UnloadsStopped
=============================================================================
