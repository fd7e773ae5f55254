------------------------- MODULE NetworkGraphProofs -------------------------
(***************************************************************************)
(* The trigger of NetworkGraph keeps the plant a forest, for any items,    *)
(* companies and depth bound.  The argument needs no induction: the rows   *)
(* of a walk that ends in sight are closed under parent_id, and a loop     *)
(* that the new edge closes would meet them in a loop that was there.      *)
(* What the bounded walks find is proved by induction over their depth:    *)
(* resolve_path reaches a root, and would_create_cycle and the trigger     *)
(* agree.                                                                  *)
(***************************************************************************)
EXTENDS NetworkGraph, WellFoundedInduction, SequenceTheorems, TLAPS

Inv == WithinThePlant /\ Forest

(* The empty plant has no loop: a loop needs a parent. *)
LEMMA InitInv == Init => Inv
<1> SUFFICES ASSUME Init PROVE Inv
  OBVIOUS
<1>1. WithinThePlant
  BY DEF Init, WithinThePlant
<1>2. Forest
  BY NetworkGraphAssumption DEF Init, Forest, Loop
<1> QED
  BY <1>1, <1>2 DEF Inv

(* An item that loses its parent belongs to no loop, and the others of a   *)
(* loop keep theirs: clearing parent_id closes none.                       *)
LEMMA ClearingKeepsForest ==
  ASSUME WithinThePlant, Forest, NEW i \in Items,
         parent' = [parent EXCEPT ![i] = NoItem]
  PROVE  Forest'
<1> SUFFICES ASSUME NEW S \in SUBSET Items, Loop(S)'
             PROVE  FALSE
  BY DEF Forest
<1>1. parent'[i] = NoItem /\ \A j \in Items \ {i} : parent'[j] = parent[j]
  BY DEF WithinThePlant
<1>2. i \notin S
  BY <1>1, NetworkGraphAssumption DEF Loop
<1>3. Loop(S)
  BY <1>1, <1>2 DEF Loop
<1> QED
  BY <1>3 DEF Forest

(* The items on a walk above i's new parent that ends in sight: i's        *)
(* company, closed under parent_id.                                        *)
LEMMA WalkIsClosed ==
  ASSUME WithinThePlant, NEW i \in Items, NEW p \in Items, Company[p] = Company[i],
         NEW w \in GuardWalks(i, p), EndsInSight(w),
         NEW n \in 0 .. (MaxPathDepth - 1), w[n] # NoItem
  PROVE  /\ w[n] \in Items
         /\ parent[w[n]] # NoItem =>
              n + 1 \in 0 .. (MaxPathDepth - 1) /\ w[n + 1] = parent[w[n]]
<1>1. /\ MaxPathDepth \in Nat /\ MaxPathDepth > 0
      /\ w \in [0 .. (MaxPathDepth - 1) -> Items \cup {NoItem}]
      /\ w[0] = p
      /\ \A m \in 0 .. (MaxPathDepth - 2) : w[m + 1] = Above(w[m], Company[i])
  BY NetworkGraphAssumption DEF GuardWalks, Walks
<1>2. w[n] \in Items
  BY <1>1
<1>3. n # MaxPathDepth - 1
  BY DEF EndsInSight
<1>4. n \in 0 .. (MaxPathDepth - 2) /\ n + 1 \in 0 .. (MaxPathDepth - 1)
  BY <1>1, <1>3
<1>5. Company[w[n]] = Company[i]
  <2>1. CASE n = 0
    BY <1>1, <2>1
  <2>2. CASE n # 0
    <3>1. n - 1 \in 0 .. (MaxPathDepth - 2) /\ (n - 1) + 1 = n
      BY <1>1, <1>4, <2>2
    <3>2. w[n] = Above(w[n - 1], Company[i])
      BY <1>1, <3>1
    <3> QED
      BY <3>2 DEF Above
  <2> QED
    BY <2>1, <2>2
<1>6. w[n + 1] = Above(w[n], Company[i])
  BY <1>1, <1>4
<1>7. parent[w[n]] # NoItem => Company[parent[w[n]]] = Company[i]
  BY <1>2, <1>5 DEF WithinThePlant
<1> QED
  BY <1>2, <1>4, <1>6, <1>7 DEF Above

(* The trigger admits no parent that would close a loop. *)
LEMMA GuardKeepsForest ==
  ASSUME WithinThePlant, Forest, NEW i \in Items, NEW p \in Items,
         GraphGuard(i, p), parent' = [parent EXCEPT ![i] = p]
  PROVE  Forest'
<1> SUFFICES ASSUME NEW S \in SUBSET Items, Loop(S)'
             PROVE  FALSE
  BY DEF Forest
<1>1. parent'[i] = p /\ \A j \in Items \ {i} : parent'[j] = parent[j]
  BY DEF WithinThePlant
<1>2. Company[p] = Company[i] /\ \E w \in GuardWalks(i, p) : ~Meets(w, i) /\ EndsInSight(w)
  BY NetworkGraphAssumption DEF GraphGuard
<1>3. PICK w \in GuardWalks(i, p) : ~Meets(w, i) /\ EndsInSight(w)
  BY <1>2
<1>4. /\ MaxPathDepth \in Nat /\ MaxPathDepth > 0
      /\ DOMAIN w = 0 .. (MaxPathDepth - 1)
      /\ w[0] = p
  BY <1>2, NetworkGraphAssumption DEF GuardWalks, Walks
<1> DEFINE A == {x \in Items : \E n \in 0 .. (MaxPathDepth - 1) : w[n] = x}
<1>5. i \notin A
  BY <1>3, <1>4 DEF Meets
<1>6. ASSUME NEW x \in A, parent[x] \in Items
      PROVE  parent[x] \in A
  <2>1. PICK n \in 0 .. (MaxPathDepth - 1) : w[n] = x
    OBVIOUS
  <2>2. w[n] # NoItem /\ parent[w[n]] # NoItem
    BY <1>6, <2>1, NetworkGraphAssumption
  <2>3. n + 1 \in 0 .. (MaxPathDepth - 1) /\ w[n + 1] = parent[x]
    BY <1>2, <1>3, <2>1, <2>2, WalkIsClosed
  <2> QED
    BY <1>6, <2>3
<1>7. CASE i \notin S
  BY <1>1, <1>7 DEF Loop, Forest
<1>8. CASE i \in S
  <2>1. p \in S /\ p \in A
    BY <1>1, <1>4, <1>8 DEF Loop
  <2>2. ASSUME NEW x \in S \cap A
        PROVE  parent[x] \in S \cap A
    <3>1. x # i /\ parent[x] \in S
      BY <1>1, <1>5 DEF Loop
    <3> QED
      BY <1>6, <3>1
  <2>3. Loop(S \cap A) /\ S \cap A \in SUBSET Items
    BY <2>1, <2>2 DEF Loop
  <2> QED
    BY <2>3 DEF Forest
<1> QED
  BY <1>7, <1>8

(* One step per writer; a parent keeps its company and stays attached      *)
(* because the detach guard looks for children.                            *)
LEMMA NextInv == Inv /\ [Next]_vars => Inv'
<1> SUFFICES ASSUME Inv, [Next]_vars PROVE Inv'
  OBVIOUS
<1> USE DEF Inv
<1>1. ASSUME NEW i \in Items, Detach(i)
      PROVE  Inv'
  <2>1. Forest'
    BY <1>1, ClearingKeepsForest DEF Detach
  <2>2. WithinThePlant'
    BY <1>1 DEF Detach, DetachGuard, WithinThePlant
  <2> QED
    BY <2>1, <2>2
<1>2. ASSUME NEW i \in Items, NEW p \in Items \cup {NoItem}, SetParent(i, p)
      PROVE  Inv'
  <2>1. WithinThePlant'
    BY <1>2, NetworkGraphAssumption DEF SetParent, GraphGuard, WithinThePlant
  <2>2. Forest'
    <3>1. CASE p = NoItem
      BY <1>2, <3>1, ClearingKeepsForest DEF SetParent
    <3>2. CASE p \in Items
      BY <1>2, <3>2, GuardKeepsForest DEF SetParent
    <3> QED
      BY <3>1, <3>2
  <2> QED
    BY <2>1, <2>2
<1>3. CASE UNCHANGED vars
  BY <1>3 DEF vars, WithinThePlant, Forest, Loop
<1> QED
  BY <1>1, <1>2, <1>3 DEF Next

(***************************************************************************)
(* Statement by statement, the triggers keep the plant a forest: no item   *)
(* is its own ancestor at any depth, also beyond the trigger's own walk.   *)
(***************************************************************************)
THEOREM ForestHolds == Spec => []Forest
<1>1. Inv => Forest
  BY DEF Inv
<1> QED
  BY InitInv, NextInv, <1>1, PTL DEF Spec

(***************************************************************************)
(* Of writers that do not overlap, none leaves an item of the plant below  *)
(* one that left it or that belongs to another company.                    *)
(***************************************************************************)
THEOREM WithinThePlantHolds == Spec => []WithinThePlant
<1>1. Inv => WithinThePlant
  BY DEF Inv
<1> QED
  BY InitInv, NextInv, <1>1, PTL DEF Spec
-----------------------------------------------------------------------------
(* Walks, by induction over the depth: the least depth at which a claim    *)
(* fails cannot be, since the depth before it does not fail.               *)

LEMMA Least ==
  ASSUME NEW T, T \subseteq Nat, T # {}
  PROVE  \E n \in T : \A m \in T : n <= m
<1>1. PICK n \in T : \A m \in T : ~ (<<m, n>> \in OpToRel(<, Nat))
  BY WFMin, NatLessThanWellFounded, Zenon
<1>2. \A m \in T : <<m, n>> \in OpToRel(<, Nat) <=> m < n
  BY DEF OpToRel
<1>3. \A m \in T : ~(m < n)
  BY <1>1, <1>2, Zenon
<1> QED
  BY <1>3

(* There is a walk to every depth. *)
LEMMA WalkExists ==
  ASSUME WithinThePlant, NEW start \in Items \cup {NoItem}, NEW company, NEW last \in Nat
  PROVE  \E w : w \in Walks(start, company, last)
<1> DEFINE T == {n \in Nat : ~ \E w : w \in Walks(start, company, n)}
<1>1. SUFFICES ASSUME T # {} PROVE FALSE
  OBVIOUS
<1>2. PICK n \in T : \A m \in T : n <= m
  <2>1. T \subseteq Nat
    OBVIOUS
  <2> QED
    BY <1>1, <2>1, Least, Zenon
<1>3. CASE n = 0
  <2>1. [m \in 0 .. 0 |-> start] \in Walks(start, company, 0)
    BY DEF Walks
  <2> QED
    BY <1>3, <2>1
<1>4. CASE n # 0
  <2>1. n \in Nat /\ n - 1 \in Nat /\ n - 1 \notin T
    BY <1>2, <1>4
  <2>2. PICK w : w \in Walks(start, company, n - 1)
    BY <2>1
  <2>3. /\ w \in [0 .. (n - 1) -> Items \cup {NoItem}] /\ w[0] = start
        /\ \A m \in 0 .. (n - 2) : w[m + 1] = Above(w[m], company)
    BY <2>1, <2>2 DEF Walks
  <2> DEFINE v == [m \in 0 .. n |-> IF m = n THEN Above(w[n - 1], company) ELSE w[m]]
  <2>4. Above(w[n - 1], company) \in Items \cup {NoItem}
    BY <2>1, <2>3 DEF Above, WithinThePlant
  <2>5. v \in [0 .. n -> Items \cup {NoItem}] /\ v[0] = start
    BY <1>4, <2>1, <2>3, <2>4
  <2>6. ASSUME NEW m \in 0 .. (n - 1)
        PROVE  v[m + 1] = Above(v[m], company)
    <3>1. v[m] = w[m] /\ m + 1 \in 0 .. n
      BY <2>1
    <3>2. CASE m = n - 1
      BY <2>1, <3>1, <3>2
    <3>3. CASE m # n - 1
      <4>1. m \in 0 .. (n - 2) /\ v[m + 1] = w[m + 1]
        BY <2>1, <3>1, <3>3
      <4> QED
        BY <2>3, <3>1, <4>1
    <3> QED
      BY <3>2, <3>3
  <2> HIDE DEF v
  <2>7. v \in Walks(start, company, n)
    BY <2>5, <2>6 DEF Walks
  <2> QED
    BY <2>7
<1> QED
  BY <1>3, <1>4

(* Walks from one row go the same way as far as both go. *)
LEMMA WalksAgree ==
  ASSUME NEW start, NEW company, NEW a \in Nat, NEW b \in Nat, a <= b,
         NEW v \in Walks(start, company, a), NEW w \in Walks(start, company, b)
  PROVE  \A n \in 0 .. a : v[n] = w[n]
<1> DEFINE T == {n \in 0 .. a : v[n] # w[n]}
<1>1. SUFFICES ASSUME T # {} PROVE FALSE
  OBVIOUS
<1>2. PICK n \in T : \A m \in T : n <= m
  <2>1. T \subseteq Nat
    OBVIOUS
  <2> QED
    BY <1>1, <2>1, Least, Zenon
<1>3. n # 0
  BY <1>2 DEF Walks
<1>4. n - 1 \in 0 .. (a - 1) /\ n - 1 \in 0 .. (b - 1) /\ n - 1 \notin T /\ (n - 1) + 1 = n
  BY <1>2, <1>3
<1>5. v[n - 1] = w[n - 1]
  BY <1>4
<1>6. v[(n - 1) + 1] = Above(v[n - 1], company) /\ w[(n - 1) + 1] = Above(w[n - 1], company)
  BY <1>4 DEF Walks
<1> QED
  BY <1>2, <1>4, <1>5, <1>6

(* A walk that has ended goes nowhere. *)
LEMMA WalkEnds ==
  ASSUME NEW start, NEW company, NEW last \in Nat, NEW w \in Walks(start, company, last),
         NEW k \in 0 .. last, w[k] = NoItem
  PROVE  \A n \in k .. last : w[n] = NoItem
<1> DEFINE T == {n \in k .. last : w[n] # NoItem}
<1>1. SUFFICES ASSUME T # {} PROVE FALSE
  OBVIOUS
<1>2. PICK n \in T : \A m \in T : n <= m
  <2>1. T \subseteq Nat
    OBVIOUS
  <2> QED
    BY <1>1, <2>1, Least, Zenon
<1>3. n - 1 \in k .. (last - 1) /\ n - 1 \in 0 .. (last - 1) /\ n - 1 \notin T /\ (n - 1) + 1 = n
  BY <1>2
<1>4. w[n - 1] = NoItem
  BY <1>3
<1>5. w[(n - 1) + 1] = Above(w[n - 1], company)
  BY <1>3 DEF Walks
<1> QED
  BY <1>2, <1>3, <1>4, <1>5 DEF Above

(* The rows of a walk stay in the company it started in. *)
LEMMA WalkStays ==
  ASSUME NEW start, NEW company, NEW last \in Nat, NEW w \in Walks(start, company, last),
         start # NoItem => Company[start] = company,
         NEW n \in 0 .. last, w[n] # NoItem
  PROVE  w[n] \in Items /\ Company[w[n]] = company
<1>1. w[n] \in Items
  BY DEF Walks
<1>2. CASE n = 0
  BY <1>1, <1>2 DEF Walks
<1>3. CASE n # 0
  <2>1. n - 1 \in 0 .. (last - 1) /\ (n - 1) + 1 = n
    BY <1>3
  <2>2. w[(n - 1) + 1] = Above(w[n - 1], company)
    BY <2>1 DEF Walks
  <2> QED
    BY <1>1, <2>1, <2>2 DEF Above
<1> QED
  BY <1>2, <1>3

(***************************************************************************)
(* resolve_path returns a whole path.  A walk that is not too deep has a   *)
(* first NULL; the row before it is the last of the path, and it has no    *)
(* parent, as a parent would be of its company.                            *)
(***************************************************************************)
THEOREM PathReachesRootHolds == Spec => []PathReachesRoot
<1>1. Inv => PathReachesRoot
  <2>1. SUFFICES ASSUME Inv, NEW i \in Items, attached[i], ~TooDeep(i)
                 PROVE  parent[ResolvePath(i)[Len(ResolvePath(i))]] = NoItem
    BY DEF PathReachesRoot
  <2> DEFINE last == MaxPathDepth
             w == CHOOSE walk \in AncestorWalks(i, Company[i]) : TRUE
             path == ResolvePath(i)
  <2>2. last \in Nat /\ NoItem \notin Items
    BY NetworkGraphAssumption
  <2>3. AncestorWalks(i, Company[i]) = Walks(i, Company[i], last)
    BY <2>1 DEF AncestorWalks
  <2>4. \E walk : walk \in Walks(i, Company[i], last)
    BY <2>1, <2>2, WalkExists DEF Inv
  <2>5. w \in Walks(i, Company[i], last)
    BY <2>3, <2>4, Zenon
  <2>6. w[last] = NoItem
    BY <2>1, <2>3, <2>5 DEF TooDeep
  <2>7. path = [n \in {m + 1 : m \in Rows(w)} |-> w[n - 1]]
    BY DEF ResolvePath
  <2> HIDE DEF w, path, last
  <2>8. w \in [0 .. last -> Items \cup {NoItem}] /\ w[0] = i
    BY <2>5 DEF Walks
  <2> DEFINE T == {n \in 0 .. last : w[n] = NoItem}
  <2>9. PICK k \in T : \A n \in T : k <= n
    <3>1. last \in T /\ T \subseteq Nat
      BY <2>2, <2>6
    <3> QED
      BY <3>1, Least
  <2>10. k \in Nat \ {0} /\ k \in 0 .. last /\ k - 1 \in 0 .. (last - 1)
    BY <2>2, <2>8, <2>9
  <2>11. Rows(w) = 0 .. (k - 1)
    <3>1. \A n \in k .. last : w[n] = NoItem
      BY <2>2, <2>5, <2>9, <2>10, WalkEnds
    <3>2. \A n \in 0 .. (k - 1) : n \in 0 .. last /\ w[n] # NoItem
      BY <2>2, <2>9, <2>10
    <3>3. DOMAIN w = 0 .. last
      BY <2>8
    <3>4. \A n \in 0 .. last : w[n] # NoItem => n \in 0 .. (k - 1)
      BY <2>2, <2>10, <3>1
    <3> QED
      BY <3>2, <3>3, <3>4 DEF Rows
  <2>12. {m + 1 : m \in Rows(w)} = 1 .. k
    <3>1. \A n \in 1 .. k : n - 1 \in 0 .. (k - 1) /\ n = (n - 1) + 1
      BY <2>10
    <3>2. \A m \in 0 .. (k - 1) : m + 1 \in 1 .. k
      BY <2>10
    <3> QED
      BY <2>11, <3>1, <3>2, Zenon
  <2>13. path = [n \in 1 .. k |-> w[n - 1]]
    BY <2>7, <2>12, Zenon
  <2>14. \A n \in 1 .. k : n - 1 \in 0 .. last
    BY <2>2, <2>10
  <2>15. path \in Seq(Items \cup {NoItem})
    BY <2>8, <2>10, <2>13, <2>14, IsASeq
  <2>16. Len(path) = k
    <3>1. Len(path) \in Nat /\ 1 .. Len(path) = 1 .. k
      BY <2>13, <2>15, LenProperties
    <3> QED
      BY <2>10, <3>1
  <2>17. path[Len(path)] = w[k - 1]
    BY <2>10, <2>13, <2>16
  <2>18. w[k - 1] \in Items /\ Company[w[k - 1]] = Company[i]
    <3>1. w[k - 1] # NoItem /\ k - 1 \in 0 .. last
      BY <2>2, <2>9, <2>10
    <3> QED
      BY <2>2, <2>5, <3>1, WalkStays
  <2>19. Above(w[k - 1], Company[i]) = NoItem
    <3>1. w[(k - 1) + 1] = Above(w[k - 1], Company[i]) /\ (k - 1) + 1 = k
      BY <2>5, <2>10 DEF Walks
    <3> QED
      BY <2>9, <3>1
  <2>20. parent[w[k - 1]] = NoItem
    BY <2>1, <2>2, <2>18, <2>19 DEF Above, Inv, WithinThePlant
  <2> QED
    BY <2>17, <2>20 DEF path
<1> QED
  BY InitInv, NextInv, <1>1, PTL DEF Spec

(***************************************************************************)
(* would_create_cycle and the trigger agree.  Their walks are of different *)
(* lengths and go the same way; where the longer one has one row more, the *)
(* trigger has refused for the depth.                                      *)
(***************************************************************************)
THEOREM PreCheckAgreesHolds == Spec => []PreCheckAgrees
<1>1. Inv => PreCheckAgrees
  <2>1. SUFFICES ASSUME Inv, NEW i \in Items, NEW p \in Items, attached[p]
                 PROVE  /\ WouldCreateCycle(i, p) => ~GraphGuard(i, p)
                        /\ Company[p] = Company[i] /\ CycleFound(i, p) => WouldCreateCycle(i, p)
    BY DEF PreCheckAgrees
  <2> DEFINE last == MaxPathDepth
  <2>2. last \in Nat /\ last # 0 /\ last - 1 \in Nat /\ NoItem \notin Items
    BY NetworkGraphAssumption
  <2>3. Company[p] = Company[i] =>
          /\ AncestorWalks(p, Company[i]) = Walks(p, Company[i], last)
          /\ GuardWalks(i, p) = Walks(p, Company[i], last - 1)
    BY <2>1 DEF AncestorWalks, GuardWalks
  <2> HIDE DEF last
  <2>4. ASSUME Company[p] = Company[i], NEW v \in GuardWalks(i, p),
               NEW w \in AncestorWalks(p, Company[i])
        PROVE  \A n \in 0 .. (last - 1) : v[n] = w[n]
    BY <2>2, <2>3, <2>4, WalksAgree
  <2>5. ASSUME WouldCreateCycle(i, p), GraphGuard(i, p)
        PROVE  FALSE
    <3>1. p # i /\ Company[p] = Company[i]
          /\ \E v \in GuardWalks(i, p) : ~Meets(v, i) /\ EndsInSight(v)
      BY <2>2, <2>5 DEF GraphGuard
    <3>2. PICK v \in GuardWalks(i, p) : ~Meets(v, i) /\ EndsInSight(v)
      BY <3>1
    <3>3. PICK w \in AncestorWalks(p, Company[i]) : Meets(w, i)
      BY <2>5, <3>1 DEF WouldCreateCycle
    <3>4. /\ v \in [0 .. (last - 1) -> Items \cup {NoItem}]
          /\ w \in [0 .. last -> Items \cup {NoItem}]
          /\ w[(last - 1) + 1] = Above(w[last - 1], Company[i])
      BY <2>2, <2>3, <3>1, <3>2, <3>3 DEF Walks
    <3>5. PICK n \in 0 .. last : w[n] = i
      BY <3>3, <3>4 DEF Meets
    <3>6. \A m \in 0 .. (last - 1) : v[m] = w[m] /\ v[m] # i
      BY <2>4, <3>1, <3>2, <3>4 DEF Meets
    <3>7. w[last - 1] = NoItem
      BY <2>2, <3>2, <3>6 DEF EndsInSight, last
    <3>8. w[last] = NoItem
      BY <2>2, <3>4, <3>7 DEF Above
    <3> QED
      BY <2>2, <3>5, <3>6, <3>8
  <2>6. ASSUME Company[p] = Company[i], CycleFound(i, p)
        PROVE  WouldCreateCycle(i, p)
    <3>1. PICK v \in GuardWalks(i, p) : Meets(v, i)
      BY <2>6 DEF CycleFound
    <3>2. PICK w : w \in AncestorWalks(p, Company[i])
      BY <2>1, <2>2, <2>3, <2>6, WalkExists DEF Inv
    <3>3. /\ v \in [0 .. (last - 1) -> Items \cup {NoItem}]
          /\ w \in [0 .. last -> Items \cup {NoItem}]
      BY <2>3, <2>6, <3>1, <3>2 DEF Walks
    <3>4. PICK n \in 0 .. (last - 1) : v[n] = i
      BY <3>1, <3>3 DEF Meets
    <3>5. w[n] = i /\ n \in DOMAIN w
      BY <2>2, <2>4, <2>6, <3>1, <3>2, <3>3, <3>4
    <3> QED
      BY <3>2, <3>5 DEF WouldCreateCycle, Meets
  <2> QED
    BY <2>5, <2>6
<1> QED
  BY InitInv, NextInv, <1>1, PTL DEF Spec
=============================================================================
