-------------------------- MODULE RunRollbackProofs --------------------------
(***************************************************************************)
(* Rolling back, and what is on the devices.  How the rollback entries of  *)
(* a plan follow one another, attempt after attempt (Rounds); that what a  *)
(* run left on a device is uncovered, or owed to an entry still to be      *)
(* executed or to a failure its row shows (Settled); that the live runs of *)
(* a service take turns (InTurn), so that what the latest one did stands   *)
(* (Standing), except for runs opened while an office action is between    *)
(* its guard and its commit (DecidingInv says what that guard still        *)
(* warrants); and from these that the engine implements the saga.  A run   *)
(* older than the engine rolls nothing back and never says so (Quiet).     *)
(***************************************************************************)
EXTENDS RunOutcomeProofs, RunSagaRefinement, WellFoundedInduction

-----------------------------------------------------------------------------
(* Sorting.                                                                *)

(* A set of natural numbers has a least element. *)
LEMMA LeastOf ==
  ASSUME NEW T, T \subseteq Nat, T # {}
  PROVE  \E n \in T : \A m \in T : n <= m
<1>1. PICK n \in T : \A m \in T : ~ (<<m, n>> \in OpToRel(<, Nat))
  BY WFMin, NatLessThanWellFounded, Zenon
<1>2. \A m \in T : <<m, n>> \in OpToRel(<, Nat) <=> m < n
  BY DEF OpToRel
<1>3. \A m \in T : ~(m < n)
  BY <1>1, <1>2, Zenon
<1> QED
  BY <1>3

(* The number of elements of a set of numbers up to n. *)
LEMMA CountUpTo ==
  ASSUME NEW n \in Nat, NEW I \in SUBSET (1 .. n)
  PROVE  IsFiniteSet(I) /\ Cardinality(I) \in Nat
<1>1. IsFiniteSet(1 .. n)
  BY FS_Interval
<1> QED
  BY <1>1, FS_Subset, FS_CardinalityType

(* Every finite set of numbers can be sorted. *)
LEMMA AscentExists ==
  ASSUME NEW n \in Nat, NEW I \in SUBSET (1 .. n)
  PROVE  Ascents(I) # {}
<1> DEFINE Bad == {m \in Nat : \E J \in SUBSET (1 .. m) : Ascents(J) = {}}
<1>1. SUFFICES ASSUME Bad # {}
               PROVE  FALSE
  OBVIOUS
<1>2. PICK m \in Bad : \A b \in Bad : m <= b
  <2>1. Bad \subseteq Nat
    OBVIOUS
  <2> HIDE DEF Bad
  <2> QED
    BY <1>1, <2>1, LeastOf
<1>3. PICK J \in SUBSET (1 .. m) : Ascents(J) = {}
  OBVIOUS
<1>4. m \in Nat /\ J # {}
  <2>1. ASSUME J = {} PROVE FALSE
    <3>1. Cardinality(J) = 0
      BY <2>1, FS_EmptySet
    <3>2. <<>> \in [1 .. Cardinality(J) -> J]
      BY <3>1, <2>1
    <3>3. <<>> \in Ascents(J)
      BY <3>1, <3>2 DEF Ascents
    <3> QED
      BY <3>3, <1>3
  <2> QED
    BY <2>1
<1>5. m > 0
  <2>1. PICK x \in J : x \in 1 .. m
    BY <1>3, <1>4
  <2> QED
    BY <1>4, <2>1
<1>6. m - 1 \in Nat /\ m - 1 \notin Bad
  BY <1>2, <1>4, <1>5
<1>7. m \in J
  <2>1. ASSUME m \notin J PROVE FALSE
    <3>1. J \in SUBSET (1 .. (m - 1))
      BY <2>1, <1>3, <1>4
    <3> QED
      BY <3>1, <1>3, <1>6
  <2> QED
    BY <2>1
<1> DEFINE K == J \ {m}
<1>8. K \in SUBSET (1 .. (m - 1)) /\ J = K \cup {m} /\ m \notin K
  BY <1>3, <1>4, <1>7
<1>9. PICK q : q \in Ascents(K)
  BY <1>6, <1>8
<1>10. IsFiniteSet(K) /\ Cardinality(K) \in Nat
  BY <1>6, <1>8, CountUpTo
<1> DEFINE c == Cardinality(K)
<1>11. Cardinality(J) = c + 1
  <2> HIDE DEF K
  <2>1. Cardinality(K \cup {m}) = IF m \in K THEN Cardinality(K) ELSE Cardinality(K) + 1
    BY <1>10, FS_AddElement, Zenon
  <2> QED
    BY <2>1, <1>8
<1>12. q \in [1 .. c -> K] /\ \A i, j \in 1 .. c : i < j => q[i] < q[j]
  BY <1>9 DEF Ascents
<1> DEFINE p == [i \in 1 .. (c + 1) |-> IF i = c + 1 THEN m ELSE q[i]]
<1>13. c \in Nat
  BY <1>10
<1> HIDE DEF c
<1>14. \A i \in 1 .. c : q[i] \in K /\ q[i] < m /\ q[i] \in Nat
  <2>1. \A i \in 1 .. c : q[i] \in K
    BY <1>12
  <2>2. \A x \in K : x \in 1 .. (m - 1)
    BY <1>8
  <2>3. \A x \in K : x < m /\ x \in Nat
    BY <2>2, <1>4
  <2> QED
    BY <2>1, <2>3
<1> HIDE DEF K
<1>15. p \in [1 .. (c + 1) -> J]
  BY <1>13, <1>14, <1>8
<1>16. \A i, j \in 1 .. (c + 1) : i < j => p[i] < p[j]
  BY <1>12, <1>13, <1>14
<1>17. p \in Ascents(J)
  <2> HIDE DEF p
  <2> QED
    BY <1>11, <1>15, <1>16 DEF Ascents
<1> QED
  BY <1>17, <1>3

(***************************************************************************)
(* Ascending lists the whole set, in increasing order.                     *)
(***************************************************************************)
LEMMA AscendingSorts ==
  ASSUME NEW n \in Nat, NEW I \in SUBSET (1 .. n)
  PROVE  /\ Ascending(I) \in Seq(I)
         /\ \A i, j \in 1 .. Len(Ascending(I)) : i < j => Ascending(I)[i] < Ascending(I)[j]
         /\ \A x \in I : \E i \in 1 .. Len(Ascending(I)) : Ascending(I)[i] = x
<1> DEFINE q == Ascending(I)
           c == Cardinality(I)
<1>1. IsFiniteSet(I) /\ c \in Nat
  BY CountUpTo
<1>2. q \in Ascents(I)
  BY AscentExists DEF Ascending
<1> HIDE DEF q
<1>3. q \in [1 .. c -> I] /\ \A i, j \in 1 .. c : i < j => q[i] < q[j]
  BY <1>2 DEF Ascents
<1>4. q \in Seq(I) /\ Len(q) = c
  BY <1>1, <1>3, IsASeq, LenProperties
<1>5. q \in Injection(1 .. c, I)
  <2>1. \A i, j \in 1 .. c : q[i] = q[j] => i = j
    <3> SUFFICES ASSUME NEW i \in 1 .. c, NEW j \in 1 .. c, q[i] = q[j]
                 PROVE  i = j
      OBVIOUS
    <3>1. q[i] \in Int /\ q[j] \in Int /\ i \in Int /\ j \in Int
      <4>1. q[i] \in I /\ q[j] \in I
        BY <1>3
      <4>2. \A x \in I : x \in Int
        OBVIOUS
      <4>3. i \in Int /\ j \in Int
        BY <1>1
      <4> QED
        BY <4>1, <4>2, <4>3
    <3>2. i < j => q[i] < q[j]
      BY <1>3
    <3>3. j < i => q[j] < q[i]
      BY <1>3
    <3> QED
      BY <3>1, <3>2, <3>3
  <2> QED
    BY <1>3, <2>1 DEF Injection, IsInjective
<1>6. Cardinality(1 .. c) = c
  BY <1>1, FS_Interval
<1>7. q \in Surjection(1 .. c, I)
  BY <1>1, <1>5, <1>6, FS_Injection
<1>8. \A x \in I : \E i \in 1 .. c : q[i] = x
  BY <1>7 DEF Surjection
<1> QED
  BY <1>3, <1>4, <1>8 DEF q

(* Reversing a sequence. *)
LEMMA BackwardsReverses ==
  ASSUME NEW S, NEW s \in Seq(S)
  PROVE  /\ Backwards(s) \in Seq(S) /\ Len(Backwards(s)) = Len(s) /\ Len(s) \in Nat
         /\ \A i \in 1 .. Len(s) : /\ Backwards(s)[i] = s[Len(s) + 1 - i]
                                   /\ Len(s) + 1 - i \in 1 .. Len(s)
<1>1. Len(s) \in Nat
  BY LenProperties
<1>2. \A i \in 1 .. Len(s) : Backwards(s)[i] = s[Len(s) + 1 - i]
  BY DEF Backwards
<1>3. Backwards(s) \in Seq(S) /\ Len(Backwards(s)) = Len(s)
  BY BackwardsType
<1>4. \A i \in 1 .. Len(s) : Len(s) + 1 - i \in 1 .. Len(s)
  BY <1>1
<1> QED
  BY <1>1, <1>2, <1>3, <1>4

-----------------------------------------------------------------------------
(* The entries a rollback appends.                                         *)

(* The configuration children a rollback of these devices goes over. *)
ToUndo(w, items) == {k \in Touched(w, items) : NeedsEntry(w, k)}

(* The entry that undoes what child k did. *)
Undoes(w, k, e) ==
  /\ e.item = EntryOf(w, k).item
  /\ e.version = EntryOf(w, k).version
  /\ e.phase = PhaseRollback
  /\ e.ran = RanSteps(w.kids[k])

(***************************************************************************)
(* _rollback_entries: one entry for every such child, against their order. *)
(***************************************************************************)
LEMMA RollbackPlanned ==
  ASSUME NEW w, WellFormed(w), NEW items
  PROVE  \E order \in Seq(ToUndo(w, items)) :
           /\ Len(order) = Len(RollbackEntries(w, items))
           /\ \A i \in 1 .. Len(order) : Undoes(w, order[i], RollbackEntries(w, items)[i])
           /\ \A i, j \in 1 .. Len(order) : i < j => order[j] < order[i]
           /\ \A k \in ToUndo(w, items) : \E i \in 1 .. Len(order) : order[i] = k
<1> DEFINE I == ToUndo(w, items)
           up == Ascending(I)
           order == Backwards(up)
           more == RollbackEntries(w, items)
           back(k) == [EntryOf(w, k) EXCEPT !.phase = PhaseRollback, !.probe = FALSE,
                                            !.ran = RanSteps(w.kids[k])]
<1>1. w.kids \in Seq(Job) /\ Len(w.kids) \in Nat
  BY Lengths
<1>2. I \in SUBSET (1 .. Len(w.kids))
  BY DEF ToUndo, Touched, KidsOfPhase
<1>3. order = RollbackOrder(w, items)
  BY DEF RollbackOrder, ToUndo
<1> HIDE DEF I
<1>4. /\ up \in Seq(I)
      /\ \A i, j \in 1 .. Len(up) : i < j => up[i] < up[j]
      /\ \A x \in I : \E i \in 1 .. Len(up) : up[i] = x
  BY <1>1, <1>2, AscendingSorts
<1> HIDE DEF up
<1>5. /\ order \in Seq(I) /\ Len(order) = Len(up) /\ Len(up) \in Nat
      /\ \A i \in 1 .. Len(up) : order[i] = up[Len(up) + 1 - i] /\ Len(up) + 1 - i \in 1 .. Len(up)
  BY <1>4, BackwardsReverses
<1> HIDE DEF order
<1>6. \A i, j \in 1 .. Len(order) : i < j => order[j] < order[i]
  <2> SUFFICES ASSUME NEW i \in 1 .. Len(order), NEW j \in 1 .. Len(order), i < j
               PROVE  order[j] < order[i]
    OBVIOUS
  <2> DEFINE a == Len(up) + 1 - i
             b == Len(up) + 1 - j
  <2>1. a \in 1 .. Len(up) /\ b \in 1 .. Len(up) /\ order[i] = up[a] /\ order[j] = up[b]
    BY <1>5
  <2>2. b < a
    BY <1>5
  <2> HIDE DEF a, b
  <2> QED
    BY <1>4, <2>1, <2>2
<1>7. \A k \in I : \E i \in 1 .. Len(order) : order[i] = k
  <2> SUFFICES ASSUME NEW k \in I
               PROVE  \E i \in 1 .. Len(order) : order[i] = k
    OBVIOUS
  <2>1. PICK a \in 1 .. Len(up) : up[a] = k
    BY <1>4
  <2> DEFINE i == Len(up) + 1 - a
  <2>2. i \in 1 .. Len(up) /\ Len(up) + 1 - i = a
    BY <1>5
  <2> HIDE DEF i
  <2> QED
    BY <1>5, <2>1, <2>2
<1>8. \A k \in 1 .. Len(w.kids) : EntryOf(w, k) \in Entry
  BY EntryOfType
<1>9. \A k \in I : Undoes(w, k, back(k))
  BY <1>2, <1>8 DEF Entry, Undoes
<1> HIDE DEF back
<1>10. more = [n \in 1 .. Len(order) |-> back(order[n])]
  BY <1>3 DEF RollbackEntries, back
<1>11. more \in Seq(Entry)
  BY RollbackEntriesType
<1> HIDE DEF more
<1>12. Len(order) \in Nat /\ \A n \in 1 .. Len(order) : order[n] \in I
  BY <1>5, ElementOfSeq
<1>13. Len(more) = Len(order)
  BY <1>10, <1>11, <1>12, LenProperties
<1>14. \A i \in 1 .. Len(order) : Undoes(w, order[i], more[i])
  BY <1>9, <1>10, <1>12
<1> QED
  BY <1>5, <1>6, <1>7, <1>13, <1>14 DEF I, more

-----------------------------------------------------------------------------
(* Rounds of rollback.                                                     *)

Back(w) == {i \in 1 .. Len(w.plan) : w.plan[i].phase = PhaseRollback}

Forth(w) == {i \in 1 .. Len(w.plan) : w.plan[i].phase = PhaseConfiguration}

LastAt(w) == w.kids[Len(w.kids)].position

(* A device is configured by one entry. *)
Once(w) == \A i, j \in Forth(w) : w.plan[i].item = w.plan[j].item => i = j

(* A run that planned a rollback is executing it, or has. *)
Turned(w) ==
  /\ w.kids = <<>> => w.phase = NoPhase
  /\ Back(w) # {} => w.kids # <<>> /\ LastAt(w) \in Back(w)

(* It closes at the end of its plan, and leaves no entry out. *)
AtEnd(w) == Back(w) # {} /\ w.status \in Terminal => LastAt(w) = Len(w.plan)

Tried(w) ==
  \A i \in Back(w) : i <= LastAt(w) => \E k \in 1 .. Len(w.kids) : w.kids[k].position = i

(* A device is rolled back again only after its rollback failed ... *)
Retries(w) ==
  \A i, j \in Back(w) :
    i < j /\ w.plan[i].item = w.plan[j].item =>
      /\ i < LastAt(w)
      /\ \A k \in 1 .. Len(w.kids) :
           w.kids[k].position = i => w.kids[k].status \in Terminal \ {"SUCCEEDED"}

(* ... and for the first time against the order of configuration. *)
Against(w) ==
  \A i, j \in Back(w) : i < j =>
    \/ \E h \in Back(w) : h < j /\ w.plan[h].item = w.plan[j].item
    \/ \A c, d \in Forth(w) :
         w.plan[c].item = w.plan[i].item /\ w.plan[d].item = w.plan[j].item => d < c

Rounds(w) ==
  ~w.dry => /\ Once(w) /\ Turned(w) /\ AtEnd(w)
            /\ Tried(w) /\ Retries(w) /\ Against(w)

(* The run may have something to undo. *)
Owed(w) == Back(w) # {} \/ w.code = "ROLLBACK_INCOMPLETE"

-----------------------------------------------------------------------------
(* What a transaction may do to a live row: leave it, close it, go on to   *)
(* the next entry, or plan a rollback and go on to its first entry.        *)

Stays(w, v) ==
  /\ v.kids = w.kids /\ v.plan = w.plan /\ v.noRollback = w.noRollback
  /\ v.status = w.status /\ v.phase = w.phase /\ v.code = w.code

(* It ends forward, at the end of a rollback, or with nothing to roll back. *)
EndsForward(w, v) ==
  Back(w) = {} /\ v.status # "ROLLED_BACK" /\ v.code # "ROLLBACK_INCOMPLETE"

EndsBack(w, v) ==
  /\ Owed(w)
  /\ w.noRollback \subseteq v.noRollback
  /\ v.status = "ROLLED_BACK" => w.noRollback = {} /\ \A d \in Devices : ~RollbackFailed(w, d)

EndsAtOnce(w, v) ==
  /\ w.phase # NoPhase /\ Back(w) = {} /\ ToUndo(w, Devices) = {}
  /\ v.noRollback = NoRollbackItems(w, Devices)
  /\ v.status = "ROLLED_BACK" => v.noRollback = {}

Closes(w, v) ==
  /\ LiveKids(w) = {}
  /\ v.kids = w.kids /\ v.plan = w.plan
  /\ v.phase = w.phase \/ w.phase # NoPhase
  /\ v.status \in Terminal
  /\ Back(w) # {} => LastAt(w) = Len(w.plan)
  /\ EndsForward(w, v) \/ EndsBack(w, v) \/ EndsAtOnce(w, v)

Queues(w, v) ==
  /\ w.kids # <<>> /\ LastAt(w) + 1 \in 1 .. Len(w.plan)
  /\ v.kids = Append(w.kids, NewJob(LastAt(w) + 1)) /\ v.plan = w.plan
  /\ v.noRollback = w.noRollback /\ v.code = w.code /\ v.status \in InFlight

TurnsBack(w, v, items) ==
  /\ LiveKids(w) = {}
  /\ ToUndo(w, items) # {}
  /\ v.plan = w.plan \o RollbackEntries(w, items)
  /\ v.kids = Append(w.kids, NewJob(Len(w.plan) + 1))
  /\ v.status \in InFlight
  /\ \/ /\ Back(w) = {} /\ items = Devices
        /\ v.noRollback = NoRollbackItems(w, Devices)
     \/ /\ Owed(w) /\ w.status \in Terminal /\ items = RetryItems(w)
        /\ v.noRollback = w.noRollback \cup NoRollbackItems(w, items)

Turn(w, v) ==
  /\ v.dry = w.dry
  /\ \/ Stays(w, v)
     \/ Closes(w, v)
     \/ Queues(w, v)
     \/ \E items : TurnsBack(w, v, items)

(* Rows over the same plan and children are in the same round. *)
LEMMA SameRounds ==
  ASSUME NEW w, Rounds(w), NEW v, v.dry = w.dry, v.kids = w.kids, v.plan = w.plan,
         v.phase = w.phase \/ w.phase # NoPhase,
         \/ v.status = w.status
         \/ Back(w) # {} => LastAt(w) = Len(w.plan)
  PROVE  Rounds(v)
<1>1. Back(v) = Back(w) /\ Forth(v) = Forth(w) /\ LastAt(v) = LastAt(w)
  BY DEF Back, Forth, LastAt
<1>2. ASSUME ~w.dry
      PROVE  /\ Once(v) /\ Turned(v) /\ AtEnd(v)
             /\ Tried(v) /\ Retries(v) /\ Against(v)
  <2>1. Once(v)
    BY <1>1, <1>2 DEF Rounds, Once
  <2>2. Turned(v)
    BY <1>1, <1>2 DEF Rounds, Turned
  <2>3. AtEnd(v)
    BY <1>1, <1>2 DEF Rounds, AtEnd
  <2>4. Tried(v)
    BY <1>1, <1>2 DEF Rounds, Tried
  <2>5. Retries(v)
    BY <1>1, <1>2 DEF Rounds, Retries
  <2>6. Against(v)
    BY <1>1, <1>2 DEF Rounds, Against
  <2> QED
    BY <2>1, <2>2, <2>3, <2>4, <2>5, <2>6
<1> QED
  BY <1>2 DEF Rounds

(* What becomes of a live child does not matter to the round. *)
LEMMA KidRounds ==
  ASSUME NEW w, WellFormed(w), Rounds(w), NEW k \in 1 .. Len(w.kids), NEW job,
         job.position = w.kids[k].position, IsLive(w.kids[k]) \/ job = w.kids[k]
  PROVE  Rounds([w EXCEPT !.kids[k] = job])
<1> DEFINE v == [w EXCEPT !.kids[k] = job]
<1>1. w \in Run /\ w.kids \in Seq(Job) /\ Len(w.kids) \in Nat
  BY Lengths
<1>2. /\ v.plan = w.plan /\ v.phase = w.phase /\ v.status = w.status /\ v.dry = w.dry
      /\ Len(v.kids) = Len(w.kids) /\ v.kids[k] = job
      /\ \A j \in 1 .. Len(w.kids) : j # k => v.kids[j] = w.kids[j]
  BY <1>1, KidFields
<1> HIDE DEF v
<1>3. \A j \in 1 .. Len(w.kids) :
        /\ v.kids[j].position = w.kids[j].position
        /\ w.kids[j].status \in Terminal => v.kids[j] = w.kids[j]
  BY <1>2 DEF IsLive, InFlight, Terminal
<1>4. Back(v) = Back(w) /\ Forth(v) = Forth(w)
  BY <1>2 DEF Back, Forth
<1>5. (v.kids = <<>> <=> w.kids = <<>>) /\ LastAt(v) = LastAt(w)
  <2>1. 1 \in 1 .. Len(w.kids) /\ w.kids # <<>>
    BY <1>1, EmptySeq
  <2>2. Len(w.kids) \in 1 .. Len(w.kids)
    BY <1>1, <2>1
  <2>3. Len(v.kids) # 0
    BY <1>1, <1>2, <2>1
  <2> QED
    BY <1>2, <1>3, <2>1, <2>2, <2>3 DEF LastAt
<1>6. ASSUME ~w.dry
      PROVE  /\ Once(v) /\ Turned(v) /\ AtEnd(v)
             /\ Tried(v) /\ Retries(v) /\ Against(v)
  <2>1. Once(v)
    BY <1>2, <1>4, <1>6 DEF Rounds, Once
  <2>2. Turned(v)
    BY <1>2, <1>4, <1>5, <1>6 DEF Rounds, Turned
  <2>3. AtEnd(v)
    BY <1>2, <1>4, <1>5, <1>6 DEF Rounds, AtEnd
  <2>4. Tried(v)
    BY <1>2, <1>3, <1>4, <1>5, <1>6 DEF Rounds, Tried
  <2>5. Retries(v)
    BY <1>2, <1>3, <1>4, <1>5, <1>6 DEF Rounds, Retries
  <2>6. Against(v)
    BY <1>2, <1>4, <1>6 DEF Rounds, Against
  <2> QED
    BY <2>1, <2>2, <2>3, <2>4, <2>5, <2>6
<1> QED
  BY <1>2, <1>6 DEF Rounds, v

(* A child queued behind the others, to execute entry p. *)
Appended(w, v, p) ==
  /\ Len(w.kids) \in Nat /\ Len(v.kids) = Len(w.kids) + 1
  /\ v.kids[Len(w.kids) + 1] = NewJob(p) /\ LastAt(v) = p /\ v.kids # <<>>
  /\ \A k \in 1 .. Len(w.kids) : v.kids[k] = w.kids[k]
  /\ \A k \in 1 .. Len(v.kids) : k \in 1 .. Len(w.kids) \/ k = Len(w.kids) + 1
  /\ NewJob(p).position = p /\ NewJob(p).next = 1 /\ NewJob(p).log = {}
  /\ NewJob(p).status = "QUEUED"

(* That is what Append does. *)
LEMMA AppendedKid ==
  ASSUME NEW w, WellFormed(w), NEW v, NEW p, v.kids = Append(w.kids, NewJob(p))
  PROVE  Appended(w, v, p)
<1>1. w.kids \in Seq(Job) /\ Len(w.kids) \in Nat
  BY Lengths
<1>2. /\ NewJob(p).position = p /\ NewJob(p).next = 1 /\ NewJob(p).log = {}
      /\ NewJob(p).status = "QUEUED"
  BY DEF NewJob
<1> DEFINE n == Len(w.kids) + 1
<1>3. Len(v.kids) = n /\ v.kids[n] = NewJob(p) /\ \A k \in 1 .. Len(w.kids) : v.kids[k] = w.kids[k]
  BY <1>1
<1>4. LastAt(v) = p
  BY <1>2, <1>3 DEF LastAt
<1>5. v.kids # <<>>
  <2>1. Len(v.kids) # 0
    BY <1>1, <1>3
  <2>2. Len(<<>>) = 0
    OBVIOUS
  <2> QED
    BY <2>1, <2>2, Zenon
<1> QED
  BY <1>1, <1>2, <1>3, <1>4, <1>5 DEF Appended

(* Where the children of a row stand. *)
LEMMA Positions ==
  ASSUME NEW w, WellFormed(w)
  PROVE  /\ Len(w.kids) \in Nat /\ Len(w.plan) \in Nat
         /\ \A k \in 1 .. Len(w.kids) : w.kids[k].position \in 1 .. Len(w.plan)
         /\ \A i, j \in 1 .. Len(w.kids) : /\ i < j => w.kids[i].position < w.kids[j].position
                                           /\ w.kids[i].position = w.kids[j].position => i = j
         /\ w.kids # <<>> => /\ Len(w.kids) \in 1 .. Len(w.kids)
                             /\ LastAt(w) \in 1 .. Len(w.plan)
                             /\ \A k \in 1 .. Len(w.kids) : w.kids[k].position <= LastAt(w)
<1>1. w.kids \in Seq(Job) /\ Len(w.kids) \in Nat /\ Len(w.plan) \in Nat
  BY Lengths
<1>2. \A k \in 1 .. Len(w.kids) : w.kids[k].position \in 1 .. Len(w.plan)
  BY DEF WellFormed, AlongThePlan
<1>3. \A i, j \in 1 .. Len(w.kids) : i < j => w.kids[i].position < w.kids[j].position
  BY DEF WellFormed, AlongThePlan
<1>4. \A i, j \in 1 .. Len(w.kids) : w.kids[i].position = w.kids[j].position => i = j
  <2> SUFFICES ASSUME NEW i \in 1 .. Len(w.kids), NEW j \in 1 .. Len(w.kids),
                      w.kids[i].position = w.kids[j].position
               PROVE  i = j
    OBVIOUS
  <2>1. i < j => w.kids[i].position < w.kids[j].position
    BY <1>3
  <2>2. j < i => w.kids[j].position < w.kids[i].position
    BY <1>3
  <2>3. w.kids[i].position \in Int /\ w.kids[j].position \in Int /\ i \in Int /\ j \in Int
    BY <1>1, <1>2
  <2> QED
    BY <2>1, <2>2, <2>3
<1>5. ASSUME w.kids # <<>>
      PROVE  /\ Len(w.kids) \in 1 .. Len(w.kids)
             /\ LastAt(w) \in 1 .. Len(w.plan)
             /\ \A k \in 1 .. Len(w.kids) : w.kids[k].position <= LastAt(w)
  <2>1. Len(w.kids) # 0
    BY <1>1, <1>5, EmptySeq
  <2>2. Len(w.kids) \in 1 .. Len(w.kids)
    BY <1>1, <2>1
  <2>3. LastAt(w) \in 1 .. Len(w.plan)
    BY <1>2, <2>2 DEF LastAt
  <2>4. ASSUME NEW k \in 1 .. Len(w.kids) PROVE w.kids[k].position <= LastAt(w)
    <3>1. k < Len(w.kids) => w.kids[k].position < LastAt(w)
      BY <1>3, <2>2 DEF LastAt
    <3>2. k = Len(w.kids) => w.kids[k].position = LastAt(w)
      BY DEF LastAt
    <3>3. k < Len(w.kids) \/ k = Len(w.kids)
      BY <1>1
    <3>4. w.kids[k].position \in Int /\ LastAt(w) \in Int
      BY <1>2, <2>3
    <3> QED
      BY <3>1, <3>2, <3>3, <3>4
  <2> QED
    BY <2>2, <2>3, <2>4
<1> QED
  BY <1>1, <1>2, <1>3, <1>4, <1>5

(* Going on to the next entry. *)
LEMMA QueuesRounds ==
  ASSUME NEW w, WellFormed(w), PlanInOrder(w), ~w.dry, Rounds(w),
         NEW v, v.dry = w.dry, Queues(w, v)
  PROVE  Rounds(v)
<1> DEFINE p == LastAt(w) + 1
<1>1. /\ w.kids # <<>> /\ p \in 1 .. Len(w.plan)
      /\ v.kids = Append(w.kids, NewJob(p)) /\ v.plan = w.plan /\ v.status \in InFlight
  BY DEF Queues
<1>2. /\ Once(w) /\ Turned(w) /\ AtEnd(w) /\ Tried(w) /\ Retries(w) /\ Against(w)
  BY DEF Rounds
<1>3. LastAt(w) \in 1 .. Len(w.plan) /\ Len(w.plan) \in Nat
  BY <1>1, Positions
<1>4. LastAt(w) < p /\ p \in Int /\ LastAt(w) \in Int
  BY <1>3
<1> HIDE DEF p
<1>a. Appended(w, v, p)
  BY <1>1, AppendedKid
<1>5. /\ Len(w.kids) \in Nat /\ Len(v.kids) = Len(w.kids) + 1
      /\ v.kids[Len(w.kids) + 1] = NewJob(p) /\ LastAt(v) = p /\ v.kids # <<>>
      /\ \A k \in 1 .. Len(w.kids) : v.kids[k] = w.kids[k]
      /\ \A k \in 1 .. Len(v.kids) : k \in 1 .. Len(w.kids) \/ k = Len(w.kids) + 1
      /\ NewJob(p).position = p
  BY <1>a, Zenon DEF Appended
<1>6. Back(v) = Back(w) /\ Forth(v) = Forth(w)
  BY <1>1 DEF Back, Forth
<1>7. Once(v) /\ Against(v)
  BY <1>1, <1>2, <1>6 DEF Once, Against
<1>8. Turned(v)
  <2>1. ASSUME Back(w) # {} PROVE p \in Back(w)
    <3>1. LastAt(w) \in Back(w)
      BY <1>2, <2>1 DEF Turned
    <3>2. Rank(w.plan[LastAt(w)].phase) <= Rank(w.plan[p].phase)
      BY <1>1, <1>3, <1>4 DEF PlanInOrder
    <3>3. w.plan[LastAt(w)].phase = PhaseRollback
      BY <3>1 DEF Back
    <3>4. Rank(w.plan[p].phase) = 4
      BY <3>2, <3>3, RankFacts
    <3>5. w.plan[p].phase \in Phases \cup {NoPhase}
      <4>1. w.plan \in Seq(Entry)
        BY Lengths
      <4>2. w.plan[p] \in Entry
        BY <1>1, <4>1
      <4> QED
        BY <4>2 DEF Entry
    <3> QED
      BY <1>1, <3>4, <3>5, RankFacts DEF Back
  <2> QED
    BY <1>5, <1>6, <2>1 DEF Turned
<1>9. AtEnd(v)
  BY <1>1 DEF AtEnd, InFlight, Terminal
<1>10. Tried(v)
  <2> SUFFICES ASSUME NEW i \in Back(w), i <= p
               PROVE  \E k \in 1 .. Len(v.kids) : v.kids[k].position = i
    BY <1>5, <1>6 DEF Tried
  <2>1. i \in Int
    BY DEF Back
  <2>2. CASE i = p
    BY <1>5, <2>2
  <2>3. CASE i # p
    <3>1. i <= LastAt(w)
      BY <1>4, <2>1, <2>3 DEF p
    <3>2. PICK k \in 1 .. Len(w.kids) : w.kids[k].position = i
      BY <1>2, <3>1 DEF Tried
    <3> QED
      BY <1>5, <3>2
  <2> QED
    BY <2>2, <2>3
<1>11. Retries(v)
  <2> SUFFICES ASSUME NEW i \in Back(w), NEW j \in Back(w), i < j,
                      w.plan[i].item = w.plan[j].item
               PROVE  /\ i < p
                      /\ \A k \in 1 .. Len(v.kids) : v.kids[k].position = i =>
                           v.kids[k].status \in Terminal \ {"SUCCEEDED"}
    BY <1>1, <1>5, <1>6 DEF Retries
  <2>1. i < LastAt(w) /\ i \in Int
    BY <1>2 DEF Retries, Back
  <2>2. i < p
    BY <1>4, <2>1
  <2>3. \A k \in 1 .. Len(w.kids) : w.kids[k].position = i =>
          w.kids[k].status \in Terminal \ {"SUCCEEDED"}
    BY <1>2 DEF Retries
  <2>4. NewJob(p).position # i
    BY <1>4, <1>5, <2>1
  <2> QED
    BY <1>5, <2>2, <2>3, <2>4
<1> QED
  BY <1>7, <1>8, <1>9, <1>10, <1>11 DEF Rounds

(***************************************************************************)
(* A plan with a rollback appended, entry by entry.                        *)
(***************************************************************************)
Extended(w, v, items, order) ==
  /\ Len(w.plan) \in Nat /\ Len(order) \in Nat
  /\ Len(v.plan) = Len(w.plan) + Len(order)
  /\ order \in Seq(ToUndo(w, items))
  /\ \A i \in 1 .. Len(w.plan) : i \in 1 .. Len(v.plan) /\ v.plan[i] = w.plan[i]
  /\ \A i \in 1 .. Len(order) :
       /\ Len(w.plan) + i \in 1 .. Len(v.plan)
       /\ order[i] \in ToUndo(w, items)
       /\ Undoes(w, order[i], v.plan[Len(w.plan) + i])
  /\ \A i, j \in 1 .. Len(order) : i < j => order[j] < order[i]
  /\ \A k \in ToUndo(w, items) : \E i \in 1 .. Len(order) : order[i] = k
  /\ \A i \in 1 .. Len(v.plan) :
       i \in 1 .. Len(w.plan) \/ (i > Len(w.plan) /\ i - Len(w.plan) \in 1 .. Len(order))

LEMMA TurnsBackPlan ==
  ASSUME NEW w, WellFormed(w), NEW items, NEW v, v.plan = w.plan \o RollbackEntries(w, items)
  PROVE  \E order : Extended(w, v, items, order)
<1> DEFINE more == RollbackEntries(w, items)
<1>1. w.plan \in Seq(Entry) /\ Len(w.plan) \in Nat
  BY Lengths
<1>2. more \in Seq(Entry) /\ Len(more) \in Nat
  BY RollbackEntriesType, LenProperties
<1>3. PICK order \in Seq(ToUndo(w, items)) :
        /\ Len(order) = Len(more)
        /\ \A i \in 1 .. Len(order) : Undoes(w, order[i], more[i])
        /\ \A i, j \in 1 .. Len(order) : i < j => order[j] < order[i]
        /\ \A k \in ToUndo(w, items) : \E i \in 1 .. Len(order) : order[i] = k
  BY RollbackPlanned
<1> HIDE DEF more
<1>4. v.plan = w.plan \o more
  BY DEF more
<1>5. /\ Len(v.plan) = Len(w.plan) + Len(more)
      /\ \A i \in 1 .. (Len(w.plan) + Len(more)) :
           v.plan[i] = IF i <= Len(w.plan) THEN w.plan[i] ELSE more[i - Len(w.plan)]
  BY <1>1, <1>2, <1>4, ConcatProperties
<1>6. \A i \in 1 .. Len(w.plan) : i \in 1 .. Len(v.plan) /\ v.plan[i] = w.plan[i]
  BY <1>1, <1>2, <1>5
<1>7. \A i \in 1 .. Len(order) :
        Len(w.plan) + i \in 1 .. Len(v.plan) /\ v.plan[Len(w.plan) + i] = more[i]
  <2> SUFFICES ASSUME NEW i \in 1 .. Len(order)
               PROVE  Len(w.plan) + i \in 1 .. Len(v.plan) /\ v.plan[Len(w.plan) + i] = more[i]
    OBVIOUS
  <2> DEFINE n == Len(w.plan) + i
  <2>1. n \in 1 .. (Len(w.plan) + Len(more)) /\ ~(n <= Len(w.plan)) /\ n - Len(w.plan) = i
    BY <1>1, <1>2, <1>3, SMTT(30)
  <2> HIDE DEF n
  <2>2. v.plan[n] = more[i]
    BY <1>5, <2>1
  <2> QED
    BY <1>5, <2>1, <2>2 DEF n
<1>8. \A i \in 1 .. Len(order) : order[i] \in ToUndo(w, items)
  BY <1>3, ElementOfSeq
<1>9. \A i \in 1 .. Len(v.plan) :
        i \in 1 .. Len(w.plan) \/ (i > Len(w.plan) /\ i - Len(w.plan) \in 1 .. Len(order))
  BY <1>1, <1>2, <1>3, <1>5
<1>10. \A i \in 1 .. Len(order) : Undoes(w, order[i], v.plan[Len(w.plan) + i])
  BY <1>3, <1>7
<1>11. Extended(w, v, items, order)
  BY <1>1, <1>2, <1>3, <1>5, <1>6, <1>7, <1>8, <1>9, <1>10 DEF Extended
<1> QED
  BY <1>11

(* The entries of the longer plan: those there were, and rollbacks. *)
LEMMA ExtendedParts ==
  ASSUME NEW w, WellFormed(w), NEW items, NEW v, NEW order, Extended(w, v, items, order)
  PROVE  /\ Forth(v) = Forth(w)
         /\ \A i \in 1 .. Len(w.plan) : i \in Back(v) <=> i \in Back(w)
         /\ \A i \in Back(w) : i \in Back(v)
         /\ \A i \in 1 .. Len(order) : Len(w.plan) + i \in Back(v)
         /\ \A k \in ToUndo(w, items) : /\ k \in 1 .. Len(w.kids)
                                        /\ w.kids[k].position \in Forth(w)
                                        /\ EntryOf(w, k) = w.plan[w.kids[k].position]
                                        /\ EntryOf(w, k).item \in items
<1>1. \A i \in 1 .. Len(w.plan) : i \in 1 .. Len(v.plan) /\ v.plan[i] = w.plan[i]
  BY DEF Extended
<1>2. \A i \in 1 .. Len(order) :
        Len(w.plan) + i \in 1 .. Len(v.plan) /\ v.plan[Len(w.plan) + i].phase = PhaseRollback
  BY DEF Extended, Undoes
<1>3. ASSUME NEW i \in 1 .. Len(v.plan), v.plan[i].phase = PhaseConfiguration
      PROVE  i \in 1 .. Len(w.plan)
  <2>1. SUFFICES ASSUME i > Len(w.plan) /\ i - Len(w.plan) \in 1 .. Len(order)
                 PROVE  FALSE
    BY <1>3 DEF Extended
  <2>2. Len(w.plan) + (i - Len(w.plan)) = i
    BY <2>1 DEF Extended
  <2>3. v.plan[i].phase = PhaseRollback
    BY <1>2, <2>1, <2>2
  <2> QED
    BY <1>3, <2>3 DEF PhaseConfiguration, PhaseRollback
<1>4. Forth(v) = Forth(w)
  BY <1>1, <1>3 DEF Forth
<1>5. \A i \in 1 .. Len(w.plan) : i \in Back(v) <=> i \in Back(w)
  BY <1>1 DEF Back
<1>6. \A i \in Back(w) : i \in Back(v)
  BY <1>1 DEF Back
<1>7. \A i \in 1 .. Len(order) : Len(w.plan) + i \in Back(v)
  BY <1>2 DEF Back
<1>8. \A k \in ToUndo(w, items) : /\ k \in 1 .. Len(w.kids)
                                  /\ w.kids[k].position \in Forth(w)
                                  /\ EntryOf(w, k) = w.plan[w.kids[k].position]
                                  /\ EntryOf(w, k).item \in items
  BY Positions DEF ToUndo, Touched, KidsOfPhase, EntryOf, Forth
<1> QED
  BY <1>4, <1>5, <1>6, <1>7, <1>8

(* Planning a rollback, the first or a further one. *)
LEMMA TurnsBackRounds ==
  ASSUME NEW w, WellFormed(w), ~w.dry, Rounds(w),
         NEW items, NEW v, v.dry = w.dry, TurnsBack(w, v, items)
  PROVE  Rounds(v)
<1> DEFINE p == Len(w.plan) + 1
           n == Len(w.plan)
<1>1. /\ LiveKids(w) = {} /\ ToUndo(w, items) # {}
      /\ v.plan = w.plan \o RollbackEntries(w, items)
      /\ v.kids = Append(w.kids, NewJob(p)) /\ v.status \in InFlight
      /\ Back(w) # {} => w.status \in Terminal /\ items = RetryItems(w)
  BY DEF TurnsBack
<1>2. /\ Once(w) /\ Turned(w) /\ AtEnd(w) /\ Tried(w) /\ Retries(w) /\ Against(w)
  BY DEF Rounds
<1>3. PICK order : Extended(w, v, items, order)
  BY <1>1, TurnsBackPlan
<1>4. /\ Forth(v) = Forth(w)
      /\ \A i \in 1 .. Len(w.plan) : i \in Back(v) <=> i \in Back(w)
      /\ \A i \in Back(w) : i \in Back(v)
      /\ \A i \in 1 .. Len(order) : Len(w.plan) + i \in Back(v)
      /\ \A k \in ToUndo(w, items) : /\ k \in 1 .. Len(w.kids)
                                     /\ w.kids[k].position \in Forth(w)
                                     /\ EntryOf(w, k) = w.plan[w.kids[k].position]
                                     /\ EntryOf(w, k).item \in items
  BY <1>3, ExtendedParts
<1>5. Appended(w, v, p)
  BY <1>1, AppendedKid
<1>6. n \in Nat /\ Len(order) \in Nat /\ p = n + 1 /\ Len(w.kids) \in Nat
  BY <1>3, <1>5 DEF Extended, Appended
<1>7. LastAt(v) = p /\ v.kids # <<>> /\ NewJob(p).position = p
  BY <1>5 DEF Appended
<1>8. \A k \in 1 .. Len(v.kids) :
        (k \in 1 .. Len(w.kids) /\ v.kids[k] = w.kids[k]) \/ v.kids[k] = NewJob(p)
  BY <1>5 DEF Appended
<1>9. \A k \in 1 .. Len(w.kids) : k \in 1 .. Len(v.kids) /\ v.kids[k] = w.kids[k]
  BY <1>5, <1>6 DEF Appended
<1>10. \E k \in 1 .. Len(v.kids) : v.kids[k].position = p
  <2>1. Len(w.kids) + 1 \in 1 .. Len(v.kids) /\ v.kids[Len(w.kids) + 1] = NewJob(p)
    BY <1>5, <1>6 DEF Appended
  <2> QED
    BY <1>7, <2>1
(* An entry of the longer plan, and whose it is when it is new. *)
<1>11. \A i \in Back(v) : /\ i \in Int
                          /\ \/ i \in 1 .. n /\ i \in Back(w) /\ v.plan[i] = w.plan[i]
                             \/ i > n /\ i - n \in 1 .. Len(order)
  BY <1>3, <1>4, SMTT(30) DEF Back, Extended
<1>12. \A i \in 1 .. Len(order) : /\ order[i] \in ToUndo(w, items)
                                  /\ v.plan[n + i].item = EntryOf(w, order[i]).item
  BY <1>3 DEF Extended, Undoes
<1> DEFINE at(i) == w.kids[order[i - n]].position
<1>13. \A i \in Back(v) : i > n =>
         /\ order[i - n] \in 1 .. Len(w.kids)
         /\ at(i) \in Forth(w) /\ w.plan[at(i)].item = v.plan[i].item
         /\ v.plan[i].item \in items
  <2> SUFFICES ASSUME NEW i \in Back(v), i > n
               PROVE  /\ order[i - n] \in 1 .. Len(w.kids)
                      /\ at(i) \in Forth(w) /\ w.plan[at(i)].item = v.plan[i].item
                      /\ v.plan[i].item \in items
    OBVIOUS
  <2>1. i - n \in 1 .. Len(order) /\ n + (i - n) = i
    BY <1>6, <1>11
  <2> DEFINE m == i - n
  <2>2. order[m] \in ToUndo(w, items) /\ v.plan[i].item = EntryOf(w, order[m]).item
    BY <1>12, <2>1
  <2> HIDE DEF m
  <2>3. /\ order[m] \in 1 .. Len(w.kids)
        /\ w.kids[order[m]].position \in Forth(w)
        /\ EntryOf(w, order[m]) = w.plan[w.kids[order[m]].position]
        /\ EntryOf(w, order[m]).item \in items
    BY <1>4, <2>2
  <2> QED
    BY <2>2, <2>3 DEF m
<1>14. \A i \in Forth(w) : i \in 1 .. n /\ v.plan[i] = w.plan[i]
  BY <1>3 DEF Forth, Extended
<1>15. Back(w) # {} => LastAt(w) = n /\ w.kids # <<>>
  BY <1>1, <1>2 DEF AtEnd, Turned
<1>16. \A i, j \in Back(v) : n < i /\ i < j => at(j) < at(i)
  <2> SUFFICES ASSUME NEW i \in Back(v), NEW j \in Back(v), n < i, i < j
               PROVE  at(j) < at(i)
    OBVIOUS
  <2> DEFINE a == i - n
             b == j - n
  <2>1. a \in 1 .. Len(order) /\ b \in 1 .. Len(order) /\ a < b
    BY <1>6, <1>11
  <2>2. order[b] < order[a]
    <3> HIDE DEF a, b
    <3> QED
      BY <1>3, <2>1 DEF Extended
  <2>3. order[a] \in 1 .. Len(w.kids) /\ order[b] \in 1 .. Len(w.kids)
    BY <1>6, <1>11, <1>13
  <2> QED
    BY <2>2, <2>3, Positions
<1> HIDE DEF at, p, n
<1>17. Once(v)
  BY <1>2, <1>4, <1>14 DEF Once
<1>18. Turned(v)
  <2>1. 1 \in 1 .. Len(order)
    <3>1. PICK k \in ToUndo(w, items) : TRUE
      BY <1>1
    <3>2. PICK i \in 1 .. Len(order) : order[i] = k
      BY <1>3 DEF Extended
    <3> QED
      BY <1>6, <3>2
  <2>2. p \in Back(v)
    BY <1>4, <2>1 DEF p
  <2> QED
    BY <1>7, <2>2 DEF Turned
<1>19. AtEnd(v)
  BY <1>1 DEF AtEnd, InFlight, Terminal
<1>20. Tried(v)
  <2> SUFFICES ASSUME NEW i \in Back(v), i <= p
               PROVE  \E k \in 1 .. Len(v.kids) : v.kids[k].position = i
    BY <1>7 DEF Tried
  <2>1. CASE i = p
    BY <1>10, <2>1
  <2>2. CASE i # p
    <3>1. i \in Back(w) /\ i <= n
      BY <1>6, <1>11, <2>2
    <3>2. i <= LastAt(w)
      BY <1>15, <3>1
    <3>3. PICK k \in 1 .. Len(w.kids) : w.kids[k].position = i
      BY <1>2, <3>1, <3>2 DEF Tried
    <3> QED
      BY <1>9, <3>3
  <2> QED
    BY <2>1, <2>2
<1>21. Retries(v)
  <2> SUFFICES ASSUME NEW i \in Back(v), NEW j \in Back(v), i < j,
                      v.plan[i].item = v.plan[j].item
               PROVE  /\ i < p
                      /\ \A k \in 1 .. Len(v.kids) : v.kids[k].position = i =>
                           v.kids[k].status \in Terminal \ {"SUCCEEDED"}
    BY <1>7 DEF Retries
  <2>1. ~(i > n)
    <3>1. SUFFICES ASSUME i > n PROVE FALSE
      OBVIOUS
    <3>2. j > n
      BY <1>6, <1>11, <3>1
    <3>3. at(i) = at(j)
      BY <1>2, <1>13, <3>1, <3>2 DEF Once
    <3>4. at(j) < at(i)
      BY <1>6, <1>16, <3>1
    <3>5. at(i) \in 1 .. n
      BY <1>13, <1>14, <3>1
    <3> QED
      BY <1>6, <3>3, <3>4, <3>5
  <2>2. i \in Back(w) /\ i \in 1 .. n /\ v.plan[i] = w.plan[i] /\ i < p
    BY <1>6, <1>11, <2>1
  <2>3. SUFFICES ASSUME NEW k \in 1 .. Len(w.kids), w.kids[k].position = i
                 PROVE  w.kids[k].status \in Terminal \ {"SUCCEEDED"}
    <3>1. NewJob(p).position # i
      BY <1>7, <1>6, <2>2
    <3> QED
      BY <1>8, <2>2, <2>3, <3>1
  <2>4. CASE j \in Back(w) /\ v.plan[j] = w.plan[j]
    BY <1>2, <2>2, <2>3, <2>4 DEF Retries
  <2>5. CASE j > n
    <3> DEFINE d == w.plan[i].item
    <3>1. d \in RetryItems(w)
      BY <1>1, <1>13, <2>2, <2>5
    <3>2. k \in RollbackKids(w, d)
      BY <2>2, <2>3 DEF RollbackKids, KidsOfPhase, EntryOf, Back
    <3>3. PICK m \in RollbackKids(w, d) :
            w.kids[m].status # "SUCCEEDED" /\ \A x \in RollbackKids(w, d) : x <= m
      BY <3>1, <3>2 DEF RetryItems, RollbackFailed
    <3>4. /\ m \in 1 .. Len(w.kids) /\ w.kids[m].position \in Back(w)
          /\ w.plan[w.kids[m].position].item = d
      BY <3>3, Positions DEF RollbackKids, KidsOfPhase, EntryOf, Back
    <3>5. k <= m
      BY <3>2, <3>3
    <3>6. CASE k = m
      <4>1. ~IsLive(w.kids[k])
        BY <1>1, <2>3 DEF LiveKids
      <4>2. w.kids[k] \in Job
        BY <2>3, KidType
      <4> QED
        BY <3>3, <3>6, <4>1, <4>2 DEF Job, IsLive
    <3>7. CASE k < m
      <4>1. i < w.kids[m].position
        BY <2>3, <3>4, <3>7, Positions
      <4> QED
        BY <1>2, <2>2, <2>3, <3>4, <4>1 DEF Retries
    <3> QED
      BY <1>6, <2>3, <3>4, <3>5, <3>6, <3>7
  <2> QED
    BY <1>11, <2>4, <2>5
<1>22. Against(v)
  <2> SUFFICES ASSUME NEW i \in Back(v), NEW j \in Back(v), i < j
               PROVE  \/ \E h \in Back(v) : h < j /\ v.plan[h].item = v.plan[j].item
                      \/ \A c, d \in Forth(w) :
                           w.plan[c].item = v.plan[i].item /\ w.plan[d].item = v.plan[j].item
                             => d < c
    BY <1>4, <1>14 DEF Against
  <2>1. CASE j \in Back(w) /\ j \in 1 .. n /\ v.plan[j] = w.plan[j]
    <3>a. i \in Int /\ j \in Int /\ j <= n /\ n \in Int
      <4>1. i \in Int /\ j \in Int
        BY <1>11
      <4> QED
        BY <1>6, <2>1, <4>1
    <3>b. ~(i > n)
      BY <3>a
    <3>1. i \in Back(w) /\ v.plan[i] = w.plan[i]
      BY <1>11, <3>b, Zenon
    <3>2. \A h \in Back(w) : h \in Back(v) /\ v.plan[h] = w.plan[h]
      BY <1>3, <1>4 DEF Extended, Back
    <3>3. \/ \E h \in Back(w) : h < j /\ w.plan[h].item = w.plan[j].item
          \/ \A c, d \in Forth(w) :
               w.plan[c].item = w.plan[i].item /\ w.plan[d].item = w.plan[j].item => d < c
      BY <1>2, <2>1, <3>1, Zenon DEF Against
    <3> QED
      BY <2>1, <3>1, <3>2, <3>3, Zenon
  <2>2. CASE j > n /\ Back(w) # {}
    <3>1. v.plan[j].item \in RetryItems(w)
      BY <1>1, <1>13, <2>2
    <3>2. PICK h \in Back(w) : w.plan[h].item = v.plan[j].item
      BY <3>1 DEF RetryItems, Back
    <3>3. h \in Back(v) /\ v.plan[h] = w.plan[h] /\ h \in 1 .. n
      BY <1>3, <1>4, <3>2 DEF Extended, Back, n
    <3> QED
      BY <1>6, <1>11, <2>2, <3>2, <3>3
  <2>3. CASE j > n /\ Back(w) = {}
    <3>1. i > n
      BY <1>11, <2>3
    <3>2. at(j) < at(i)
      BY <1>6, <1>16, <3>1
    <3>3. \A c, d \in Forth(w) :
            w.plan[c].item = v.plan[i].item /\ w.plan[d].item = v.plan[j].item
              => c = at(i) /\ d = at(j)
      BY <1>2, <1>13, <2>3, <3>1 DEF Once
    <3> QED
      BY <3>2, <3>3
  <2> QED
    BY <1>11, <2>1, <2>2, <2>3
<1> QED
  BY <1>17, <1>18, <1>19, <1>20, <1>21, <1>22 DEF Rounds

(***************************************************************************)
(* Whatever a transaction does to a live row, the rounds go on.            *)
(***************************************************************************)
LEMMA TurnRounds ==
  ASSUME NEW w, WellFormed(w), PlanInOrder(w), ~w.dry, Rounds(w), NEW v, Turn(w, v)
  PROVE  Rounds(v)
<1>1. CASE Stays(w, v)
  BY <1>1, SameRounds DEF Stays, Turn
<1>2. CASE Closes(w, v)
  BY <1>2, SameRounds DEF Closes, Turn
<1>3. CASE Queues(w, v)
  BY <1>3, QueuesRounds DEF Turn
<1>4. CASE \E items : TurnsBack(w, v, items)
  BY <1>4, TurnsBackRounds DEF Turn
<1> QED
  BY <1>1, <1>2, <1>3, <1>4 DEF Turn

-----------------------------------------------------------------------------
(* Every transaction is a turn.                                            *)

(* Rows over the same plan and children plan the same rollback. *)
LEMMA SamePlanning ==
  ASSUME NEW w, NEW v, v.kids = w.kids, v.plan = w.plan
  PROVE  /\ Back(v) = Back(w) /\ LastAt(v) = LastAt(w) /\ LiveKids(v) = LiveKids(w)
         /\ \A items : /\ ToUndo(v, items) = ToUndo(w, items)
                       /\ RollbackEntries(v, items) = RollbackEntries(w, items)
                       /\ NoRollbackItems(v, items) = NoRollbackItems(w, items)
         /\ \A d : RollbackFailed(v, d) = RollbackFailed(w, d)
         /\ RetryItems(v) = RetryItems(w)
<1>1. \A k : EntryOf(v, k) = EntryOf(w, k)
  BY SameReading
<1>2. /\ Back(v) = Back(w) /\ LastAt(v) = LastAt(w) /\ LiveKids(v) = LiveKids(w)
  BY DEF Back, LastAt, LiveKids
<1>3. \A phase : KidsOfPhase(v, phase) = KidsOfPhase(w, phase)
  BY <1>1 DEF KidsOfPhase
<1>4. ASSUME NEW items
      PROVE  /\ ToUndo(v, items) = ToUndo(w, items)
             /\ RollbackEntries(v, items) = RollbackEntries(w, items)
             /\ NoRollbackItems(v, items) = NoRollbackItems(w, items)
  <2>1. Touched(v, items) = Touched(w, items)
    BY SameTouched
  <2>2. \A k : NeedsEntry(v, k) = NeedsEntry(w, k)
    BY <1>1 DEF NeedsEntry, RollbackOf
  <2>3. ToUndo(v, items) = ToUndo(w, items)
    BY <2>1, <2>2 DEF ToUndo
  <2>4. RollbackOrder(v, items) = RollbackOrder(w, items)
    BY <2>3 DEF RollbackOrder, ToUndo
  <2>5. RollbackEntries(v, items) = RollbackEntries(w, items)
    BY <2>4, <1>1 DEF RollbackEntries
  <2>6. \A k : LacksRollback(v, k) = LacksRollback(w, k)
    BY <1>1 DEF LacksRollback, RollbackOf
  <2>7. NoRollbackItems(v, items) = NoRollbackItems(w, items)
    BY <2>1, <2>6, <1>1 DEF NoRollbackItems
  <2> QED
    BY <2>3, <2>5, <2>7
<1>5. \A d : RollbackKids(v, d) = RollbackKids(w, d)
  BY <1>1, <1>3 DEF RollbackKids
<1>6. \A d : RollbackFailed(v, d) = RollbackFailed(w, d)
  BY <1>5 DEF RollbackFailed
<1>7. RetryItems(v) = RetryItems(w)
  BY <1>5, <1>6 DEF RetryItems
<1> QED
  BY <1>2, <1>4, <1>6, <1>7

(* What is remembered of devices without a rollback. *)
LEMMA NoRollbackFields ==
  ASSUME NEW w \in Run
  PROVE  /\ \A status, code : CloseRun(w, status, code).noRollback = w.noRollback
         /\ \A p : QueueChild(w, p).noRollback = w.noRollback
         /\ \A k : MergeOutputs(w, k).noRollback = w.noRollback
         /\ \A code : SetCause(w, code).noRollback = {}
         /\ Reopened(w).noRollback = w.noRollback
         /\ \A items : /\ RecordRollback(w, items).noRollback
                            = w.noRollback \cup NoRollbackItems(w, items)
                       /\ RecordRollback(w, items).plan = w.plan \o RollbackEntries(w, items)
<1>1. \A status, code : CloseRun(w, status, code).noRollback = w.noRollback
  BY DEF CloseRun, Run
<1>2. \A p : QueueChild(w, p).noRollback = w.noRollback
  BY DEF QueueChild, Run
<1>3. \A k : MergeOutputs(w, k).noRollback = w.noRollback
  BY DEF MergeOutputs, Run
<1>4. \A code : SetCause(w, code).noRollback = {}
  BY DEF SetCause, Run
<1>5. Reopened(w).noRollback = w.noRollback
  BY DEF Reopened, Run
<1>6. \A items : /\ RecordRollback(w, items).noRollback
                      = w.noRollback \cup NoRollbackItems(w, items)
                 /\ RecordRollback(w, items).plan = w.plan \o RollbackEntries(w, items)
  BY DEF RecordRollback, Run
<1> QED
  BY <1>1, <1>2, <1>3, <1>4, <1>5, <1>6

(* A rollback has entries when there is something to undo. *)
LEMMA EntriesToUndo ==
  ASSUME NEW w, WellFormed(w), NEW items
  PROVE  /\ Len(w.plan) < Len(w.plan \o RollbackEntries(w, items)) <=> ToUndo(w, items) # {}
         /\ ToUndo(w, items) = {} => w.plan \o RollbackEntries(w, items) = w.plan
<1> DEFINE more == RollbackEntries(w, items)
<1>1. PICK order \in Seq(ToUndo(w, items)) :
        /\ Len(order) = Len(more)
        /\ \A k \in ToUndo(w, items) : \E i \in 1 .. Len(order) : order[i] = k
  BY RollbackPlanned
<1>2. more \in Seq(Entry) /\ w.plan \in Seq(Entry) /\ Len(w.plan) \in Nat /\ Len(more) \in Nat
  BY RollbackEntriesType, Lengths, LenProperties
<1>3. Len(order) \in Nat /\ \A i \in 1 .. Len(order) : order[i] \in ToUndo(w, items)
  BY <1>1, ElementOfSeq, LenProperties
<1> HIDE DEF more
<1>4. Len(w.plan \o more) = Len(w.plan) + Len(more)
  BY <1>2
<1>5. ToUndo(w, items) # {} => Len(more) > 0
  BY <1>1, <1>3
<1>6. Len(more) > 0 => ToUndo(w, items) # {}
  <2> SUFFICES ASSUME Len(more) > 0 PROVE ToUndo(w, items) # {}
    OBVIOUS
  <2>1. 1 \in 1 .. Len(order)
    BY <1>1, <1>3
  <2> QED
    BY <1>3, <2>1
<1>7. ToUndo(w, items) = {} => w.plan \o more = w.plan
  <2> SUFFICES ASSUME ToUndo(w, items) = {} PROVE w.plan \o more = w.plan
    OBVIOUS
  <2>1. Len(more) = 0
    BY <1>2, <1>6
  <2>2. more = <<>>
    BY <1>2, <2>1, EmptySeq
  <2> QED
    BY <1>2, <2>2
<1> QED
  BY <1>2, <1>4, <1>5, <1>6, <1>7 DEF more

(* Planning the first rollback of a run. *)
LEMMA PlannedTurn ==
  ASSUME NEW w, WellFormed(w), Base(w), ~w.dry, LiveKids(w) = {}, Back(w) = {},
         NEW c, WellFormed(c), Base(c), c.kids = w.kids, c.plan = w.plan, c.dry = w.dry,
         c.noRollback = {}, c.cause \in CauseCodes, c.code = c.cause, c.status \in InFlight,
         w.phase # NoPhase
  PROVE  Turn(w, CloseAfterRollbackPlanned(c, RecordRollback(c, Devices)))
<1> DEFINE p == RecordRollback(c, Devices)
           v == CloseAfterRollbackPlanned(c, p)
<1>1. /\ WellFormed(p) /\ p.kids = c.kids /\ p.status = c.status
  BY RecordRollbackWellFormed
<1>2. p.phase = c.phase /\ p.code = c.code /\ p.dry = c.dry
  BY RecordFields
<1>3. /\ ToUndo(c, Devices) = ToUndo(w, Devices)
      /\ RollbackEntries(c, Devices) = RollbackEntries(w, Devices)
      /\ NoRollbackItems(c, Devices) = NoRollbackItems(w, Devices)
  BY SamePlanning
<1>4. /\ p.noRollback = NoRollbackItems(w, Devices)
      /\ p.plan = w.plan \o RollbackEntries(w, Devices)
  <2>1. c \in Run
    BY Lengths
  <2>2. /\ p.noRollback = c.noRollback \cup NoRollbackItems(c, Devices)
        /\ p.plan = c.plan \o RollbackEntries(c, Devices)
    BY <2>1, NoRollbackFields
  <2> HIDE DEF p
  <2> QED
    BY <1>3, <2>2
<1>5. p \in Run
  BY <1>1, Lengths
<1> HIDE DEF p
<1>6. CASE ToUndo(w, Devices) # {}
  <2>1. Len(c.plan) < Len(p.plan)
    BY <1>4, <1>6, EntriesToUndo
  <2> DEFINE q == QueueChild(p, Len(w.plan) + 1)
  <2>2. v = [q EXCEPT !.phase = PhaseRollback, !.status = "RUNNING"]
    BY <2>1 DEF CloseAfterRollbackPlanned
  <2>4. /\ q.kids = Append(w.kids, NewJob(Len(w.plan) + 1)) /\ q.plan = p.plan
        /\ q.dry = w.dry /\ q.noRollback = p.noRollback
    BY <1>1, <1>2, <1>5, QueueChildFields, NoRollbackFields
  <2>5. /\ v.kids = q.kids /\ v.plan = q.plan /\ v.dry = q.dry
        /\ v.noRollback = q.noRollback /\ v.status = "RUNNING"
    BY <1>5, <2>2 DEF QueueChild, Run
  <2>6. TurnsBack(w, v, Devices)
    <3> HIDE DEF v, q
    <3> QED
      BY <1>4, <1>6, <2>4, <2>5 DEF TurnsBack, InFlight
  <2>7. Turn(w, v)
    <3> HIDE DEF v, q
    <3> QED
      BY <2>4, <2>5, <2>6 DEF Turn
  <2> QED
    BY <2>7 DEF p
<1>7. CASE ToUndo(w, Devices) = {}
  <2>1. p.plan = w.plan /\ ~(Len(c.plan) < Len(p.plan))
    BY <1>4, <1>7, EntriesToUndo
  <2>2. PICK status \in {"FAILED", "ROLLED_BACK"}, code \in {"ROLLBACK_INCOMPLETE", NoCode} :
          /\ v = CloseRun(p, status, code)
          /\ status = "ROLLED_BACK" => NoRollbackItems(w, Devices) = {}
    BY <1>3, <2>1 DEF CloseAfterRollbackPlanned
  <2>3. /\ v.kids = w.kids /\ v.plan = w.plan /\ v.phase = c.phase /\ v.dry = w.dry
        /\ v.status = status /\ v.noRollback = p.noRollback
    BY <1>1, <1>2, <1>5, <2>1, <2>2, CloseRunFields, NoRollbackFields
  <2>4. EndsAtOnce(w, v)
    BY <1>4, <1>7, <2>2, <2>3 DEF EndsAtOnce
  <2>5. Closes(w, v)
    <3> HIDE DEF v
    <3> QED
      BY <2>3, <2>4 DEF Closes, Terminal
  <2>6. Turn(w, v)
    <3> HIDE DEF v
    <3> QED
      BY <2>3, <2>5 DEF Turn
  <2> QED
    BY <2>6 DEF p
<1> QED
  BY <1>6, <1>7

(* A run in flight does not say that its rollback is incomplete. *)
LEMMA OpenNotIncomplete ==
  ASSUME NEW w, Lawful(w), w.status \in InFlight
  PROVE  w.code # "ROLLBACK_INCOMPLETE"
BY DEF Lawful, OpenLaw, ClosedLaw, IncompleteLaw, CauseCodes

(* Closing a run that never turned back. *)
LEMMA ForwardTurn ==
  ASSUME NEW w \in Run, LiveKids(w) = {}, Back(w) = {},
         NEW m \in Run, m.kids = w.kids, m.plan = w.plan, m.phase = w.phase, m.dry = w.dry,
         NEW status \in Terminal \ {"ROLLED_BACK"}, NEW code,
         Kept(m, code) # "ROLLBACK_INCOMPLETE"
  PROVE  Turn(w, CloseRun(m, status, code))
<1> DEFINE v == CloseRun(m, status, code)
<1>1. /\ v.kids = w.kids /\ v.plan = w.plan /\ v.phase = w.phase /\ v.dry = w.dry
      /\ v.status = status /\ v.code = Kept(m, code)
  BY CloseRunFields
<1> HIDE DEF v
<1>2. Closes(w, v)
  BY <1>1 DEF Closes, EndsForward
<1> QED
  BY <1>1, <1>2 DEF Turn, v

(* _enter_rollback, on a run that never turned back. *)
LEMMA EnterRollbackTurn ==
  ASSUME NEW w, WellFormed(w), ~w.dry, LiveKids(w) = {}, Back(w) = {}, w.phase # NoPhase,
         NEW m, WellFormed(m), Base(m), m.kids = w.kids, m.plan = w.plan, m.dry = w.dry,
         m.phase = w.phase, Base(w), m.status \in InFlight,
         NEW code \in CauseCodes, NEW cancelled
  PROVE  Turn(w, EnterRollback(m, code, cancelled))
<1> DEFINE c == SetCause(m, code)
<1>1. /\ WellFormed(c) /\ Base(c) /\ c.kids = w.kids /\ c.plan = w.plan /\ c.dry = w.dry
      /\ c.phase = w.phase /\ c.code = code /\ c.cause = code /\ c.status = m.status
  BY SetCauseFields
<1>2. m \in Run /\ c \in Run /\ w \in Run
  BY <1>1, Lengths
<1>3. c.noRollback = {}
  BY <1>2, NoRollbackFields
<1> HIDE DEF c
<1>4. CASE Touched(m, Devices) = {}
  <2>1. PICK status \in {"CANCELLED", "FAILED"} :
          EnterRollback(m, code, cancelled) = CloseRun(c, status, NoCode)
    BY <1>4 DEF EnterRollback, c
  <2>2. Kept(c, NoCode) # "ROLLBACK_INCOMPLETE"
    BY <1>1 DEF Kept, CauseCodes
  <2>3. status \in Terminal \ {"ROLLED_BACK"}
    BY DEF Terminal
  <2>4. Turn(w, CloseRun(c, status, NoCode))
    BY <1>1, <1>2, <2>2, <2>3, ForwardTurn
  <2> QED
    BY <2>1, <2>4
<1>5. CASE Touched(m, Devices) # {}
  <2>1. EnterRollback(m, code, cancelled) = CloseAfterRollbackPlanned(c, RecordRollback(c, Devices))
    BY <1>5 DEF EnterRollback, c
  <2>2. Turn(w, CloseAfterRollbackPlanned(c, RecordRollback(c, Devices)))
    BY <1>1, <1>3, PlannedTurn
  <2> QED
    BY <2>1, <2>2
<1> QED
  BY <1>4, <1>5

(* Going on to the next entry. *)
LEMMA QueueTurn ==
  ASSUME NEW w, WellFormed(w), NEW k \in 1 .. Len(w.kids), k = Len(w.kids),
         NEW m \in Run, m.kids = w.kids, m.plan = w.plan, m.dry = w.dry, m.code = w.code,
         m.noRollback = w.noRollback, PlanReaches(w, k)
  PROVE  Turn(w, QueueNext(m, k))
<1> DEFINE q == QueueChild(m, w.kids[k].position + 1)
           v == QueueNext(m, k)
<1>1. v = [q EXCEPT !.status = "RUNNING"]
  BY DEF QueueNext
<1>2. /\ q.kids = Append(w.kids, NewJob(LastAt(w) + 1)) /\ q.plan = w.plan
      /\ q.dry = w.dry /\ q.code = w.code /\ q.noRollback = w.noRollback
  BY QueueChildFields, NoRollbackFields DEF LastAt
<1>3. /\ v.kids = q.kids /\ v.plan = q.plan /\ v.dry = q.dry /\ v.code = q.code
      /\ v.noRollback = q.noRollback /\ v.status = "RUNNING"
  BY <1>1 DEF QueueChild, Run
<1> HIDE DEF q, v
<1>4. LastAt(w) + 1 \in 1 .. Len(w.plan) /\ w.kids # <<>>
  <2>1. Len(w.kids) # 0
    BY Lengths
  <2>2. w.kids # <<>>
    BY <2>1
  <2>3. LastAt(w) \in 1 .. Len(w.plan) /\ Len(w.plan) \in Nat
    BY <2>2, Positions
  <2> QED
    BY <2>2, <2>3 DEF PlanReaches, LastAt
<1>5. Queues(w, v)
  BY <1>2, <1>3, <1>4 DEF Queues, InFlight
<1> QED
  BY <1>2, <1>3, <1>5 DEF Turn, v

(* The end of a rollback. *)
LEMMA FinishRollbackTurn ==
  ASSUME NEW w \in Run, LiveKids(w) = {}, Owed(w), Back(w) # {} => LastAt(w) = Len(w.plan),
         NEW m \in Run, m.kids = w.kids, m.plan = w.plan, m.dry = w.dry,
         m.phase = w.phase \/ w.phase # NoPhase, w.noRollback \subseteq m.noRollback
  PROVE  Turn(w, FinishRollback(m))
<1> DEFINE v == FinishRollback(m)
<1>1. PICK status \in {"FAILED", "ROLLED_BACK"}, code \in {"ROLLBACK_INCOMPLETE", NoCode} :
        /\ v = CloseRun(m, status, code)
        /\ status = "ROLLED_BACK" =>
             m.noRollback = {} /\ \A d \in Devices : ~RollbackFailed(m, d)
  BY DEF FinishRollback
<1>2. /\ v.kids = w.kids /\ v.plan = w.plan /\ v.phase = m.phase /\ v.dry = w.dry
      /\ v.status = status /\ v.noRollback = m.noRollback
  BY <1>1, CloseRunFields, NoRollbackFields
<1> HIDE DEF v
<1>3. \A d : RollbackFailed(m, d) = RollbackFailed(w, d)
  BY SamePlanning
<1>4. EndsBack(w, v)
  BY <1>1, <1>2, <1>3 DEF EndsBack
<1>5. Closes(w, v)
  BY <1>2, <1>4 DEF Closes, Terminal
<1> QED
  BY <1>2, <1>5 DEF Turn, v

(* Where an advance that is not a repetition finds the run. *)
LEMMA AdvanceFinds ==
  ASSUME NEW w, WellFormed(w), Lawful(w), NEW k \in 1 .. Len(w.kids), ~AdvanceIsNoop(w, k)
  PROVE  /\ k = Len(w.kids) /\ LiveKids(w) = {} /\ w.status \in InFlight
         /\ w.kids # <<>> /\ LastAt(w) = w.kids[k].position
         /\ w.kids[k].status \in Terminal \ {"ROLLED_BACK"}
<1>1. Len(w.kids) \in Nat /\ w.kids[k] \in Job
  BY Lengths, KidType
<1>2. ~IsLive(w.kids[k]) /\ w.status \in InFlight
  BY DEF AdvanceIsNoop
<1>3. Len(w.kids) # 0
  BY <1>1
<1>4. w.kids # <<>>
  BY <1>3
<1>5. k = Len(w.kids)
  <2>1. SUFFICES ASSUME k < Len(w.kids) PROVE FALSE
    BY <1>1
  <2>2. Len(w.kids) \in 1 .. Len(w.kids)
    BY <1>4, Positions
  <2>3. w.kids[k].position < w.kids[Len(w.kids)].position
    BY <2>1, <2>2, Positions
  <2>4. w.kids[Len(w.kids)].position > w.kids[k].position
    BY <2>2, <2>3, Positions
  <2> QED
    BY <2>2, <2>4 DEF AdvanceIsNoop
<1>6. LiveKids(w) = {}
  BY <1>2, <1>5 DEF WellFormed, OneLive, LiveKids
<1>7. w.kids[k].status # "ROLLED_BACK"
  BY DEF Lawful, Base, JobOutcomes
<1>8. w.kids[k].status \in InFlight \cup Terminal
  BY <1>1 DEF Job
<1> QED
  BY <1>2, <1>4, <1>5, <1>6, <1>7, <1>8 DEF IsLive, LastAt

(***************************************************************************)
(* advance_run, whichever child it is called for.                          *)
(***************************************************************************)
LEMMA AdvanceTurn ==
  ASSUME NEW w, WellFormed(w), Lawful(w), ~w.dry, Turned(w), NEW k \in 1 .. Len(w.kids)
  PROVE  Turn(w, AdvanceRun(w, k).row)
<1> DEFINE phase == EntryOf(w, k).phase
           m == MergeOutputs(w, k)
<1>1. CASE AdvanceIsNoop(w, k)
  <2>1. AdvanceRun(w, k).row = w
    BY <1>1 DEF AdvanceRun, Left
  <2> QED
    BY <2>1 DEF Turn, Stays
<1>2. CASE ~AdvanceIsNoop(w, k)
  <2>1. /\ k = Len(w.kids) /\ LiveKids(w) = {} /\ w.status \in InFlight
        /\ w.kids # <<>> /\ LastAt(w) = w.kids[k].position
        /\ w.kids[k].status \in Terminal \ {"ROLLED_BACK"}
    BY <1>2, AdvanceFinds
  <2>2. w.code # "ROLLBACK_INCOMPLETE"
    BY <2>1, OpenNotIncomplete
  <2>3. Base(w) /\ w \in Run
    BY Lengths DEF Lawful
  <2>4. /\ m.kids = w.kids /\ m.plan = w.plan /\ m.phase = w.phase
        /\ m.status = w.status /\ m.code = w.code /\ m.dry = w.dry /\ Base(m)
    BY <2>1, <2>3, MergeFields
  <2>5. WellFormed(m) /\ m \in Run
    BY MergeOutputsWellFormed, Lengths
  <2>6. m.noRollback = w.noRollback
    BY <2>3, NoRollbackFields
  <2>7. ~PlanReaches(w, k) => LastAt(w) = Len(w.plan)
    BY <2>1, <2>3, StandsAt
  <2>8. phase # PhaseRollback => Back(w) = {}
    BY <2>1 DEF Turned, Back, EntryOf
  <2>9. phase = PhaseRollback => Owed(w)
    BY <2>1, Positions DEF Owed, Back, EntryOf
  <2>10. Kept(w, NoCode) # "ROLLBACK_INCOMPLETE" /\ Kept(m, NoCode) # "ROLLBACK_INCOMPLETE"
    BY <2>2, <2>4 DEF Kept
  <2>11. PhaseRollback # NoPhase
    BY DEF PhaseRollback, NoPhase
  <2> HIDE DEF m, phase
  <2>12. ASSUME NEW u \in {w, m}, Back(w) = {} PROVE Turn(w, CloseRun(u, "SUCCEEDED", NoCode))
    BY <2>1, <2>3, <2>4, <2>5, <2>10, <2>12, ForwardTurn DEF Terminal
  <2>13. ASSUME PlanReaches(w, k), NEW u \in {w, m} PROVE Turn(w, QueueNext(u, k))
    BY <2>1, <2>3, <2>4, <2>5, <2>6, <2>13, QueueTurn
  <2>14. CASE phase = NoPhase
    <3>1. AdvanceRun(w, k) = AdvanceLegacy(w, k)
      BY <1>2, <2>14 DEF AdvanceRun, phase
    <3>2. Back(w) = {}
      BY <2>8, <2>11, <2>14
    <3>3. CASE w.kids[k].status # "SUCCEEDED"
      <4>1. AdvanceRun(w, k).row = CloseRun(w, w.kids[k].status, NoCode)
        BY <3>1, <3>3 DEF AdvanceLegacy, Left
      <4>2. Turn(w, CloseRun(w, w.kids[k].status, NoCode))
        BY <2>1, <2>3, <2>10, <3>2, ForwardTurn
      <4> QED
        BY <4>1, <4>2
    <3>4. CASE w.kids[k].status = "SUCCEEDED" /\ PlanReaches(w, k)
      <4>1. AdvanceRun(w, k).row = QueueNext(w, k)
        BY <3>1, <3>4 DEF AdvanceLegacy, Left
      <4> QED
        BY <2>13, <3>4, <4>1
    <3>5. CASE w.kids[k].status = "SUCCEEDED" /\ ~PlanReaches(w, k)
      <4>1. AdvanceRun(w, k).row = CloseRun(w, "SUCCEEDED", NoCode)
        BY <3>1, <3>5 DEF AdvanceLegacy, Left, Succeed
      <4> QED
        BY <2>12, <3>2, <4>1
    <3> QED
      BY <3>3, <3>4, <3>5
  <2>15. CASE phase # NoPhase /\ MovesOn(w, k) /\ PlanReaches(w, k)
    <3>1. AdvanceRun(w, k).row = QueueNext(m, k)
      BY <1>2, <2>15 DEF AdvanceRun, Left, phase, m
    <3> QED
      BY <2>13, <2>15, <3>1
  <2>16. CASE phase # NoPhase /\ MovesOn(w, k) /\ ~PlanReaches(w, k)
    <3>1. AdvanceRun(w, k) = FinishRun(m, phase)
      BY <1>2, <2>16 DEF AdvanceRun, phase, m
    <3>2. CASE phase = PhaseRollback
      <4>1. AdvanceRun(w, k).row = FinishRollback(m)
        BY <2>4, <3>1, <3>2 DEF FinishRun, Left
      <4>2. Turn(w, FinishRollback(m))
        BY <2>1, <2>3, <2>4, <2>5, <2>6, <2>7, <2>9, <2>16, <3>2, FinishRollbackTurn
      <4> QED
        BY <4>1, <4>2
    <3>3. CASE phase # PhaseRollback
      <4>1. AdvanceRun(w, k).row = CloseRun(m, "SUCCEEDED", NoCode)
        BY <2>4, <3>1, <3>3 DEF FinishRun, Succeed
      <4> QED
        BY <2>8, <2>12, <3>3, <4>1
    <3> QED
      BY <3>2, <3>3
  <2>17. CASE phase # NoPhase /\ ~MovesOn(w, k)
    <3> DEFINE cancelled == w.kids[k].status = "CANCELLED"
    <3>1. AdvanceRun(w, k).row = ForwardFailure(m, phase, cancelled)
      BY <1>2, <2>17 DEF AdvanceRun, Left, phase, m
    <3>2. Back(w) = {}
      BY <2>8, <2>17 DEF MovesOn, phase
    <3>3. CASE phase = PhasePreconditions
      <4>1. PICK status \in {"CANCELLED", "FAILED"}, code \in {"CANCELLED", "PRECONDITION_FAILED"} :
              ForwardFailure(m, phase, cancelled) = CloseRun(m, status, code)
        BY <3>3 DEF ForwardFailure
      <4>2. Kept(m, code) # "ROLLBACK_INCOMPLETE" /\ status \in Terminal \ {"ROLLED_BACK"}
        BY DEF Kept, NoCode, Terminal
      <4>3. Turn(w, CloseRun(m, status, code))
        BY <2>1, <2>3, <2>4, <2>5, <3>2, <4>2, ForwardTurn
      <4> QED
        BY <3>1, <4>1, <4>3
    <3>4. CASE phase # PhasePreconditions
      <4>1. PICK code \in {"CANCELLED", "CONFIGURATION_FAILED", "VERIFICATION_FAILED"} :
              ForwardFailure(m, phase, cancelled) = EnterRollback(m, code, cancelled)
        BY <3>4 DEF ForwardFailure
      <4>2. code \in CauseCodes
        BY DEF CauseCodes
      <4>3. w.phase # NoPhase
        BY <2>1, <2>17 DEF Lawful, OpenLaw, phase
      <4>4. Turn(w, EnterRollback(m, code, cancelled))
        BY <2>1, <2>3, <2>4, <2>5, <3>2, <4>2, <4>3, EnterRollbackTurn
      <4> QED
        BY <3>1, <4>1, <4>4
    <3> QED
      BY <3>3, <3>4
  <2> QED
    BY <2>14, <2>15, <2>16, <2>17
<1> QED
  BY <1>1, <1>2

(***************************************************************************)
(* The repair of a stranded run, recent or expired.                        *)
(***************************************************************************)
LEMMA RepairTurn ==
  ASSUME NEW w, WellFormed(w), Lawful(w), ~w.dry, Turned(w), Begun(w), Stranded(w)
  PROVE  Turn(w, RepairFresh(w).row) /\ Turn(w, RepairExpired(w).row)
<1>1. w.status \in InFlight /\ LiveKids(w) = {} /\ w \in Run /\ Base(w)
  BY Lengths DEF Stranded, Lawful
<1>2. Kept(w, NoCode) # "ROLLBACK_INCOMPLETE" /\ Kept(w, "STRANDED_RUN_EXPIRED") # "ROLLBACK_INCOMPLETE"
  BY <1>1, OpenNotIncomplete DEF Kept
<1>3. ASSUME w.kids # <<>> PROVE Turn(w, AdvanceLast(w).row)
  BY <1>3, AdvanceTurn, Positions DEF AdvanceLast
<1>4. w.phase # PhaseRollback => Back(w) = {}
  <2>1. w.kids # <<>> => w.phase = w.plan[LastAt(w)].phase
    BY <1>1 DEF Lawful, OpenLaw, EntryOf, LastAt
  <2> QED
    BY <2>1 DEF Turned, Back
<1>5. /\ PhaseRollback # NoPhase /\ PhaseConfiguration # PhaseRollback
      /\ PhaseVerification # PhaseRollback
      /\ PhaseConfiguration # NoPhase /\ PhaseVerification # NoPhase
  BY DEF PhaseRollback, NoPhase, PhaseConfiguration, PhaseVerification
<1>6. Turn(w, RepairFresh(w).row)
  <2>1. CASE w.kids # <<>>
    BY <1>3, <2>1 DEF RepairFresh
  <2>2. CASE w.kids = <<>>
    <3>1. RepairFresh(w).row = CloseRun(w, "SUCCEEDED", NoCode)
      BY <2>2 DEF RepairFresh, Begun, Left
    <3>2. Back(w) = {}
      BY <2>2 DEF Turned
    <3>3. Turn(w, CloseRun(w, "SUCCEEDED", NoCode))
      BY <1>1, <1>2, <3>2, ForwardTurn DEF Terminal
    <3> QED
      BY <3>1, <3>3
  <2> QED
    BY <2>1, <2>2
<1>7. Turn(w, RepairExpired(w).row)
  <2>1. CASE w.phase = PhaseRollback
    <3>1. w.kids # <<>>
      BY <1>5, <2>1 DEF Turned
    <3>2. RepairExpired(w) = AdvanceLast(w)
      BY <2>1, <3>1 DEF RepairExpired
    <3> QED
      BY <1>3, <3>1, <3>2
  <2>2. CASE w.phase # PhaseRollback /\ LastIsFinal(w)
    <3>1. RepairExpired(w) = AdvanceLast(w)
      BY <2>2 DEF RepairExpired
    <3> QED
      BY <1>3, <2>2, <3>1 DEF LastIsFinal
  <2>3. CASE w.phase \in {PhaseConfiguration, PhaseVerification} /\ ~LastIsFinal(w)
    <3>1. RepairExpired(w).row = EnterRollback(w, "STRANDED_RUN_EXPIRED", FALSE)
      BY <1>5, <2>3 DEF RepairExpired, Left
    <3>2. "STRANDED_RUN_EXPIRED" \in CauseCodes /\ Back(w) = {}
      BY <1>4, <1>5, <2>3 DEF CauseCodes
    <3>3. Turn(w, EnterRollback(w, "STRANDED_RUN_EXPIRED", FALSE))
      BY <1>1, <1>5, <2>3, <3>2, EnterRollbackTurn
    <3> QED
      BY <3>1, <3>3
  <2>4. CASE w.phase \notin {PhaseRollback, PhaseConfiguration, PhaseVerification} /\ ~LastIsFinal(w)
    <3>1. RepairExpired(w).row = CloseRun(w, "FAILED", "STRANDED_RUN_EXPIRED")
      BY <2>4 DEF RepairExpired, Left
    <3>2. Back(w) = {}
      BY <1>4, <2>4
    <3>3. Turn(w, CloseRun(w, "FAILED", "STRANDED_RUN_EXPIRED"))
      BY <1>1, <1>2, <3>2, ForwardTurn DEF Terminal
    <3> QED
      BY <3>1, <3>3
  <2> QED
    BY <2>1, <2>2, <2>3, <2>4
<1> QED
  BY <1>6, <1>7

(***************************************************************************)
(* revert_run and retry_rollback.                                          *)
(***************************************************************************)
LEMMA RevertedTurn ==
  ASSUME NEW w, WellFormed(w), Lawful(w), ~w.dry, w.status = "SUCCEEDED", w.phase # NoPhase
  PROVE  Turn(w, Reverted(w))
<1> DEFINE s == SetCause(w, "REVERTED")
           c == Reopened(s)
<1>1. Base(w) /\ ~Returning(w)
  BY DEF Lawful, ClosedLaw, SucceededLaw
<1>2. Back(w) = {}
  BY <1>1 DEF Returning, Back
<1>3. LiveKids(w) = {}
  BY DEF WellFormed, OneLive, Terminal
<1>4. "REVERTED" \in CauseCodes
  BY DEF CauseCodes
<1>5. /\ WellFormed(s) /\ Base(s) /\ s.kids = w.kids /\ s.plan = w.plan /\ s.phase = w.phase
      /\ s.code = "REVERTED" /\ s.cause = "REVERTED" /\ s.dry = w.dry /\ LiveKids(s) = {}
  BY <1>1, <1>3, <1>4, SetCauseFields
<1>6. s.noRollback = {} /\ s \in Run
  BY <1>5, Lengths, NoRollbackFields
<1> HIDE DEF s
<1>7. /\ WellFormed(c) /\ Base(c) /\ c.kids = w.kids /\ c.plan = w.plan
      /\ c.code = c.cause /\ c.cause \in CauseCodes /\ c.dry = w.dry /\ c.status \in InFlight
  BY <1>4, <1>5, ReopenedFields
<1>8. c.noRollback = {}
  BY <1>6, NoRollbackFields
<1>9. Reverted(w) = CloseAfterRollbackPlanned(c, RecordRollback(c, Devices))
  BY DEF Reverted, s
<1> HIDE DEF c
<1>10. Turn(w, CloseAfterRollbackPlanned(c, RecordRollback(c, Devices)))
  BY <1>1, <1>2, <1>3, <1>7, <1>8, PlannedTurn
<1> QED
  BY <1>9, <1>10

LEMMA RetriedTurn ==
  ASSUME NEW w, WellFormed(w), Lawful(w), AtEnd(w), w.status = "FAILED",
         w.code = "ROLLBACK_INCOMPLETE", w.phase # NoPhase
  PROVE  Turn(w, Retried(w))
<1> DEFINE o == Reopened(w)
           c == [o EXCEPT !.code = IF w.cause = NoCode THEN @ ELSE w.cause]
           items == RetryItems(w)
           p == RecordRollback(c, items)
           v == Retried(w)
<1>1. /\ Base(w) /\ ~w.dry /\ w.cause \in CauseCodes /\ w.status \in Terminal
      /\ LiveKids(w) = {} /\ w \in Run
  BY Lengths DEF Lawful, ClosedLaw, IncompleteLaw, WellFormed, OneLive, Terminal
<1>2. Owed(w)
  BY DEF Owed
<1>3. /\ WellFormed(o) /\ o.kids = w.kids /\ o.plan = w.plan /\ o.dry = w.dry /\ Base(o)
      /\ o.status \in InFlight /\ o.cause = w.cause /\ o.outputs = w.outputs /\ o.phase = PhaseRollback
      /\ LiveKids(o) = {}
  BY <1>1, ReopenedFields
<1>4. o.noRollback = w.noRollback /\ o \in Run
  BY <1>1, <1>3, Lengths, NoRollbackFields
<1> HIDE DEF o
<1>5. /\ c \in Run /\ c.kids = w.kids /\ c.plan = w.plan /\ c.dry = w.dry /\ c.phase = o.phase
      /\ c.status = o.status /\ c.cause = w.cause /\ c.outputs = o.outputs
      /\ c.noRollback = w.noRollback /\ c.code = w.cause
  <2>1. w.cause # NoCode /\ w.cause \in Codes
    BY <1>1 DEF CauseCodes, NoCode, Codes
  <2>2. c = [o EXCEPT !.code = w.cause]
    BY <2>1
  <2> QED
    BY <1>3, <1>4, <2>1, <2>2 DEF Run
<1>6. v = IF Len(w.plan) < Len(p.plan) THEN QueueChild(p, Len(w.plan) + 1) ELSE FinishRollback(p)
  BY DEF Retried, o
<1> HIDE DEF c, v
<1>7. WellFormed(c)
  <2>1. c.kids = o.kids /\ c.plan = o.plan
    BY <1>3, <1>5
  <2> QED
    BY <1>3, <1>5, <2>1, SameChildren
<1>8. Base(c)
  BY <1>1, <1>3, <1>5, SameBase
<1> HIDE DEF items
<1>9. /\ p.kids = w.kids /\ p.phase = c.phase /\ p.status = c.status /\ p.dry = w.dry
  BY <1>1, <1>5, <1>7, <1>8, RecordFields
<1>10. WellFormed(p) /\ p \in Run
  BY <1>7, RecordRollbackWellFormed, Lengths
<1>11. /\ p.noRollback = w.noRollback \cup NoRollbackItems(c, items)
       /\ p.plan = w.plan \o RollbackEntries(c, items)
  <2>1. /\ p.noRollback = c.noRollback \cup NoRollbackItems(c, items)
        /\ p.plan = c.plan \o RollbackEntries(c, items)
    BY <1>5, NoRollbackFields
  <2> HIDE DEF p
  <2> QED
    BY <1>5, <2>1
<1>12. /\ RollbackEntries(c, items) = RollbackEntries(w, items)
       /\ NoRollbackItems(c, items) = NoRollbackItems(w, items)
  BY <1>5, SamePlanning
<1> HIDE DEF p
<1>13. p.plan = w.plan \o RollbackEntries(w, items)
  BY <1>11, <1>12
<1>14. CASE ToUndo(w, items) # {}
  <2>1. Len(w.plan) < Len(p.plan)
    BY <1>13, <1>14, EntriesToUndo
  <2>2. /\ v.kids = Append(w.kids, NewJob(Len(w.plan) + 1)) /\ v.plan = p.plan
        /\ v.dry = w.dry /\ v.noRollback = p.noRollback /\ v.status = o.status
    BY <1>5, <1>6, <1>9, <1>10, <2>1, QueueChildFields, NoRollbackFields
  <2>3. TurnsBack(w, v, items)
    BY <1>1, <1>2, <1>3, <1>11, <1>12, <1>13, <1>14, <2>2 DEF TurnsBack, items
  <2> QED
    BY <2>2, <2>3 DEF Turn, v
<1>15. CASE ToUndo(w, items) = {}
  <2>1. p.plan = w.plan /\ ~(Len(w.plan) < Len(p.plan))
    BY <1>13, <1>15, EntriesToUndo
  <2>2. v = FinishRollback(p)
    BY <1>6, <2>1
  <2>3. Turn(w, FinishRollback(p))
    BY <1>1, <1>2, <1>9, <1>10, <1>11, <2>1, FinishRollbackTurn DEF AtEnd
  <2> QED
    BY <2>2, <2>3 DEF v
<1> QED
  BY <1>14, <1>15

-----------------------------------------------------------------------------
(* New runs.                                                               *)

(* At most one configuration entry for each device. *)
Single(s) ==
  \A i, j \in 1 .. Len(s) :
    /\ s[i].phase = PhaseConfiguration /\ s[j].phase = PhaseConfiguration
    /\ s[i].item = s[j].item
    => i = j

Free(s) == \A i \in 1 .. Len(s) : s[i].phase # PhaseConfiguration

LEMMA SingleConcat ==
  ASSUME NEW s \in Seq(Entry), NEW t \in Seq(Entry),
         (Single(s) /\ Free(t)) \/ (Free(s) /\ Single(t))
  PROVE  Single(s \o t)
<1> DEFINE u == s \o t
           m == Len(s)
           n == Len(t)
<1>1. m \in Nat /\ n \in Nat
  BY LenProperties
<1>2. /\ Len(u) = m + n
      /\ \A i \in 1 .. (m + n) : u[i] = IF i <= m THEN s[i] ELSE t[i - m]
  BY ConcatProperties
<1> HIDE DEF u, m, n
<1>3. ASSUME NEW i \in 1 .. (m + n)
      PROVE  \/ i \in 1 .. m /\ u[i] = s[i]
             \/ i - m \in 1 .. n /\ u[i] = t[i - m] /\ i \notin 1 .. m
  BY <1>1, <1>2
<1>4. CASE Single(s) /\ Free(t)
  <2>1. \A i \in 1 .. (m + n) : u[i].phase = PhaseConfiguration => i \in 1 .. m /\ u[i] = s[i]
    BY <1>3, <1>4 DEF Free, n
  <2> QED
    BY <1>2, <1>4, <2>1 DEF Single, m, u
<1>5. CASE Free(s) /\ Single(t)
  <2>1. \A i \in 1 .. (m + n) : u[i].phase = PhaseConfiguration => i - m \in 1 .. n /\ u[i] = t[i - m]
    BY <1>3, <1>5 DEF Free, m
  <2>2. ASSUME NEW i \in 1 .. (m + n), NEW j \in 1 .. (m + n),
               u[i].phase = PhaseConfiguration, u[j].phase = PhaseConfiguration,
               u[i].item = u[j].item
        PROVE  i = j
    <3> DEFINE a == i - m
               b == j - m
    <3>1. a \in 1 .. n /\ b \in 1 .. n /\ u[i] = t[a] /\ u[j] = t[b]
      BY <2>1, <2>2
    <3> HIDE DEF a, b
    <3>2. a = b
      BY <1>5, <2>2, <3>1 DEF Single, n
    <3> QED
      BY <1>1, <3>2 DEF a, b
  <2> QED
    BY <1>2, <2>2 DEF Single, u
<1> QED
  BY <1>4, <1>5

(* A phase of a plan over distinct devices. *)
LEMMA PhaseEntriesSingle ==
  ASSUME NEW ordered \in Seq(Devices),
         \A i, j \in 1 .. Len(ordered) : ordered[i] = ordered[j] => i = j,
         NEW versions \in [Devices -> Versions], NEW phase \in Phases, NEW leaf, NEW bringUp
  PROVE  LET s == PhaseEntries(ordered, versions, phase, leaf, bringUp)
         IN  s \in Seq(Entry) /\ Single(s) /\ (phase # PhaseConfiguration => Free(s))
<1> DEFINE entry == [i \in 1 .. Len(ordered) |->
             LET d == ordered[i]
             IN  PlanEntry(d, versions[d], phase,
                   /\ phase = PhasePreconditions
                   /\ NeedsProbe(Definition[d][versions[d]], bringUp /\ d = leaf))]
           I == {i \in 1 .. Len(ordered) : JobSteps(entry[i]) # <<>>}
           kept == Ascending(I)
           s == PhaseEntries(ordered, versions, phase, leaf, bringUp)
<1>1. \A i \in 1 .. Len(ordered) : entry[i].item = ordered[i] /\ entry[i].phase = phase
  BY DEF PlanEntry
<1>2. Len(ordered) \in Nat
  BY LenProperties
<1>3. I \in SUBSET (1 .. Len(ordered))
  OBVIOUS
<1>4. s = [k \in 1 .. Len(kept) |-> entry[kept[k]]]
  BY DEF PhaseEntries
<1> HIDE DEF entry, I
<1>5. /\ kept \in Seq(I)
      /\ \A i, j \in 1 .. Len(kept) : i < j => kept[i] < kept[j]
  BY <1>2, <1>3, AscendingSorts
<1>6. s \in Seq(Entry)
  BY PhaseEntriesType
<1> HIDE DEF kept, s
<1>7. Len(kept) \in Nat /\ \A k \in 1 .. Len(kept) : kept[k] \in 1 .. Len(ordered)
  BY <1>3, <1>5, ElementOfSeq, LenProperties
<1>8. 1 .. Len(s) = 1 .. Len(kept)
  BY <1>4, <1>6, LenProperties
<1>9. \A k \in 1 .. Len(s) : s[k].phase = phase /\ s[k].item = ordered[kept[k]]
  <2>1. SUFFICES ASSUME NEW k \in 1 .. Len(s)
                 PROVE  s[k].phase = phase /\ s[k].item = ordered[kept[k]]
    OBVIOUS
  <2>2. k \in 1 .. Len(kept) /\ kept[k] \in 1 .. Len(ordered) /\ s[k] = entry[kept[k]]
    BY <1>4, <1>7, <1>8
  <2> QED
    BY <1>1, <2>2
<1>10. ASSUME NEW i \in 1 .. Len(s), NEW j \in 1 .. Len(s), s[i].item = s[j].item
       PROVE  i = j
  <2>1. i \in 1 .. Len(kept) /\ j \in 1 .. Len(kept)
    BY <1>8, <1>10
  <2>2. kept[i] \in 1 .. Len(ordered) /\ kept[j] \in 1 .. Len(ordered)
    BY <1>7, <2>1
  <2>3. kept[i] = kept[j]
    BY <1>9, <1>10, <2>2
  <2>4. (i < j => kept[i] < kept[j]) /\ (j < i => kept[j] < kept[i])
    BY <1>5, <2>1
  <2>5. kept[i] \in Int /\ i \in Int /\ j \in Int
    BY <1>2, <1>7, <2>1, <2>2
  <2> QED
    BY <2>3, <2>4, <2>5
<1> QED
  BY <1>6, <1>9, <1>10 DEF Single, Free, s

(***************************************************************************)
(* A live plan configures each device once: paths are simple.              *)
(***************************************************************************)
LEMMA NewPlanSingle ==
  ASSUME NEW path \in Seq(Devices), NEW purpose, NEW versions \in [Devices -> Versions],
         \A i, j \in 1 .. Len(path) : path[i] = path[j] => i = j
  PROVE  Single(NewPlan(path, purpose, FALSE, versions))
<1> DEFINE ordered == OrderForPurpose(path, purpose)
           bringUp == purpose \notin TeardownPurposes
           part(phase) == PhaseEntries(ordered, versions, phase, path[1], bringUp)
<1>1. /\ ordered \in Seq(Devices)
      /\ \A i, j \in 1 .. Len(ordered) : ordered[i] = ordered[j] => i = j
  <2>1. CASE purpose \in TopDownPurposes
    <3> DEFINE b == Backwards(path)
    <3>1. /\ b \in Seq(Devices) /\ Len(b) = Len(path) /\ Len(path) \in Nat
          /\ \A i \in 1 .. Len(path) : b[i] = path[Len(path) + 1 - i]
                                       /\ Len(path) + 1 - i \in 1 .. Len(path)
      BY BackwardsReverses
    <3> HIDE DEF b
    <3>2. ASSUME NEW i \in 1 .. Len(path), NEW j \in 1 .. Len(path), b[i] = b[j]
          PROVE  i = j
      <4> DEFINE x == Len(path) + 1 - i
                 y == Len(path) + 1 - j
      <4>1. x \in 1 .. Len(path) /\ y \in 1 .. Len(path) /\ path[x] = path[y]
        BY <3>1, <3>2
      <4> HIDE DEF x, y
      <4>2. x = y
        BY <4>1
      <4> QED
        BY <3>1, <4>2 DEF x, y
    <3>3. ordered = b
      BY <2>1 DEF OrderForPurpose, b
    <3> HIDE DEF ordered
    <3> QED
      BY <3>1, <3>2, <3>3
  <2>2. CASE purpose \notin TopDownPurposes
    BY <2>2 DEF OrderForPurpose
  <2> QED
    BY <2>1, <2>2
<1>2. NewPlan(path, purpose, FALSE, versions) =
        part(PhasePreconditions) \o part(PhaseConfiguration) \o part(PhaseVerification) \o <<>>
  BY DEF NewPlan
<1> HIDE DEF ordered
<1>3. \A phase \in Phases : /\ part(phase) \in Seq(Entry) /\ Single(part(phase))
                            /\ phase # PhaseConfiguration => Free(part(phase))
  BY <1>1, PhaseEntriesSingle
<1> HIDE DEF part
<1> DEFINE p == part(PhasePreconditions)
           c == part(PhaseConfiguration)
           v == part(PhaseVerification)
<1>4. /\ p \in Seq(Entry) /\ c \in Seq(Entry) /\ v \in Seq(Entry)
      /\ Free(p) /\ Single(c) /\ Free(v)
  <2>1. /\ {PhasePreconditions, PhaseConfiguration, PhaseVerification} \subseteq Phases
        /\ PhasePreconditions # PhaseConfiguration /\ PhaseVerification # PhaseConfiguration
    BY DEF Phases, PhasePreconditions, PhaseConfiguration, PhaseVerification
  <2> QED
    BY <1>3, <2>1
<1> HIDE DEF p, c, v
<1> DEFINE pc == p \o c
           pcv == pc \o v
<1>5. pc \in Seq(Entry) /\ Single(pc)
  BY <1>4, SingleConcat, ConcatProperties
<1> HIDE DEF pc
<1>6. pcv \in Seq(Entry) /\ Single(pcv)
  <2>1. pc \o v \in Seq(Entry)
    BY <1>4, <1>5, ConcatProperties
  <2>2. (Single(pc) /\ Free(v)) \/ (Free(pc) /\ Single(v))
    BY <1>4, <1>5
  <2>3. Single(pc \o v)
    BY <1>4, <1>5, <2>2, SingleConcat, Zenon
  <2> QED
    BY <2>1, <2>3
<1> HIDE DEF pcv
<1>7. pcv \o <<>> = pcv
  BY <1>6
<1> QED
  BY <1>2, <1>6, <1>7 DEF p, c, v, pc, pcv

(* A row as it was opened. *)
LEMMA OpenedRounds ==
  ASSUME NEW w, Lawful(w), w.cause = NoCode, ~w.dry => Single(w.plan),
         w.kids = <<>> => w.phase = NoPhase
  PROVE  Rounds(w)
<1>1. ~Returning(w)
  <2>1. w.cause \notin CauseCodes
    BY DEF CauseCodes, NoCode
  <2>2. CauseSet(w)
    BY DEF Lawful, Base
  <2> QED
    BY <2>1, <2>2 DEF CauseSet, Returning
<1>2. ~w.dry => Back(w) = {}
  BY <1>1 DEF Returning, Back
<1>3. ~w.dry => Once(w)
  BY DEF Once, Forth, Single
<1> QED
  BY <1>2, <1>3 DEF Rounds, Turned, AtEnd, Tried, Retries, Against

-----------------------------------------------------------------------------
(* The steps of the system, seen from the rows.                            *)

(* Nothing but the row of run r changes, and it remains the same run. *)
OnlyRun(r) ==
  /\ Len(runs') = Len(runs)
  /\ \A q \in RunIds \ {r} : runs'[q] = runs[q]
  /\ runs'[r].dry = runs[r].dry /\ runs'[r].service = runs[r].service

(* A step of a job of run r. *)
JobTurns(r, k, job) ==
  /\ Recorded(EntryOf(runs[r], k), runs[r].kids[k], job)
  /\ \A a \in applied' : a \in applied \/ Admits(r, k, job, a)
  /\ Does(r, k, job)
  /\ runs[r].status \in InFlight
  /\ ~runs[r].dry => Turn([runs[r] EXCEPT !.kids[k] = job], runs'[r])

(* The repair, a revert or a retry of run r. *)
RunTurns(r) ==
  /\ applied' = applied
  /\ ~runs[r].dry => Turn(runs[r], runs'[r])

RoundsInv == \A r \in RunIds : Rounds(runs[r])

(* The row remains that of the same run. *)
SameRun(w, v) == v.dry = w.dry /\ v.service = w.service

(* A transaction on one row. *)
LEMMA CommitOnly ==
  ASSUME IInv, NEW r \in RunIds, NEW left, Commit(r, left),
         left.row.dry = runs[r].dry, left.row.service = runs[r].service
  PROVE  OnlyRun(r) /\ runs'[r] = left.row
<1>1. runs \in Seq(Run) /\ runs' = [runs EXCEPT ![r] = left.row]
  BY DEF IInv, TablesOK, Commit
<1> QED
  BY <1>1 DEF OnlyRun, RunIds

LEMMA CarriedSame ==
  ASSUME NEW w, WellFormed(w), Lawful(w), Known(w), NEW k \in 1 .. Len(w.kids), NEW job,
         Recorded(EntryOf(w, k), w.kids[k], job),
         NEW status \in Terminal, NEW advances \in BOOLEAN, NEW emits \in BOOLEAN
  PROVE  SameRun(w, Carried([w EXCEPT !.kids[k] = job], k, status, advances, emits).row)
<1> DEFINE v == [w EXCEPT !.kids[k] = job]
           after == IF advances THEN AdvanceRun(v, k) ELSE Left(v)
           row == after.row
           told == [row EXCEPT !.outbox = Append(@, JobFinished(status))]
           left == Carried(v, k, status, advances, emits)
<1>1. Onward(left, w)
  BY CarriedOnward
<1>2. left.row.dry = w.dry
  BY <1>1 DEF Onward, Grows
<1>3. /\ WellFormed(v) /\ Lawful(v) /\ Known(v) /\ Grows(w, v)
      /\ v.kids[k] = job /\ Len(v.kids) = Len(w.kids) /\ v.plan = w.plan
      /\ v.outbox = w.outbox /\ v.dry = w.dry
  BY KidOnward
<1>4. v.service = w.service
  BY KidFields, Lengths
<1>5. after \in [row : {after.row}, settlesPath : {after.settlesPath}, stamps : {after.stamps}]
  BY DEF AdvanceRun, AdvanceLegacy, FinishRun, FinishDryRun, Succeed, Left
<1>6. left = IF emits THEN [after EXCEPT !.row = told] ELSE after
  BY DEF Carried
<1> HIDE DEF v
<1>7. row \in Run /\ row.service = v.service
  <2>1. CASE advances
    BY <1>3, <2>1, AdvanceRunWellLeft DEF WellLeft, WellFormed
  <2>2. CASE ~advances
    BY <1>3, <2>2 DEF Left, WellFormed
  <2> QED
    BY <2>1, <2>2
<1> HIDE DEF after, left
<1>8. told.service = row.service
  BY <1>7 DEF Run
<1> HIDE DEF told
<1>9. left.row = told \/ left.row = row
  BY <1>5, <1>6
<1>10. left.row.service = w.service
  BY <1>4, <1>7, <1>8, <1>9
<1> QED
  BY <1>2, <1>10 DEF left, v, SameRun

LEMMA CarriedRow ==
  ASSUME NEW w, WellFormed(w), Lawful(w), Known(w), NEW k \in 1 .. Len(w.kids), NEW job,
         Recorded(EntryOf(w, k), w.kids[k], job), ~w.dry, Rounds(w),
         NEW status \in Terminal, NEW advances \in BOOLEAN, NEW emits \in BOOLEAN
  PROVE  Turn([w EXCEPT !.kids[k] = job],
              Carried([w EXCEPT !.kids[k] = job], k, status, advances, emits).row)
<1> DEFINE v == [w EXCEPT !.kids[k] = job]
           after == IF advances THEN AdvanceRun(v, k) ELSE Left(v)
           row == after.row
           told == [row EXCEPT !.outbox = Append(@, JobFinished(status))]
           left == Carried(v, k, status, advances, emits)
<1>1. /\ WellFormed(v) /\ Lawful(v) /\ Known(v) /\ Grows(w, v)
      /\ v.kids[k] = job /\ Len(v.kids) = Len(w.kids) /\ v.plan = w.plan
      /\ v.outbox = w.outbox /\ v.dry = w.dry
  BY KidOnward
<1>2. Rounds(v)
  <2>1. job.position = w.kids[k].position /\ (IsLive(w.kids[k]) \/ job = w.kids[k])
    BY DEF Recorded
  <2> QED
    BY <2>1, KidRounds
<1> HIDE DEF v
<1>3. Turn(v, row) /\ row \in Run
  <2>1. CASE advances
    <3>1. Turn(v, AdvanceRun(v, k).row)
      BY <1>1, <1>2, AdvanceTurn DEF Rounds
    <3>2. AdvanceRun(v, k).row \in Run
      BY <1>1, AdvanceRunWellLeft DEF WellLeft, WellFormed
    <3> QED
      BY <2>1, <3>1, <3>2
  <2>2. CASE ~advances
    <3>1. row = v
      BY <2>2 DEF Left
    <3>2. Turn(v, v) /\ v \in Run
      BY <1>1, Lengths DEF Turn, Stays
    <3> QED
      BY <3>1, <3>2
  <2> QED
    BY <2>1, <2>2
<1>4. after \in [row : {after.row}, settlesPath : {after.settlesPath}, stamps : {after.stamps}]
  BY DEF AdvanceRun, AdvanceLegacy, FinishRun, FinishDryRun, Succeed, Left
<1>5. left = IF emits THEN [after EXCEPT !.row = told] ELSE after
  BY DEF Carried
<1> HIDE DEF after, left
<1>6. CASE emits
  <2>1. left.row = told
    BY <1>4, <1>5, <1>6
  <2>2. /\ told.kids = row.kids /\ told.plan = row.plan /\ told.dry = row.dry
        /\ told.status = row.status /\ told.noRollback = row.noRollback
        /\ told.phase = row.phase /\ told.code = row.code
    BY <1>3 DEF Run
  <2> HIDE DEF told, row
  <2>3. /\ Stays(v, row) => Stays(v, told)
        /\ Closes(v, row) => Closes(v, told)
        /\ Queues(v, row) => Queues(v, told)
        /\ \A items : TurnsBack(v, row, items) => TurnsBack(v, told, items)
    BY <2>2, Zenon DEF Stays, Closes, Queues, TurnsBack, EndsForward, EndsBack, EndsAtOnce
  <2>4. Turn(v, told)
    BY <1>3, <2>2, <2>3 DEF Turn
  <2> QED
    BY <2>1, <2>4 DEF left, v
<1>7. CASE ~emits
  BY <1>3, <1>5, <1>7 DEF left, v
<1> QED
  BY <1>6, <1>7

LEMMA JobStepTurns ==
  ASSUME OInv, RoundsInv, NEW r \in RunIds, NEW k \in 1 .. Len(runs[r].kids), JobStep(r, k)
  PROVE  OnlyRun(r) /\ \E job : JobTurns(r, k, job)
<1>1. IInv /\ WellFormed(runs[r]) /\ Lawful(runs[r]) /\ Known(runs[r]) /\ Rounds(runs[r])
  BY DEF OInv, RowsLawful, IInv, RowsWellFormed, RoundsInv
<1>2. JobMoves(r, k)
  BY <1>1, JobStepMoves
<1>3. PICK job \in Job, status \in Terminal, advances \in BOOLEAN, emits \in BOOLEAN :
        /\ Recorded(EntryOf(runs[r], k), runs[r].kids[k], job)
        /\ Commit(r, Carried([runs[r] EXCEPT !.kids[k] = job], k, status, advances, emits))
        /\ \A a \in applied' : a \in applied \/ Admits(r, k, job, a)
        /\ Does(r, k, job)
  BY <1>2 DEF JobMoves
<1> DEFINE left == Carried([runs[r] EXCEPT !.kids[k] = job], k, status, advances, emits)
<1>4. ~runs[r].dry => Turn([runs[r] EXCEPT !.kids[k] = job], left.row)
  BY <1>1, <1>3, CarriedRow
<1>5. Commit(r, left) /\ left.row.dry = runs[r].dry /\ left.row.service = runs[r].service
  <2>1. Commit(r, left) /\ SameRun(runs[r], left.row)
    BY <1>1, <1>3, CarriedSame
  <2> HIDE DEF left
  <2> QED
    BY <2>1 DEF SameRun
<1> HIDE DEF left
<1>6. OnlyRun(r) /\ runs'[r] = left.row
  BY <1>1, <1>5, CommitOnly
<1>7. runs[r].status \in InFlight
  <2>1. runs[r].status \notin Terminal
    BY <1>1, JobStepOpen
  <2>2. runs[r].status \in InFlight \cup Terminal
    BY <1>1, Lengths
  <2> QED
    BY <2>1, <2>2
<1>8. JobTurns(r, k, job)
  BY <1>3, <1>4, <1>6, <1>7 DEF JobTurns
<1> QED
  BY <1>6, <1>8

LEMMA RunStepTurns ==
  ASSUME OInv, RoundsInv, NEW r \in RunIds,
         RepairStrandedRun(r) \/ RevertRun(r) \/ RetryRollback(r)
  PROVE  OnlyRun(r) /\ RunTurns(r)
<1> DEFINE w == runs[r]
<1>1. IInv /\ WellFormed(w) /\ Lawful(w) /\ Begun(w) /\ Rounds(w)
  BY DEF OInv, RowsLawful, IInv, RowsWellFormed, Known, RoundsInv
<1>2. applied' = applied
  BY DEF RepairStrandedRun, RevertRun, RetryRollback
<1>3. ASSUME NEW left, Commit(r, left), ~w.dry => Turn(w, left.row),
             left.row.dry = w.dry, left.row.service = w.service
      PROVE  OnlyRun(r) /\ RunTurns(r)
  BY <1>1, <1>2, <1>3, CommitOnly DEF RunTurns
<1>4. CASE RepairStrandedRun(r)
  <2>1. Stranded(w) /\ (Commit(r, RepairFresh(w)) \/ Commit(r, RepairExpired(w)))
    BY <1>4 DEF RepairStrandedRun
  <2>2. ~w.dry => Turn(w, RepairFresh(w).row) /\ Turn(w, RepairExpired(w).row)
    BY <1>1, <2>1, RepairTurn DEF Rounds
  <2>3. /\ RepairFresh(w).row.service = w.service /\ RepairExpired(w).row.service = w.service
        /\ RepairFresh(w).row.dry = w.dry /\ RepairExpired(w).row.dry = w.dry
    BY <1>1, <2>1, RepairWellLeft, RepairLawful DEF WellLeft, LawfulLeft, Follows
  <2> QED
    BY <1>3, <2>1, <2>2, <2>3
<1>5. CASE RevertRun(r)
  <2>1. /\ Commit(r, Left(Reverted(w))) /\ Left(Reverted(w)).row = Reverted(w)
        /\ ~w.dry /\ w.status = "SUCCEEDED" /\ w.phase # NoPhase
    BY <1>5 DEF RevertRun, NotRevertible, Left
  <2>2. Turn(w, Reverted(w))
    BY <1>1, <2>1, RevertedTurn
  <2>3. Reverted(w).service = w.service /\ Reverted(w).dry = w.dry
    BY <1>1, <2>1, <2>2, RevertedWellFormed DEF Terminal, Turn
  <2> QED
    BY <1>3, <2>1, <2>2, <2>3
<1>6. CASE RetryRollback(r)
  <2>1. /\ Commit(r, Left(Retried(w))) /\ Left(Retried(w)).row = Retried(w)
        /\ ~w.dry /\ w.status = "FAILED" /\ w.code = "ROLLBACK_INCOMPLETE" /\ w.phase # NoPhase
    BY <1>6 DEF RetryRollback, NotRetryable, Left
  <2>2. Turn(w, Retried(w))
    BY <1>1, <2>1, RetriedTurn DEF Rounds
  <2>3. Retried(w).service = w.service /\ Retried(w).dry = w.dry
    BY <1>1, <2>1, <2>2, RetriedWellFormed DEF Terminal, Turn
  <2> QED
    BY <1>3, <2>1, <2>2, <2>3
<1> QED
  BY <1>4, <1>5, <1>6

(* create_or_get_run: a row is appended. *)
LEMMA CreateTurns ==
  ASSUME OInv, OInv', NEW s \in Services, NEW purpose \in RunPurposes,
         NEW dry \in DryRuns, NEW guided \in GuidedRuns,
         CreateOrGetRun(s, purpose, dry, guided)
  PROVE  /\ applied' = applied /\ Len(runs) \in Nat /\ Len(runs') = Len(runs) + 1
         /\ \A q \in RunIds : runs'[q] = runs[q]
         /\ LET w == runs'[Len(runs) + 1]
            IN  /\ Rounds(w) /\ w.dry = dry /\ w.service = s
                /\ w.status = "QUEUED" /\ (w.phase # PhaseRollback \/ dry)
                /\ \A k \in 1 .. Len(w.kids) : Fresh(w.kids[k])
                /\ ~Legacy(w)
<1> DEFINE w == NewRun(s, purpose, dry, guided)
           path == Path[s][reparents[s]]
           plan == NewPlan(path, purpose, dry, version)
           n == Len(runs) + 1
<1>1. /\ runs \in Seq(Run) /\ version \in [Devices -> Versions] /\ Len(runs) \in Nat
      /\ reparents[s] \in PathRevisions /\ dry \in BOOLEAN
  BY ProvisioningRunsAssumption DEF OInv, IInv, TablesOK
<1>2. /\ path \in Seq(Devices) /\ \A i, j \in 1 .. Len(path) : path[i] = path[j] => i = j
  BY <1>1, RunPlanAssumption, PathsAreSimple
<1>3. runs' = Append(runs, w) /\ applied' = applied
  BY DEF CreateOrGetRun
<1>4. /\ w.plan = plan /\ w.dry = dry /\ w.cause = NoCode /\ w.service = s /\ w.status = "QUEUED"
      /\ w.phase = (IF plan = <<>> THEN NoPhase ELSE plan[1].phase)
      /\ w.kids = IF plan = <<>> THEN <<>> ELSE <<NewJob(1)>>
  BY DEF NewRun
<1>5. ~dry => Single(plan)
  <2>1. SUFFICES ASSUME dry = FALSE PROVE Single(plan)
    BY <1>1
  <2> HIDE DEF path
  <2> QED
    BY <1>1, <1>2, <2>1, NewPlanSingle
<1>0. Laid(plan, 1, IF dry THEN 4 ELSE 3, path, version)
  BY <1>1, <1>2, NewPlanLaid
<1> HIDE DEF plan, w, path
<1>6. /\ Len(runs') = n /\ runs'[n] = w
      /\ \A q \in 1 .. Len(runs) : runs'[q] = runs[q]
  BY <1>1, <1>3
<1>7. Lawful(w)
  <2>1. n \in 1 .. Len(runs')
    BY <1>1, <1>6
  <2>2. \A q \in 1 .. Len(runs') : Lawful(runs'[q])
    BY DEF OInv, RowsLawful, RunIds
  <2> QED
    BY <1>6, <2>1, <2>2
<1>8. \A x : <<x>> # <<>> /\ Len(<<x>>) = 1 /\ <<x>>[1] = x
  OBVIOUS
<1>9. Rounds(w)
  BY <1>4, <1>5, <1>7, <1>8, OpenedRounds
<1>10. \A k \in 1 .. Len(w.kids) : Fresh(w.kids[k])
  <2>1. Fresh(NewJob(1))
    BY DEF Fresh, NewJob
  <2>2. CASE plan = <<>>
    BY <1>4, <2>2
  <2>3. CASE plan # <<>>
    <3>1. Len(w.kids) = 1 /\ w.kids[1] = NewJob(1)
      BY <1>4, <1>8, <2>3
    <3> QED
      BY <2>1, <3>1
  <2> QED
    BY <2>2, <2>3
<1>11. w.phase # PhaseRollback \/ dry
  <2>1. w.cause \notin CauseCodes
    BY <1>4 DEF CauseCodes, NoCode
  <2>2. CauseSet(w)
    BY <1>7 DEF Lawful, Base
  <2> QED
    BY <1>1, <1>4, <2>1, <2>2 DEF CauseSet
<1>12. ~Legacy(w)
  <2>1. \A i \in 1 .. Len(plan) : 1 <= Rank(plan[i].phase)
    BY <1>0 DEF Laid
  <2>2. \A i \in 1 .. Len(plan) : plan[i].phase # NoPhase
    BY <2>1, RankFacts
  <2> QED
    BY <1>4, <2>2 DEF Legacy
<1> QED
  BY <1>1, <1>3, <1>4, <1>6, <1>9, <1>10, <1>11, <1>12 DEF RunIds

(***************************************************************************)
(* Every step is of one of these kinds.                                    *)
(***************************************************************************)
LEMMA StepKinds ==
  ASSUME OInv, RoundsInv, [Next]_vars
  PROVE  \/ runs' = runs /\ applied' = applied
         \/ \E s \in Services, p \in RunPurposes, dry \in DryRuns, guided \in GuidedRuns :
              CreateOrGetRun(s, p, dry, guided)
         \/ \E r \in RunIds : /\ OnlyRun(r)
                              /\ \E k \in 1 .. Len(runs[r].kids) : \E job : JobTurns(r, k, job)
         \/ \E r \in RunIds : /\ OnlyRun(r) /\ RunTurns(r)
                              /\ RepairStrandedRun(r) \/ RevertRun(r) \/ RetryRollback(r)
<1>1. CASE Produce
  BY <1>1 DEF Produce
<1>2. CASE (\E d \in Devices : EditPlaybook(d)) \/ (\E s \in Services : Reparent(s))
  BY <1>2 DEF EditPlaybook, Reparent
<1>3. CASE \E r \in RunIds : \E k \in 1 .. Len(runs[r].kids) : JobStep(r, k)
  BY <1>3, JobStepTurns
<1>4. CASE \E r \in RunIds : RepairStrandedRun(r) \/ RevertRun(r) \/ RetryRollback(r)
  BY <1>4, RunStepTurns
<1>5. CASE UNCHANGED vars \/ \E r \in RunIds : PassRefusal(r)
  BY <1>5 DEF vars, PassRefusal, tables
<1> QED
  BY <1>1, <1>2, <1>3, <1>4, <1>5 DEF Next, EngineStep, OfficeStep

(* The row of a run once its child k is `job`, before the run moves. *)
WithKid(w, k, job) == [w EXCEPT !.kids[k] = job]

LEMMA WithKidRow ==
  ASSUME NEW w, WellFormed(w), Lawful(w), Known(w), Rounds(w),
         NEW k \in 1 .. Len(w.kids), NEW job, Recorded(EntryOf(w, k), w.kids[k], job)
  PROVE  LET v == WithKid(w, k, job)
         IN  /\ WellFormed(v) /\ Lawful(v) /\ Rounds(v) /\ Grows(w, v)
             /\ v.dry = w.dry /\ v.plan = w.plan /\ v.phase = w.phase
             /\ v.status = w.status /\ v.code = w.code /\ v.noRollback = w.noRollback
             /\ Len(v.kids) = Len(w.kids) /\ v.kids[k] = job
             /\ \A j \in 1 .. Len(w.kids) : j # k => v.kids[j] = w.kids[j]
<1> DEFINE v == [w EXCEPT !.kids[k] = job]
<1>1. v = WithKid(w, k, job)
  BY DEF WithKid
<1>2. WellFormed(v) /\ Lawful(v) /\ Grows(w, v)
  BY KidOnward
<1>3. Rounds(v)
  <2>1. job.position = w.kids[k].position /\ (IsLive(w.kids[k]) \/ job = w.kids[k])
    BY DEF Recorded
  <2> QED
    BY <2>1, KidRounds
<1>4. w \in Run
  BY Lengths
<1>5. /\ v.dry = w.dry /\ v.plan = w.plan
      /\ v.phase = w.phase /\ v.status = w.status /\ v.code = w.code
      /\ Len(v.kids) = Len(w.kids) /\ v.kids[k] = job
      /\ \A j \in 1 .. Len(w.kids) : j # k => v.kids[j] = w.kids[j]
  BY <1>4, KidFields
<1>6. v.noRollback = w.noRollback
  BY <1>4 DEF Run
<1> HIDE DEF v
<1> QED
  BY <1>1, <1>2, <1>3, <1>5, <1>6

(* A run opened before engine v2 has no phases to be out of step with. *)
LEMMA InitRounds == Init => RoundsInv
<1> SUFFICES ASSUME Init, NEW r \in RunIds PROVE Rounds(runs[r])
  BY DEF RoundsInv
<1>1. OInv
  BY InitOInv
<1>2. runs # <<>>
  BY DEF RunIds
<1>3. PICK s \in LegacyServices, dry \in DryRuns : runs = <<LegacyRun(s, dry)>>
  BY <1>2 DEF Init
<1> DEFINE w == LegacyRun(s, dry)
           plan == [i \in 1 .. Len(Path[s][0]) |-> PlanEntry(Path[s][0][i], 1, NoPhase, FALSE)]
<1>4. runs[r] = w
  BY <1>3 DEF RunIds
<1>5. w.cause = NoCode /\ w.phase = NoPhase /\ w.plan = plan
  BY DEF LegacyRun
<1> HIDE DEF w
<1>6. WellFormed(w) /\ Lawful(w)
  BY <1>1, <1>4 DEF OInv, RowsLawful, IInv, RowsWellFormed
<1>7. Single(w.plan)
  <2>1. \A i \in DOMAIN plan : plan[i].phase = NoPhase
    BY DEF PlanEntry
  <2> HIDE DEF plan
  <2>2. 1 .. Len(w.plan) = DOMAIN plan
    BY <1>5, <1>6, Lengths, LenProperties
  <2>3. \A i \in 1 .. Len(w.plan) : w.plan[i].phase # PhaseConfiguration
    BY <1>5, <2>1, <2>2 DEF NoPhase, PhaseConfiguration
  <2> QED
    BY <2>3 DEF Single
<1>8. Rounds(w)
  BY <1>5, <1>6, <1>7, OpenedRounds
<1> QED
  BY <1>4, <1>8

LEMMA JobTurnsRow ==
  ASSUME OInv, RoundsInv, NEW r \in RunIds, NEW k \in 1 .. Len(runs[r].kids), NEW job,
         JobTurns(r, k, job)
  PROVE  LET w == runs[r]
             v == WithKid(w, k, job)
         IN  /\ WellFormed(v) /\ Lawful(v) /\ Rounds(v) /\ Grows(w, v)
             /\ v.dry = w.dry /\ v.plan = w.plan /\ v.phase = w.phase
             /\ v.status = w.status /\ v.code = w.code /\ v.noRollback = w.noRollback
             /\ Len(v.kids) = Len(w.kids) /\ v.kids[k] = job
             /\ \A j \in 1 .. Len(w.kids) : j # k => v.kids[j] = w.kids[j]
<1>1. WellFormed(runs[r]) /\ Lawful(runs[r]) /\ Known(runs[r]) /\ Rounds(runs[r])
  BY DEF OInv, RowsLawful, IInv, RowsWellFormed, RoundsInv
<1>2. Recorded(EntryOf(runs[r], k), runs[r].kids[k], job)
  BY DEF JobTurns
<1> QED
  BY <1>1, <1>2, WithKidRow

LEMMA NextRounds == OInv /\ OInv' /\ RoundsInv /\ [Next]_vars => RoundsInv'
<1> SUFFICES ASSUME OInv, OInv', RoundsInv, [Next]_vars PROVE RoundsInv'
  OBVIOUS
<1>1. ASSUME NEW r \in RunIds, OnlyRun(r), Rounds(runs'[r])
      PROVE  RoundsInv'
  BY <1>1 DEF RoundsInv, RunIds, OnlyRun
<1>2. \A r \in RunIds : WellFormed(runs[r]) /\ Lawful(runs[r]) /\ PlanInOrder(runs[r])
  BY DEF OInv, RowsLawful, Lawful, Base, IInv, RowsWellFormed
<1>3. CASE runs' = runs
  BY <1>3 DEF RoundsInv, RunIds
<1>4. ASSUME NEW s \in Services, NEW p \in RunPurposes, NEW dry \in DryRuns,
             NEW guided \in GuidedRuns, CreateOrGetRun(s, p, dry, guided)
      PROVE  RoundsInv'
  <2>1. /\ Len(runs) \in Nat /\ Len(runs') = Len(runs) + 1
        /\ \A q \in RunIds : runs'[q] = runs[q]
        /\ Rounds(runs'[Len(runs) + 1])
    BY <1>4, CreateTurns
  <2>2. \A q \in 1 .. Len(runs') : q \in RunIds \/ q = Len(runs) + 1
    BY <2>1 DEF RunIds
  <2> QED
    BY <2>1, <2>2 DEF RoundsInv, RunIds
<1>5. ASSUME NEW r \in RunIds, OnlyRun(r), NEW k \in 1 .. Len(runs[r].kids), NEW job,
             JobTurns(r, k, job)
      PROVE  RoundsInv'
  <2> DEFINE v == WithKid(runs[r], k, job)
  <2>1. WellFormed(v) /\ PlanInOrder(v) /\ Rounds(v) /\ v.dry = runs[r].dry
    <3>1. WellFormed(v) /\ Lawful(v) /\ Rounds(v) /\ v.dry = runs[r].dry
      BY <1>5, JobTurnsRow
    <3> QED
      BY <3>1 DEF Lawful, Base
  <2>2. ~runs[r].dry => Turn(v, runs'[r])
    BY <1>5 DEF JobTurns, WithKid
  <2> HIDE DEF v
  <2>3. Rounds(runs'[r])
    <3>1. CASE runs[r].dry
      BY <1>5, <3>1 DEF OnlyRun, Rounds
    <3>2. CASE ~runs[r].dry
      BY <2>1, <2>2, <3>2, TurnRounds
    <3> QED
      BY <3>1, <3>2
  <2> QED
    BY <1>1, <1>5, <2>3
<1>6. ASSUME NEW r \in RunIds, OnlyRun(r), RunTurns(r)
      PROVE  RoundsInv'
  <2>1. CASE runs[r].dry
    BY <1>1, <1>6, <2>1 DEF OnlyRun, Rounds
  <2>2. CASE ~runs[r].dry
    <3>1. Turn(runs[r], runs'[r]) /\ Rounds(runs[r])
      BY <1>6, <2>2 DEF RunTurns, RoundsInv
    <3>2. Rounds(runs'[r])
      BY <1>2, <2>2, <3>1, TurnRounds
    <3> QED
      BY <1>1, <1>6, <3>2
  <2> QED
    BY <2>1, <2>2
<1> QED
  BY <1>3, <1>4, <1>5, <1>6, StepKinds

(* The rows go in rounds throughout. *)
LEMMA RoundsHold == Spec => [](OInv /\ RoundsInv)
<1>1. Init => OInv /\ RoundsInv
  BY InitOInv, InitRounds
<1>2. (OInv /\ RoundsInv) /\ [Next]_vars => (OInv /\ RoundsInv)'
  BY NextOInv, NextRounds
<1> QED
  BY <1>1, <1>2, PTL DEF Spec

(* Of one row. *)
LEMMA RoundsAgainstTheOrder ==
  ASSUME NEW w, WellFormed(w), Rounds(w), ~w.dry, NEW j \in KidsOfPhase(w, PhaseRollback)
  PROVE  LET item(k) == EntryOf(w, k).item
             before == {i \in KidsOfPhase(w, PhaseRollback) : i < j}
             tried == {i \in before : item(i) = item(j)}
         IN  /\ \A i \in tried : w.kids[i].status # "SUCCEEDED"
             /\ tried = {} =>
                  \A i \in before : \A c, d \in KidsOfPhase(w, PhaseConfiguration) :
                    item(c) = item(i) /\ item(d) = item(j) => d < c
<1> DEFINE item(k) == EntryOf(w, k).item
           before == {i \in KidsOfPhase(w, PhaseRollback) : i < j}
           tried == {i \in before : item(i) = item(j)}
           at(k) == w.kids[k].position
<1>1. /\ Len(w.kids) \in Nat /\ Len(w.plan) \in Nat
      /\ \A k \in 1 .. Len(w.kids) : at(k) \in 1 .. Len(w.plan)
      /\ \A a, b \in 1 .. Len(w.kids) : /\ a < b => at(a) < at(b)
                                        /\ at(a) = at(b) => a = b
  BY Positions
<1>2. /\ \A k \in KidsOfPhase(w, PhaseRollback) : k \in 1 .. Len(w.kids) /\ at(k) \in Back(w)
      /\ \A k \in KidsOfPhase(w, PhaseConfiguration) : k \in 1 .. Len(w.kids) /\ at(k) \in Forth(w)
      /\ \A k \in 1 .. Len(w.kids) : EntryOf(w, k) = w.plan[at(k)]
  BY <1>1 DEF KidsOfPhase, EntryOf, Back, Forth
<1>3. \A k \in 1 .. Len(w.kids) : at(k) <= LastAt(w) /\ LastAt(w) \in Int
  <2>1. w.kids # <<>> /\ j \in 1 .. Len(w.kids)
    BY <1>1, <1>2
  <2> QED
    BY <2>1, Positions
<1>4. Tried(w) /\ Retries(w) /\ Against(w)
  BY DEF Rounds
<1>5. \A k \in KidsOfPhase(w, PhaseRollback) : k \in Int /\ at(k) \in Int
  BY <1>1, <1>2
<1> HIDE DEF at
<1>6. ASSUME NEW i \in tried
      PROVE  w.kids[i].status # "SUCCEEDED"
  <2>1. i \in KidsOfPhase(w, PhaseRollback) /\ i < j /\ w.plan[at(i)].item = w.plan[at(j)].item
    BY <1>2
  <2>2. at(i) < at(j) /\ at(i) \in Back(w) /\ at(j) \in Back(w) /\ i \in 1 .. Len(w.kids)
    BY <1>1, <1>2, <2>1
  <2>3. w.kids[i].status \in Terminal \ {"SUCCEEDED"}
    BY <1>4, <2>1, <2>2 DEF Retries, at
  <2> QED
    BY <2>3
<1>7. ASSUME tried = {}, NEW i \in before,
             NEW c \in KidsOfPhase(w, PhaseConfiguration),
             NEW d \in KidsOfPhase(w, PhaseConfiguration),
             item(c) = item(i), item(d) = item(j)
      PROVE  d < c
  <2>1. i \in KidsOfPhase(w, PhaseRollback) /\ i < j
    OBVIOUS
  <2>2. at(i) < at(j) /\ at(i) \in Back(w) /\ at(j) \in Back(w)
    BY <1>1, <1>2, <2>1
  <2>3. ASSUME NEW h \in Back(w), h < at(j), w.plan[h].item = w.plan[at(j)].item
        PROVE  FALSE
    <3>1. h \in Int /\ at(j) \in Int /\ at(j) <= LastAt(w) /\ LastAt(w) \in Int
      BY <1>1, <1>2, <1>3, <1>5 DEF Back
    <3>2. h <= LastAt(w)
      BY <2>3, <3>1
    <3>3. PICK k \in 1 .. Len(w.kids) : at(k) = h
      BY <1>4, <2>3, <3>2 DEF Tried, at
    <3>4. EntryOf(w, k) = w.plan[h] /\ k \in KidsOfPhase(w, PhaseRollback)
      BY <1>2, <2>3, <3>3 DEF KidsOfPhase, Back
    <3>5. k < j
      <4>1. k = j => at(k) = at(j)
        OBVIOUS
      <4>2. j < k => at(j) < at(k)
        BY <1>1, <1>2
      <4>3. k \in Int /\ j \in Int
        BY <1>5, <3>4
      <4> QED
        BY <2>3, <3>1, <3>3, <4>1, <4>2, <4>3
    <3>6. item(k) = item(j)
      BY <1>2, <2>3, <3>4
    <3>7. k \in tried
      BY <3>4, <3>5, <3>6
    <3> QED
      BY <1>7, <3>7
  <2>4. /\ at(c) \in Forth(w) /\ at(d) \in Forth(w)
        /\ w.plan[at(c)].item = w.plan[at(i)].item
        /\ w.plan[at(d)].item = w.plan[at(j)].item
    BY <1>2, <1>7, <2>1
  <2>5. at(d) < at(c)
    BY <1>4, <2>2, <2>3, <2>4 DEF Against
  <2>6. c \in 1 .. Len(w.kids) /\ d \in 1 .. Len(w.kids)
    BY <1>2
  <2>7. at(c) \in Int /\ at(d) \in Int /\ c \in Int /\ d \in Int
    BY <1>1, <2>6
  <2>8. (c < d => at(c) < at(d)) /\ (c = d => at(c) = at(d))
    BY <1>1, <2>6
  <2> QED
    BY <2>5, <2>7, <2>8
<1> QED
  BY <1>6, <1>7

(***************************************************************************)
(* A device whose rollback succeeded is never rolled back again, and each  *)
(* attempt goes through the devices against the order they were configured *)
(* in, whatever children fail, advances are lost or repeated and retries   *)
(* the office asks for (_rollback_entries, retry_rollback).                *)
(***************************************************************************)
THEOREM RollbackOrderHolds == Spec => []RollbackAgainstTheOrder
<1>1. OInv /\ RoundsInv => RollbackAgainstTheOrder
  <2> SUFFICES ASSUME OInv, RoundsInv PROVE RollbackAgainstTheOrder
    OBVIOUS
  <2>1. \A r \in RunIds : WellFormed(runs[r]) /\ Rounds(runs[r])
    BY DEF OInv, IInv, RowsWellFormed, RoundsInv
  <2> QED
    BY <2>1, RoundsAgainstTheOrder DEF RollbackAgainstTheOrder
<1> QED
  BY <1>1, RoundsHold, PTL

-----------------------------------------------------------------------------
(* What a run left on a device.                                            *)

(* A configuration step of entry e that changes the device. *)
Undoable(e, n) ==
  LET cfg == DefinitionFor(e)[PhaseConfiguration]
  IN  \E i \in 1 .. Len(cfg) : cfg[i].name = n /\ cfg[i].driver \notin NoUndoDrivers

(* The plan has such a step n for device d. *)
Places(w, d, n) == \E i \in Forth(w) : w.plan[i].item = d /\ Undoable(w.plan[i], n)

(* A rollback step that leaves what configuration step n did. *)
Spares(step, n) == step.undoes \in {NoStep, n} => step.driver \in NoUndoDrivers

(***************************************************************************)
(* The latest rollback entry of device d is to undo step n, and has not    *)
(* come to a step that would have, or failed.                              *)
(***************************************************************************)
Pends(w, i, n) ==
  LET rollback == DefinitionFor(w.plan[i])[PhaseRollback]
  IN  /\ n \in w.plan[i].ran /\ rollback # <<>>
      /\ \A j \in Back(w) : w.plan[j].item = w.plan[i].item => j <= i
      /\ \A k \in 1 .. Len(w.kids) : w.kids[k].position = i =>
           /\ w.kids[k].status # "SUCCEEDED"
           /\ IsLive(w.kids[k]) =>
                \A s \in 1 .. Len(rollback) : s < w.kids[k].next => Spares(rollback[s], n)

Pending(w, d, n) == \E i \in Back(w) : w.plan[i].item = d /\ Pends(w, i, n)

(***************************************************************************)
(* What is left of step n on device d no rollback covers, or the run's row *)
(* shows that it is there: it never turned back, or the device has no      *)
(* rollback, or an entry for it is pending or failed.                      *)
(***************************************************************************)
Shows(w, d, n) ==
  /\ Owed(w) => d \in w.noRollback \/ Pending(w, d, n)
  /\ w.status # "ROLLED_BACK"

Settled(w, d, n) == Uncovered(w, d, n) \/ Shows(w, d, n)

(* An entry's rollback steps, and its configuration steps. *)
LEMMA StepsOfEntry ==
  ASSUME NEW e \in Entry
  PROVE  /\ e.phase = PhaseRollback => JobSteps(e) = DefinitionFor(e)[PhaseRollback]
         /\ e.phase = PhaseConfiguration => JobSteps(e) = DefinitionFor(e)[PhaseConfiguration]
         /\ \A p \in Phases : DefinitionFor(e)[p] \in Seq(Step) /\ Len(DefinitionFor(e)[p]) \in Nat
         /\ PhaseRollback \in Phases /\ PhaseConfiguration \in Phases
<1>1. DefinitionFor(e) \in [Phases -> Seq(Step)]
  BY RunPlanAssumption DEF DefinitionFor, Entry
<1>2. \A p \in Phases : DefinitionFor(e)[p] \in Seq(Step) /\ Len(DefinitionFor(e)[p]) \in Nat
  BY <1>1, LenProperties
<1>3. PhaseRollback \in Phases /\ PhaseConfiguration \in Phases
  BY DEF Phases
<1>4. e.phase = PhaseRollback => JobSteps(e) = DefinitionFor(e)[PhaseRollback]
  BY DEF JobSteps, NoPhase, PhaseRollback, PhasePreconditions
<1>5. e.phase = PhaseConfiguration => JobSteps(e) = DefinitionFor(e)[PhaseConfiguration]
  BY DEF JobSteps, NoPhase, PhaseConfiguration, PhasePreconditions
<1> QED
  BY <1>2, <1>3, <1>4, <1>5

(* Step names are unique: a step that changes the device is no probe. *)
LEMMA UndoableIsNoProbe ==
  ASSUME NEW e \in Entry, NEW n, Undoable(e, n),
         NEW i \in 1 .. Len(DefinitionFor(e)[PhaseConfiguration]),
         DefinitionFor(e)[PhaseConfiguration][i].name = n
  PROVE  DefinitionFor(e)[PhaseConfiguration][i].driver \notin NoUndoDrivers
<1> DEFINE cfg == DefinitionFor(e)[PhaseConfiguration]
<1>1. PICK j \in 1 .. Len(cfg) : cfg[j].name = n /\ cfg[j].driver \notin NoUndoDrivers
  BY DEF Undoable
<1>2. e.item \in Devices /\ e.version \in Versions /\ PhaseConfiguration \in Phases
  BY DEF Entry, Phases
<1>3. cfg = Definition[e.item][e.version][PhaseConfiguration]
  BY DEF DefinitionFor
<1>4. i = j
  BY <1>1, <1>2, <1>3, StepNamesUnique
<1> QED
  BY <1>1, <1>4

(***************************************************************************)
(* What a rollback plan makes of a step that ran: its device has no        *)
(* rollback and is noted, no rollback step covers it, or an entry for it   *)
(* is planned.                                                             *)
(***************************************************************************)
LEMMA RanIsPlanned ==
  ASSUME NEW w, WellFormed(w), NEW items, NEW k \in KidsOfPhase(w, PhaseConfiguration),
         EntryOf(w, k).item \in items, NEW n, n \in RanSteps(w.kids[k]),
         Undoable(EntryOf(w, k), n)
  PROVE  \/ EntryOf(w, k).item \in NoRollbackItems(w, items)
         \/ Uncovered(w, EntryOf(w, k).item, n)
         \/ k \in ToUndo(w, items) /\ RollbackOf(w, k) # <<>>
<1> DEFINE e == EntryOf(w, k)
           back == RollbackOf(w, k)
<1>1. k \in 1 .. Len(w.kids) /\ e.phase = PhaseConfiguration
  BY DEF KidsOfPhase
<1>2. e \in Entry /\ w.kids[k].position \in 1 .. Len(w.plan) /\ e = w.plan[w.kids[k].position]
  BY <1>1, EntryOfType, Positions DEF EntryOf
<1>3. k \in Touched(w, items)
  BY DEF Touched
<1>4. back = DefinitionFor(e)[PhaseRollback]
  BY DEF RollbackOf
<1>5. CASE back = <<>>
  <2>1. \A i \in 1 .. Len(DefinitionFor(e)[PhaseConfiguration]) :
          DefinitionFor(e)[PhaseConfiguration][i].name = n =>
            DefinitionFor(e)[PhaseConfiguration][i].driver \notin NoUndoDrivers
    BY <1>2, UndoableIsNoProbe
  <2>2. LacksRollback(w, k)
    BY <1>5, <2>1 DEF LacksRollback
  <2> QED
    BY <1>3, <2>2, SMTT(30) DEF NoRollbackItems
<1>6. CASE back # <<>> /\ NeedsEntry(w, k)
  BY <1>3, <1>6 DEF ToUndo
<1>7. CASE back # <<>> /\ ~NeedsEntry(w, k)
  <2>1. \A i \in 1 .. Len(back) : back[i].undoes # NoStep /\ back[i].undoes # n
    BY <1>7, SMTT(60) DEF NeedsEntry, Skips
  <2>2. Uncovered(w, e.item, n)
    BY <1>2, <1>4, <1>7, <2>1, ZenonT(60) DEF Uncovered
  <2> QED
    BY <2>2
<1> QED
  BY <1>5, <1>6, <1>7

(* Rows over the same plan and children leave the same things pending. *)
LEMMA SamePending ==
  ASSUME NEW w, NEW v, v.kids = w.kids, v.plan = w.plan, NEW d, NEW n
  PROVE  /\ Back(v) = Back(w)
         /\ Pending(v, d, n) <=> Pending(w, d, n)
         /\ Uncovered(v, d, n) <=> Uncovered(w, d, n)
<1>1. Back(v) = Back(w)
  BY DEF Back
<1>2. \A i : Pends(v, i, n) <=> Pends(w, i, n)
  BY <1>1 DEF Pends
<1> QED
  BY <1>1, <1>2 DEF Pending, Uncovered

(* An entry of the plan that does not cover a step stays in the plan. *)
LEMMA UncoveredGrows ==
  ASSUME NEW w, NEW v, \A i \in 1 .. Len(w.plan) : i \in 1 .. Len(v.plan) /\ v.plan[i] = w.plan[i],
         NEW d, NEW n, Uncovered(w, d, n)
  PROVE  Uncovered(v, d, n)
BY DEF Uncovered

(* At the end of a rollback, what is still pending is a failure that shows. *)
LEMMA PendingFailedShows ==
  ASSUME NEW w, WellFormed(w), ~w.dry, Rounds(w), LastAt(w) = Len(w.plan),
         NEW d \in Devices, NEW n, Pending(w, d, n)
  PROVE  RollbackFailed(w, d) /\ d \in RetryItems(w)
<1>1. PICK i \in Back(w) : w.plan[i].item = d /\ Pends(w, i, n)
  BY DEF Pending
<1>2. i \in 1 .. Len(w.plan) /\ Len(w.plan) \in Nat
  BY Lengths DEF Back
<1>3. PICK k \in 1 .. Len(w.kids) : w.kids[k].position = i
  BY <1>2 DEF Rounds, Tried
<1>4. w.kids[k].status # "SUCCEEDED"
  BY <1>1, <1>3 DEF Pends
<1>5. k \in RollbackKids(w, d)
  BY <1>1, <1>3 DEF RollbackKids, KidsOfPhase, EntryOf, Back
<1>6. ASSUME NEW j \in RollbackKids(w, d) PROVE j <= k
  <2>1. j \in 1 .. Len(w.kids) /\ w.kids[j].position \in Back(w)
        /\ w.plan[w.kids[j].position].item = d
    BY Positions DEF RollbackKids, KidsOfPhase, EntryOf, Back
  <2>2. w.kids[j].position <= i
    BY <1>1, <2>1 DEF Pends
  <2>3. k < j => w.kids[k].position < w.kids[j].position
    BY <2>1, Positions
  <2>4. k \in Int /\ j \in Int /\ i \in Int /\ w.kids[j].position \in Int
    BY <1>2, <1>3, <2>1, Positions
  <2> QED
    BY <1>3, <2>2, <2>3, <2>4
<1>7. RollbackFailed(w, d)
  BY <1>4, <1>5, <1>6 DEF RollbackFailed
<1>8. \E a \in 1 .. Len(w.plan) : w.plan[a].item = d /\ w.plan[a].phase = PhaseRollback
  BY <1>1, <1>2 DEF Back
<1> QED
  BY <1>7, <1>8 DEF RetryItems

(* What a rollback plans for a device is pending. *)
LEMMA PlannedIsPending ==
  ASSUME NEW w, WellFormed(w), ~w.dry, Rounds(w), NEW items, NEW v, TurnsBack(w, v, items),
         NEW k \in ToUndo(w, items), NEW n, n \in RanSteps(w.kids[k]), RollbackOf(w, k) # <<>>
  PROVE  Pending(v, EntryOf(w, k).item, n)
<1>1. v.plan = w.plan \o RollbackEntries(w, items) /\ v.kids = Append(w.kids, NewJob(Len(w.plan) + 1))
  BY DEF TurnsBack
<1>2. PICK order : Extended(w, v, items, order)
  BY <1>1, TurnsBackPlan
<1>3. PICK m \in 1 .. Len(order) : order[m] = k
  BY <1>2 DEF Extended
<1> DEFINE i == Len(w.plan) + m
           d == EntryOf(w, k).item
           back == DefinitionFor(v.plan[i])[PhaseRollback]
<1>4. Len(w.plan) \in Nat /\ Len(order) \in Nat /\ m \in Nat /\ m >= 1 /\ i \in Int
  BY <1>2 DEF Extended
<1>5. i \in Back(v) /\ Undoes(w, k, v.plan[i])
  BY <1>2, <1>3, ExtendedParts DEF Extended
<1>6. v.plan[i].item = d /\ n \in v.plan[i].ran
  BY <1>5 DEF Undoes
<1>7. back # <<>>
  BY <1>5 DEF Undoes, DefinitionFor, RollbackOf
<1>8. ASSUME NEW j \in Back(v), v.plan[j].item = d PROVE j <= i
  <2>1. j \in 1 .. Len(v.plan) /\ j \in Int
    BY <1>2 DEF Back, Extended
  <2>2. CASE j \in 1 .. Len(w.plan)
    BY <1>4, <2>2
  <2>3. CASE j > Len(w.plan) /\ j - Len(w.plan) \in 1 .. Len(order)
    <3> DEFINE b == j - Len(w.plan)
    <3>1. j = Len(w.plan) + b /\ b \in 1 .. Len(order) /\ b \in Int
      BY <1>4, <2>1, <2>3
    <3> HIDE DEF b
    <3>2. Undoes(w, order[b], v.plan[j]) /\ order[b] \in ToUndo(w, items)
      BY <1>2, <3>1 DEF Extended
    <3>3. EntryOf(w, order[b]).item = d
      BY <1>8, <3>2 DEF Undoes
    <3>4. \A t \in ToUndo(w, items) : /\ t \in 1 .. Len(w.kids)
                                      /\ w.kids[t].position \in Forth(w)
                                      /\ EntryOf(w, t) = w.plan[w.kids[t].position]
      BY <1>2, ExtendedParts
    <3>5. w.kids[order[b]].position = w.kids[k].position
      BY <3>2, <3>3, <3>4 DEF Rounds, Once
    <3>6. order[b] = k /\ k \in Int
      BY <3>2, <3>4, <3>5, Positions, SMTT(30)
    <3>7. m < b => order[b] < order[m]
      BY <1>2, <3>1 DEF Extended
    <3> QED
      BY <1>3, <1>4, <3>1, <3>6, <3>7
  <2> QED
    BY <1>2, <2>1, <2>2, <2>3 DEF Extended
<1>9. ASSUME NEW c \in 1 .. Len(v.kids), v.kids[c].position = i
      PROVE  v.kids[c].status # "SUCCEEDED" /\ v.kids[c].next = 1
  <2>1. Appended(w, v, Len(w.plan) + 1)
    BY <1>1, AppendedKid
  <2>2. CASE c \in 1 .. Len(w.kids)
    <3>1. v.kids[c] = w.kids[c] /\ w.kids[c].position \in 1 .. Len(w.plan)
      BY <2>1, <2>2, Positions DEF Appended
    <3> QED
      BY <1>4, <1>9, <3>1
  <2>3. CASE c = Len(w.kids) + 1
    BY <2>1, <2>3 DEF Appended
  <2> QED
    BY <2>1, <2>2, <2>3 DEF Appended
<1>10. \A s : s \in 1 .. Len(back) => ~(s < 1)
  OBVIOUS
<1> HIDE DEF i
<1>11. Pends(v, i, n)
  BY <1>6, <1>7, <1>8, <1>9, <1>10 DEF Pends
<1> QED
  BY <1>5, <1>6, <1>11 DEF Pending

(***************************************************************************)
(* A transaction on a row keeps what is left on the devices accounted for. *)
(***************************************************************************)
LEMMA TurnSettled ==
  ASSUME NEW w, WellFormed(w), ~w.dry, Rounds(w), NEW d \in Devices, NEW n,
         Admitted(w, d, n), Places(w, d, n), Settled(w, d, n), NEW v, Turn(w, v), ~Legacy(w)
  PROVE  Settled(v, d, n)
<1>1. PICK k \in KidsOfPhase(w, PhaseConfiguration) :
        EntryOf(w, k).item = d /\ n \in Marked(w.kids[k])
  BY Positions DEF Admitted, Legacy, KidsOfPhase, EntryOf
<1>2. k \in 1 .. Len(w.kids) /\ w.kids[k].position \in Forth(w)
      /\ EntryOf(w, k) = w.plan[w.kids[k].position]
  BY Positions DEF KidsOfPhase, EntryOf, Forth
<1>3. Undoable(EntryOf(w, k), n)
  BY <1>1, <1>2 DEF Places, Rounds, Once
<1>4. LiveKids(w) = {} => n \in RanSteps(w.kids[k])
  BY <1>1, <1>2 DEF LiveKids, Marked
<1>5. LiveKids(w) = {} => \A items : d \in items =>
        \/ d \in NoRollbackItems(w, items)
        \/ Uncovered(w, d, n)
        \/ k \in ToUndo(w, items) /\ RollbackOf(w, k) # <<>>
  BY <1>1, <1>3, <1>4, RanIsPlanned
<1>6. CASE Stays(w, v)
  BY <1>6, SamePending DEF Stays, Settled, Shows, Owed
<1>7. CASE Closes(w, v)
  <2>1. v.kids = w.kids /\ v.plan = w.plan /\ LiveKids(w) = {}
        /\ (Back(w) # {} => LastAt(w) = Len(w.plan))
    BY <1>7 DEF Closes
  <2>2. /\ Back(v) = Back(w) /\ (Pending(v, d, n) <=> Pending(w, d, n))
        /\ (Uncovered(v, d, n) <=> Uncovered(w, d, n))
    BY <2>1, SamePending
  <2>3. CASE EndsForward(w, v)
    BY <2>2, <2>3 DEF EndsForward, Settled, Shows, Owed
  <2>4. CASE EndsBack(w, v)
    <3>1. SUFFICES ASSUME ~Uncovered(w, d, n) PROVE Shows(v, d, n)
      BY <2>2 DEF Settled
    <3>2. Owed(w) /\ (d \in w.noRollback \/ Pending(w, d, n)) /\ w.noRollback \subseteq v.noRollback
      BY <2>4, <3>1 DEF EndsBack, Settled, Shows
    <3>3. ASSUME v.status = "ROLLED_BACK" PROVE FALSE
      <4>1. w.noRollback = {} /\ ~RollbackFailed(w, d)
        BY <2>4, <3>3 DEF EndsBack
      <4>2. Pending(w, d, n)
        BY <3>2, <4>1
      <4>3. LastAt(w) = Len(w.plan)
        BY <2>1, <4>2 DEF Pending
      <4> QED
        BY <4>1, <4>2, <4>3, PendingFailedShows
    <3> QED
      BY <2>2, <3>2, <3>3 DEF Shows
  <2>5. CASE EndsAtOnce(w, v)
    <3>1. SUFFICES ASSUME ~Uncovered(w, d, n) PROVE Shows(v, d, n)
      BY <2>2 DEF Settled
    <3>2. d \in NoRollbackItems(w, Devices)
      BY <1>5, <2>1, <2>5, <3>1 DEF EndsAtOnce
    <3> QED
      BY <2>5, <3>2 DEF EndsAtOnce, Shows
  <2> QED
    BY <1>7, <2>3, <2>4, <2>5 DEF Closes
<1>8. CASE Queues(w, v)
  <2>1. /\ v.kids = Append(w.kids, NewJob(LastAt(w) + 1)) /\ v.plan = w.plan
        /\ v.noRollback = w.noRollback /\ v.code = w.code /\ v.status \in InFlight
    BY <1>8 DEF Queues
  <2>2. Appended(w, v, LastAt(w) + 1)
    BY <2>1, AppendedKid
  <2>3. Back(v) = Back(w) /\ v.status # "ROLLED_BACK"
        /\ (Uncovered(v, d, n) <=> Uncovered(w, d, n))
    BY <2>1 DEF Back, Uncovered, InFlight
  <2>4. ASSUME NEW i, Pends(w, i, n) PROVE Pends(v, i, n)
    <3> DEFINE back == DefinitionFor(v.plan[i])[PhaseRollback]
    <3>1. ASSUME NEW c \in 1 .. Len(v.kids), v.kids[c].position = i
          PROVE  /\ v.kids[c].status # "SUCCEEDED"
                 /\ IsLive(v.kids[c]) =>
                      \A s \in 1 .. Len(back) : s < v.kids[c].next => Spares(back[s], n)
      <4>1. CASE c \in 1 .. Len(w.kids)
        BY <2>1, <2>2, <2>4, <3>1, <4>1 DEF Appended, Pends
      <4>2. CASE c = Len(w.kids) + 1
        BY <2>2, <4>2 DEF Appended
      <4> QED
        BY <2>2, <4>1, <4>2 DEF Appended
    <3> QED
      BY <2>1, <2>3, <2>4, <3>1 DEF Pends
  <2>5. Pending(w, d, n) => Pending(v, d, n)
    BY <2>1, <2>3, <2>4 DEF Pending
  <2> QED
    BY <2>1, <2>3, <2>5 DEF Settled, Shows, Owed
<1>9. ASSUME NEW items, TurnsBack(w, v, items) PROVE Settled(v, d, n)
  <2>1. v.plan = w.plan \o RollbackEntries(w, items) /\ v.status # "ROLLED_BACK" /\ LiveKids(w) = {}
    BY <1>9 DEF TurnsBack, InFlight
  <2>2. Uncovered(w, d, n) => Uncovered(v, d, n)
    <3>1. PICK order : Extended(w, v, items, order)
      BY <2>1, TurnsBackPlan
    <3> QED
      BY <3>1, UncoveredGrows DEF Extended
  <2>3. SUFFICES ASSUME ~Uncovered(w, d, n)
                 PROVE  d \in v.noRollback \/ Pending(v, d, n)
    BY <2>1, <2>2 DEF Settled, Shows
  <2>4. k \in ToUndo(w, items) /\ RollbackOf(w, k) # <<>> => Pending(v, d, n)
    BY <1>1, <1>4, <1>9, <2>1, PlannedIsPending
  <2>5. CASE Back(w) = {} /\ items = Devices /\ v.noRollback = NoRollbackItems(w, Devices)
    BY <1>5, <2>1, <2>3, <2>4, <2>5
  <2>6. CASE /\ Owed(w) /\ w.status \in Terminal /\ items = RetryItems(w)
             /\ v.noRollback = w.noRollback \cup NoRollbackItems(w, items)
    <3>1. d \in w.noRollback \/ Pending(w, d, n)
      BY <2>3, <2>6 DEF Settled, Shows
    <3>2. ASSUME Pending(w, d, n) PROVE d \in items
      <4>1. LastAt(w) = Len(w.plan)
        BY <2>6, <3>2 DEF Pending, Rounds, AtEnd
      <4> QED
        BY <2>6, <3>2, <4>1, PendingFailedShows
    <3> QED
      BY <1>5, <2>1, <2>3, <2>4, <2>6, <3>1, <3>2
  <2> QED
    BY <1>9, <2>5, <2>6 DEF TurnsBack
<1> QED
  BY <1>6, <1>7, <1>8, <1>9 DEF Turn

(* What a step that acts adds to the devices ... *)
LEMMA ActedNew ==
  ASSUME NEW r, NEW k, NEW step, NEW a \in Acted(r, k, step), a \notin applied
  PROVE  /\ ~runs[r].dry /\ Configures(EntryOf(runs[r], k), step)
         /\ step.driver \notin NoUndoDrivers
         /\ a = <<r, EntryOf(runs[r], k).item, step.name>>
BY DEF Acted

(* ... and cannot leave. *)
LEMMA ActedLeaves ==
  ASSUME NEW r, NEW k, NEW step, NEW a \in Acted(r, k, step), ~runs[r].dry,
         EntryOf(runs[r], k).phase = PhaseRollback, step.driver \notin NoUndoDrivers,
         runs[a[1]].service = runs[r].service, a[2] = EntryOf(runs[r], k).item, a[3] \in Names
  PROVE  step.undoes # NoStep /\ step.undoes # a[3]
BY DEF Acted, Configures, PhaseRollback, PhaseConfiguration, NoPhase

(* A step of the child that rolls device d back, with n still there, has   *)
(* spared n.                                                               *)
LEMMA StepSpares ==
  ASSUME OInv, NEW r \in RunIds, NEW k \in 1 .. Len(runs[r].kids), ~runs[r].dry,
         EntryOf(runs[r], k).phase = PhaseRollback, NEW n \in Names,
         n \in EntryOf(runs[r], k).ran,
         NEW d, EntryOf(runs[r], k).item = d, <<r, d, n>> \in applied',
         SkippedByPlan(r, k) \/ applied' = Acted(r, k, StepAt(r, k))
  PROVE  Spares(StepAt(r, k), n)
<1> DEFINE step == StepAt(r, k)
           a == <<r, d, n>>
<1>1. CASE SkippedByPlan(r, k)
  BY <1>1 DEF SkippedByPlan, Skips, Spares
<1>2. CASE applied' = Acted(r, k, step)
  <2> SUFFICES ASSUME step.undoes \in {NoStep, n}, step.driver \notin NoUndoDrivers
               PROVE  FALSE
    BY DEF Spares
  <2>1. a[1] = r /\ a[2] = d /\ a[3] = n /\ a \in Acted(r, k, step)
    BY <1>2
  <2> HIDE DEF a, step
  <2>2. step.undoes # NoStep /\ step.undoes # a[3]
    BY <2>1, ActedLeaves
  <2> QED
    BY <2>1, <2>2
<1> QED
  BY <1>1, <1>2

(* The entry pending for a device stays pending while its child works. *)
LEMMA KidPends ==
  ASSUME OInv, RoundsInv, NEW r \in RunIds, NEW k \in 1 .. Len(runs[r].kids), NEW job,
         JobTurns(r, k, job), ~runs[r].dry, NEW d, NEW n \in Names,
         <<r, d, n>> \in applied', NEW i \in Back(runs[r]), runs[r].plan[i].item = d,
         Pends(runs[r], i, n)
  PROVE  LET v == WithKid(runs[r], k, job)
         IN  Pends(v, i, n) \/ Uncovered(v, d, n)
<1> DEFINE w == runs[r]
           v == WithKid(runs[r], k, job)
           old == w.kids[k]
           back == DefinitionFor(w.plan[i])[PhaseRollback]
<1>1. /\ v.plan = w.plan /\ Len(v.kids) = Len(w.kids) /\ v.kids[k] = job
      /\ \A j \in 1 .. Len(w.kids) : j # k => v.kids[j] = w.kids[j]
  BY JobTurnsRow
<1>2. WellFormed(w) /\ i \in 1 .. Len(w.plan) /\ w.plan[i].phase = PhaseRollback
  BY DEF OInv, IInv, RowsWellFormed, Back
<1>3. Recorded(EntryOf(w, k), old, job) /\ Does(r, k, job)
  BY DEF JobTurns
<1>4. w.plan[i] \in Entry
  BY <1>2, Lengths, ElementOfSeq
<1>5. JobSteps(w.plan[i]) = back /\ back \in Seq(Step) /\ Len(back) \in Nat
  BY <1>2, <1>4, StepsOfEntry
<1> HIDE DEF v
<1>6. Back(v) = Back(w)
  BY <1>1 DEF Back
<1>7. CASE old.position # i \/ job = old
  <2>1. \A j \in 1 .. Len(w.kids) : v.kids[j].position = i => v.kids[j] = w.kids[j]
    BY <1>1, <1>3, <1>7 DEF Recorded
  <2> QED
    <3>1. Pends(v, i, n)
      BY <1>1, <1>6, <2>1 DEF Pends
    <3> QED
      BY <3>1 DEF v
<1>8. CASE old.position = i /\ IsLive(old)
  <2>1. EntryOf(w, k) = w.plan[i] /\ StepsOf(r, k) = back
    BY <1>5, <1>8 DEF EntryOf, StepsOf
  <2>2. \A s \in 1 .. Len(back) : s < old.next => Spares(back[s], n)
    BY <1>8 DEF Pends
  <2>3. \A j \in 1 .. Len(w.kids) : v.kids[j].position = i => j = k
    <3>1. job.position = i
      BY <1>3, <1>8 DEF Recorded
    <3> QED
      BY <1>1, <1>2, <1>8, <3>1, Positions, SMTT(30)
  <2>4. old.next \in Nat /\ old.next >= 1 /\ job.next \in Nat
    BY <1>2, <1>3, KidType DEF Recorded, Job
  <2>5. ASSUME job.status = "SUCCEEDED" PROVE Uncovered(v, d, n)
    <3>1. old.next > Len(back)
      BY <1>3, <1>8, <2>1, <2>5 DEF Does
    <3>2. \A s \in 1 .. Len(back) : Spares(back[s], n)
      BY <1>5, <2>2, <2>4, <3>1
    <3>3. back # <<>>
      BY DEF Pends
    <3> QED
      BY <1>1, <1>2, <3>2, <3>3 DEF Uncovered, Spares
  <2>6. ASSUME IsLive(job), NEW s \in 1 .. Len(back), s < job.next
        PROVE  Spares(back[s], n)
    <3>1. CASE s < old.next
      BY <2>2, <3>1
    <3>2. CASE ~(s < old.next)
      <4>1. /\ job.next = old.next + 1 /\ old.next <= Len(back)
            /\ SkippedByPlan(r, k) \/ applied' = Acted(r, k, StepAt(r, k))
        BY <1>3, <2>1, <2>4, <2>6, <3>2 DEF Does
      <4>2. s = old.next
        BY <1>5, <2>4, <2>6, <3>2, <4>1
      <4>3. back[s] = StepAt(r, k)
        BY <2>1, <4>2 DEF StepAt
      <4>4. n \in EntryOf(w, k).ran
        BY <2>1 DEF Pends
      <4>5. Spares(StepAt(r, k), n)
        BY <1>2, <2>1, <4>1, <4>4, StepSpares
      <4> QED
        BY <4>3, <4>5
    <3> QED
      BY <3>1, <3>2
  <2>7. job.status # "SUCCEEDED" => Pends(v, i, n)
    BY <1>1, <1>6, <2>3, <2>6 DEF Pends
  <2> QED
    BY <2>5, <2>7 DEF v
<1> QED
  BY <1>3, <1>7, <1>8 DEF Recorded

(* What a step has just put on a device: its run is going forward. *)
LEMMA ActedForward ==
  ASSUME OInv, RoundsInv, NEW r \in RunIds, NEW k \in 1 .. Len(runs[r].kids), NEW job,
         JobTurns(r, k, job), NEW a \in applied', a \notin applied, ~Legacy(runs[r])
  PROVE  /\ ~runs[r].dry /\ a[1] = r
         /\ Places(runs[r], a[2], a[3])
         /\ Back(runs[r]) = {} /\ ~Owed(runs[r])
<1> DEFINE w == runs[r]
           e == EntryOf(w, k)
           step == StepAt(r, k)
<1>1. WellFormed(w) /\ Lawful(w) /\ Rounds(w)
  BY DEF OInv, RowsLawful, IInv, RowsWellFormed, RoundsInv
<1>2. /\ Busy(w.kids[k]) /\ w.kids[k].next <= Len(StepsOf(r, k)) /\ applied' = Acted(r, k, step)
  BY DEF JobTurns, Does
<1>3. /\ ~w.dry /\ e.phase = PhaseConfiguration /\ step.driver \notin NoUndoDrivers
      /\ a = <<r, e.item, step.name>>
  <2>1. /\ ~w.dry /\ Configures(e, step) /\ step.driver \notin NoUndoDrivers
        /\ a = <<r, e.item, step.name>>
    BY <1>2, ActedNew
  <2>2. e.phase # NoPhase
    BY <1>1, Positions DEF Legacy, EntryOf
  <2> QED
    BY <2>1, <2>2 DEF Configures
<1>4. e \in Entry /\ w.kids[k].position \in Forth(w) /\ e = w.plan[w.kids[k].position]
  BY <1>1, <1>3, EntryOfType, Positions, SMTT(60) DEF EntryOf, Forth
<1>5. Places(w, a[2], a[3])
  <2>1. StepsOf(r, k) = DefinitionFor(e)[PhaseConfiguration]
    BY <1>3, <1>4, StepsOfEntry DEF StepsOf
  <2>2. w.kids[k].next \in 1 .. Len(StepsOf(r, k))
    BY <1>2, StepAtType, SMTT(30) DEF OInv
  <2>3. Undoable(e, step.name)
    BY <1>3, <2>1, <2>2 DEF Undoable, StepAt
  <2> QED
    BY <1>3, <1>4, <2>3, ZenonT(60) DEF Places
<1>6. w.status \in InFlight
  BY DEF JobTurns
<1>7. Back(w) = {}
  <2>1. IsLive(w.kids[k])
    BY <1>2 DEF Busy, IsLive, InFlight
  <2>2. k = Len(w.kids)
    BY <1>1, <2>1 DEF WellFormed, OneLive, LiveKids
  <2>3. LastAt(w) \in Forth(w)
    BY <1>4, <2>2 DEF LastAt
  <2>4. LastAt(w) \notin Back(w)
    BY <2>3 DEF Back, Forth, PhaseRollback, PhaseConfiguration
  <2> QED
    BY <1>1, <1>3, <2>4 DEF Rounds, Turned
<1>8. w.code # "ROLLBACK_INCOMPLETE"
  BY <1>1, <1>6, OpenNotIncomplete
<1> QED
  BY <1>3, <1>5, <1>7, <1>8 DEF Owed

(* What is on the devices was planned, and is accounted for. *)
LeftSettled ==
  \A a \in applied :
    \/ Legacy(runs[a[1]])
    \/ Places(runs[a[1]], a[2], a[3]) /\ Settled(runs[a[1]], a[2], a[3])

(* The step of a child keeps it so, before its run moves ... *)
LEMMA KidSettled ==
  ASSUME OInv, RoundsInv, LeftSettled, NEW r \in RunIds, NEW k \in 1 .. Len(runs[r].kids),
         NEW job, JobTurns(r, k, job), NEW a \in applied', a[1] = r,
         a = <<a[1], a[2], a[3]>>, a[3] \in Names, ~Legacy(runs[r])
  PROVE  LET v == WithKid(runs[r], k, job)
         IN  ~v.dry /\ Admitted(v, a[2], a[3]) /\ Places(v, a[2], a[3]) /\ Settled(v, a[2], a[3])
<1> DEFINE w == runs[r]
           v == WithKid(w, k, job)
           d == a[2]
           n == a[3]
<1>1. /\ WellFormed(v) /\ Grows(w, v)
      /\ v.dry = w.dry /\ v.plan = w.plan
      /\ v.status = w.status /\ v.code = w.code /\ v.noRollback = w.noRollback
      /\ Len(v.kids) = Len(w.kids) /\ v.kids[k] = job
  BY JobTurnsRow
<1>2. WellFormed(w)
  BY DEF OInv, IInv, RowsWellFormed
<1>3. w.status \in InFlight /\ (a \in applied \/ Admits(r, k, job, a))
      /\ job.position = w.kids[k].position
  BY DEF JobTurns, Recorded
<1> HIDE DEF v
<1>4. Back(v) = Back(w) /\ Forth(v) = Forth(w) /\ (Owed(v) <=> Owed(w))
      /\ (Uncovered(w, d, n) <=> Uncovered(v, d, n)) /\ (Places(w, d, n) <=> Places(v, d, n))
  BY <1>1 DEF Back, Forth, Owed, Uncovered, Places
<1>5. v.status # "ROLLED_BACK"
  BY <1>1, <1>3 DEF InFlight
<1>6. CASE a \notin applied
  <2>1. ~w.dry /\ Places(w, d, n) /\ ~Owed(w)
    BY <1>6, ActedForward
  <2>2. Admitted(v, d, n)
    <3>1. Admits(r, k, job, a)
      BY <1>3, <1>6
    <3>2. EntryOf(v, k) = EntryOf(w, k)
      BY <1>1, <1>3 DEF EntryOf
    <3> QED
      BY <1>1, <3>1, <3>2 DEF Admits, Admitted
  <2>3. Settled(v, d, n)
    BY <1>4, <1>5, <2>1 DEF Settled, Shows
  <2> QED
    BY <1>1, <1>4, <2>1, <2>2, <2>3 DEF v
<1>7. CASE a \in applied
  <2>1. Admitted(w, d, n) /\ Places(w, d, n) /\ Settled(w, d, n)
    BY <1>7 DEF OInv, Traced, LeftSettled
  <2>2. ~w.dry
    BY <2>1 DEF Admitted
  <2>3. Admitted(v, d, n)
    BY <1>1, <1>2, <2>1, AdmittedGrows
  <2>4. ASSUME Pending(w, d, n) PROVE Pending(v, d, n) \/ Uncovered(v, d, n)
    <3>1. PICK i \in Back(w) : w.plan[i].item = d /\ Pends(w, i, n)
      BY <2>4 DEF Pending
    <3>2. Pends(v, i, n) \/ Uncovered(v, d, n)
      BY <2>2, <3>1, KidPends DEF v
    <3> QED
      BY <1>1, <1>4, <3>1, <3>2 DEF Pending
  <2>5. Settled(v, d, n)
    BY <1>1, <1>4, <1>5, <2>1, <2>4 DEF Settled, Shows
  <2> QED
    BY <1>1, <1>4, <2>1, <2>2, <2>3, <2>5 DEF v
<1> QED
  BY <1>6, <1>7 DEF v

(* A transaction on a row keeps its plan and its children, and adds to     *)
(* them entries and a child that has done nothing.                         *)
LEMMA TurnExtends ==
  ASSUME NEW w, WellFormed(w), NEW v, Turn(w, v)
  PROVE  /\ \A i \in 1 .. Len(w.plan) : i \in 1 .. Len(v.plan) /\ v.plan[i] = w.plan[i]
         /\ \A k \in 1 .. Len(v.kids) : \/ k \in 1 .. Len(w.kids) /\ v.kids[k] = w.kids[k]
                                        \/ v.kids[k].log = {} /\ ~Busy(v.kids[k])
<1>1. CASE Stays(w, v) \/ Closes(w, v)
  BY <1>1 DEF Stays, Closes
<1>2. ASSUME NEW p, v.kids = Append(w.kids, NewJob(p)), NEW k \in 1 .. Len(v.kids)
      PROVE  \/ k \in 1 .. Len(w.kids) /\ v.kids[k] = w.kids[k]
             \/ v.kids[k].log = {} /\ ~Busy(v.kids[k])
  <2>1. Appended(w, v, p)
    BY <1>2, AppendedKid
  <2>2. NewJob(p).log = {} /\ ~Busy(NewJob(p))
    BY <2>1 DEF Appended, Busy
  <2> QED
    BY <2>1, <2>2, <1>2 DEF Appended
<1>3. CASE Queues(w, v)
  BY <1>2, <1>3 DEF Queues
<1>4. ASSUME NEW items, TurnsBack(w, v, items)
      PROVE  \A i \in 1 .. Len(w.plan) : i \in 1 .. Len(v.plan) /\ v.plan[i] = w.plan[i]
  <2>1. v.plan = w.plan \o RollbackEntries(w, items)
    BY <1>4 DEF TurnsBack
  <2>2. PICK order : Extended(w, v, items, order)
    BY <2>1, TurnsBackPlan
  <2> QED
    BY <2>2 DEF Extended
<1>5. CASE \E items : TurnsBack(w, v, items)
  BY <1>2, <1>4, <1>5 DEF TurnsBack
<1> QED
  BY <1>1, <1>3, <1>5 DEF Turn

(* ... and so does every step. *)
LEMMA NextSettled == OInv /\ OInv' /\ RoundsInv /\ LeftSettled /\ [Next]_vars => LeftSettled'
<1> SUFFICES ASSUME OInv, OInv', RoundsInv, LeftSettled, [Next]_vars, NEW a \in applied',
                    ~Legacy(runs'[a[1]])
             PROVE  Places(runs'[a[1]], a[2], a[3]) /\ Settled(runs'[a[1]], a[2], a[3])
  BY DEF LeftSettled
<1>1. /\ a[1] \in 1 .. Len(runs') /\ a[2] \in Devices /\ a[3] \in Names
      /\ a = <<a[1], a[2], a[3]>>
  BY DEF OInv, IInv, TablesOK
<1>2. ASSUME NEW w, Forth(w) \subseteq 1 .. Len(w.plan), NEW v, Places(w, a[2], a[3]),
             \A i \in 1 .. Len(w.plan) : i \in 1 .. Len(v.plan) /\ v.plan[i] = w.plan[i]
      PROVE  Places(v, a[2], a[3])
  BY <1>2 DEF Places, Forth
<1>3. ASSUME a \in applied, runs'[a[1]] = runs[a[1]]
      PROVE  Places(runs'[a[1]], a[2], a[3]) /\ Settled(runs'[a[1]], a[2], a[3])
  BY <1>3 DEF LeftSettled
<1>4. CASE runs' = runs /\ applied' = applied
  BY <1>3, <1>4
<1>5. ASSUME NEW s \in Services, NEW p \in RunPurposes, NEW dry \in DryRuns,
             NEW guided \in GuidedRuns, CreateOrGetRun(s, p, dry, guided)
      PROVE  Places(runs'[a[1]], a[2], a[3]) /\ Settled(runs'[a[1]], a[2], a[3])
  <2>1. applied' = applied /\ \A q \in RunIds : runs'[q] = runs[q]
    BY <1>5, CreateTurns
  <2>2. a[1] \in RunIds
    BY <2>1 DEF OInv, IInv, TablesOK, RunIds
  <2> QED
    BY <1>3, <2>1, <2>2
<1>6. ASSUME NEW r \in RunIds, a[1] = r, NEW w, WellFormed(w), ~w.dry, Rounds(w),
             Admitted(w, a[2], a[3]), Places(w, a[2], a[3]), Settled(w, a[2], a[3]),
             Turn(w, runs'[r]), ~Legacy(w)
      PROVE  Places(runs'[a[1]], a[2], a[3]) /\ Settled(runs'[a[1]], a[2], a[3])
  <2>1. Settled(runs'[r], a[2], a[3])
    BY <1>1, <1>6, TurnSettled
  <2>2. \A i \in 1 .. Len(w.plan) : i \in 1 .. Len(runs'[r].plan) /\ runs'[r].plan[i] = w.plan[i]
    BY <1>6, TurnExtends
  <2>3. Places(runs'[r], a[2], a[3])
    BY <1>2, <1>6, <2>2 DEF Forth
  <2> QED
    BY <1>6, <2>1, <2>3
<1>0. ASSUME NEW r \in RunIds, a[1] = r, NEW w, WellFormed(w), Turn(w, runs'[r])
      PROVE  ~Legacy(w)
  <2>1. \A i \in 1 .. Len(w.plan) : i \in 1 .. Len(runs'[r].plan) /\ runs'[r].plan[i] = w.plan[i]
    BY <1>0, TurnExtends
  <2> QED
    BY <1>0, <2>1 DEF Legacy
<1>7. ASSUME NEW r \in RunIds, OnlyRun(r), NEW k \in 1 .. Len(runs[r].kids), NEW job,
             JobTurns(r, k, job)
      PROVE  Places(runs'[a[1]], a[2], a[3]) /\ Settled(runs'[a[1]], a[2], a[3])
  <2>1. CASE a[1] # r
    <3>1. a \in applied
      BY <1>7, <2>1 DEF JobTurns, Admits
    <3>2. a[1] \in RunIds
      BY <3>1 DEF OInv, IInv, TablesOK, RunIds
    <3> QED
      BY <1>3, <1>7, <2>1, <3>1, <3>2 DEF OnlyRun
  <2>2. CASE a[1] = r
    <3> DEFINE v == WithKid(runs[r], k, job)
    <3>1. WellFormed(v) /\ Rounds(v) /\ v.dry = runs[r].dry /\ v.plan = runs[r].plan
      BY <1>7, JobTurnsRow
    <3>2. ~runs[r].dry => Turn(v, runs'[r])
      BY <1>7 DEF JobTurns, WithKid
    <3>3. ~runs[r].dry
      <4>1. Admitted(runs'[r], a[2], a[3])
        BY <2>2 DEF OInv, Traced
      <4> QED
        BY <1>7, <4>1 DEF Admitted, OnlyRun
    <3>4. ~Legacy(v) /\ ~Legacy(runs[r])
      <4>1. ~Legacy(v)
        BY <1>0, <2>2, <3>1, <3>2, <3>3
      <4> QED
        BY <3>1, <4>1 DEF Legacy
    <3>5. ~v.dry /\ Admitted(v, a[2], a[3]) /\ Places(v, a[2], a[3]) /\ Settled(v, a[2], a[3])
      BY <1>1, <1>7, <2>2, <3>4, KidSettled
    <3> HIDE DEF v
    <3> QED
      BY <1>6, <2>2, <3>1, <3>2, <3>3, <3>4, <3>5
  <2> QED
    BY <2>1, <2>2
<1>8. ASSUME NEW r \in RunIds, OnlyRun(r), RunTurns(r)
      PROVE  Places(runs'[a[1]], a[2], a[3]) /\ Settled(runs'[a[1]], a[2], a[3])
  <2>1. a \in applied /\ a[1] \in RunIds
    BY <1>8 DEF RunTurns, OInv, IInv, TablesOK, RunIds
  <2>2. CASE a[1] # r
    BY <1>3, <1>8, <2>1, <2>2 DEF OnlyRun
  <2>3. CASE a[1] = r
    <3>1. Admitted(runs[r], a[2], a[3])
      BY <2>1, <2>3 DEF OInv, Traced
    <3>2. WellFormed(runs[r]) /\ Rounds(runs[r]) /\ ~runs[r].dry
      BY <3>1 DEF OInv, IInv, RowsWellFormed, RoundsInv, Admitted
    <3>3. Turn(runs[r], runs'[r])
      BY <1>8, <3>2 DEF RunTurns
    <3>4. ~Legacy(runs[r])
      BY <1>0, <2>3, <3>2, <3>3
    <3>5. Places(runs[r], a[2], a[3]) /\ Settled(runs[r], a[2], a[3])
      BY <2>1, <2>3, <3>4 DEF LeftSettled
    <3> QED
      BY <1>6, <2>3, <3>1, <3>2, <3>3, <3>4, <3>5
  <2> QED
    BY <2>2, <2>3
<1> QED
  BY <1>4, <1>5, <1>7, <1>8, StepKinds

(***************************************************************************)
(* A run older than the phases has none anywhere in its plan, which stays  *)
(* as it is.                                                               *)
(***************************************************************************)
LEMMA LegacyThroughout ==
  ASSUME NEW w, WellFormed(w), PlanInOrder(w), Legacy(w)
  PROVE  \A i \in 1 .. Len(w.plan) : w.plan[i].phase = NoPhase
<1>1. PICK i \in 1 .. Len(w.plan) : w.plan[i].phase = NoPhase
  BY DEF Legacy
<1> SUFFICES ASSUME NEW j \in 1 .. Len(w.plan) PROVE w.plan[j].phase = NoPhase
  OBVIOUS
<1>2. w.plan[j].phase \in Phases \cup {NoPhase}
  <2>1. w.plan[j] \in Entry
    BY Lengths, ElementOfSeq
  <2> QED
    BY <2>1 DEF Entry
<1>3. i < j => w.plan[j].phase = NoPhase
  BY <1>1 DEF PlanInOrder
<1>4. j < i => Rank(w.plan[j].phase) <= 0
  BY <1>1, RankFacts DEF PlanInOrder
<1>5. Rank(w.plan[j].phase) <= 0 => w.plan[j].phase = NoPhase
  BY <1>2, RankFacts
<1>6. i \in Int /\ j \in Int
  BY Lengths
<1> QED
  BY <1>1, <1>3, <1>4, <1>5, <1>6

LEMMA LegacySame ==
  ASSUME NEW w, WellFormed(w), PlanInOrder(w), NEW v, WellFormed(v), PlanInOrder(v), Grows(w, v)
  PROVE  Legacy(v) <=> Legacy(w)
<1>1. Len(w.plan) \in Nat /\ Len(v.plan) \in Nat
  BY Lengths
<1>2. \A i \in 1 .. Len(w.plan) : i \in 1 .. Len(v.plan) /\ v.plan[i] = w.plan[i]
  BY <1>1 DEF Grows
<1>3. Legacy(w) => Legacy(v)
  BY <1>2 DEF Legacy
<1>4. ASSUME Legacy(v) PROVE Legacy(w)
  <2>1. \A i \in 1 .. Len(v.plan) : v.plan[i].phase = NoPhase
    BY <1>4, LegacyThroughout
  <2>2. PICK i \in 1 .. Len(v.plan) : v.plan[i].phase = NoPhase
    BY <1>4 DEF Legacy
  <2>3. PICK j \in 1 .. Len(w.plan) : TRUE
    <3>1. CASE i > Len(w.plan)
      BY <3>1 DEF Grows, Copied
    <3>2. CASE ~(i > Len(w.plan))
      BY <1>1, <3>2
    <3> QED
      BY <3>1, <3>2
  <2> QED
    BY <1>2, <2>1, <2>3 DEF Legacy
<1> QED
  BY <1>3, <1>4

LEMMA LegacyStays ==
  ASSUME OInv, OInv', RoundsInv, [Next]_vars, NEW r \in RunIds
  PROVE  Legacy(runs'[r]) <=> Legacy(runs[r])
<1>1. /\ runs \in Seq(Run) /\ Len(runs) \in Nat
      /\ \A q \in RunIds : WellFormed(runs[q]) /\ PlanInOrder(runs[q])
  BY LenProperties DEF OInv, IInv, TablesOK, RowsWellFormed, RowsLawful, Lawful, Base
<1>2. CASE runs'[r] = runs[r]
  BY <1>2
<1>3. ASSUME NEW q \in RunIds, RunMoves(q)
      PROVE  Legacy(runs'[r]) <=> Legacy(runs[r])
  <2>1. PICK left : Onward(left, runs[q]) /\ Commit(q, left)
    BY <1>3 DEF RunMoves
  <2>2. WellFormed(left.row) /\ PlanInOrder(left.row) /\ Grows(runs[q], left.row)
    BY <2>1 DEF Onward, Lawful, Base
  <2>3. CASE q = r
    <3>1. runs'[r] = left.row
      BY <1>1, <2>1, <2>3 DEF Commit, RunIds
    <3> QED
      BY <1>1, <2>2, <2>3, <3>1, LegacySame
  <2>4. CASE q # r
    BY <1>1, <1>2, <2>1, <2>4 DEF Commit, RunIds
  <2> QED
    BY <2>3, <2>4
<1>4. CASE Produce
  <2>1. runs'[r] = runs[r]
    BY <1>4, CreateTurns DEF Produce
  <2> QED
    BY <1>2, <2>1
<1>5. CASE \/ \E d \in Devices : EditPlaybook(d)
           \/ \E s \in Services : Reparent(s)
           \/ \E q \in RunIds : PassRefusal(q)
           \/ UNCHANGED vars
  BY <1>2, <1>5 DEF EditPlaybook, Reparent, PassRefusal, tables, vars
<1> QED
  BY <1>3, <1>4, <1>5, JobStepOnward, RunStepOnward DEF Next, EngineStep, OfficeStep

(***************************************************************************)
(* Such a run is never rolled back, and never says that it was.            *)
(***************************************************************************)
ForwardOnly(w) == w.phase = NoPhase /\ w.status # "ROLLED_BACK" /\ ~Owed(w)

Quiet == \A r \in RunIds : Legacy(runs[r]) /\ ~runs[r].dry => ForwardOnly(runs[r])

LEMMA TurnForwardOnly ==
  ASSUME NEW w, WellFormed(w), Lawful(w), Legacy(w), ForwardOnly(w),
         NEW v, WellFormed(v), Lawful(v), Turn(w, v)
  PROVE  ForwardOnly(v)
<1>1. w.phase = NoPhase /\ ~Owed(w) /\ Back(w) = {}
  BY DEF ForwardOnly, Owed
<1>2. \A i \in 1 .. Len(w.plan) : w.plan[i].phase = NoPhase
  BY LegacyThroughout DEF Lawful, Base
<1>3. CASE Stays(w, v)
  BY <1>3 DEF Stays, ForwardOnly, Owed, Back
<1>4. CASE Closes(w, v)
  <2>1. EndsForward(w, v)
    BY <1>1, <1>4 DEF Closes, EndsBack, EndsAtOnce
  <2> QED
    BY <1>1, <1>4, <2>1 DEF Closes, EndsForward, ForwardOnly, Owed, Back
<1>5. CASE Queues(w, v)
  <2>1. /\ v.kids = Append(w.kids, NewJob(LastAt(w) + 1)) /\ v.plan = w.plan
        /\ v.code = w.code /\ v.status \in InFlight
    BY <1>5 DEF Queues
  <2>2. Appended(w, v, LastAt(w) + 1)
    BY <2>1, AppendedKid
  <2>3. v.kids # <<>> /\ Len(v.kids) \in 1 .. Len(v.kids)
    <3>1. Len(w.kids) \in Nat /\ Len(v.kids) = Len(w.kids) + 1
      BY <2>2, Lengths DEF Appended
    <3>2. Len(v.kids) # 0
      BY <3>1
    <3> QED
      BY <3>1, <3>2
  <2>4. v.phase = EntryOf(v, Len(v.kids)).phase
    BY <2>1, <2>3 DEF Lawful, OpenLaw
  <2>5. v.phase = NoPhase
    BY <1>2, <2>1, <2>3, <2>4, Positions DEF EntryOf
  <2> QED
    BY <1>1, <2>1, <2>5 DEF ForwardOnly, Owed, Back, InFlight
<1>6. ASSUME NEW items, TurnsBack(w, v, items) PROVE FALSE
  <2>1. PICK k \in ToUndo(w, items) : TRUE
    BY <1>6 DEF TurnsBack
  <2>2. k \in 1 .. Len(w.kids) /\ EntryOf(w, k).phase = PhaseConfiguration
    BY <2>1 DEF ToUndo, Touched, KidsOfPhase
  <2> QED
    BY <1>2, <2>2, Positions DEF EntryOf, PhaseConfiguration, NoPhase
<1> QED
  BY <1>3, <1>4, <1>5, <1>6 DEF Turn

LEMMA NextQuiet == OInv /\ OInv' /\ RoundsInv /\ Quiet /\ [Next]_vars => Quiet'
<1> SUFFICES ASSUME OInv, OInv', RoundsInv, Quiet, [Next]_vars,
                    NEW r \in 1 .. Len(runs'), Legacy(runs'[r]), ~runs'[r].dry
             PROVE  ForwardOnly(runs'[r])
  BY DEF Quiet, RunIds
<1>1. r \in RunIds
  <2>1. CASE runs' = runs
    BY <2>1 DEF RunIds
  <2>2. ASSUME NEW s \in Services, NEW p \in RunPurposes, NEW dry \in DryRuns,
               NEW guided \in GuidedRuns, CreateOrGetRun(s, p, dry, guided)
        PROVE  r \in RunIds
    <3>1. /\ Len(runs) \in Nat /\ Len(runs') = Len(runs) + 1
          /\ ~Legacy(runs'[Len(runs) + 1])
      BY <2>2, CreateTurns
    <3> QED
      BY <3>1 DEF RunIds
  <2>3. ASSUME NEW q \in RunIds, OnlyRun(q) PROVE r \in RunIds
    BY <2>3 DEF OnlyRun, RunIds
  <2> QED
    BY <2>1, <2>2, <2>3, StepKinds
<1>2. /\ WellFormed(runs[r]) /\ Lawful(runs[r])
      /\ WellFormed(runs'[r]) /\ Lawful(runs'[r])
  BY <1>1 DEF OInv, IInv, RowsWellFormed, RowsLawful, RunIds
<1>3. Legacy(runs[r])
  BY <1>1, LegacyStays
<1>4. ~runs[r].dry => ForwardOnly(runs[r])
  BY <1>1, <1>3 DEF Quiet
<1>5. CASE runs'[r] = runs[r]
  BY <1>4, <1>5
<1>6. ASSUME OnlyRun(r), NEW k \in 1 .. Len(runs[r].kids), NEW job, JobTurns(r, k, job)
      PROVE  ForwardOnly(runs'[r])
  <2> DEFINE v == WithKid(runs[r], k, job)
  <2>1. /\ WellFormed(v) /\ Lawful(v) /\ v.dry = runs[r].dry /\ v.plan = runs[r].plan
        /\ v.phase = runs[r].phase /\ v.status = runs[r].status /\ v.code = runs[r].code
    BY <1>1, <1>6, JobTurnsRow
  <2>2. ~runs[r].dry
    BY <1>6 DEF OnlyRun
  <2>3. Turn(v, runs'[r])
    BY <1>6, <2>2 DEF JobTurns, WithKid
  <2> HIDE DEF v
  <2>4. Legacy(v) /\ ForwardOnly(v)
    BY <1>3, <1>4, <2>1, <2>2 DEF Legacy, ForwardOnly, Owed, Back
  <2> QED
    BY <1>2, <2>1, <2>3, <2>4, TurnForwardOnly
<1>7. ASSUME OnlyRun(r), RunTurns(r) PROVE ForwardOnly(runs'[r])
  <2>1. ~runs[r].dry /\ Turn(runs[r], runs'[r])
    BY <1>7 DEF OnlyRun, RunTurns
  <2> QED
    BY <1>2, <1>3, <1>4, <2>1, TurnForwardOnly
<1>8. ASSUME NEW s \in Services, NEW p \in RunPurposes, NEW dry \in DryRuns,
             NEW guided \in GuidedRuns, CreateOrGetRun(s, p, dry, guided)
      PROVE  runs'[r] = runs[r]
  BY <1>1, <1>8, CreateTurns
<1>9. \A q \in RunIds : OnlyRun(q) /\ q # r => runs'[r] = runs[r]
  BY <1>1 DEF OnlyRun
<1> QED
  BY <1>1, <1>5, <1>6, <1>7, <1>8, <1>9, StepKinds

LEMMA InitQuiet == Init => Quiet
<1> SUFFICES ASSUME Init, NEW r \in RunIds PROVE ForwardOnly(runs[r])
  BY DEF Quiet
<1>1. runs # <<>>
  BY DEF RunIds
<1>2. PICK s \in LegacyServices, dry \in DryRuns : runs = <<LegacyRun(s, dry)>>
  BY <1>1 DEF Init
<1> DEFINE w == LegacyRun(s, dry)
           plan == [i \in 1 .. Len(Path[s][0]) |-> PlanEntry(Path[s][0][i], 1, NoPhase, FALSE)]
<1>3. runs[r] = w
  BY <1>2 DEF RunIds
<1>4. w.phase = NoPhase /\ w.status = "QUEUED" /\ w.code = NoCode /\ w.plan = plan
  BY DEF LegacyRun
<1> HIDE DEF w
<1>5. Back(w) = {}
  <2>1. \A i \in DOMAIN plan : plan[i].phase = NoPhase
    BY DEF PlanEntry
  <2> HIDE DEF plan
  <2>2. WellFormed(w)
    BY <1>3, InitOInv DEF OInv, IInv, RowsWellFormed
  <2>3. 1 .. Len(w.plan) = DOMAIN plan
    BY <1>4, <2>2, Lengths, LenProperties
  <2> QED
    BY <1>4, <2>1, <2>3 DEF Back, NoPhase, PhaseRollback
<1> QED
  BY <1>3, <1>4, <1>5 DEF ForwardOnly, Owed, NoCode

LEMMA SettledHolds == Spec => [](OInv /\ RoundsInv /\ LeftSettled /\ Quiet)
<1>1. Init => OInv /\ RoundsInv /\ LeftSettled /\ Quiet
  BY InitOInv, InitRounds, InitQuiet DEF Init, LeftSettled
<1>2. (OInv /\ RoundsInv /\ LeftSettled /\ Quiet) /\ [Next]_vars
        => (OInv /\ RoundsInv /\ LeftSettled /\ Quiet)'
  BY NextOInv, NextRounds, NextSettled, NextQuiet
<1> QED
  BY <1>1, <1>2, PTL DEF Spec

(* What is settled, on a run that closed ROLLED_BACK, is uncovered. *)
LEMMA SettledRestored == OInv /\ LeftSettled /\ Quiet => RolledBackIsRestored
<1> SUFFICES ASSUME OInv, LeftSettled, Quiet, NEW r \in RunIds,
                    runs[r].status = "ROLLED_BACK", NEW a \in applied, a[1] = r
             PROVE  Uncovered(runs[r], a[2], a[3])
  BY DEF RolledBackIsRestored, AppliedBy
<1>1. ~runs[r].dry
  BY DEF OInv, Traced, Admitted
<1>2. ~Legacy(runs[r])
  BY <1>1 DEF Quiet, ForwardOnly
<1> QED
  BY <1>2 DEF LeftSettled, Settled, Shows

(***************************************************************************)
(* ROLLED_BACK is earned: whatever failed, was cancelled, lost, repaired,  *)
(* reverted or retried on the way, a device keeps nothing of such a run    *)
(* but what its rollback's author left uncovered (_enter_rollback,         *)
(* _rollback_entries, _finish_rollback, retry_rollback).                   *)
(***************************************************************************)
THEOREM RestoredHolds == Spec => []RolledBackIsRestored
  BY SettledHolds, SettledRestored, PTL

-----------------------------------------------------------------------------
(* Runs of a service take turns.                                           *)

(* One of the run's children has begun. *)
AtWork(w) == \E k \in 1 .. Len(w.kids) : Busy(w.kids[k]) \/ w.kids[k].log # {}

(* The service's earlier runs are closed. *)
EarlierClosed(r) ==
  \A q \in 1 .. (r - 1) : runs[q].service = runs[r].service => runs[q].status \in Terminal

(* A live run begins when those before it are closed, and they stay so,    *)
(* unless it was opened unseen by an office action on one of them.         *)
InTurn == \A r \in RunIds \ unseen : ~runs[r].dry /\ AtWork(runs[r]) => EarlierClosed(r)

(* The rows that remain are those of the same runs. *)
LEMMA RunsRemain ==
  ASSUME OInv, OInv', RoundsInv, [Next]_vars, NEW r \in RunIds
  PROVE  /\ r \in 1 .. Len(runs') /\ runs'[r].dry = runs[r].dry
         /\ runs'[r].service = runs[r].service
<1>1. CASE runs' = runs
  BY <1>1 DEF RunIds
<1>2. ASSUME NEW s \in Services, NEW p \in RunPurposes, NEW dry \in DryRuns,
             NEW guided \in GuidedRuns, CreateOrGetRun(s, p, dry, guided)
      PROVE  r \in 1 .. Len(runs') /\ runs'[r] = runs[r]
  <2>1. /\ Len(runs) \in Nat /\ Len(runs') = Len(runs) + 1
        /\ \A q \in RunIds : runs'[q] = runs[q]
    BY <1>2, CreateTurns
  <2> QED
    BY <2>1 DEF RunIds
<1>3. ASSUME NEW q \in RunIds, OnlyRun(q)
      PROVE  /\ r \in 1 .. Len(runs') /\ runs'[r].dry = runs[r].dry
             /\ runs'[r].service = runs[r].service
  BY <1>3 DEF OnlyRun, RunIds
<1> QED
  BY <1>1, <1>2, <1>3, StepKinds

(***************************************************************************)
(* What an office action on run q has found of run r, and what becomes of  *)
(* it until the action commits: r is closed, and simulated or older; or it *)
(* was opened since; or it is older and was reopened by an office action   *)
(* that did not see q.                                                     *)
(***************************************************************************)
Found(q, r) ==
  \/ runs[r].status \in Terminal /\ (runs[r].dry \/ r < q)
  \/ r \in unseen
  \/ q \in unseen /\ r < q

Decides(q) ==
  /\ q \in RunIds /\ runs[q].status \in Terminal /\ ~runs[q].dry
  /\ \A r \in RunIds \ {q} : runs[r].service = runs[q].service => Found(q, r)

DecidingInv == \A q \in deciding : Decides(q)

(* A run whose service an office action finds free. *)
LEMMA PassDecides ==
  ASSUME IInv, NEW q \in RunIds, PassRefusal(q)
  PROVE  Decides(q)
<1>1. \/ ~NotRevertible(q) /\ ~ServiceRefusal(q)
      \/ ~NotRetryable(q) /\ ~ServiceRefusal(q)
  BY DEF PassRefusal, RevertRefusal, RollbackRetryRefusal
<1>2. runs[q].status \in Terminal /\ ~runs[q].dry
  BY <1>1 DEF NotRevertible, NotRetryable, Terminal
<1>3. ASSUME NEW r \in RunIds \ {q}, runs[r].service = runs[q].service
      PROVE  Found(q, r)
  <2>1. runs[r].status \notin InFlight /\ ~(r > q /\ ~runs[r].dry)
    BY <1>1, <1>3 DEF ServiceRefusal, InFlightForService, LaterRunForService
  <2>2. runs[r].status \in InFlight \cup Terminal
    BY Lengths DEF IInv, RowsWellFormed
  <2>3. r \in Int /\ q \in Int /\ r # q
    BY DEF RunIds
  <2> QED
    BY <2>1, <2>2, <2>3 DEF Found
<1> QED
  BY <1>2, <1>3 DEF Decides

(* The row an office action has locked changes only as it commits. *)
LEMMA LockedStays ==
  ASSUME IInv, [Next]_vars, NEW q \in RunIds, runs[q].status \in Terminal, runs'[q] # runs[q]
  PROVE  /\ q \in deciding /\ deciding' = deciding \ {q} /\ unseen' = unseen
         /\ \A r \in RunIds \ {q} : runs'[r] = runs[r]
<1>1. Next
  BY DEF vars
<1>2. RevertRun(q) \/ RetryRollback(q)
  BY <1>1, OnlyTheOfficeReopens
<1> QED
  BY <1>2, OfficeReopens

LEMMA UnseenGrows ==
  ASSUME [Next]_vars
  PROVE  unseen \subseteq unseen'
BY DEF Next, EngineStep, OfficeStep, PassRefusal, RevertRun, RetryRollback, vars

(* A run appears only where an office action does not see it, or is none. *)
LEMMA OpenedIsUnseen ==
  ASSUME OInv, OInv', RoundsInv, [Next]_vars, NEW r \in 1 .. Len(runs'), r \notin RunIds,
         NEW q \in deciding, runs[q].service = runs'[r].service
  PROVE  r \in unseen'
<1>1. CASE EngineStep
  BY <1>1 DEF EngineStep, OpenedUnseen
<1>2. ASSUME NEW p \in RunIds, RevertRun(p) \/ RetryRollback(p) PROVE FALSE
  <2>1. OnlyRun(p)
    BY <1>2, RunStepTurns
  <2> QED
    BY <2>1 DEF OnlyRun, RunIds
<1>3. CASE UNCHANGED vars \/ \E p \in RunIds : PassRefusal(p)
  BY <1>3 DEF vars, PassRefusal, tables, RunIds
<1> QED
  BY <1>1, <1>2, <1>3 DEF Next, OfficeStep

LEMMA DecidingStays ==
  ASSUME [Next]_vars, NEW q \in deciding', q \notin deciding
  PROVE  PassRefusal(q) /\ q \in RunIds
BY DEF Next, EngineStep, OfficeStep, PassRefusal, RevertRun, RetryRollback, vars

LEMMA NextDeciding == OInv /\ OInv' /\ RoundsInv /\ DecidingInv /\ [Next]_vars => DecidingInv'
<1> SUFFICES ASSUME OInv, OInv', RoundsInv, DecidingInv, [Next]_vars, NEW q \in deciding'
             PROVE  Decides(q)'
  BY DEF DecidingInv
<1>0. IInv
  BY DEF OInv
<1>1. CASE q \notin deciding
  <2>1. PassRefusal(q) /\ q \in RunIds
    BY <1>1, DecidingStays
  <2>2. Decides(q)
    BY <1>0, <2>1, PassDecides
  <2>3. runs' = runs /\ unseen' = unseen
    BY <2>1 DEF PassRefusal, tables
  <2> QED
    BY <2>2, <2>3 DEF Decides, Found, RunIds
<1>2. CASE q \in deciding
  <2>1. /\ q \in RunIds /\ runs[q].status \in Terminal /\ ~runs[q].dry
        /\ \A r \in RunIds \ {q} : runs[r].service = runs[q].service => Found(q, r)
    BY <1>2 DEF DecidingInv, Decides
  <2>2. runs'[q] = runs[q]
    BY <1>0, <2>1, LockedStays
  <2>3. q \in 1 .. Len(runs')
    BY <2>1, RunsRemain
  <2>4. ASSUME NEW r \in 1 .. Len(runs'), r # q, runs'[r].service = runs'[q].service
        PROVE  Found(q, r)'
    <3>1. unseen \subseteq unseen'
      BY UnseenGrows
    <3>2. CASE r \notin RunIds
      BY <1>2, <2>2, <2>4, <3>2, OpenedIsUnseen DEF Found
    <3>3. CASE r \in RunIds
      <4>1. runs[r].service = runs[q].service
        BY <2>2, <2>4, <3>3, RunsRemain
      <4>2. Found(q, r)
        BY <2>1, <2>4, <3>3, <4>1
      <4>3. CASE r \in unseen \/ (q \in unseen /\ r < q)
        BY <3>1, <4>3 DEF Found
      <4>4. CASE /\ runs[r].status \in Terminal /\ (runs[r].dry \/ r < q)
                 /\ r \notin unseen /\ ~(q \in unseen /\ r < q)
        <5>1. CASE runs'[r] = runs[r]
          BY <4>4, <5>1 DEF Found
        <5>2. CASE runs'[r] # runs[r]
          <6>1. r \in deciding
            BY <1>0, <3>3, <4>4, <5>2, LockedStays
          <6>2. ~runs[r].dry /\ Found(r, q)
            BY <2>1, <2>4, <4>1, <6>1 DEF DecidingInv, Decides
          <6>3. r \in Int /\ q \in Int
            BY <2>1, <3>3 DEF RunIds
          <6> QED
            BY <2>1, <4>4, <6>2, <6>3 DEF Found
        <5> QED
          BY <5>1, <5>2
      <4> QED
        BY <4>2, <4>3, <4>4 DEF Found
    <3> QED
      BY <3>2, <3>3
  <2> QED
    BY <2>1, <2>2, <2>3, <2>4 DEF Decides, RunIds
<1> QED
  BY <1>1, <1>2

(* A closed run that a live run of its service follows stays as it is. *)
LEMMA ClosedStays ==
  ASSUME OInv, DecidingInv, [Next]_vars, NEW r \in RunIds \ unseen, ~runs[r].dry,
         NEW q \in 1 .. (r - 1), runs[q].service = runs[r].service, runs[q].status \in Terminal
  PROVE  runs'[q] = runs[q]
<1>1. q \in RunIds /\ q < r /\ r \in Int /\ q \in Int /\ IInv
  BY DEF RunIds, OInv
<1>2. SUFFICES ASSUME runs'[q] # runs[q] PROVE FALSE
  OBVIOUS
<1>3. q \in deciding
  BY <1>1, <1>2, LockedStays
<1>4. Found(q, r)
  BY <1>1, <1>3 DEF DecidingInv, Decides
<1> QED
  BY <1>1, <1>4 DEF Found

(***************************************************************************)
(* What a step finds in the log of a run's child: what was there, or what  *)
(* the child's own step put there.                                         *)
(***************************************************************************)
Logs(r, k, job) == JobTurns(r, k, job) /\ OnlyRun(r)

LEMMA KidsLog ==
  ASSUME OInv, OInv', RoundsInv, [Next]_vars, NEW r \in 1 .. Len(runs'), ~runs'[r].dry,
         NEW k \in 1 .. Len(runs'[r].kids), Busy(runs'[r].kids[k]) \/ runs'[r].kids[k].log # {}
  PROVE  /\ r \in RunIds /\ k \in 1 .. Len(runs[r].kids)
         /\ runs[r].kids[k].position \in 1 .. Len(runs[r].plan)
         /\ EntryOf(runs'[r], k) = EntryOf(runs[r], k)
         /\ \/ runs'[r].kids[k] = runs[r].kids[k]
            \/ Logs(r, k, runs'[r].kids[k])
<1>1. \A q \in RunIds : WellFormed(runs[q])
  BY DEF OInv, IInv, RowsWellFormed
<1>2. ASSUME r \in RunIds, NEW w, WellFormed(w), Turn(w, runs'[r]),
             w.plan = runs[r].plan, Len(w.kids) = Len(runs[r].kids),
             \A j \in 1 .. Len(w.kids) : w.kids[j].position = runs[r].kids[j].position
      PROVE  /\ k \in 1 .. Len(runs[r].kids)
             /\ runs[r].kids[k].position \in 1 .. Len(runs[r].plan)
             /\ EntryOf(runs'[r], k) = EntryOf(runs[r], k)
             /\ runs'[r].kids[k] = w.kids[k]
  <2>1. k \in 1 .. Len(w.kids) /\ runs'[r].kids[k] = w.kids[k]
    BY <1>2, TurnExtends
  <2>2. w.kids[k].position \in 1 .. Len(w.plan)
    BY <1>2, <2>1, Positions
  <2>3. runs'[r].plan[w.kids[k].position] = w.plan[w.kids[k].position]
    <3>1. WellFormed(w) /\ Turn(w, runs'[r])
      BY <1>2
    <3>2. \A i \in 1 .. Len(w.plan) : runs'[r].plan[i] = w.plan[i]
      BY <3>1, TurnExtends, Zenon
    <3> QED
      BY <2>2, <3>2
  <2> QED
    BY <1>2, <2>1, <2>2, <2>3 DEF EntryOf
<1>3. ASSUME r \in RunIds, runs'[r] = runs[r]
      PROVE  /\ k \in 1 .. Len(runs[r].kids)
             /\ runs[r].kids[k].position \in 1 .. Len(runs[r].plan)
             /\ EntryOf(runs'[r], k) = EntryOf(runs[r], k)
             /\ runs'[r].kids[k] = runs[r].kids[k]
  BY <1>1, <1>3, Positions
<1>4. CASE runs' = runs
  BY <1>3, <1>4 DEF RunIds
<1>5. ASSUME NEW s \in Services, NEW p \in RunPurposes, NEW dry \in DryRuns,
             NEW guided \in GuidedRuns, CreateOrGetRun(s, p, dry, guided)
      PROVE  r \in RunIds /\ runs'[r] = runs[r]
  <2>1. /\ Len(runs) \in Nat /\ Len(runs') = Len(runs) + 1
        /\ \A q \in RunIds : runs'[q] = runs[q]
        /\ \A j \in 1 .. Len(runs'[Len(runs) + 1].kids) : Fresh(runs'[Len(runs) + 1].kids[j])
    BY <1>5, CreateTurns
  <2>2. r # Len(runs) + 1
    BY <2>1 DEF Fresh, Busy
  <2> QED
    BY <2>1, <2>2 DEF RunIds
<1>6. ASSUME NEW q \in RunIds, OnlyRun(q), q # r
      PROVE  r \in RunIds /\ runs'[r] = runs[r]
  BY <1>6 DEF OnlyRun, RunIds
<1>7. ASSUME r \in RunIds, OnlyRun(r), NEW c \in 1 .. Len(runs[r].kids), NEW job,
             JobTurns(r, c, job)
      PROVE  /\ k \in 1 .. Len(runs[r].kids)
             /\ runs[r].kids[k].position \in 1 .. Len(runs[r].plan)
             /\ EntryOf(runs'[r], k) = EntryOf(runs[r], k)
             /\ \/ runs'[r].kids[k] = runs[r].kids[k]
                \/ Logs(r, k, runs'[r].kids[k])
  <2> DEFINE v == WithKid(runs[r], c, job)
  <2>1. /\ WellFormed(v) /\ v.plan = runs[r].plan /\ v.dry = runs[r].dry
        /\ Len(v.kids) = Len(runs[r].kids) /\ v.kids[c] = job
        /\ \A j \in 1 .. Len(runs[r].kids) : j # c => v.kids[j] = runs[r].kids[j]
    BY <1>7, JobTurnsRow
  <2>2. Turn(v, runs'[r])
    BY <1>7 DEF JobTurns, WithKid, OnlyRun
  <2>3. job.position = runs[r].kids[c].position
    BY <1>7 DEF JobTurns, Recorded
  <2> HIDE DEF v
  <2>4. /\ k \in 1 .. Len(runs[r].kids)
        /\ runs[r].kids[k].position \in 1 .. Len(runs[r].plan)
        /\ EntryOf(runs'[r], k) = EntryOf(runs[r], k)
        /\ runs'[r].kids[k] = v.kids[k]
    BY <1>2, <1>7, <2>1, <2>2, <2>3
  <2> QED
    BY <1>7, <2>1, <2>4 DEF Logs
<1>8. ASSUME r \in RunIds, OnlyRun(r), RunTurns(r)
      PROVE  /\ k \in 1 .. Len(runs[r].kids)
             /\ runs[r].kids[k].position \in 1 .. Len(runs[r].plan)
             /\ EntryOf(runs'[r], k) = EntryOf(runs[r], k)
             /\ runs'[r].kids[k] = runs[r].kids[k]
  <2>1. Turn(runs[r], runs'[r])
    BY <1>8 DEF RunTurns, OnlyRun
  <2> QED
    BY <1>1, <1>2, <1>8, <2>1
<1> QED
  BY <1>3, <1>4, <1>5, <1>6, <1>7, <1>8, StepKinds

LEMMA NextInTurn ==
  OInv /\ OInv' /\ RoundsInv /\ DecidingInv /\ InTurn /\ [Next]_vars => InTurn'
<1> SUFFICES ASSUME OInv, OInv', RoundsInv, DecidingInv, InTurn, [Next]_vars,
                    NEW r \in 1 .. Len(runs'), r \notin unseen', ~runs'[r].dry, AtWork(runs'[r]),
                    NEW q \in 1 .. (r - 1), runs'[q].service = runs'[r].service
             PROVE  runs'[q].status \in Terminal
  BY DEF InTurn, EarlierClosed, RunIds
<1>1. PICK k \in 1 .. Len(runs'[r].kids) : Busy(runs'[r].kids[k]) \/ runs'[r].kids[k].log # {}
  BY DEF AtWork
<1>2. /\ r \in RunIds \ unseen /\ k \in 1 .. Len(runs[r].kids)
      /\ \/ runs'[r].kids[k] = runs[r].kids[k]
         \/ Logs(r, k, runs'[r].kids[k])
  BY <1>1, KidsLog, UnseenGrows
<1>3. q \in RunIds
  BY <1>2 DEF RunIds
<1>4. /\ runs'[r].dry = runs[r].dry /\ runs'[r].service = runs[r].service
      /\ runs'[q].service = runs[q].service
  BY <1>2, <1>3, RunsRemain
<1>5. runs[q].status \in Terminal
  <2>1. CASE Busy(runs[r].kids[k]) \/ runs[r].kids[k].log # {}
    BY <1>2, <1>4, <2>1 DEF InTurn, AtWork, EarlierClosed
  <2>2. CASE ~(Busy(runs[r].kids[k]) \/ runs[r].kids[k].log # {})
    <3>1. OldestOfService(r)
      BY <1>1, <1>2, <2>2 DEF Logs, JobTurns, Does
    <3>2. runs[q].status \notin InFlight
      BY <1>4, <3>1 DEF OldestOfService
    <3>3. runs[q].status \in InFlight \cup Terminal
      BY <1>3, Lengths DEF OInv, IInv, RowsWellFormed
    <3> QED
      BY <3>2, <3>3
  <2> QED
    BY <2>1, <2>2
<1>6. runs'[q] = runs[q]
  BY <1>2, <1>4, <1>5, ClosedStays
<1> QED
  BY <1>5, <1>6

-----------------------------------------------------------------------------
(* What the latest run of a service did stands.                            *)

(* A step that acts takes only from runs of its service, when rolling back. *)
LEMMA ActedTakes ==
  ASSUME NEW r, NEW k, NEW step, NEW a \in applied, a \notin Acted(r, k, step)
  PROVE  /\ ~runs[r].dry /\ EntryOf(runs[r], k).phase = PhaseRollback
         /\ runs[a[1]].service = runs[r].service
BY DEF Acted

(* It puts what it configures on the device. *)
LEMMA ActedPuts ==
  ASSUME NEW r, NEW k, NEW step, ~runs[r].dry,
         EntryOf(runs[r], k).phase = PhaseConfiguration, step.driver \notin NoUndoDrivers
  PROVE  <<r, EntryOf(runs[r], k).item, step.name>> \in Acted(r, k, step)
BY DEF Acted, Configures

(* Until it turns back or another live run is opened for its service, what *)
(* a run logged as done is on the device.                                  *)
Stands(r) ==
  ~runs[r].dry /\ Back(runs[r]) = {} /\ ~LaterRunForService(r) =>
    \A k \in KidsOfPhase(runs[r], PhaseConfiguration) : \A x \in runs[r].kids[k].log :
      x.status = "SUCCEEDED" /\ Undoable(EntryOf(runs[r], k), x.name) =>
        <<r, EntryOf(runs[r], k).item, x.name>> \in applied

Standing == \A r \in RunIds \ unseen : Stands(r)

(* The plan of a run only grows. *)
LEMMA BackGrows ==
  ASSUME OInv, OInv', RoundsInv, [Next]_vars, NEW r \in RunIds, ~runs[r].dry,
         Back(runs'[r]) = {}
  PROVE  Back(runs[r]) = {}
<1>1. ASSUME \A i \in 1 .. Len(runs[r].plan) : i \in 1 .. Len(runs'[r].plan)
                                               /\ runs'[r].plan[i] = runs[r].plan[i]
      PROVE  Back(runs[r]) = {}
  BY <1>1 DEF Back
<1>2. WellFormed(runs[r])
  BY DEF OInv, IInv, RowsWellFormed
<1>3. CASE runs'[r] = runs[r]
  BY <1>1, <1>3
<1>4. ASSUME NEW k \in 1 .. Len(runs[r].kids), NEW job, JobTurns(r, k, job)
      PROVE  Back(runs[r]) = {}
  <2> DEFINE v == WithKid(runs[r], k, job)
  <2>1. WellFormed(v) /\ v.plan = runs[r].plan
    BY <1>4, JobTurnsRow
  <2>2. Turn(v, runs'[r])
    BY <1>4 DEF JobTurns, WithKid
  <2> HIDE DEF v
  <2>3. \A i \in 1 .. Len(v.plan) : i \in 1 .. Len(runs'[r].plan) /\ runs'[r].plan[i] = v.plan[i]
    BY <2>1, <2>2, TurnExtends
  <2> QED
    BY <1>1, <2>1, <2>3
<1>5. CASE RunTurns(r)
  BY <1>1, <1>2, <1>5, TurnExtends DEF RunTurns
<1>6. ASSUME NEW s \in Services, NEW p \in RunPurposes, NEW dry \in DryRuns,
             NEW guided \in GuidedRuns, CreateOrGetRun(s, p, dry, guided)
      PROVE  runs'[r] = runs[r]
  BY <1>6, CreateTurns
<1>7. \A q \in RunIds : OnlyRun(q) /\ q # r => runs'[r] = runs[r]
  BY DEF OnlyRun
<1> QED
  BY <1>3, <1>4, <1>5, <1>6, <1>7, StepKinds

(* What stands is not taken away. *)
LEMMA StaysApplied ==
  ASSUME OInv, OInv', RoundsInv, InTurn, [Next]_vars,
         NEW r \in RunIds \ unseen, ~runs[r].dry, Back(runs[r]) = {}, ~LaterRunForService(r),
         AtWork(runs[r]), NEW a \in applied, a[1] = r
  PROVE  a \in applied'
<1>1. CASE applied' = applied
  BY <1>1
<1>2. ASSUME NEW q \in RunIds, NEW c \in 1 .. Len(runs[q].kids), NEW job, JobTurns(q, c, job),
             applied' # applied, a \notin applied'
      PROVE  FALSE
  <2>1. applied' = Acted(q, c, StepAt(q, c)) /\ runs[q].status \in InFlight
    BY <1>2 DEF JobTurns, Does
  <2>2. /\ ~runs[q].dry /\ EntryOf(runs[q], c).phase = PhaseRollback
        /\ runs[r].service = runs[q].service
    BY <1>2, <2>1, ActedTakes
  <2>3. q # r
    <3>1. WellFormed(runs[q])
      BY DEF OInv, IInv, RowsWellFormed
    <3>2. runs[q].kids[c].position \in Back(runs[q])
      BY <2>2, <3>1, Positions DEF EntryOf, Back
    <3> QED
      BY <3>2
  <2>4. ~(q > r)
    BY <2>2 DEF LaterRunForService
  <2>5. q \in 1 .. (r - 1)
    BY <2>3, <2>4 DEF RunIds
  <2>6. runs[q].status \in Terminal
    BY <2>2, <2>5 DEF InTurn, EarlierClosed
  <2> QED
    BY <2>1, <2>6 DEF InFlight, Terminal
<1>3. ASSUME NEW s \in Services, NEW p \in RunPurposes, NEW dry \in DryRuns,
             NEW guided \in GuidedRuns, CreateOrGetRun(s, p, dry, guided)
      PROVE  applied' = applied
  BY <1>3 DEF CreateOrGetRun
<1> QED
  BY <1>1, <1>2, <1>3, StepKinds DEF RunTurns

LEMMA NextStanding ==
  OInv /\ OInv' /\ RoundsInv /\ InTurn /\ Standing /\ [Next]_vars => Standing'
<1> SUFFICES ASSUME OInv, OInv', RoundsInv, InTurn, Standing, [Next]_vars,
                    NEW r \in 1 .. Len(runs'), r \notin unseen'
             PROVE  Stands(r)'
  BY DEF Standing, RunIds
<1> SUFFICES ASSUME ~runs'[r].dry, Back(runs'[r]) = {}, ~LaterRunForService(r)',
                    NEW k \in KidsOfPhase(runs'[r], PhaseConfiguration),
                    NEW x \in runs'[r].kids[k].log, x.status = "SUCCEEDED",
                    Undoable(EntryOf(runs'[r], k), x.name)
             PROVE  <<r, EntryOf(runs'[r], k).item, x.name>> \in applied'
  BY DEF Stands
<1> DEFINE w == runs[r]
           e == EntryOf(w, k)
           old == w.kids[k]
           job == runs'[r].kids[k]
           a == <<r, e.item, x.name>>
<1>1. k \in 1 .. Len(runs'[r].kids) /\ EntryOf(runs'[r], k).phase = PhaseConfiguration
      /\ job.log # {}
  BY DEF KidsOfPhase
<1>2. /\ r \in RunIds \ unseen /\ k \in 1 .. Len(w.kids)
      /\ EntryOf(runs'[r], k) = e
      /\ job = old \/ Logs(r, k, job)
  BY <1>1, KidsLog, UnseenGrows
<1>3. /\ ~w.dry /\ Back(w) = {} /\ k \in KidsOfPhase(w, PhaseConfiguration) /\ e \in Entry
  <2>1. ~w.dry
    BY <1>2, RunsRemain
  <2>2. WellFormed(w)
    BY <1>2 DEF OInv, IInv, RowsWellFormed
  <2> QED
    BY <1>1, <1>2, <2>1, <2>2, BackGrows, EntryOfType DEF KidsOfPhase
<1>4. ~LaterRunForService(r)
  <2> SUFFICES ASSUME LaterRunForService(r) PROVE FALSE
    OBVIOUS
  <2>1. PICK q \in RunIds : q > r /\ runs[q].service = runs[r].service /\ ~runs[q].dry
    BY DEF LaterRunForService
  <2>2. /\ q \in 1 .. Len(runs') /\ runs'[q].dry = runs[q].dry
        /\ runs'[q].service = runs[q].service /\ runs'[r].service = runs[r].service
    BY <1>2, RunsRemain
  <2>3. ~runs'[q].dry /\ runs'[q].service = runs'[r].service
    BY <2>1, <2>2
  <2>4. ~(\E p \in 1 .. Len(runs') : p > r /\ runs'[p].service = runs'[r].service /\ ~runs'[p].dry)
    BY DEF LaterRunForService, RunIds
  <2> QED
    BY <2>1, <2>2, <2>3, <2>4
<1>5. CASE x \in old.log
  <2>1. a \in applied
    BY <1>2, <1>3, <1>4, <1>5 DEF Standing, Stands
  <2>2. AtWork(w) /\ a[1] = r
    BY <1>2, <1>5 DEF AtWork
  <2> HIDE DEF a
  <2>3. a \in applied'
    BY <1>2, <1>3, <1>4, <2>1, <2>2, StaysApplied
  <2> QED
    BY <1>2, <2>3 DEF a
<1>6. CASE x \notin old.log
  <2>1. JobTurns(r, k, job)
    BY <1>2, <1>6 DEF Logs
  <2>2. /\ x.name = StepAt(r, k).name /\ old.next <= Len(StepsOf(r, k))
        /\ applied' = Acted(r, k, StepAt(r, k))
    BY <1>6, <2>1 DEF JobTurns, Does
  <2>3. old.next \in 1 .. Len(StepsOf(r, k)) /\ StepsOf(r, k) = DefinitionFor(e)[PhaseConfiguration]
    BY <1>1, <1>2, <1>3, <2>2, StepAtType, StepsOfEntry, SMTT(60) DEF OInv, StepsOf
  <2>4. StepAt(r, k).driver \notin NoUndoDrivers
    BY <1>2, <1>3, <2>2, <2>3, UndoableIsNoProbe DEF StepAt
  <2>5. <<r, e.item, StepAt(r, k).name>> \in Acted(r, k, StepAt(r, k))
    BY <1>1, <1>2, <1>3, <2>4, ActedPuts
  <2> QED
    BY <1>2, <2>2, <2>5
<1> QED
  BY <1>5, <1>6

(* The invariant of all of this. *)
RInv == OInv /\ RoundsInv /\ LeftSettled /\ Quiet /\ DecidingInv /\ InTurn /\ Standing

LEMMA RInvHolds == Spec => []RInv
<1>1. Init => RInv
  <2> SUFFICES ASSUME Init PROVE RInv
    OBVIOUS
  <2>1. OInv /\ RoundsInv /\ LeftSettled /\ Quiet /\ DecidingInv
    BY InitOInv, InitRounds, InitQuiet DEF Init, LeftSettled, DecidingInv
  <2>2. \A r \in RunIds : \A k \in 1 .. Len(runs[r].kids) :
          runs[r].kids[k].log = {} /\ ~Busy(runs[r].kids[k])
    <3> SUFFICES ASSUME NEW r \in RunIds
                 PROVE  \A k \in 1 .. Len(runs[r].kids) :
                          runs[r].kids[k].log = {} /\ ~Busy(runs[r].kids[k])
      OBVIOUS
    <3>1. runs # <<>>
      BY DEF RunIds
    <3>2. PICK s \in LegacyServices, dry \in DryRuns : runs = <<LegacyRun(s, dry)>>
      BY <3>1 DEF Init
    <3>3. runs[r] = LegacyRun(s, dry)
      BY <3>2 DEF RunIds
    <3>4. LegacyRun(s, dry).kids = <<NewJob(1)>>
      BY DEF LegacyRun
    <3>5. NewJob(1).log = {} /\ ~Busy(NewJob(1))
      BY DEF NewJob, Busy
    <3>6. Len(runs[r].kids) = 1 /\ runs[r].kids[1] = NewJob(1)
      BY <3>3, <3>4
    <3> QED
      BY <3>5, <3>6
  <2>3. InTurn
    BY <2>2 DEF InTurn, AtWork
  <2>4. Standing
    BY <2>2 DEF Standing, Stands, KidsOfPhase
  <2> QED
    BY <2>1, <2>3, <2>4 DEF RInv
<1>2. RInv /\ [Next]_vars => RInv'
  BY NextOInv, NextRounds, NextSettled, NextQuiet, NextDeciding, NextInTurn, NextStanding DEF RInv
<1> QED
  BY <1>1, <1>2, PTL DEF Spec

(***************************************************************************)
(* A closed run changes again only when the office reverts it or retries   *)
(* its rollback, and only to roll back: no late settle, repair or cancel   *)
(* revives it.  The office does so while the run is the newest live run of *)
(* a service nothing else runs on, as revert_refusal and                   *)
(* rollback_retry_refusal read it, except for runs opened between that     *)
(* read, which locks none of them, and the commit.                         *)
(***************************************************************************)
THEOREM ReopeningHolds == Spec => ReopenedOnlyToRollBack
<1> DEFINE A(r) ==
      /\ runs[r].status \in Terminal
      /\ runs'[r] # runs[r]
      => /\ runs'[r].phase = PhaseRollback
         /\ \/ runs[r].status = "SUCCEEDED"
            \/ runs[r].code = "ROLLBACK_INCOMPLETE"
         /\ \A q \in RunIds \ {r} :
              runs[q].service = runs[r].service =>
                \/ runs[q].status \in Terminal /\ (runs[q].dry \/ q < r)
                \/ {q, r} \cap unseen # {}
<1>1. RInv /\ [Next]_vars => [\A r \in RunIds : A(r)]_vars
  <2> SUFFICES ASSUME RInv, Next, NEW r \in RunIds,
                      runs[r].status \in Terminal, runs'[r] # runs[r]
               PROVE  /\ runs'[r].phase = PhaseRollback
                      /\ \/ runs[r].status = "SUCCEEDED"
                         \/ runs[r].code = "ROLLBACK_INCOMPLETE"
                      /\ \A q \in RunIds \ {r} :
                           runs[q].service = runs[r].service =>
                             \/ runs[q].status \in Terminal /\ (runs[q].dry \/ q < r)
                             \/ {q, r} \cap unseen # {}
    OBVIOUS
  <2>1. RevertRun(r) \/ RetryRollback(r)
    BY OnlyTheOfficeReopens DEF RInv, OInv
  <2>2. /\ runs'[r].phase = PhaseRollback
        /\ runs[r].status = "SUCCEEDED" \/ runs[r].code = "ROLLBACK_INCOMPLETE"
        /\ r \in deciding
    BY <2>1, OfficeReopens DEF RInv, OInv
  <2>3. \A q \in RunIds \ {r} : runs[q].service = runs[r].service => Found(r, q)
    BY <2>2 DEF RInv, DecidingInv, Decides
  <2> QED
    BY <2>2, <2>3 DEF Found
<1>2. QED
  BY <1>1, RInvHolds, PTL DEF Spec, ReopenedOnlyToRollBack

(***************************************************************************)
(* While the latest live run of a service stands SUCCEEDED, what it logged *)
(* as done is on its devices: the runs before it are closed, and the       *)
(* office does not reopen them (the claim's order of runs per service,     *)
(* revert_refusal, rollback_retry_refusal).  The run must not have been    *)
(* opened between the guard of an office action on its service and the     *)
(* commit: of such a run the theorem says nothing.                         *)
(***************************************************************************)
THEOREM LatestSuccessHolds == Spec => []LatestSuccessStands
<1>1. RInv => LatestSuccessStands
  <2> SUFFICES ASSUME RInv, NEW r \in RunIds \ unseen,
                      runs[r].status = "SUCCEEDED", ~runs[r].dry,
                      ~LaterRunForService(r), NEW k \in KidsOfPhase(runs[r], PhaseConfiguration),
                      NEW x \in runs[r].kids[k].log, x.status = "SUCCEEDED",
                      LET cfg == DefinitionFor(EntryOf(runs[r], k))[PhaseConfiguration]
                      IN  \E i \in 1 .. Len(cfg) : cfg[i].name = x.name
                                                 /\ cfg[i].driver \notin NoUndoDrivers
               PROVE  <<r, EntryOf(runs[r], k).item, x.name>> \in applied
    BY DEF LatestSuccessStands
  <2>1. Lawful(runs[r]) /\ Stands(r)
    BY DEF RInv, OInv, RowsLawful, Standing
  <2>2. Back(runs[r]) = {}
    BY <2>1 DEF Lawful, ClosedLaw, SucceededLaw, Returning, Back
  <2>3. Undoable(EntryOf(runs[r], k), x.name)
    BY DEF Undoable
  <2> QED
    BY <2>1, <2>2, <2>3 DEF Stands
<1> QED
  BY <1>1, RInvHolds, PTL

-----------------------------------------------------------------------------
(* The engine as a saga.                                                   *)

(* A live run in flight rolls back exactly when its plan has a rollback. *)
LEMMA OpenPhase ==
  ASSUME NEW w, WellFormed(w), Lawful(w), Rounds(w), ~w.dry, w.status \in InFlight
  PROVE  w.phase = PhaseRollback <=> Back(w) # {}
<1>1. Turned(w) /\ OpenLaw(w) /\ w.kids \in Seq(Job)
  BY Lengths DEF Rounds, Lawful
<1>2. CASE w.kids = <<>>
  BY <1>1, <1>2 DEF Turned, PhaseRollback, NoPhase
<1>3. CASE w.kids # <<>>
  <2>1. w.phase = w.plan[LastAt(w)].phase /\ LastAt(w) \in 1 .. Len(w.plan)
    BY <1>1, <1>3, Positions DEF OpenLaw, EntryOf, LastAt
  <2> QED
    BY <1>1, <2>1 DEF Turned, Back
<1> QED
  BY <1>2, <1>3

(* Where a run is, by its row. *)
LEMMA StageForward ==
  ASSUME NEW w, WellFormed(w), Lawful(w), Rounds(w), w.status \in InFlight,
         w.dry \/ Back(w) = {}, ~Legacy(w)
  PROVE  StageOf(w) = "forward"
BY OpenPhase DEF StageOf

LEMMA StageUndoing ==
  ASSUME NEW w, WellFormed(w), Lawful(w), Rounds(w), w.status \in InFlight,
         ~w.dry, Back(w) # {}, ~Legacy(w)
  PROVE  StageOf(w) = "undoing"
BY OpenPhase DEF StageOf

(* A run that turned back does not succeed. *)
LEMMA StageAfterTurn ==
  ASSUME NEW w, WellFormed(w), Lawful(w), Rounds(w), ~w.dry, Back(w) # {}, ~Legacy(w)
  PROVE  StageOf(w) \in {"undoing", "undone", "stuck"}
<1>1. w.status # "SUCCEEDED"
  BY DEF Lawful, ClosedLaw, SucceededLaw, Returning, Back
<1> QED
  BY <1>1, OpenPhase DEF StageOf

LEMMA StageKnown ==
  ASSUME NEW w
  PROVE  /\ StageOf(w) # "absent"
         /\ ~Legacy(w) => StageOf(w) \in Saga!Stages
         /\ Legacy(w) => StageOf(w) = "legacy"
BY DEF StageOf, Saga!Stages

(* A run that is undone has left nothing that a rollback covers. *)
LEMMA UndoneClean ==
  ASSUME OInv, LeftSettled, Quiet, NEW r \in RunIds, StageOf(runs[r]) = "undone"
  PROVE  LeftBehind(r) = {}
<1>1. /\ runs[r].status \notin InFlight /\ runs[r].status # "SUCCEEDED"
      /\ runs[r].code # "ROLLBACK_INCOMPLETE" /\ ~Legacy(runs[r])
  BY DEF StageOf
<1>2. runs[r].status \in InFlight \cup Terminal
  BY DEF OInv, IInv, RowsWellFormed, WellFormed, Run
<1>3. CASE runs[r].status = "ROLLED_BACK"
  BY <1>3, SettledRestored DEF RolledBackIsRestored, LeftBehind
<1>4. CASE runs[r].status \in {"FAILED", "CANCELLED"}
  <2>1. AppliedBy(r) = {}
    BY <1>1, <1>4, FailedUntouched DEF FailedMeansUntouched
  <2> QED
    BY <2>1 DEF LeftBehind
<1> QED
  BY <1>1, <1>2, <1>3, <1>4 DEF Terminal

(* An entry copied from the plan covers what the plan covered. *)
LEMMA UncoveredSame ==
  ASSUME NEW w, WellFormed(w), NEW v, WellFormed(v), Grows(w, v), NEW d, NEW n
  PROVE  Uncovered(v, d, n) <=> Uncovered(w, d, n)
<1> DEFINE Lacks(e) ==
      /\ e.item = d
      /\ LET rollback == DefinitionFor(e)[PhaseRollback]
         IN  /\ rollback # <<>>
             /\ \A j \in 1 .. Len(rollback) :
                  rollback[j].undoes \in {NoStep, n} => rollback[j].driver \in NoUndoDrivers
<1>1. \A u : Uncovered(u, d, n) <=> \E i \in 1 .. Len(u.plan) : Lacks(u.plan[i])
  BY DEF Uncovered
<1>2. ASSUME NEW e, NEW f, e.item = f.item, e.version = f.version, Lacks(e)
      PROVE  Lacks(f)
  BY <1>2 DEF DefinitionFor
<1> HIDE DEF Lacks
<1>3. Len(w.plan) \in Nat /\ Len(v.plan) \in Nat
  BY Lengths
<1>4. \A i \in 1 .. Len(w.plan) : i \in 1 .. Len(v.plan) /\ v.plan[i] = w.plan[i]
  BY <1>3 DEF Grows
<1>5. ASSUME NEW i \in 1 .. Len(v.plan), Lacks(v.plan[i])
      PROVE  \E j \in 1 .. Len(w.plan) : Lacks(w.plan[j])
  <2>1. CASE i \in 1 .. Len(w.plan)
    BY <1>4, <1>5, <2>1
  <2>2. CASE i > Len(w.plan)
    <3>1. PICK j \in 1 .. Len(w.plan) : /\ w.plan[j].item = v.plan[i].item
                                        /\ w.plan[j].version = v.plan[i].version
      BY <1>5, <2>2 DEF Grows, Copied
    <3> QED
      BY <1>2, <1>5, <3>1
  <2> QED
    BY <1>3, <1>5, <2>1, <2>2
<1> QED
  BY <1>1, <1>4, <1>5

(* What a rollback covers does not change as the run goes on. *)
LEMMA UncoveredStays ==
  ASSUME OInv, OInv', RoundsInv, [Next]_vars, NEW r \in RunIds, NEW d, NEW n
  PROVE  Uncovered(runs'[r], d, n) <=> Uncovered(runs[r], d, n)
<1>1. runs \in Seq(Run) /\ Len(runs) \in Nat /\ WellFormed(runs[r])
  BY LenProperties DEF OInv, IInv, TablesOK, RowsWellFormed
<1>2. CASE runs'[r] = runs[r]
  BY <1>2
<1>3. ASSUME NEW q \in RunIds, RunMoves(q)
      PROVE  Uncovered(runs'[r], d, n) <=> Uncovered(runs[r], d, n)
  <2>1. PICK left : Onward(left, runs[q]) /\ Commit(q, left)
    BY <1>3 DEF RunMoves
  <2>2. WellFormed(left.row) /\ Grows(runs[q], left.row)
    BY <2>1 DEF Onward
  <2>3. CASE q = r
    <3>1. runs'[r] = left.row
      BY <1>1, <2>1, <2>3 DEF Commit, RunIds
    <3> QED
      BY <1>1, <2>2, <2>3, <3>1, UncoveredSame
  <2>4. CASE q # r
    BY <1>1, <1>2, <2>1, <2>4 DEF Commit, RunIds
  <2> QED
    BY <2>3, <2>4
<1>4. CASE Produce
  <2>1. runs'[r] = runs[r]
    BY <1>4, CreateTurns DEF Produce
  <2> QED
    BY <1>2, <2>1
<1>5. CASE \/ \E d1 \in Devices : EditPlaybook(d1)
           \/ \E s \in Services : Reparent(s)
           \/ \E q \in RunIds : PassRefusal(q)
           \/ UNCHANGED vars
  BY <1>2, <1>5 DEF EditPlaybook, Reparent, PassRefusal, tables, vars
<1> QED
  BY <1>3, <1>4, <1>5, JobStepOnward, RunStepOnward DEF Next, EngineStep, OfficeStep

(* Where run r is, and whether it left anything. *)
StageAt(r) == IF r \in RunIds THEN StageOf(runs[r]) ELSE "absent"

DirtAt(r) == r \in RunIds /\ LeftBehind(r) # {}

LEMMA DirtGrows ==
  ASSUME OInv, OInv', RoundsInv, [Next]_vars, NEW r \in RunIds, DirtAt(r),
         \A a \in applied : a[1] = r => a \in applied'
  PROVE  DirtAt(r)'
<1>1. PICK a \in applied : a[1] = r /\ ~Uncovered(runs[r], a[2], a[3])
  BY DEF DirtAt, LeftBehind, AppliedBy
<1>2. a \in applied' /\ ~Uncovered(runs'[r], a[2], a[3])
  BY <1>1, UncoveredStays
<1>3. r \in 1 .. Len(runs')
  BY RunsRemain
<1> QED
  BY <1>1, <1>2, <1>3 DEF DirtAt, LeftBehind, AppliedBy, RunIds

LEMMA DirtFalls ==
  ASSUME OInv, OInv', RoundsInv, [Next]_vars, NEW r \in RunIds, DirtAt(r)',
         \A a \in applied' : a[1] = r => a \in applied
  PROVE  DirtAt(r)
<1>1. PICK a \in applied' : a[1] = r /\ ~Uncovered(runs'[r], a[2], a[3])
  BY DEF DirtAt, LeftBehind, AppliedBy
<1>2. a \in applied /\ ~Uncovered(runs[r], a[2], a[3])
  BY <1>1, UncoveredStays
<1> QED
  BY <1>1, <1>2 DEF DirtAt, LeftBehind, AppliedBy

(* A run that is not there left nothing. *)
LEMMA NoRunNoDirt ==
  ASSUME NEW r, r \notin RunIds
  PROVE  ~DirtAt(r) /\ StageAt(r) = "absent"
BY DEF DirtAt, StageAt

(* A run that is undone is clean. *)
UndoneIsClean == \A r \in RunIds : StageAt(r) = "undone" => ~DirtAt(r)

LEMMA UndoneHolds == OInv /\ LeftSettled /\ Quiet => UndoneIsClean
  BY UndoneClean DEF UndoneIsClean, StageAt, DirtAt

(***************************************************************************)
(* The saga's actions, run by run.                                         *)
(***************************************************************************)
Sagas == 1 .. MaxRuns

Elsewhere(r) == \A q \in Sagas : q # r => StageAt(q)' = StageAt(q)

CleanIfUndone(r) == StageAt(r)' = "undone" => ~DirtAt(r)'

Opens(r) ==
  /\ StageAt(r) = "absent" /\ StageAt(r)' = "forward" /\ Elsewhere(r)
  /\ \A q \in Sagas : q < r => StageAt(q) # "absent"
  /\ \A q \in Sagas : DirtAt(q)' = DirtAt(q)

GoesForward(r) ==
  /\ StageAt(r) = "forward" /\ StageAt(r)' \in Saga!Stages /\ Elsewhere(r)
  /\ DirtAt(r) => DirtAt(r)'
  /\ \A q \in Sagas : q # r => DirtAt(q)' = DirtAt(q)
  /\ CleanIfUndone(r)

GoesBack(r) ==
  /\ StageAt(r) = "undoing" /\ StageAt(r)' \in {"undoing", "undone", "stuck"} /\ Elsewhere(r)
  /\ \A q \in Sagas : DirtAt(q)' => DirtAt(q)
  /\ CleanIfUndone(r)

Reopens(r) ==
  /\ StageAt(r) \in {"done", "stuck"} /\ StageAt(r)' \in {"undoing", "undone", "stuck"}
  /\ Elsewhere(r)
  /\ \A q \in Sagas : DirtAt(q)' = DirtAt(q)
  /\ CleanIfUndone(r)

(* A run older than the engine, which rolls nothing back. *)
GoesUnbound(r) ==
  /\ StageAt(r) = "legacy"
  /\ \A q \in Sagas : StageAt(q)' = StageAt(q)
  /\ DirtAt(r) => DirtAt(r)'
  /\ \A q \in Sagas : q # r => DirtAt(q)' = DirtAt(q)

(* A step that changes neither rows nor devices. *)
LEMMA StillSaga ==
  ASSUME runs' = runs, applied' = applied, NEW q
  PROVE  StageAt(q)' = StageAt(q) /\ DirtAt(q)' = DirtAt(q)
BY DEF StageAt, DirtAt, LeftBehind, AppliedBy, RunIds

LEMMA CreateOpens ==
  ASSUME OInv, OInv', RoundsInv, [Next]_vars, NEW s \in Services, NEW p \in RunPurposes,
         NEW dry \in DryRuns, NEW guided \in GuidedRuns, CreateOrGetRun(s, p, dry, guided)
  PROVE  \E r \in Sagas : Opens(r)
<1>0. PICK r : r = Len(runs) + 1
  OBVIOUS
<1>1. /\ applied' = applied /\ Len(runs) \in Nat /\ Len(runs') = r
      /\ \A q \in RunIds : runs'[q] = runs[q]
      /\ runs'[r].status = "QUEUED" /\ (runs'[r].phase # PhaseRollback \/ runs'[r].dry)
      /\ ~Legacy(runs'[r])
  BY <1>0, CreateTurns
<1>2. MaxRuns \in Nat /\ r \in Sagas
  BY <1>0, <1>1, ProvisioningRunsAssumption DEF CreateOrGetRun, Sagas
<1>3. r \notin RunIds /\ \A q \in Sagas : q # r => (q \in RunIds <=> q \in 1 .. Len(runs'))
  BY <1>0, <1>1 DEF RunIds, Sagas
<1>4. StageAt(r)' = "forward" /\ StageAt(r) = "absent"
  BY <1>0, <1>1, <1>3 DEF StageAt, StageOf, InFlight, RunIds
<1>5. ASSUME NEW q \in Sagas, q # r
      PROVE  StageAt(q)' = StageAt(q) /\ DirtAt(q)' = DirtAt(q)
  <2>1. CASE q \in RunIds
    BY <1>1, <1>3, <2>1 DEF StageAt, DirtAt, LeftBehind, AppliedBy, RunIds
  <2>2. CASE q \notin RunIds
    BY <1>3, <1>5, <2>2 DEF StageAt, DirtAt, RunIds
  <2> QED
    BY <2>1, <2>2
<1>6. DirtAt(r)' = DirtAt(r)
  <2>1. ASSUME NEW a \in applied PROVE a[1] # r
    <3>1. a \in (1 .. Len(runs)) \X Devices \X Names
      BY DEF OInv, IInv, TablesOK
    <3> QED
      BY <1>0, <1>1, <3>1
  <2>2. ~DirtAt(r)'
    BY <1>1, <2>1 DEF DirtAt, LeftBehind, AppliedBy
  <2>3. ~DirtAt(r)
    BY <1>3, NoRunNoDirt
  <2> QED
    BY <2>2, <2>3 DEF DirtAt
<1>7. \A q \in Sagas : q < r => StageAt(q) # "absent"
  BY <1>0, <1>1, StageKnown DEF StageAt, RunIds, Sagas
<1>8. Opens(r)
  BY <1>4, <1>5, <1>6, <1>7 DEF Opens, Elsewhere
<1> QED
  BY <1>2, <1>8

(* The other runs, in a step of run r. *)
LEMMA OthersStay ==
  ASSUME OInv, NEW r \in RunIds, OnlyRun(r)
  PROVE  Elsewhere(r) /\ \A q : q \in RunIds <=> q \in 1 .. Len(runs')
<1>1. \A q : q \in RunIds <=> q \in 1 .. Len(runs')
  BY DEF OnlyRun, RunIds
<1>2. ASSUME NEW q \in Sagas, q # r
      PROVE  StageAt(q)' = StageAt(q)
  BY <1>1, <1>2 DEF OnlyRun, StageAt, RunIds
<1> QED
  BY <1>1, <1>2 DEF Elsewhere

(* A step of a run in flight: it goes forward, or back. *)
LEMMA OpenRunMoves ==
  ASSUME OInv, OInv', RoundsInv, RoundsInv', UndoneIsClean', [Next]_vars,
         NEW r \in RunIds, OnlyRun(r), runs[r].status \in InFlight, ~Legacy(runs[r]),
         \A a \in applied' : a \in applied \/ (a[1] = r /\ ~runs[r].dry /\ Back(runs[r]) = {}),
         \A a \in applied : a \in applied' \/ (~runs[r].dry /\ Back(runs[r]) # {})
  PROVE  GoesForward(r) \/ GoesBack(r)
<1>1. WellFormed(runs[r]) /\ Lawful(runs[r]) /\ Rounds(runs[r])
  BY DEF OInv, IInv, RowsWellFormed, RowsLawful, RoundsInv
<1>2. r \in 1 .. Len(runs') /\ runs'[r].dry = runs[r].dry
  BY RunsRemain
<1>3. WellFormed(runs'[r]) /\ Lawful(runs'[r]) /\ Rounds(runs'[r]) /\ ~Legacy(runs'[r])
  BY <1>2, LegacyStays DEF OInv, IInv, RowsWellFormed, RowsLawful, RoundsInv, RunIds
<1>4. StageAt(r) = StageOf(runs[r]) /\ StageAt(r)' = StageOf(runs'[r])
  BY <1>2 DEF StageAt, RunIds
<1>5. CleanIfUndone(r)
  BY <1>2 DEF CleanIfUndone, UndoneIsClean, RunIds
<1>6. Elsewhere(r) /\ \A q : q \in RunIds <=> q \in 1 .. Len(runs')
  BY OthersStay
<1>7. \A q \in Sagas : q \notin RunIds => ~DirtAt(q) /\ ~DirtAt(q)'
  BY <1>6 DEF DirtAt, RunIds
<1>8. CASE runs[r].dry \/ Back(runs[r]) = {}
  <2>1. StageAt(r) = "forward" /\ StageAt(r)' \in Saga!Stages
    BY <1>1, <1>3, <1>4, <1>8, StageForward, StageKnown
  <2>2. \A q \in RunIds : DirtAt(q) => DirtAt(q)'
    BY <1>8, DirtGrows
  <2>3. \A q \in RunIds : q # r /\ DirtAt(q)' => DirtAt(q)
    BY <1>8, DirtFalls
  <2>4. \A q \in Sagas : q # r => DirtAt(q)' = DirtAt(q)
    BY <1>7, <2>2, <2>3 DEF DirtAt
  <2> QED
    BY <1>5, <1>6, <2>1, <2>2, <2>4 DEF GoesForward
<1>9. CASE ~runs[r].dry /\ Back(runs[r]) # {}
  <2>1. Back(runs'[r]) # {}
    BY <1>9, BackGrows
  <2>2. StageAt(r) = "undoing" /\ StageAt(r)' \in {"undoing", "undone", "stuck"}
    BY <1>1, <1>2, <1>3, <1>4, <1>9, <2>1, StageUndoing, StageAfterTurn
  <2>3. \A q \in RunIds : DirtAt(q)' => DirtAt(q)
    BY <1>9, DirtFalls
  <2> QED
    BY <1>5, <1>6, <1>7, <2>2, <2>3 DEF GoesBack
<1> QED
  BY <1>8, <1>9

(* A step of a run older than the engine. *)
LEMMA LegacyMoves ==
  ASSUME OInv, OInv', RoundsInv, [Next]_vars, NEW r \in RunIds, OnlyRun(r), Legacy(runs[r]),
         \A a \in applied' : a \in applied \/ a[1] = r, applied \subseteq applied'
  PROVE  GoesUnbound(r)
<1>1. Elsewhere(r) /\ \A q : q \in RunIds <=> q \in 1 .. Len(runs')
  BY OthersStay
<1>2. Legacy(runs'[r])
  BY LegacyStays
<1>3. StageAt(r) = "legacy" /\ StageAt(r)' = "legacy"
  BY <1>1, <1>2, StageKnown DEF StageAt, RunIds
<1>4. \A q \in Sagas : q \notin RunIds => ~DirtAt(q) /\ ~DirtAt(q)'
  BY <1>1 DEF DirtAt, RunIds
<1>5. \A q \in RunIds : DirtAt(q) => DirtAt(q)'
  BY DirtGrows
<1>6. \A q \in RunIds : q # r /\ DirtAt(q)' => DirtAt(q)
  BY DirtFalls
<1>7. \A q \in Sagas : q # r => DirtAt(q)' = DirtAt(q)
  BY <1>4, <1>5, <1>6 DEF DirtAt
<1> QED
  BY <1>1, <1>3, <1>5, <1>7 DEF GoesUnbound, Elsewhere

LEMMA JobMovesSaga ==
  ASSUME OInv, OInv', RoundsInv, RoundsInv', UndoneIsClean', [Next]_vars,
         NEW r \in RunIds, OnlyRun(r), NEW k \in 1 .. Len(runs[r].kids), NEW job,
         JobTurns(r, k, job)
  PROVE  GoesForward(r) \/ GoesBack(r) \/ GoesUnbound(r)
<1>1. runs[r].status \in InFlight
  BY DEF JobTurns
<1>2. WellFormed(runs[r]) /\ PlanInOrder(runs[r])
  BY DEF OInv, IInv, RowsWellFormed, RowsLawful, Lawful, Base
<1>3. ASSUME NEW a \in applied, a \notin applied'
      PROVE  ~runs[r].dry /\ Back(runs[r]) # {}
  <2>1. applied' = Acted(r, k, StepAt(r, k))
    BY <1>3 DEF JobTurns, Does
  <2>2. ~runs[r].dry /\ EntryOf(runs[r], k).phase = PhaseRollback
    BY <1>3, <2>1, ActedTakes
  <2>3. runs[r].kids[k].position \in Back(runs[r])
    BY <1>2, <2>2, Positions DEF EntryOf, Back
  <2> QED
    BY <2>2, <2>3
<1>4. CASE ~Legacy(runs[r])
  <2>1. \A a \in applied' : a \in applied \/ (a[1] = r /\ ~runs[r].dry /\ Back(runs[r]) = {})
    BY <1>4, ActedForward
  <2> QED
    BY <1>1, <1>3, <1>4, <2>1, OpenRunMoves
<1>5. CASE Legacy(runs[r])
  <2>1. Back(runs[r]) = {}
    BY <1>2, <1>5, LegacyThroughout DEF Back, PhaseRollback, NoPhase
  <2>2. applied \subseteq applied'
    BY <1>3, <2>1
  <2>3. \A a \in applied' : a \in applied \/ a[1] = r
    BY DEF JobTurns, Admits
  <2> QED
    BY <1>5, <2>2, <2>3, LegacyMoves
<1> QED
  BY <1>4, <1>5

(* The repair, a revert or a retry of run r. *)
LEMMA RunMovesSaga ==
  ASSUME OInv, OInv', RoundsInv, RoundsInv', Quiet, UndoneIsClean', [Next]_vars,
         NEW r \in RunIds, OnlyRun(r), RunTurns(r),
         RepairStrandedRun(r) \/ RevertRun(r) \/ RetryRollback(r)
  PROVE  GoesForward(r) \/ GoesBack(r) \/ Reopens(r) \/ GoesUnbound(r)
<1>1. applied' = applied
  BY DEF RunTurns
<1>2. CASE RepairStrandedRun(r)
  <2>1. runs[r].status \in InFlight
    BY <1>2 DEF RepairStrandedRun, Stranded
  <2> QED
    BY <1>1, <2>1, OpenRunMoves, LegacyMoves
<1>3. CASE RevertRun(r) \/ RetryRollback(r)
  <2>1. /\ runs'[r].phase = PhaseRollback /\ runs'[r].status # "SUCCEEDED"
        /\ \/ runs[r].status = "SUCCEEDED"
           \/ runs[r].status = "FAILED" /\ runs[r].code = "ROLLBACK_INCOMPLETE"
    BY <1>3, OfficeReopens DEF OInv
  <2>2. ~runs[r].dry /\ ~Legacy(runs[r]) /\ ~Legacy(runs'[r])
    <3>1. ~runs[r].dry /\ runs[r].phase # NoPhase
      BY <1>3 DEF RevertRun, NotRevertible, RetryRollback, NotRetryable
    <3> QED
      BY <3>1, LegacyStays DEF Quiet, ForwardOnly
  <2>3. r \in 1 .. Len(runs') /\ runs'[r].dry = runs[r].dry
    BY RunsRemain
  <2>4. StageAt(r) = StageOf(runs[r]) /\ StageAt(r)' = StageOf(runs'[r])
    BY <2>3 DEF StageAt, RunIds
  <2>5. StageOf(runs[r]) \in {"done", "stuck"}
    BY <2>1, <2>2 DEF StageOf, InFlight
  <2>6. StageOf(runs'[r]) \in {"undoing", "undone", "stuck"}
    BY <2>1, <2>2, <2>3 DEF StageOf
  <2>7. CleanIfUndone(r)
    BY <2>3 DEF CleanIfUndone, UndoneIsClean, RunIds
  <2>8. Elsewhere(r) /\ \A q : q \in RunIds <=> q \in 1 .. Len(runs')
    BY OthersStay
  <2>9. \A q \in RunIds : DirtAt(q) <=> DirtAt(q)'
    BY <1>1, DirtGrows, DirtFalls
  <2>10. \A q \in Sagas : DirtAt(q)' = DirtAt(q)
    BY <2>8, <2>9 DEF DirtAt, RunIds
  <2> QED
    BY <2>4, <2>5, <2>6, <2>7, <2>8, <2>10 DEF Reopens
<1> QED
  BY <1>2, <1>3

(* The runs are within the bound, or it is zero and one legacy run is there. *)
Counted == MaxRuns = 0 \/ Len(runs) <= MaxRuns

LEMMA NextCounted == OInv /\ OInv' /\ RoundsInv /\ Counted /\ [Next]_vars => Counted'
<1> SUFFICES ASSUME OInv, OInv', RoundsInv, Counted, [Next]_vars PROVE Counted'
  OBVIOUS
<1>1. MaxRuns \in Nat
  BY ProvisioningRunsAssumption
<1>2. CASE Len(runs') = Len(runs)
  BY <1>2 DEF Counted
<1>3. ASSUME NEW s \in Services, NEW p \in RunPurposes, NEW dry \in DryRuns,
             NEW guided \in GuidedRuns, CreateOrGetRun(s, p, dry, guided)
      PROVE  Counted'
  <2>1. Len(runs) \in Nat /\ Len(runs') = Len(runs) + 1 /\ Len(runs) < MaxRuns
    BY <1>3, CreateTurns DEF CreateOrGetRun
  <2> QED
    BY <1>1, <2>1 DEF Counted
<1> QED
  BY <1>2, <1>3, StepKinds DEF OnlyRun

(* The functions the saga is read from, run by run. *)
LEMMA SagaAt ==
  /\ DOMAIN RunStages = Sagas /\ DOMAIN RunDirt = Sagas
  /\ RunStages = [r \in Sagas |-> RunStages[r]] /\ RunDirt = [r \in Sagas |-> RunDirt[r]]
  /\ \A r \in Sagas : RunStages[r] = StageAt(r) /\ RunDirt[r] = DirtAt(r) /\ RunDirt[r] \in BOOLEAN
BY DEF RunStages, RunDirt, StageAt, DirtAt, Sagas

LEMMA SagaAtNext ==
  /\ DOMAIN RunStages' = Sagas /\ DOMAIN RunDirt' = Sagas
  /\ RunStages' = [r \in Sagas |-> RunStages'[r]] /\ RunDirt' = [r \in Sagas |-> RunDirt'[r]]
  /\ \A r \in Sagas : RunStages'[r] = StageAt(r)' /\ RunDirt'[r] = DirtAt(r)' /\ RunDirt'[r] \in BOOLEAN
BY DEF RunStages, RunDirt, StageAt, DirtAt, Sagas

LEMMA StageChange ==
  ASSUME NEW r \in Sagas, Elsewhere(r)
  PROVE  RunStages' = [RunStages EXCEPT ![r] = StageAt(r)']
<1>1. \A q \in Sagas : RunStages'[q] = IF q = r THEN StageAt(r)' ELSE RunStages[q]
  BY SagaAt, SagaAtNext DEF Elsewhere
<1> QED
  BY <1>1, SagaAt, SagaAtNext

LEMMA DirtSame ==
  ASSUME \A q \in Sagas : DirtAt(q)' = DirtAt(q)
  PROVE  RunDirt' = RunDirt
<1>1. \A q \in Sagas : RunDirt'[q] = RunDirt[q]
  BY SagaAt, SagaAtNext
<1> QED
  BY <1>1, SagaAt, SagaAtNext

LEMMA OpensSaga ==
  ASSUME NEW r \in Sagas, Opens(r)
  PROVE  Saga!Open(r)
<1>1. RunStages[r] = "absent" /\ \A q \in Sagas : q < r => RunStages[q] # "absent"
  BY SagaAt DEF Opens
<1>2. RunStages' = [RunStages EXCEPT ![r] = "forward"]
  BY StageChange DEF Opens
<1>3. RunDirt' = RunDirt
  BY DirtSame DEF Opens
<1> QED
  BY <1>1, <1>2, <1>3 DEF Saga!Open, Sagas

LEMMA ForwardSaga ==
  ASSUME NEW r \in Sagas, GoesForward(r)
  PROVE  Saga!Forward(r)
<1>1. RunStages[r] = "forward"
  BY SagaAt DEF GoesForward
<1>2. RunStages' = [RunStages EXCEPT ![r] = StageAt(r)'] /\ StageAt(r)' \in Saga!Stages
  BY StageChange DEF GoesForward
<1>3. StageAt(r)' = "undone" => ~RunDirt'[r]
  BY SagaAtNext DEF GoesForward, CleanIfUndone
<1>4. RunDirt' = [RunDirt EXCEPT ![r] = RunDirt'[r]]
  <2>1. \A q \in Sagas : q # r => RunDirt'[q] = RunDirt[q]
    BY SagaAt, SagaAtNext DEF GoesForward
  <2> QED
    BY <2>1, SagaAt, SagaAtNext
<1>5. RunDirt'[r] \in {RunDirt[r], TRUE}
  BY SagaAt, SagaAtNext DEF GoesForward
<1> QED
  BY <1>1, <1>2, <1>3, <1>4, <1>5 DEF Saga!Forward

LEMMA BackSaga ==
  ASSUME NEW r \in Sagas, GoesBack(r)
  PROVE  Saga!Undo(r)
<1>1. RunStages[r] = "undoing"
  BY SagaAt DEF GoesBack
<1>2. /\ RunStages' = [RunStages EXCEPT ![r] = StageAt(r)']
      /\ StageAt(r)' \in {"undoing", "undone", "stuck"}
  BY StageChange DEF GoesBack
<1>3. StageAt(r)' = "undone" => ~RunDirt'[r]
  BY SagaAtNext DEF GoesBack, CleanIfUndone
<1>4. RunDirt' \in [Sagas -> BOOLEAN]
  BY SagaAtNext
<1>5. \A q \in Sagas : RunDirt'[q] => RunDirt[q]
  BY SagaAt, SagaAtNext DEF GoesBack
<1> QED
  BY <1>1, <1>2, <1>3, <1>4, <1>5 DEF Saga!Undo, Sagas

LEMMA ReopensSaga ==
  ASSUME NEW r \in Sagas, Reopens(r)
  PROVE  Saga!Reopen(r)
<1>1. RunStages[r] \in {"done", "stuck"}
  BY SagaAt DEF Reopens
<1>2. /\ RunStages' = [RunStages EXCEPT ![r] = StageAt(r)']
      /\ StageAt(r)' \in {"undoing", "undone", "stuck"}
  BY StageChange DEF Reopens
<1>3. RunDirt' = RunDirt
  BY DirtSame DEF Reopens
<1>4. StageAt(r)' = "undone" => ~RunDirt[r]
  BY <1>3, SagaAtNext DEF Reopens, CleanIfUndone
<1> QED
  BY <1>1, <1>2, <1>3, <1>4 DEF Saga!Reopen

LEMMA UnboundSaga ==
  ASSUME NEW r \in Sagas, GoesUnbound(r)
  PROVE  Saga!Unbound(r) \/ (RunStages' = RunStages /\ RunDirt' = RunDirt)
<1>1. RunStages' = RunStages /\ RunStages[r] = "legacy"
  <2>1. \A q \in Sagas : RunStages'[q] = RunStages[q]
    BY SagaAt, SagaAtNext DEF GoesUnbound
  <2> QED
    BY <2>1, SagaAt, SagaAtNext DEF GoesUnbound
<1>2. CASE DirtAt(r)
  <2>1. \A q \in Sagas : RunDirt'[q] = RunDirt[q]
    BY <1>2, SagaAt, SagaAtNext DEF GoesUnbound
  <2> QED
    BY <1>1, <2>1, SagaAt, SagaAtNext
<1>3. CASE ~DirtAt(r) /\ DirtAt(r)'
  <2>1. \A q \in Sagas : RunDirt'[q] = IF q = r THEN TRUE ELSE RunDirt[q]
    BY <1>3, SagaAt, SagaAtNext DEF GoesUnbound
  <2>2. RunDirt' = [RunDirt EXCEPT ![r] = TRUE]
    BY <2>1, SagaAt, SagaAtNext
  <2> QED
    BY <1>1, <2>2 DEF Saga!Unbound
<1>4. CASE ~DirtAt(r) /\ ~DirtAt(r)'
  <2>1. \A q \in Sagas : RunDirt'[q] = RunDirt[q]
    BY <1>4, SagaAt, SagaAtNext DEF GoesUnbound
  <2> QED
    BY <1>1, <2>1, SagaAt, SagaAtNext
<1> QED
  BY <1>2, <1>3, <1>4

(* Every step of the engine is a step of the saga, or none. *)
LEMMA NextSaga ==
  /\ OInv /\ OInv' /\ RoundsInv /\ RoundsInv' /\ Quiet /\ UndoneIsClean' /\ Counted
  /\ [Next]_vars
  => [Saga!SagaNext]_<<RunStages, RunDirt>>
<1> SUFFICES ASSUME OInv, OInv', RoundsInv, RoundsInv', Quiet, UndoneIsClean', Counted, [Next]_vars
             PROVE  [Saga!SagaNext]_<<RunStages, RunDirt>>
  OBVIOUS
<1>1. MaxRuns \in Nat /\ Len(runs) \in Nat
  BY ProvisioningRunsAssumption, LenProperties DEF OInv, IInv, TablesOK
<1>2. CASE MaxRuns = 0
  <2>1. Sagas = {}
    BY <1>2 DEF Sagas
  <2>2. RunStages' = RunStages /\ RunDirt' = RunDirt
    BY <2>1, SagaAt, SagaAtNext
  <2> QED
    BY <2>2
<1>3. CASE runs' = runs /\ applied' = applied
  <2>1. \A q \in Sagas : StageAt(q)' = StageAt(q) /\ DirtAt(q)' = DirtAt(q)
    BY <1>3, StillSaga
  <2>2. RunDirt' = RunDirt
    BY <2>1, DirtSame
  <2>3. \A q \in Sagas : RunStages'[q] = RunStages[q]
    BY <2>1, SagaAt, SagaAtNext
  <2>4. RunStages' = RunStages
    BY <2>3, SagaAt, SagaAtNext
  <2> QED
    BY <2>2, <2>4
<1>4. ASSUME NEW s \in Services, NEW p \in RunPurposes, NEW dry \in DryRuns,
             NEW guided \in GuidedRuns, CreateOrGetRun(s, p, dry, guided)
      PROVE  Saga!SagaNext
  BY <1>4, CreateOpens, OpensSaga DEF Saga!SagaNext, Sagas
<1>5. ASSUME MaxRuns # 0, NEW r \in RunIds,
             GoesForward(r) \/ GoesBack(r) \/ Reopens(r) \/ GoesUnbound(r)
      PROVE  [Saga!SagaNext]_<<RunStages, RunDirt>>
  <2>1. r \in Sagas
    BY <1>1, <1>5 DEF Counted, RunIds, Sagas
  <2>2. ASSUME Saga!Forward(r) \/ Saga!Undo(r) \/ Saga!Reopen(r) \/ Saga!Unbound(r)
        PROVE  Saga!SagaNext
    BY <2>1, <2>2 DEF Saga!SagaNext, Sagas
  <2> QED
    BY <1>5, <2>1, <2>2, ForwardSaga, BackSaga, ReopensSaga, UnboundSaga
<1>6. ASSUME MaxRuns # 0, NEW r \in RunIds, OnlyRun(r),
             NEW k \in 1 .. Len(runs[r].kids), NEW job, JobTurns(r, k, job)
      PROVE  [Saga!SagaNext]_<<RunStages, RunDirt>>
  BY <1>5, <1>6, JobMovesSaga
<1>7. ASSUME MaxRuns # 0, NEW r \in RunIds, OnlyRun(r), RunTurns(r),
             RepairStrandedRun(r) \/ RevertRun(r) \/ RetryRollback(r)
      PROVE  [Saga!SagaNext]_<<RunStages, RunDirt>>
  BY <1>5, <1>7, RunMovesSaga
<1> QED
  BY <1>2, <1>3, <1>4, <1>6, <1>7, StepKinds

LEMMA InitSaga == Init => Saga!SagaInit
<1> SUFFICES ASSUME Init PROVE Saga!SagaInit
  OBVIOUS
<1>1. \A r \in RunIds : StageOf(runs[r]) = "legacy"
  <2> SUFFICES ASSUME NEW r \in RunIds PROVE Legacy(runs[r])
    BY StageKnown
  <2>1. runs # <<>>
    BY DEF RunIds
  <2>2. PICK s \in LegacyServices, dry \in DryRuns : runs = <<LegacyRun(s, dry)>>
    BY <2>1 DEF Init
  <2> DEFINE w == LegacyRun(s, dry)
             plan == [i \in 1 .. Len(Path[s][0]) |-> PlanEntry(Path[s][0][i], 1, NoPhase, FALSE)]
  <2>3. runs[r] = w
    BY <2>2 DEF RunIds
  <2>4. w.kids = <<NewJob(1)>> /\ w.plan = plan
    BY DEF LegacyRun
  <2> HIDE DEF w
  <2>5. WellFormed(w)
    BY <2>3, InitOInv DEF OInv, IInv, RowsWellFormed
  <2>6. 1 \in 1 .. Len(w.kids)
    BY <2>4
  <2>7. w.kids[1].position \in 1 .. Len(w.plan)
    BY <2>5, <2>6, Positions
  <2>8. \A i \in DOMAIN plan : plan[i].phase = NoPhase
    BY DEF PlanEntry
  <2> HIDE DEF plan
  <2>9. 1 .. Len(w.plan) = DOMAIN plan
    BY <2>4, <2>5, Lengths, LenProperties
  <2>10. w.plan[w.kids[1].position].phase = NoPhase
    BY <2>4, <2>7, <2>8, <2>9
  <2> QED
    BY <2>3, <2>7, <2>10 DEF Legacy
<1>2. \A r \in Sagas : RunStages[r] \in {"absent", "legacy"}
  BY <1>1, SagaAt DEF StageAt
<1>3. \A r \in Sagas : RunDirt[r] = FALSE
  BY SagaAt DEF DirtAt, LeftBehind, AppliedBy, Init
<1>4. RunStages \in [Sagas -> {"absent", "legacy"}]
  BY <1>2, SagaAt
<1>5. RunDirt = [r \in Sagas |-> FALSE]
  BY <1>3, SagaAt
<1> QED
  BY <1>4, <1>5 DEF Saga!SagaInit, Sagas

(***************************************************************************)
(* The engine implements the saga, for any number of devices, playbooks,   *)
(* services, runs, retries and mishaps: what advance_run, the rollback     *)
(* planner, the repair and the office actions do to a run's row and its    *)
(* devices is a step of RunSaga or none.  A run changes devices only while *)
(* it goes forward, what it says is undone is undone, and only the office  *)
(* sends a run that is done or stuck back to undoing.  A run older than    *)
(* the engine is no saga: it may leave anything behind, and undoes nothing.*)
(***************************************************************************)
THEOREM SagaHolds == Spec => ImplementsSaga
<1>1. Init => Counted
  <2> SUFFICES ASSUME Init PROVE Counted
    OBVIOUS
  <2>1. Len(runs) <= 1
    <3>1. CASE runs = <<>>
      BY <3>1
    <3>2. ASSUME NEW w, runs = <<w>> PROVE Len(runs) <= 1
      BY <3>2
    <3> QED
      BY <3>1, <3>2 DEF Init
  <2>2. MaxRuns \in Nat
    BY ProvisioningRunsAssumption
  <2>3. Len(runs) \in Int
    BY InitIInv, LenProperties DEF IInv, TablesOK
  <2> QED
    BY <2>1, <2>2, <2>3 DEF Counted
<1>2. Spec => []Counted
  BY <1>1, NextCounted, NextOInv, RInvHolds, PTL DEF Spec, RInv
<1>3. RInv => OInv /\ RoundsInv /\ Quiet /\ UndoneIsClean
  BY UndoneHolds DEF RInv
<1> QED
  BY <1>2, <1>3, RInvHolds, InitSaga, NextSaga, PTL DEF Spec, ImplementsSaga, Saga!SagaSpec

=============================================================================
