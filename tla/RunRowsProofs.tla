--------------------------- MODULE RunRowsProofs ---------------------------
(***************************************************************************)
(* What every row operation of RunRows preserves: a well-formed run stays  *)
(* well formed.  ProvisioningRunsProofs builds its invariant on these.     *)
(***************************************************************************)
EXTENDS RunRows, FiniteSetTheorems, SequenceTheorems, TLAPS

(* Children are queued along the plan: positions exist and only grow. *)
AlongThePlan(w) ==
  /\ \A k \in 1 .. Len(w.kids) : w.kids[k].position \in 1 .. Len(w.plan)
  /\ \A i, j \in 1 .. Len(w.kids) : i < j => w.kids[i].position < w.kids[j].position

(* Only the last child may be live, and none of a closed run is. *)
OneLive(w) ==
  /\ LiveKids(w) \subseteq {Len(w.kids)}
  /\ w.status \in Terminal => LiveKids(w) = {}

(* A child in a step, or parked at one, has that step. *)
StepInRange(w) ==
  \A k \in 1 .. Len(w.kids) :
    w.kids[k].inflight # NoStep \/ w.kids[k].status = "PENDING_MANUAL"
      => w.kids[k].next <= Len(JobSteps(EntryOf(w, k)))

WellFormed(w) == w \in Run /\ AlongThePlan(w) /\ OneLive(w) /\ StepInRange(w)

-----------------------------------------------------------------------------
(* Plans and sequences.                                                    *)

(* Ascending keeps to the set it sorts: it invents no index. *)
LEMMA AscendingType ==
  ASSUME NEW n \in Nat, NEW I \in SUBSET (1 .. n)
  PROVE  Ascending(I) \in Seq(I)
<1>1. IsFiniteSet(1 .. n)
  BY FS_Interval
<1>2. Cardinality(I) \in Nat
  BY <1>1, FS_Subset, FS_CardinalityType
<1>3. Ascents(I) \subseteq Seq(I)
  BY <1>2, SeqDef DEF Ascents
<1> QED
  BY <1>3 DEF Ascending

(* Backwards keeps the length and the elements. *)
LEMMA BackwardsType ==
  ASSUME NEW S, NEW s \in Seq(S)
  PROVE  /\ Backwards(s) \in Seq(S)
         /\ Len(Backwards(s)) = Len(s)
<1>1. \A i \in 1 .. Len(s) : s[Len(s) + 1 - i] \in S
  BY ElementOfSeq, LenProperties
<1>2. Backwards(s) \in [1 .. Len(s) -> S]
  BY <1>1 DEF Backwards
<1> QED
  BY <1>2, IsASeq, LenProperties DEF Backwards

(* A job's steps are steps of its definition, or the probe. *)
LEMMA JobStepsType ==
  ASSUME NEW e \in Entry
  PROVE  JobSteps(e) \in Seq(Step \cup {SessionProbe})
<1>1. DefinitionFor(e) \in [Phases -> Seq(Step)]
  BY RunPlanAssumption DEF DefinitionFor, Entry
<1>2. \A p \in Phases : DefinitionFor(e)[p] \in Seq(Step \cup {SessionProbe})
  BY <1>1, SeqMonotonic
<1>3. {PhasePreconditions, PhaseConfiguration, PhaseVerification} \subseteq Phases
  BY DEF Phases
<1>4. <<SessionProbe>> \in Seq(Step \cup {SessionProbe})
  OBVIOUS
<1>5. e.phase \in Phases \cup {NoPhase}
  BY DEF Entry
<1> QED
  BY <1>2, <1>3, <1>4, <1>5, ConcatProperties DEF JobSteps

(* What a step is called, and when the name is an authored one. *)
LEMMA StepNameType ==
  ASSUME NEW e \in Entry, NEW i \in 1 .. Len(JobSteps(e))
  PROVE  /\ JobSteps(e)[i].name \in StepNames
         /\ e.phase = PhaseConfiguration => JobSteps(e)[i].name \in Names
<1>1. JobSteps(e)[i] \in Step \cup {SessionProbe}
  BY JobStepsType, ElementOfSeq
<1>2. JobSteps(e)[i].name \in StepNames
  BY <1>1 DEF Step, SessionProbe, StepNames
<1>3. ASSUME e.phase = PhaseConfiguration
      PROVE  JobSteps(e)[i].name \in Names
  <2>1. DefinitionFor(e) \in [Phases -> Seq(Step)]
    BY RunPlanAssumption DEF DefinitionFor, Entry
  <2>2. JobSteps(e) = DefinitionFor(e)[PhaseConfiguration]
    BY <1>3 DEF JobSteps, NoPhase, PhaseConfiguration, PhasePreconditions
  <2>3. JobSteps(e) \in Seq(Step)
    BY <2>1, <2>2 DEF Phases
  <2>4. JobSteps(e)[i] \in Step
    BY <2>3, ElementOfSeq, SMTT(30)
  <2> QED
    BY <2>4 DEF Step
<1> QED
  BY <1>2, <1>3

(* A plan made of one phase's entries is a plan. *)
LEMMA PhaseEntriesType ==
  ASSUME NEW ordered \in Seq(Devices), NEW versions \in [Devices -> Versions],
         NEW phase \in Phases, NEW leaf, NEW bringUp
  PROVE  PhaseEntries(ordered, versions, phase, leaf, bringUp) \in Seq(Entry)
<1> DEFINE entry == [i \in 1 .. Len(ordered) |->
             LET d == ordered[i]
             IN  PlanEntry(d, versions[d], phase,
                   /\ phase = PhasePreconditions
                   /\ NeedsProbe(Definition[d][versions[d]], bringUp /\ d = leaf))]
           I == {i \in 1 .. Len(ordered) : JobSteps(entry[i]) # <<>>}
           kept == Ascending(I)
<1>1. \A i \in 1 .. Len(ordered) : entry[i] \in Entry
  <2> SUFFICES ASSUME NEW i \in 1 .. Len(ordered)
               PROVE  entry[i] \in Entry
    OBVIOUS
  <2> DEFINE probe == /\ phase = PhasePreconditions
                      /\ NeedsProbe(Definition[ordered[i]][versions[ordered[i]]],
                                    bringUp /\ ordered[i] = leaf)
  <2>1. ordered[i] \in Devices
    BY ElementOfSeq
  <2>2. versions[ordered[i]] \in Versions
    BY <2>1
  <2>3. probe \in BOOLEAN
    BY DEF NeedsProbe
  <2>4. entry[i] = PlanEntry(ordered[i], versions[ordered[i]], phase, probe)
    OBVIOUS
  <2> HIDE DEF probe, entry
  <2> QED
    BY <2>1, <2>2, <2>3, <2>4 DEF PlanEntry, Entry
<1> HIDE DEF entry
<1>2. Len(ordered) \in Nat
  BY LenProperties
<1>3. kept \in Seq(I)
  BY <1>2, AscendingType
<1> HIDE DEF kept
<1>4. Len(kept) \in Nat /\ \A k \in 1 .. Len(kept) : kept[k] \in 1 .. Len(ordered)
  BY <1>3, ElementOfSeq, LenProperties
<1>5. [k \in 1 .. Len(kept) |-> entry[kept[k]]] \in Seq(Entry)
  BY <1>1, <1>4, IsASeq
<1> QED
  BY <1>5 DEF PhaseEntries, kept, entry

(* What create_run snapshots is a plan. *)
LEMMA NewPlanType ==
  ASSUME NEW path \in Seq(Devices), NEW purpose, NEW dry,
         NEW versions \in [Devices -> Versions]
  PROVE  NewPlan(path, purpose, dry, versions) \in Seq(Entry)
<1> DEFINE ordered == OrderForPurpose(path, purpose)
<1>1. ordered \in Seq(Devices) /\ Backwards(ordered) \in Seq(Devices)
  BY BackwardsType DEF OrderForPurpose
<1>2. \A order \in Seq(Devices), phase \in Phases :
        PhaseEntries(order, versions, phase, path[1], purpose \notin TeardownPurposes)
          \in Seq(Entry)
  BY PhaseEntriesType
<1>3. {PhasePreconditions, PhaseConfiguration, PhaseVerification, PhaseRollback} \subseteq Phases
  BY DEF Phases
<1> HIDE DEF ordered
<1>4. (IF dry THEN PhaseEntries(Backwards(ordered), versions, PhaseRollback, path[1],
                                purpose \notin TeardownPurposes) ELSE <<>>) \in Seq(Entry)
  BY <1>1, <1>2, <1>3
<1> QED
  BY <1>1, <1>2, <1>3, <1>4, ConcatProperties DEF NewPlan, ordered

-----------------------------------------------------------------------------
(* Rows.                                                                   *)

(* A child's entry is an entry of the plan. *)
LEMMA EntryOfType ==
  ASSUME NEW w, WellFormed(w), NEW k \in 1 .. Len(w.kids)
  PROVE  EntryOf(w, k) \in Entry
<1>1. w.plan \in Seq(Entry) /\ w.kids[k].position \in 1 .. Len(w.plan)
  BY DEF WellFormed, AlongThePlan, Run
<1> QED
  BY <1>1, ElementOfSeq DEF EntryOf

(* A child is a job. *)
LEMMA KidType ==
  ASSUME NEW w, WellFormed(w), NEW k \in 1 .. Len(w.kids)
  PROVE  w.kids[k] \in Job
<1>1. w.kids \in Seq(Job)
  BY DEF WellFormed, Run
<1> QED
  BY <1>1, ElementOfSeq

(* Closing a run none of whose children is live leaves it well formed. *)
LEMMA CloseRunWellFormed ==
  ASSUME NEW w, WellFormed(w), LiveKids(w) = {},
         NEW status \in Terminal, NEW code \in Codes
  PROVE  /\ WellFormed(CloseRun(w, status, code))
         /\ CloseRun(w, status, code).service = w.service
<1> DEFINE c == CloseRun(w, status, code)
           kept == IF code = NoCode THEN w.code ELSE code
<1>1. w \in Run /\ kept \in Codes
  BY DEF WellFormed, Run
<1>2. RunClosed(status, kept) \in Event
  BY <1>1 DEF RunClosed, Event
<1>3. (IF w.dry THEN w.outbox ELSE Append(w.outbox, RunClosed(status, kept))) \in Seq(Event)
  BY <1>1, <1>2, AppendProperties DEF Run
<1> HIDE DEF kept
<1>4. c = [w EXCEPT !.status = status, !.code = kept,
              !.outbox = IF w.dry THEN w.outbox ELSE Append(w.outbox, RunClosed(status, kept))]
  BY DEF CloseRun, kept
<1>5. c \in Run
  BY <1>1, <1>3, <1>4 DEF Run
<1>6. c.kids = w.kids /\ c.plan = w.plan /\ c.service = w.service
  BY <1>1, <1>4 DEF Run
<1> HIDE DEF c
<1>7. AlongThePlan(c) /\ OneLive(c) /\ StepInRange(c)
  BY <1>6 DEF WellFormed, AlongThePlan, OneLive, StepInRange, LiveKids, EntryOf
<1> QED
  BY <1>5, <1>6, <1>7 DEF WellFormed, c

(***************************************************************************)
(* A row that differs only in bookkeeping fields, over the same plan and   *)
(* children and not closed with a live child, is as well formed.           *)
(***************************************************************************)
LEMMA SameChildren ==
  ASSUME NEW w, WellFormed(w), NEW v \in Run,
         v.kids = w.kids, v.plan = w.plan,
         v.status = w.status \/ LiveKids(w) = {}
  PROVE  WellFormed(v)
BY DEF WellFormed, AlongThePlan, OneLive, StepInRange, LiveKids, EntryOf

(***************************************************************************)
(* queue_child: a position past every child's, in an open run without a    *)
(* live child, makes one live child: the new one.                          *)
(***************************************************************************)
LEMMA QueueChildWellFormed ==
  ASSUME NEW w, WellFormed(w), LiveKids(w) = {}, w.status \in InFlight,
         NEW position \in 1 .. Len(w.plan),
         \A k \in 1 .. Len(w.kids) : w.kids[k].position < position
  PROVE  /\ WellFormed(QueueChild(w, position))
         /\ QueueChild(w, position).service = w.service
         /\ QueueChild(w, position).status = w.status
<1> DEFINE q == QueueChild(w, position)
           n == Len(w.kids) + 1
           phase == IF w.plan[position].phase = NoPhase THEN w.phase
                    ELSE w.plan[position].phase
<1>1. w \in Run /\ w.kids \in Seq(Job) /\ w.plan \in Seq(Entry)
  BY DEF WellFormed, Run
<1>2. w.plan[position] \in Entry
  BY <1>1, ElementOfSeq
<1>3. phase \in Phases \cup {NoPhase}
  BY <1>1, <1>2 DEF Entry, Run
<1>4. position \in Nat /\ NewJob(position) \in Job
  BY <1>1, LenProperties DEF NewJob, Job, InFlight, StepNames
<1>5. /\ Append(w.kids, NewJob(position)) \in Seq(Job)
      /\ Len(Append(w.kids, NewJob(position))) = n
      /\ \A k \in 1 .. Len(w.kids) : Append(w.kids, NewJob(position))[k] = w.kids[k]
      /\ Append(w.kids, NewJob(position))[n] = NewJob(position)
      /\ Len(w.kids) \in Nat
  BY <1>1, <1>4, AppendProperties, LenProperties
<1> HIDE DEF phase
<1>6. q = [w EXCEPT !.phase = phase, !.kids = Append(w.kids, NewJob(position))]
  BY <1>1 DEF QueueChild, Run, phase
<1>7. /\ q \in Run
      /\ q.plan = w.plan /\ q.status = w.status /\ q.service = w.service
      /\ q.kids = Append(w.kids, NewJob(position))
  BY <1>1, <1>3, <1>5, <1>6, ZenonT(60) DEF Run
<1> HIDE DEF q
<1>8. /\ Len(q.kids) = n
      /\ \A k \in 1 .. Len(w.kids) : q.kids[k] = w.kids[k]
      /\ q.kids[n] = NewJob(position)
  BY <1>5, <1>7
<1>9. NewJob(position).position = position
  BY DEF NewJob
<1>10. AlongThePlan(q)
  <2>1. \A k \in 1 .. Len(w.kids) : w.kids[k].position \in 1 .. Len(w.plan)
    BY DEF WellFormed, AlongThePlan
  <2>2. \A i, j \in 1 .. Len(w.kids) : i < j => w.kids[i].position < w.kids[j].position
    BY DEF WellFormed, AlongThePlan
  <2>3. \A k \in 1 .. Len(q.kids) : k \in 1 .. Len(w.kids) \/ k = n
    BY <1>5, <1>8
  <2>4. \A i, j \in 1 .. Len(q.kids) : i < j => q.kids[i].position < q.kids[j].position
    <3> SUFFICES ASSUME NEW i \in 1 .. Len(q.kids), NEW j \in 1 .. Len(q.kids), i < j
                 PROVE  q.kids[i].position < q.kids[j].position
      OBVIOUS
    <3>1. i \in 1 .. Len(w.kids)
      BY <1>5, <1>8
    <3>2. CASE j = n
      BY <3>1, <3>2, <1>8, <1>9
    <3>3. CASE j \in 1 .. Len(w.kids)
      BY <3>1, <3>3, <1>8, <2>2
    <3> QED
      BY <3>2, <3>3, <2>3
  <2>5. \A k \in 1 .. Len(q.kids) : q.kids[k].position \in 1 .. Len(q.plan)
    BY <2>1, <2>3, <1>7, <1>8, <1>9
  <2> QED
    BY <2>4, <2>5 DEF AlongThePlan
<1>11. OneLive(q)
  <2>1. \A k \in 1 .. Len(w.kids) : ~IsLive(q.kids[k])
    BY <1>8 DEF LiveKids
  <2>2. LiveKids(q) \subseteq {n}
    BY <2>1, <1>5, <1>8 DEF LiveKids
  <2>3. q.status \notin Terminal
    BY <1>7 DEF InFlight, Terminal
  <2> QED
    BY <2>2, <2>3, <1>8 DEF OneLive
<1>12. StepInRange(q)
  <2> SUFFICES ASSUME NEW k \in 1 .. Len(q.kids),
                      q.kids[k].inflight # NoStep \/ q.kids[k].status = "PENDING_MANUAL"
               PROVE  q.kids[k].next <= Len(JobSteps(EntryOf(q, k)))
    BY DEF StepInRange
  <2>1. k # n
    BY <1>8 DEF NewJob
  <2>2. k \in 1 .. Len(w.kids)
    BY <2>1, <1>5, <1>8
  <2>3. EntryOf(q, k) = EntryOf(w, k)
    BY <2>2, <1>7, <1>8 DEF EntryOf
  <2> QED
    BY <2>2, <2>3, <1>8 DEF WellFormed, StepInRange
<1> QED
  BY <1>7, <1>10, <1>11, <1>12 DEF WellFormed, q

(* ran_steps names authored steps only. *)
LEMMA RanStepsType ==
  ASSUME NEW job \in Job
  PROVE  RanSteps(job) \subseteq Names
<1>1. job.log \subseteq LogEntry /\ job.interrupted \in StepNames \cup {NoStep}
  BY DEF Job
<1>2. LoggedSteps(job) \subseteq StepNames
  BY <1>1 DEF LoggedSteps, LogEntry
<1> QED
  BY <1>1, <1>2 DEF RanSteps, StepNames

(* The rollback entries are plan entries of configured devices. *)
LEMMA RollbackEntriesType ==
  ASSUME NEW w, WellFormed(w), NEW items
  PROVE  /\ RollbackEntries(w, items) \in Seq(Entry)
         /\ NoRollbackItems(w, items) \subseteq Devices
<1> DEFINE I == {k \in Touched(w, items) : NeedsEntry(w, k)}
           order == RollbackOrder(w, items)
           back(k) == [EntryOf(w, k) EXCEPT !.phase = PhaseRollback, !.probe = FALSE,
                                            !.ran = RanSteps(w.kids[k])]
<1>1. w.kids \in Seq(Job) /\ Len(w.kids) \in Nat
  BY LenProperties DEF WellFormed, Run
<1>2. Touched(w, items) \subseteq 1 .. Len(w.kids)
  BY DEF Touched, KidsOfPhase
<1>3. order \in Seq(I)
  BY <1>1, <1>2, AscendingType, BackwardsType DEF RollbackOrder
<1> HIDE DEF order
<1>4. Len(order) \in Nat /\ \A i \in 1 .. Len(order) : order[i] \in 1 .. Len(w.kids)
  BY <1>2, <1>3, ElementOfSeq, LenProperties
<1>5. \A k \in 1 .. Len(w.kids) : EntryOf(w, k) \in Entry /\ RanSteps(w.kids[k]) \subseteq Names
  BY <1>1, EntryOfType, RanStepsType, ElementOfSeq
<1>6. \A k \in 1 .. Len(w.kids) : back(k) \in Entry
  BY <1>5 DEF Entry, Phases
<1> HIDE DEF back
<1>7. [i \in 1 .. Len(order) |-> back(order[i])] \in Seq(Entry)
  BY <1>4, <1>6, IsASeq
<1>8. NoRollbackItems(w, items) \subseteq Devices
  BY <1>2, <1>5 DEF NoRollbackItems, Entry
<1> QED
  BY <1>7, <1>8 DEF RollbackEntries, order, back

(* Planning a rollback appends to the plan and leaves the children alone. *)
LEMMA RecordRollbackWellFormed ==
  ASSUME NEW w, WellFormed(w), NEW items
  PROVE  LET p == RecordRollback(w, items)
         IN  /\ WellFormed(p)
             /\ p.kids = w.kids /\ p.status = w.status /\ p.service = w.service
             /\ Len(w.plan) \in Nat /\ Len(p.plan) \in Nat /\ Len(w.plan) <= Len(p.plan)
             /\ LiveKids(p) = LiveKids(w)
<1> DEFINE p == RecordRollback(w, items)
           more == RollbackEntries(w, items)
<1>1. w \in Run /\ w.plan \in Seq(Entry)
  BY DEF WellFormed, Run
<1>2. more \in Seq(Entry) /\ NoRollbackItems(w, items) \subseteq Devices
  BY RollbackEntriesType
<1> HIDE DEF more
<1>3. /\ w.plan \o more \in Seq(Entry)
      /\ Len(w.plan \o more) = Len(w.plan) + Len(more)
      /\ \A i \in 1 .. Len(w.plan) : (w.plan \o more)[i] = w.plan[i]
      /\ Len(w.plan) \in Nat /\ Len(more) \in Nat
  BY <1>1, <1>2, ConcatProperties, LenProperties
<1>4. w.noRollback \cup NoRollbackItems(w, items) \subseteq Devices
  BY <1>1, <1>2 DEF Run
<1>5. p = [w EXCEPT !.noRollback = w.noRollback \cup NoRollbackItems(w, items),
                    !.plan = w.plan \o more]
  BY DEF RecordRollback, more
<1>6. /\ p \in Run /\ p.kids = w.kids /\ p.status = w.status /\ p.service = w.service
      /\ p.plan = w.plan \o more
  BY <1>1, <1>3, <1>4, <1>5, ZenonT(60) DEF Run
<1> HIDE DEF p
<1>7. /\ Len(p.plan) \in Nat /\ Len(w.plan) <= Len(p.plan)
      /\ \A i \in 1 .. Len(w.plan) : p.plan[i] = w.plan[i]
  BY <1>3, <1>6
<1>8. \A k \in 1 .. Len(w.kids) :
        w.kids[k].position \in 1 .. Len(w.plan) /\ EntryOf(p, k) = EntryOf(w, k)
  BY <1>6, <1>7 DEF WellFormed, AlongThePlan, EntryOf
<1>9. AlongThePlan(p)
  BY <1>3, <1>6, <1>7, <1>8 DEF WellFormed, AlongThePlan
<1>10. LiveKids(p) = LiveKids(w) /\ OneLive(p)
  BY <1>6 DEF WellFormed, OneLive, LiveKids
<1>11. StepInRange(p)
  BY <1>6, <1>8 DEF WellFormed, StepInRange
<1> QED
  BY <1>3, <1>6, <1>7, <1>9, <1>10, <1>11 DEF WellFormed, p

(* Noting why a run goes back changes no child. *)
LEMMA SetCauseWellFormed ==
  ASSUME NEW w, WellFormed(w), NEW code \in Codes
  PROVE  LET c == SetCause(w, code)
         IN  /\ WellFormed(c)
             /\ c.kids = w.kids /\ c.plan = w.plan /\ c.status = w.status
             /\ c.service = w.service
             /\ LiveKids(c) = LiveKids(w)
<1> DEFINE c == SetCause(w, code)
<1>1. w \in Run
  BY DEF WellFormed
<1>2. /\ c \in Run /\ c.kids = w.kids /\ c.plan = w.plan /\ c.status = w.status
      /\ c.service = w.service
  BY <1>1 DEF Run, SetCause
<1> HIDE DEF c
<1>3. WellFormed(c)
  BY <1>2, SameChildren
<1> QED
  BY <1>2, <1>3 DEF c, LiveKids

(* The row an office action reopens. *)
LEMMA ReopenedWellFormed ==
  ASSUME NEW w, WellFormed(w), LiveKids(w) = {}
  PROVE  LET o == Reopened(w)
         IN  /\ WellFormed(o)
             /\ o.kids = w.kids /\ o.plan = w.plan /\ o.status \in InFlight
             /\ o.service = w.service
             /\ LiveKids(o) = {}
<1> DEFINE o == Reopened(w)
<1>1. w \in Run
  BY DEF WellFormed
<1>2. /\ o \in Run /\ o.kids = w.kids /\ o.plan = w.plan /\ o.status \in InFlight
      /\ o.service = w.service
  BY <1>1 DEF Run, Reopened, InFlight, Phases
<1> HIDE DEF o
<1>3. WellFormed(o)
  BY <1>2, SameChildren
<1> QED
  BY <1>2, <1>3 DEF o, LiveKids

(***************************************************************************)
(* The first appended entry is past every child: queueing it is safe.      *)
(***************************************************************************)
LEMMA QueueAppended ==
  ASSUME NEW w, WellFormed(w), LiveKids(w) = {}, w.status \in InFlight, NEW items,
         Len(w.plan) < Len(RecordRollback(w, items).plan)
  PROVE  LET q == QueueChild(RecordRollback(w, items), Len(w.plan) + 1)
         IN  WellFormed(q) /\ q.service = w.service /\ q.status = w.status
<1> DEFINE p == RecordRollback(w, items)
<1>1. /\ WellFormed(p)
      /\ p.kids = w.kids /\ p.status = w.status /\ p.service = w.service
      /\ Len(w.plan) \in Nat /\ Len(p.plan) \in Nat
      /\ LiveKids(p) = {}
  BY RecordRollbackWellFormed
<1>2. Len(w.plan) < Len(p.plan)
  OBVIOUS
<1> HIDE DEF p
<1>3. Len(w.plan) + 1 \in 1 .. Len(p.plan)
  BY <1>1, <1>2
<1>4. \A k \in 1 .. Len(p.kids) : p.kids[k].position < Len(w.plan) + 1
  BY <1>1 DEF WellFormed, AlongThePlan
<1>5. /\ WellFormed(QueueChild(p, Len(w.plan) + 1))
      /\ QueueChild(p, Len(w.plan) + 1).service = p.service
      /\ QueueChild(p, Len(w.plan) + 1).status = p.status
  BY <1>1, <1>3, <1>4, QueueChildWellFormed
<1> QED
  BY <1>1, <1>5 DEF p

(* Going on with a planned rollback, or closing when nothing is planned. *)
LEMMA CloseAfterRollbackPlannedWellFormed ==
  ASSUME NEW w, WellFormed(w), LiveKids(w) = {}, w.status \in InFlight, NEW items
  PROVE  LET c == CloseAfterRollbackPlanned(w, RecordRollback(w, items))
         IN  WellFormed(c) /\ c.service = w.service
<1> DEFINE p == RecordRollback(w, items)
           c == CloseAfterRollbackPlanned(w, p)
<1>1. WellFormed(p) /\ p.service = w.service /\ LiveKids(p) = {}
  BY RecordRollbackWellFormed
<1>2. CASE Len(w.plan) < Len(p.plan)
  <2> DEFINE q == QueueChild(p, Len(w.plan) + 1)
  <2>1. WellFormed(q) /\ q.service = w.service /\ q.status = w.status
    BY <1>2, QueueAppended
  <2>2. c = [q EXCEPT !.phase = PhaseRollback, !.status = "RUNNING"]
    BY <1>2 DEF CloseAfterRollbackPlanned
  <2> HIDE DEF q, p, c
  <2>3. /\ c \in Run /\ c.kids = q.kids /\ c.plan = q.plan /\ c.service = q.service
        /\ c.status = "RUNNING"
    BY <2>1, <2>2 DEF WellFormed, Run, Phases, InFlight
  <2>4. AlongThePlan(c) /\ StepInRange(c)
    BY <2>1, <2>3 DEF WellFormed, AlongThePlan, StepInRange, EntryOf
  <2>5. OneLive(c)
    BY <2>1, <2>3 DEF WellFormed, OneLive, LiveKids, Terminal
  <2> QED
    BY <2>1, <2>3, <2>4, <2>5 DEF WellFormed, p, c
<1>3. CASE ~(Len(w.plan) < Len(p.plan))
  <2>1. /\ "FAILED" \in Terminal /\ "ROLLED_BACK" \in Terminal
        /\ "ROLLBACK_INCOMPLETE" \in Codes /\ NoCode \in Codes
    BY DEF Terminal, Codes
  <2>2. \/ c = CloseRun(p, "FAILED", "ROLLBACK_INCOMPLETE")
        \/ c = CloseRun(p, "ROLLED_BACK", NoCode)
    BY <1>3 DEF CloseAfterRollbackPlanned
  <2> HIDE DEF p, c
  <2>3. WellFormed(c) /\ c.service = p.service
    BY <1>1, <2>1, <2>2, CloseRunWellFormed
  <2> QED
    BY <1>1, <2>3 DEF p, c
<1> QED
  BY <1>2, <1>3

(* What a transaction may leave of run w. *)
WellLeft(left, w) ==
  /\ WellFormed(left.row)
  /\ left.row.service = w.service
  /\ left.settlesPath \in BOOLEAN
  /\ left.stamps \in BOOLEAN

(* A function that only rewrites the row settles no path and stamps nothing. *)
LEMMA LeftWellLeft ==
  ASSUME NEW w, NEW v, WellFormed(v), v.service = w.service
  PROVE  WellLeft(Left(v), w)
BY DEF WellLeft, Left

(* _enter_rollback, from an open run without a live child. *)
LEMMA EnterRollbackWellFormed ==
  ASSUME NEW w, WellFormed(w), LiveKids(w) = {}, w.status \in InFlight,
         NEW code \in Codes, NEW cancelled
  PROVE  LET v == EnterRollback(w, code, cancelled)
         IN  WellFormed(v) /\ v.service = w.service
<1> DEFINE c == SetCause(w, code)
           v == EnterRollback(w, code, cancelled)
           end == IF cancelled THEN "CANCELLED" ELSE "FAILED"
<1>1. /\ WellFormed(c) /\ c.status \in InFlight /\ c.service = w.service
      /\ LiveKids(c) = {}
  BY SetCauseWellFormed
<1>2. end \in Terminal /\ NoCode \in Codes
  BY DEF Terminal, Codes
<1>3. \/ v = CloseRun(c, end, NoCode)
      \/ v = CloseAfterRollbackPlanned(c, RecordRollback(c, Devices))
  BY DEF EnterRollback
<1> HIDE DEF c, v, end
<1>4. WellFormed(v) /\ v.service = c.service
  BY <1>1, <1>2, <1>3, CloseRunWellFormed, CloseAfterRollbackPlannedWellFormed
<1> QED
  BY <1>1, <1>4 DEF c, v

(* The end of a rollback, of a simulation and of a forward run. *)
LEMMA FinishWellLeft ==
  ASSUME NEW w, WellFormed(w), LiveKids(w) = {}, NEW phase
  PROVE  /\ WellFormed(FinishRollback(w)) /\ FinishRollback(w).service = w.service
         /\ WellLeft(Succeed(w), w)
         /\ WellLeft(FinishRun(w, phase), w)
<1>1. /\ {"SUCCEEDED", "FAILED", "ROLLED_BACK"} \subseteq Terminal
      /\ {"ROLLBACK_INCOMPLETE", NoCode} \subseteq Codes
  BY DEF Terminal, Codes
<1>2. \A status \in Terminal, code \in Codes :
        /\ WellFormed(CloseRun(w, status, code))
        /\ CloseRun(w, status, code).service = w.service
  BY CloseRunWellFormed
<1>3. WellFormed(FinishRollback(w)) /\ FinishRollback(w).service = w.service
  BY <1>1, <1>2 DEF FinishRollback
<1>4. WellLeft(Succeed(w), w)
  BY <1>1, <1>2 DEF Succeed, WellLeft
<1>5. WellLeft(FinishDryRun(w), w)
  <2> DEFINE ok == w.kids # <<>> /\ \A k \in 1 .. Len(w.kids) : w.kids[k].status = "SUCCEEDED"
             end == IF ok THEN "SUCCEEDED" ELSE "FAILED"
  <2>1. ok \in BOOLEAN /\ end \in Terminal
    BY <1>1
  <2>2. FinishDryRun(w) = [row |-> CloseRun(w, end, NoCode), settlesPath |-> FALSE, stamps |-> ok]
    BY DEF FinishDryRun
  <2> HIDE DEF ok, end
  <2> QED
    BY <1>1, <1>2, <2>1, <2>2 DEF WellLeft
<1>6. WellLeft(Left(FinishRollback(w)), w)
  BY <1>3, LeftWellLeft
<1> QED
  BY <1>3, <1>4, <1>5, <1>6 DEF FinishRun

(* Queueing the entry after the last child's. *)
LEMMA QueueNextWellFormed ==
  ASSUME NEW w, WellFormed(w), LiveKids(w) = {}, w.status \in InFlight,
         NEW k \in 1 .. Len(w.kids), PlanReaches(w, k),
         \A j \in 1 .. Len(w.kids) : w.kids[j].position <= w.kids[k].position
  PROVE  WellFormed(QueueNext(w, k)) /\ QueueNext(w, k).service = w.service
<1> DEFINE at == w.kids[k].position + 1
           q == QueueChild(w, at)
           v == QueueNext(w, k)
<1>1. Len(w.plan) \in Nat /\ \A j \in 1 .. Len(w.kids) : w.kids[j].position \in 1 .. Len(w.plan)
  BY LenProperties DEF WellFormed, AlongThePlan, Run
<1>2. at \in 1 .. Len(w.plan) /\ \A j \in 1 .. Len(w.kids) : w.kids[j].position < at
  BY <1>1 DEF PlanReaches
<1> HIDE DEF at
<1>3. WellFormed(q) /\ q.service = w.service /\ q.status = w.status
  BY <1>2, QueueChildWellFormed
<1>4. v = [q EXCEPT !.status = "RUNNING"]
  BY DEF QueueNext, at
<1> HIDE DEF q, v
<1>5. /\ v \in Run /\ v.kids = q.kids /\ v.plan = q.plan /\ v.service = q.service
      /\ v.status = "RUNNING"
  BY <1>3, <1>4 DEF WellFormed, Run, InFlight
<1>6. AlongThePlan(v) /\ StepInRange(v)
  BY <1>3, <1>5 DEF WellFormed, AlongThePlan, StepInRange, EntryOf
<1>7. OneLive(v)
  BY <1>3, <1>5 DEF WellFormed, OneLive, LiveKids, Terminal
<1> QED
  BY <1>3, <1>5, <1>6, <1>7 DEF WellFormed, v

(* Merging outputs changes no child. *)
LEMMA MergeOutputsWellFormed ==
  ASSUME NEW w, WellFormed(w), NEW k \in 1 .. Len(w.kids)
  PROVE  LET m == MergeOutputs(w, k)
         IN  /\ WellFormed(m)
             /\ m.kids = w.kids /\ m.plan = w.plan /\ m.status = w.status
             /\ m.service = w.service
             /\ LiveKids(m) = LiveKids(w)
<1> DEFINE m == MergeOutputs(w, k)
           d == EntryOf(w, k).item
           outputs == [w.outputs EXCEPT ![d] = w.kids[k].position]
<1>1. w \in Run /\ w.kids \in Seq(Job) /\ w.outputs \in [Devices -> Nat]
  BY DEF WellFormed, Run
<1>2. w.kids[k].position \in Nat
  BY KidType DEF Job
<1>3. d \in Devices
  BY EntryOfType DEF Entry
<1> HIDE DEF d
<1>4. outputs \in [Devices -> Nat]
  BY <1>1, <1>2, <1>3
<1>5. m = w \/ m = [w EXCEPT !.outputs = outputs]
  BY DEF MergeOutputs, d
<1> HIDE DEF m, outputs
<1>6. /\ m \in Run /\ m.kids = w.kids /\ m.plan = w.plan /\ m.status = w.status
      /\ m.service = w.service
  BY <1>1, <1>4, <1>5 DEF Run
<1>7. WellFormed(m)
  BY <1>6, SameChildren
<1> QED
  BY <1>6, <1>7 DEF m, LiveKids

(***************************************************************************)
(* advance_run: a child the engine has already handled changes nothing,    *)
(* and an outcome that counts is that of the last child, so at most one    *)
(* child is queued behind it.                                              *)
(***************************************************************************)
LEMMA AdvanceRunWellLeft ==
  ASSUME NEW w, WellFormed(w), NEW k \in 1 .. Len(w.kids)
  PROVE  WellLeft(AdvanceRun(w, k), w)
<1> DEFINE phase == EntryOf(w, k).phase
           m == MergeOutputs(w, k)
           cancelled == w.kids[k].status = "CANCELLED"
<1>1. CASE AdvanceIsNoop(w, k)
  <2>1. AdvanceRun(w, k) = Left(w)
    BY <1>1 DEF AdvanceRun
  <2> QED
    BY <2>1, LeftWellLeft
<1>2. CASE ~AdvanceIsNoop(w, k)
  <2>1. /\ w.status \in InFlight
        /\ ~IsLive(w.kids[k])
        /\ \A j \in 1 .. Len(w.kids) : ~(w.kids[j].position > w.kids[k].position)
    BY <1>2 DEF AdvanceIsNoop
  <2>2. \A j \in 1 .. Len(w.kids) : w.kids[j].position \in Nat
    BY KidType DEF Job
  <2>3. \A j \in 1 .. Len(w.kids) : w.kids[j].position <= w.kids[k].position
    BY <2>1, <2>2
  <2>4. Len(w.kids) \in Nat
    BY LenProperties DEF WellFormed, Run
  <2>5. k = Len(w.kids)
    BY <2>1, <2>4 DEF WellFormed, AlongThePlan
  <2>6. LiveKids(w) = {}
    BY <2>1, <2>5 DEF WellFormed, OneLive, LiveKids
  <2>7. /\ WellFormed(m) /\ m.kids = w.kids /\ m.plan = w.plan
        /\ m.status \in InFlight /\ m.service = w.service /\ LiveKids(m) = {}
    BY <2>1, <2>6, MergeOutputsWellFormed
  <2> HIDE DEF m
  <2>8. /\ {"SUCCEEDED", "FAILED", "CANCELLED"} \subseteq Terminal
        /\ {"CANCELLED", "PRECONDITION_FAILED", "CONFIGURATION_FAILED",
            "VERIFICATION_FAILED", NoCode} \subseteq Codes
    BY DEF Terminal, Codes, CauseCodes
  <2>9. ASSUME phase = NoPhase
        PROVE  WellLeft(AdvanceLegacy(w, k), w)
    <3>1. w.kids[k].status \in Terminal
      BY <2>1, KidType DEF Job, IsLive
    <3>2. \A status \in Terminal, code \in Codes : WellLeft(Left(CloseRun(w, status, code)), w)
      BY <2>6, CloseRunWellFormed, LeftWellLeft
    <3>3. PlanReaches(w, k) => WellLeft(Left(QueueNext(w, k)), w)
      BY <2>1, <2>3, <2>6, QueueNextWellFormed, LeftWellLeft
    <3>4. WellLeft(Succeed(w), w)
      BY <2>6, FinishWellLeft
    <3> QED
      BY <2>8, <3>1, <3>2, <3>3, <3>4 DEF AdvanceLegacy
  <2>10. PlanReaches(w, k) => WellLeft(Left(QueueNext(m, k)), w)
    <3>1. PlanReaches(w, k) => PlanReaches(m, k)
      BY <2>7 DEF PlanReaches
    <3>2. PlanReaches(w, k) => WellFormed(QueueNext(m, k)) /\ QueueNext(m, k).service = m.service
      BY <2>3, <2>7, <3>1, QueueNextWellFormed
    <3> QED
      BY <2>7, <3>2, LeftWellLeft
  <2>11. WellLeft(FinishRun(m, phase), w)
    BY <2>7, FinishWellLeft DEF WellLeft
  <2>12. WellLeft(Left(ForwardFailure(m, phase, cancelled)), w)
    <3> DEFINE f == ForwardFailure(m, phase, cancelled)
    <3>1. \/ f = CloseRun(m, "CANCELLED", "CANCELLED")
          \/ f = CloseRun(m, "FAILED", "PRECONDITION_FAILED")
          \/ f = EnterRollback(m, "CANCELLED", cancelled)
          \/ f = EnterRollback(m, "CONFIGURATION_FAILED", cancelled)
          \/ f = EnterRollback(m, "VERIFICATION_FAILED", cancelled)
      BY DEF ForwardFailure
    <3> HIDE DEF f, cancelled
    <3>2. \A code \in Codes : /\ WellFormed(EnterRollback(m, code, cancelled))
                              /\ EnterRollback(m, code, cancelled).service = m.service
      BY <2>7, EnterRollbackWellFormed
    <3>3. \A status \in Terminal, code \in Codes :
            /\ WellFormed(CloseRun(m, status, code))
            /\ CloseRun(m, status, code).service = m.service
      BY <2>7, CloseRunWellFormed
    <3>4. WellFormed(f) /\ f.service = m.service
      BY <3>1, <3>2, <3>3, <2>8
    <3> QED
      BY <2>7, <3>4, LeftWellLeft DEF f
  <2> HIDE DEF phase, cancelled
  <2>13. AdvanceRun(w, k) =
           IF phase = NoPhase THEN AdvanceLegacy(w, k)
           ELSE IF MovesOn(w, k)
                THEN IF PlanReaches(w, k) THEN Left(QueueNext(m, k)) ELSE FinishRun(m, phase)
           ELSE Left(ForwardFailure(m, phase, cancelled))
    BY <1>2 DEF AdvanceRun, m, phase, cancelled
  <2> QED
    BY <2>9, <2>10, <2>11, <2>12, <2>13
<1> QED
  BY <1>1, <1>2

(***************************************************************************)
(* Replacing one child by one at the same position that is no more live    *)
(* and has its step.                                                       *)
(***************************************************************************)
LEMMA ReplaceKid ==
  ASSUME NEW w, WellFormed(w), NEW k \in 1 .. Len(w.kids), NEW job \in Job,
         job.position = w.kids[k].position,
         IsLive(job) => IsLive(w.kids[k]),
         job.inflight # NoStep \/ job.status = "PENDING_MANUAL"
           => job.next <= Len(JobSteps(EntryOf(w, k)))
  PROVE  LET v == [w EXCEPT !.kids[k] = job]
         IN  /\ WellFormed(v)
             /\ v.plan = w.plan /\ v.status = w.status /\ v.service = w.service
             /\ v.outbox = w.outbox
             /\ v.kids = [w.kids EXCEPT ![k] = job] /\ v.kids[k] = job /\ Len(v.kids) = Len(w.kids)
<1> DEFINE v == [w EXCEPT !.kids[k] = job]
<1>1. w \in Run /\ w.kids \in Seq(Job)
  BY DEF WellFormed, Run
<1>2. /\ [w.kids EXCEPT ![k] = job] \in Seq(Job)
      /\ Len([w.kids EXCEPT ![k] = job]) = Len(w.kids)
      /\ \A i \in 1 .. Len(w.kids) :
           [w.kids EXCEPT ![k] = job][i] = IF i = k THEN job ELSE w.kids[i]
  BY <1>1, ExceptSeq
<1>3. /\ v \in Run /\ v.plan = w.plan /\ v.status = w.status /\ v.service = w.service
      /\ v.outbox = w.outbox
      /\ v.kids = [w.kids EXCEPT ![k] = job]
  BY <1>1, <1>2 DEF Run
<1> HIDE DEF v
<1>4. Len(v.kids) = Len(w.kids) /\ \A i \in 1 .. Len(w.kids) : v.kids[i] = IF i = k THEN job ELSE w.kids[i]
  BY <1>2, <1>3
<1>5. \A i \in 1 .. Len(w.kids) : v.kids[i].position = w.kids[i].position
  BY <1>4
<1>6. AlongThePlan(v)
  BY <1>3, <1>4, <1>5 DEF WellFormed, AlongThePlan
<1>7. LiveKids(v) \subseteq LiveKids(w)
  BY <1>4 DEF LiveKids
<1>8. OneLive(v)
  BY <1>3, <1>4, <1>7 DEF WellFormed, OneLive
<1>9. \A i \in 1 .. Len(w.kids) : EntryOf(v, i) = EntryOf(w, i)
  BY <1>3, <1>5 DEF EntryOf
<1>10. StepInRange(v)
  BY <1>4, <1>9 DEF WellFormed, StepInRange
<1> QED
  BY <1>3, <1>4, <1>6, <1>8, <1>10 DEF WellFormed, v

(* A job that loses its claim keeps its place. *)
LEMMA UnclaimedType ==
  ASSUME NEW job \in Job
  PROVE  /\ Unclaimed(job) \in Job
         /\ Unclaimed(job).position = job.position
         /\ Unclaimed(job).inflight = NoStep
<1>1. 1 \in Nat \ {0} /\ 0 \in Nat
  OBVIOUS
<1>2. /\ NoStep \in StepNames \cup {NoStep}
      /\ "no" \in {"no", "manual", "guided", "continued"}
  OBVIOUS
<1> QED
  BY <1>1, <1>2, Zenon DEF Unclaimed, Job

(* The terminal transition of a child. *)
LEMMA FinishedWellFormed ==
  ASSUME NEW w, WellFormed(w), NEW k \in 1 .. Len(w.kids), NEW status \in Terminal
  PROVE  LET v == Finished(w, k, status)
         IN  WellFormed(v) /\ v.service = w.service /\ Len(v.kids) = Len(w.kids)
<1> DEFINE old == w.kids[k]
           job == FinishedJob(old, status)
<1>1. old \in Job
  BY KidType
<1>2. /\ Unclaimed(old) \in Job /\ Unclaimed(old).position = old.position
      /\ Unclaimed(old).inflight = NoStep
  BY <1>1, UnclaimedType
<1>3. job \in Job /\ job.position = old.position /\ job.status = status
      /\ job.inflight = NoStep
  BY <1>1, <1>2, ZenonT(60) DEF Job, FinishedJob
<1>4. status \notin InFlight /\ status # "PENDING_MANUAL"
  BY DEF InFlight, Terminal
<1>5. Finished(w, k, status) = [w EXCEPT !.kids[k] = job]
  BY DEF Finished
<1> HIDE DEF job
<1> QED
  BY <1>3, <1>4, <1>5, ReplaceKid DEF IsLive

(* finish_job, whichever of its follow-ons fail. *)
LEMMA FinishJobWellLeft ==
  ASSUME NEW w, WellFormed(w), NEW k \in 1 .. Len(w.kids), NEW status \in Terminal,
         NEW advances \in BOOLEAN, NEW emits \in BOOLEAN
  PROVE  WellLeft(FinishJob(w, k, status, advances, emits), w)
<1> DEFINE f == Finished(w, k, status)
           after == IF advances THEN AdvanceRun(f, k) ELSE Left(f)
           told == [after.row EXCEPT !.outbox = Append(@, JobFinished(status))]
<1>1. WellFormed(f) /\ f.service = w.service /\ k \in 1 .. Len(f.kids)
  BY FinishedWellFormed
<1> HIDE DEF f
<1>2. WellLeft(after, w)
  BY <1>1, AdvanceRunWellLeft, LeftWellLeft DEF WellLeft
<1>3. after \in [row : {after.row}, settlesPath : {after.settlesPath}, stamps : {after.stamps}]
  BY DEF AdvanceRun, AdvanceLegacy, FinishRun, FinishDryRun, Succeed, Left
<1> HIDE DEF after
<1>4. FinishJob(w, k, status, advances, emits) =
        IF emits THEN [after EXCEPT !.row = told] ELSE after
  BY DEF FinishJob, after, f
<1>5. WellFormed(told) /\ told.service = w.service
  <2>1. after.row \in Run /\ after.row.outbox \in Seq(Event)
    BY <1>2 DEF WellLeft, WellFormed, Run
  <2>2. JobFinished(status) \in Event
    BY DEF JobFinished, Event, Codes
  <2>3. Append(after.row.outbox, JobFinished(status)) \in Seq(Event)
    BY <2>1, <2>2, AppendProperties
  <2>4. /\ told \in Run /\ told.kids = after.row.kids /\ told.plan = after.row.plan
        /\ told.status = after.row.status /\ told.service = after.row.service
    BY <2>1, <2>3 DEF Run
  <2> HIDE DEF told
  <2> QED
    BY <1>2, <2>4, SameChildren DEF WellLeft
<1> HIDE DEF told
<1> QED
  BY <1>2, <1>3, <1>4, <1>5 DEF WellLeft

(* The cancelled child is no longer live. *)
LEMMA CancelledWellFormed ==
  ASSUME NEW w, WellFormed(w), NEW k \in 1 .. Len(w.kids)
  PROVE  LET v == Cancelled(w, k)
         IN  WellFormed(v) /\ v.service = w.service /\ Len(v.kids) = Len(w.kids)
<1> DEFINE job == [Unclaimed(w.kids[k]) EXCEPT !.status = "CANCELLED"]
<1>1. w.kids[k] \in Job
  BY KidType
<1>2. job \in Job /\ job.position = w.kids[k].position /\ job.status = "CANCELLED"
      /\ job.inflight = NoStep
  BY <1>1, UnclaimedType DEF Job, Terminal
<1>3. Cancelled(w, k) = [w EXCEPT !.kids[k] = job]
  BY DEF Cancelled
<1> HIDE DEF job
<1> QED
  BY <1>2, <1>3, ReplaceKid DEF IsLive, InFlight

(* fail_parked rewrites the pending entry of a parked child. *)
LEMMA PendingFailedWellFormed ==
  ASSUME NEW w, WellFormed(w), NEW k \in 1 .. Len(w.kids)
  PROVE  LET v == [w EXCEPT !.kids[k] = PendingFailed(@)]
         IN  WellFormed(v) /\ v.service = w.service /\ Len(v.kids) = Len(w.kids)
<1> DEFINE old == w.kids[k]
           stage == IF old.parked = "guided" THEN "render" ELSE "command"
           log == NotPending(old.log) \cup
                    {[e EXCEPT !.status = "FAILED", !.stage = stage] :
                       e \in old.log \ NotPending(old.log)}
           job == PendingFailed(old)
<1>1. old \in Job
  BY KidType
<1>2. log \subseteq LogEntry
  <2>1. old.log \subseteq LogEntry /\ NotPending(old.log) \subseteq old.log
    BY <1>1 DEF Job, NotPending
  <2>2. \A e \in LogEntry : [e EXCEPT !.status = "FAILED", !.stage = stage] \in LogEntry
    BY DEF LogEntry
  <2> QED
    BY <2>1, <2>2
<1>3. job = [old EXCEPT !.inflight = NoStep, !.log = log]
  BY DEF PendingFailed
<1> HIDE DEF log, job
<1>4. job \in Job /\ job.position = old.position /\ job.status = old.status
      /\ job.inflight = NoStep /\ job.next = old.next
  BY <1>1, <1>2, <1>3 DEF Job
<1>5. job.status = "PENDING_MANUAL" => job.next <= Len(JobSteps(EntryOf(w, k)))
  BY <1>4 DEF WellFormed, StepInRange
<1>6. job.position = w.kids[k].position /\ (IsLive(job) => IsLive(w.kids[k]))
  BY <1>4 DEF IsLive
<1>7. [w EXCEPT !.kids[k] = PendingFailed(@)] = [w EXCEPT !.kids[k] = job]
  BY DEF job
<1> QED
  BY <1>4, <1>5, <1>6, <1>7, ReplaceKid

-----------------------------------------------------------------------------
(* The reaper's repair and the office actions.                             *)

(* repair_stranded_runs leaves a stranded run well formed, fresh or expired. *)
LEMMA RepairWellLeft ==
  ASSUME NEW w, WellFormed(w), Stranded(w)
  PROVE  WellLeft(RepairFresh(w), w) /\ WellLeft(RepairExpired(w), w)
<1>1. LiveKids(w) = {} /\ w.status \in InFlight
  BY DEF Stranded
<1>2. w.kids \in Seq(Job) /\ w.plan \in Seq(Entry)
  BY DEF WellFormed, Run
<1>3. w.kids # <<>> => Len(w.kids) \in 1 .. Len(w.kids)
  BY <1>2, EmptySeq, LenProperties
<1>4. w.kids # <<>> => WellLeft(AdvanceLast(w), w)
  BY <1>3, AdvanceRunWellLeft DEF AdvanceLast
<1>5. /\ {"SUCCEEDED", "FAILED"} \subseteq Terminal
      /\ {"ROLLBACK_INCOMPLETE", "STRANDED_RUN_EXPIRED", NoCode} \subseteq Codes
  BY DEF Terminal, Codes, CauseCodes
<1>6. \A status \in Terminal, code \in Codes : WellLeft(Left(CloseRun(w, status, code)), w)
  BY <1>1, CloseRunWellFormed, LeftWellLeft
<1>7. WellLeft(Left(EnterRollback(w, "STRANDED_RUN_EXPIRED", FALSE)), w)
  BY <1>1, <1>5, EnterRollbackWellFormed, LeftWellLeft
<1>8. ASSUME w.kids = <<>>, w.plan # <<>>
      PROVE  WellLeft(Left(QueueChild(w, 1)), w)
  <2>1. 1 \in 1 .. Len(w.plan)
    BY <1>2, <1>8, EmptySeq, LenProperties
  <2>2. \A k \in 1 .. Len(w.kids) : w.kids[k].position < 1
    BY <1>8
  <2> QED
    BY <1>1, <2>1, <2>2, QueueChildWellFormed, LeftWellLeft
<1>9. WellLeft(RepairFresh(w), w)
  BY <1>4, <1>5, <1>6, <1>8 DEF RepairFresh
<1>10. WellLeft(RepairExpired(w), w)
  BY <1>4, <1>5, <1>6, <1>7 DEF RepairExpired, LastIsFinal
<1> QED
  BY <1>9, <1>10

(* revert_run reopens a closed run with its rollback behind its plan. *)
LEMMA RevertedWellFormed ==
  ASSUME NEW w, WellFormed(w), w.status \in Terminal
  PROVE  WellFormed(Reverted(w)) /\ Reverted(w).service = w.service
<1> DEFINE c == SetCause(w, "REVERTED")
           o == Reopened(c)
<1>1. LiveKids(w) = {} /\ "REVERTED" \in Codes
  BY DEF WellFormed, OneLive, Codes, CauseCodes
<1>2. WellFormed(c) /\ LiveKids(c) = {} /\ c.service = w.service
  BY <1>1, SetCauseWellFormed
<1> HIDE DEF c
<1>3. WellFormed(o) /\ LiveKids(o) = {} /\ o.status \in InFlight /\ o.service = c.service
  BY <1>2, ReopenedWellFormed
<1> HIDE DEF o
<1>4. Reverted(w) = CloseAfterRollbackPlanned(o, RecordRollback(o, Devices))
  BY DEF Reverted, o, c
<1> QED
  BY <1>2, <1>3, <1>4, CloseAfterRollbackPlannedWellFormed

(* retry_rollback appends a second round of rollback entries. *)
LEMMA RetriedWellFormed ==
  ASSUME NEW w, WellFormed(w), w.status \in Terminal
  PROVE  WellFormed(Retried(w)) /\ Retried(w).service = w.service
<1> DEFINE o == Reopened(w)
           c == [o EXCEPT !.code = IF w.cause = NoCode THEN @ ELSE w.cause]
           p == RecordRollback(c, RetryItems(w))
<1>1. LiveKids(w) = {} /\ w \in Run
  BY DEF WellFormed, OneLive
<1>2. /\ WellFormed(o) /\ LiveKids(o) = {} /\ o.status \in InFlight
      /\ o.service = w.service /\ o.plan = w.plan
  BY <1>1, ReopenedWellFormed
<1> HIDE DEF o
<1>3. /\ c \in Run /\ c.kids = o.kids /\ c.plan = o.plan /\ c.status = o.status
      /\ c.service = o.service
  BY <1>1, <1>2 DEF WellFormed, Run
<1>4. Retried(w) = IF Len(w.plan) < Len(p.plan) THEN QueueChild(p, Len(w.plan) + 1)
                   ELSE FinishRollback(p)
  BY DEF Retried, o
<1> HIDE DEF c
<1>5. WellFormed(c) /\ LiveKids(c) = {}
  BY <1>2, <1>3, SameChildren DEF LiveKids
<1>6. WellFormed(p) /\ LiveKids(p) = {} /\ p.service = c.service
  BY <1>5, RecordRollbackWellFormed
<1>7. CASE Len(w.plan) < Len(p.plan)
  BY <1>2, <1>3, <1>4, <1>5, <1>7, QueueAppended
<1>8. CASE ~(Len(w.plan) < Len(p.plan))
  BY <1>2, <1>3, <1>4, <1>6, <1>8, FinishWellLeft
<1> QED
  BY <1>7, <1>8
=============================================================================
