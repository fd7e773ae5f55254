-------------------------- MODULE RunOutcomeProofs --------------------------
(***************************************************************************)
(* What the row of a run says of its past and of its devices is true: the  *)
(* outcome it closed with, the cause it kept, the outputs it shows, the    *)
(* events it announced and the versions it was allowed to execute.         *)
(*                                                                         *)
(* A lawful row (Lawful) is preserved by every row operation of RunRows;   *)
(* that the devices hold only what some child's log admits (Traced), and   *)
(* that a stamp on a playbook was earned by a simulation (StampsEarned),   *)
(* tie the rows to the rest of the state.                                  *)
(***************************************************************************)
EXTENDS ProvisioningRunsProofs

-----------------------------------------------------------------------------
(* Lawful rows.                                                            *)

Rank(phase) ==
  IF phase = NoPhase THEN 0
  ELSE IF phase = PhasePreconditions THEN 1
  ELSE IF phase = PhaseConfiguration THEN 2
  ELSE IF phase = PhaseVerification THEN 3 ELSE 4

(* A plan is phase-major, and one without phases has none anywhere. *)
PlanInOrder(w) ==
  \A i, j \in 1 .. Len(w.plan) :
    i < j => /\ Rank(w.plan[i].phase) <= Rank(w.plan[j].phase)
             /\ w.plan[i].phase = NoPhase => w.plan[j].phase = NoPhase

(* A live run that has planned a rollback. *)
Returning(w) == ~w.dry /\ \E i \in 1 .. Len(w.plan) : w.plan[i].phase = PhaseRollback

(* It has noted why. *)
CauseSet(w) ==
  ~w.dry /\ (Returning(w) \/ w.phase = PhaseRollback) => w.cause \in CauseCodes

(* ForwardNeedsSuccess, of one row. *)
ForwardOnSuccess(w) ==
  \A j \in 1 .. Len(w.kids) : \A i \in 1 .. (j - 1) :
    ~w.dry /\ EntryOf(w, j).phase # PhaseRollback
    => w.kids[i].status = "SUCCEEDED" /\ EntryOf(w, i).phase # PhaseRollback

(* Child k's outputs were merged, and by no older child's. *)
Shown(w, k) == Published(w.kids[k]) => w.outputs[EntryOf(w, k).item] >= w.kids[k].position

(* A run that goes forward has merged every child that has a successor. *)
ShownBefore(w) ==
  ~Returning(w) /\ w.phase # NoPhase => \A k \in 1 .. (Len(w.kids) - 1) : Shown(w, k)

(* A simulation leaves out no entry of its plan. *)
DryInStep(w) == w.dry => \A k \in 1 .. Len(w.kids) : w.kids[k].position = k

JobOutcomes(w) == \A k \in 1 .. Len(w.kids) : w.kids[k].status # "ROLLED_BACK"

(* What holds of a row whatever its status. *)
Base(w) ==
  /\ PlanInOrder(w)
  /\ CauseSet(w)
  /\ ForwardOnSuccess(w)
  /\ ShownBefore(w)
  /\ DryInStep(w)
  /\ JobOutcomes(w)

(* An open run's code is its cause, and its phase that of its last child. *)
OpenLaw(w) ==
  w.status \in InFlight =>
    /\ w.code = w.cause
    /\ w.kids # <<>> => w.phase = EntryOf(w, Len(w.kids)).phase

(* The last RUN_CLOSED event tells the outcome. *)
Announced(w) ==
  \E n \in 1 .. Len(w.outbox) :
    /\ w.outbox[n] = RunClosed(w.status, w.code)
    /\ \A m \in (n + 1) .. Len(w.outbox) : w.outbox[m].kind # "RUN_CLOSED"

(* What an outcome promises. *)
IncompleteLaw(w) ==
  w.code = "ROLLBACK_INCOMPLETE" => ~w.dry /\ w.cause \in CauseCodes

RolledBackLaw(w) ==
  w.status = "ROLLED_BACK" => w.code = w.cause /\ w.cause \in CauseCodes

FailedLaw(w) ==
  w.status \in {"FAILED", "CANCELLED"} /\ w.code # "ROLLBACK_INCOMPLETE" /\ ~w.dry
    => Touched(w, Devices) = {}

SucceededLaw(w) ==
  w.status = "SUCCEEDED" =>
    /\ ~Returning(w)
    /\ w.phase # NoPhase => \A k \in 1 .. Len(w.kids) : Shown(w, k)

AnnouncedLaw(w) == w.status \in Terminal /\ ~w.dry => Announced(w)

ClosedLaw(w) ==
  /\ IncompleteLaw(w)
  /\ RolledBackLaw(w)
  /\ FailedLaw(w)
  /\ SucceededLaw(w)
  /\ AnnouncedLaw(w)

Lawful(w) == Base(w) /\ OpenLaw(w) /\ ClosedLaw(w)

(***************************************************************************)
(* What a transaction never takes back: the children there were and the    *)
(* plan they execute, the events but for one announcement, and that what   *)
(* it appends to a plan are entries for devices of the plan.               *)
(***************************************************************************)
Copied(w, e) ==
  \E j \in 1 .. Len(w.plan) :
    w.plan[j].item = e.item /\ w.plan[j].version = e.version /\ w.plan[j].phase # NoPhase

Fresh(job) ==
  job.status = "QUEUED" /\ job.inflight = NoStep /\ job.log = {} /\ job.next = 1

Follows(w, v) ==
  /\ v.dry = w.dry
  /\ v.outbox = w.outbox \/ v.outbox = Append(w.outbox, RunClosed(v.status, v.code))
  /\ Len(w.kids) <= Len(v.kids)
  /\ \A k \in 1 .. Len(w.kids) : v.kids[k] = w.kids[k]
  /\ \A k \in 1 .. Len(v.kids) : k > Len(w.kids) => Fresh(v.kids[k])
  /\ Len(w.plan) <= Len(v.plan)
  /\ \A i \in 1 .. Len(w.plan) : v.plan[i] = w.plan[i]
  /\ \A i \in 1 .. Len(v.plan) : i > Len(w.plan) => Copied(w, v.plan[i])

-----------------------------------------------------------------------------
(* The row operations, field by field.                                     *)

(* The lengths that the arithmetic below is about. *)
LEMMA Lengths ==
  ASSUME NEW w, WellFormed(w)
  PROVE  /\ w \in Run
         /\ w.kids \in Seq(Job) /\ w.plan \in Seq(Entry) /\ w.outbox \in Seq(Event)
         /\ Len(w.kids) \in Nat /\ Len(w.plan) \in Nat /\ Len(w.outbox) \in Nat
         /\ w.dry \in BOOLEAN
         /\ w.status \in InFlight \cup Terminal
<1>1. w \in Run
  BY DEF WellFormed
<1>2. w.kids \in Seq(Job) /\ w.plan \in Seq(Entry) /\ w.outbox \in Seq(Event)
      /\ w.dry \in BOOLEAN /\ w.status \in InFlight \cup Terminal
  BY <1>1 DEF Run
<1> QED
  BY <1>1, <1>2, LenProperties

(* What the laws read of children and plan is the same in both rows. *)
LEMMA SameReading ==
  ASSUME NEW w, NEW v, v.kids = w.kids, v.plan = w.plan
  PROVE  /\ \A k : EntryOf(v, k) = EntryOf(w, k)
         /\ LiveKids(v) = LiveKids(w)
         /\ PlanInOrder(w) => PlanInOrder(v)
         /\ JobOutcomes(w) => JobOutcomes(v)
         /\ v.dry = w.dry => /\ Returning(v) = Returning(w)
                             /\ ForwardOnSuccess(w) => ForwardOnSuccess(v)
                             /\ DryInStep(w) => DryInStep(v)
<1>1. \A k : EntryOf(v, k) = EntryOf(w, k)
  BY DEF EntryOf
<1>2. LiveKids(v) = LiveKids(w)
  BY DEF LiveKids
<1>3. PlanInOrder(w) => PlanInOrder(v)
  BY DEF PlanInOrder
<1>4. JobOutcomes(w) => JobOutcomes(v)
  BY DEF JobOutcomes
<1>5. v.dry = w.dry => Returning(v) = Returning(w)
  BY DEF Returning
<1>6. v.dry = w.dry => (ForwardOnSuccess(w) => ForwardOnSuccess(v))
  BY <1>1 DEF ForwardOnSuccess
<1>7. v.dry = w.dry => (DryInStep(w) => DryInStep(v))
  BY DEF DryInStep
<1> QED
  BY <1>1, <1>2, <1>3, <1>4, <1>5, <1>6, <1>7

(* The devices touched, likewise. *)
LEMMA SameTouched ==
  ASSUME NEW w, NEW v, v.kids = w.kids, v.plan = w.plan, NEW items
  PROVE  Touched(v, items) = Touched(w, items)
BY DEF Touched, KidsOfPhase, EntryOf

(* A row over the same children, plan and outputs. *)
LEMMA SameBase ==
  ASSUME NEW w, Base(w), NEW v, v.kids = w.kids, v.plan = w.plan, v.dry = w.dry,
         v.outputs = w.outputs,
         v.phase = w.phase \/ (w.phase # NoPhase /\ v.cause \in CauseCodes),
         v.cause = w.cause \/ v.cause \in CauseCodes
  PROVE  Base(v)
<1>1. /\ \A k : EntryOf(v, k) = EntryOf(w, k)
      /\ PlanInOrder(v) /\ JobOutcomes(v) /\ Returning(v) = Returning(w)
      /\ ForwardOnSuccess(v) /\ DryInStep(v)
  BY SameReading DEF Base
<1>2. CauseSet(v)
  BY <1>1 DEF Base, CauseSet
<1>3. \A k : Shown(w, k) => Shown(v, k)
  BY <1>1 DEF Shown
<1>4. ShownBefore(v)
  BY <1>1, <1>3 DEF Base, ShownBefore
<1> QED
  BY <1>1, <1>2, <1>4 DEF Base

-----------------------------------------------------------------------------
(* Closing and queueing.                                                   *)

Kept(w, code) == IF code = NoCode THEN w.code ELSE code

(* What close_run leaves of the row. *)
LEMMA CloseRunFields ==
  ASSUME NEW w \in Run, NEW status, NEW code
  PROVE  LET c == CloseRun(w, status, code)
         IN  /\ c.kids = w.kids /\ c.plan = w.plan /\ c.outputs = w.outputs
             /\ c.phase = w.phase /\ c.cause = w.cause /\ c.dry = w.dry
             /\ c.status = status /\ c.code = Kept(w, code)
             /\ c.outbox = IF w.dry THEN w.outbox
                           ELSE Append(w.outbox, RunClosed(status, Kept(w, code)))
<1> DEFINE kept == Kept(w, code)
           outbox == IF w.dry THEN w.outbox ELSE Append(w.outbox, RunClosed(status, kept))
           c == CloseRun(w, status, code)
<1>1. c = [w EXCEPT !.status = status, !.code = kept, !.outbox = outbox]
  BY DEF CloseRun, Kept
<1> HIDE DEF kept, outbox, c
<1>2. /\ c.kids = w.kids /\ c.plan = w.plan /\ c.outputs = w.outputs
      /\ c.phase = w.phase /\ c.cause = w.cause /\ c.dry = w.dry
      /\ c.status = status /\ c.code = kept /\ c.outbox = outbox
  BY <1>1 DEF Run
<1> QED
  BY <1>2 DEF kept, outbox, c

(***************************************************************************)
(* close_run keeps the row lawful when the outcome is earned.              *)
(***************************************************************************)
LEMMA CloseLawful ==
  ASSUME NEW w, WellFormed(w), Base(w), NEW status \in Terminal, NEW code,
         status = "ROLLED_BACK" => Kept(w, code) = w.cause /\ w.cause \in CauseCodes,
         Kept(w, code) = "ROLLBACK_INCOMPLETE" => ~w.dry /\ w.cause \in CauseCodes,
         /\ status \in {"FAILED", "CANCELLED"}
         /\ Kept(w, code) # "ROLLBACK_INCOMPLETE"
         /\ ~w.dry
         => Touched(w, Devices) = {},
         status = "SUCCEEDED" =>
           /\ ~Returning(w)
           /\ w.phase # NoPhase => \A k \in 1 .. Len(w.kids) : Shown(w, k)
  PROVE  Lawful(CloseRun(w, status, code)) /\ Follows(w, CloseRun(w, status, code))
<1> DEFINE c == CloseRun(w, status, code)
<1>1. /\ w \in Run /\ w.outbox \in Seq(Event) /\ w.dry \in BOOLEAN
      /\ Len(w.kids) \in Nat /\ Len(w.plan) \in Nat /\ Len(w.outbox) \in Nat
  BY Lengths
<1>2. /\ c.kids = w.kids /\ c.plan = w.plan /\ c.outputs = w.outputs
      /\ c.phase = w.phase /\ c.cause = w.cause /\ c.dry = w.dry
      /\ c.status = status /\ c.code = Kept(w, code)
      /\ c.outbox = IF w.dry THEN w.outbox
                    ELSE Append(w.outbox, RunClosed(status, Kept(w, code)))
  BY <1>1, CloseRunFields
<1> HIDE DEF c
<1>3. Base(c)
  BY <1>2, SameBase
<1>4. OpenLaw(c)
  BY <1>2 DEF OpenLaw, InFlight, Terminal
<1>5. IncompleteLaw(c) /\ RolledBackLaw(c)
  BY <1>2 DEF IncompleteLaw, RolledBackLaw
<1>6. FailedLaw(c)
  <2>1. Touched(c, Devices) = Touched(w, Devices)
    BY <1>2, SameTouched
  <2> QED
    BY <1>2, <2>1 DEF FailedLaw
<1>7. SucceededLaw(c)
  <2>1. \A k : EntryOf(c, k) = EntryOf(w, k)
    BY <1>2 DEF EntryOf
  <2>2. \A k : Shown(w, k) => Shown(c, k)
    BY <1>2, <2>1 DEF Shown
  <2>3. Returning(c) = Returning(w)
    BY <1>2 DEF Returning
  <2> QED
    BY <1>2, <2>2, <2>3 DEF SucceededLaw
<1>8. AnnouncedLaw(c)
  <2> SUFFICES ASSUME ~w.dry PROVE Announced(c)
    BY <1>2 DEF AnnouncedLaw
  <2> DEFINE e == RunClosed(c.status, c.code)
             n == Len(w.outbox) + 1
  <2>1. c.outbox = Append(w.outbox, e)
    BY <1>2
  <2> HIDE DEF e
  <2>2. Len(c.outbox) = n /\ c.outbox[n] = e
    BY <1>1, <2>1, AppendProperties
  <2>3. n \in 1 .. Len(c.outbox) /\ (n + 1) .. Len(c.outbox) = {}
    BY <1>1, <2>2
  <2> HIDE DEF n
  <2> QED
    BY <2>2, <2>3 DEF Announced, e
<1>9. Follows(w, c)
  BY <1>1, <1>2 DEF Follows
<1> QED
  BY <1>3, <1>4, <1>5, <1>6, <1>7, <1>8, <1>9 DEF Lawful, ClosedLaw, c

(***************************************************************************)
(* queue_child keeps the row lawful when the entry's turn has come.        *)
(***************************************************************************)
LEMMA QueueLawful ==
  ASSUME NEW w, WellFormed(w), Base(w), w.code = w.cause, IncompleteLaw(w),
         NEW position \in 1 .. Len(w.plan),
         \A k \in 1 .. Len(w.kids) : w.kids[k].position < position,
         w.dry => position = Len(w.kids) + 1,
         ~w.dry /\ w.plan[position].phase # PhaseRollback =>
           \A k \in 1 .. Len(w.kids) : w.kids[k].status = "SUCCEEDED",
         ~Returning(w) /\ w.plan[position].phase # NoPhase =>
           \A k \in 1 .. Len(w.kids) : Shown(w, k),
         NEW v, v.kids = Append(w.kids, NewJob(position)), v.plan = w.plan,
         v.outputs = w.outputs, v.status \in InFlight, v.phase = w.plan[position].phase,
         v.code = w.code, v.cause = w.cause, v.dry = w.dry, v.outbox = w.outbox
  PROVE  Lawful(v) /\ Follows(w, v)
<1> DEFINE n == Len(w.kids) + 1
<1>1. /\ w \in Run /\ w.kids \in Seq(Job) /\ w.plan \in Seq(Entry) /\ w.dry \in BOOLEAN
      /\ Len(w.kids) \in Nat /\ Len(w.plan) \in Nat
  BY Lengths
<1>2. NewJob(position) \in Job /\ NewJob(position).position = position
      /\ NewJob(position).status = "QUEUED"
  BY <1>1 DEF NewJob, Job, InFlight, StepNames
<1>3. /\ Len(v.kids) = n /\ v.kids[n] = NewJob(position)
      /\ \A k \in 1 .. Len(w.kids) : v.kids[k] = w.kids[k]
  BY <1>1, <1>2, AppendProperties
<1>4. \A k \in 1 .. Len(w.kids) : EntryOf(v, k) = EntryOf(w, k)
  BY <1>3 DEF EntryOf
<1>5. EntryOf(v, n) = w.plan[position] /\ v.kids[n].position = position
      /\ v.kids[n].status = "QUEUED"
  BY <1>2, <1>3 DEF EntryOf
<1>6. Returning(v) = Returning(w)
  BY DEF Returning
<1>7. PlanInOrder(v)
  BY DEF Base, PlanInOrder
<1>8. CauseSet(v)
  <2>1. v.phase = PhaseRollback /\ ~v.dry => Returning(v)
    BY DEF Returning
  <2> QED
    BY <1>6, <2>1 DEF Base, CauseSet
<1>9. ForwardOnSuccess(v)
  <2> SUFFICES ASSUME NEW j \in 1 .. Len(v.kids), NEW i \in 1 .. (j - 1),
                      ~v.dry, EntryOf(v, j).phase # PhaseRollback
               PROVE  v.kids[i].status = "SUCCEEDED" /\ EntryOf(v, i).phase # PhaseRollback
    BY DEF ForwardOnSuccess
  <2>1. i \in 1 .. Len(w.kids)
    BY <1>1, <1>3
  <2>2. CASE j \in 1 .. Len(w.kids)
    BY <1>3, <1>4, <2>1, <2>2 DEF Base, ForwardOnSuccess
  <2>3. CASE j = n
    <3>1. w.plan[position].phase # PhaseRollback
      BY <1>5, <2>3
    <3>2. w.kids[i].status = "SUCCEEDED"
      BY <2>1, <3>1
    <3>3. EntryOf(w, i).phase # PhaseRollback
      <4> DEFINE a == w.kids[i].position
      <4>1. a \in 1 .. Len(w.plan) /\ a < position
        BY <2>1 DEF WellFormed, AlongThePlan
      <4>2. Rank(w.plan[a].phase) <= Rank(w.plan[position].phase)
        BY <4>1 DEF Base, PlanInOrder
      <4>a. w.plan[position] \in Entry
        BY <1>1, ElementOfSeq
      <4>3. w.plan[position].phase \in Phases \cup {NoPhase}
        BY <4>a DEF Entry
      <4>4. Rank(w.plan[position].phase) <= 3 /\ Rank(PhaseRollback) = 4
        BY <3>1, <4>3 DEF Rank, Phases, NoPhase, PhasePreconditions, PhaseConfiguration,
                          PhaseVerification, PhaseRollback
      <4>5. Rank(w.plan[position].phase) \in Int
        BY DEF Rank
      <4> QED
        BY <4>2, <4>4, <4>5, SMTT(60) DEF EntryOf
    <3> QED
      BY <1>3, <1>4, <2>1, <3>2, <3>3
  <2> QED
    BY <1>1, <1>3, <2>2, <2>3
<1>10. \A k \in 1 .. Len(w.kids) : Shown(w, k) => Shown(v, k)
  BY <1>3, <1>4 DEF Shown
<1>11. ShownBefore(v)
  <2>1. 1 .. (Len(v.kids) - 1) = 1 .. Len(w.kids)
    BY <1>1, <1>3
  <2> QED
    BY <1>6, <1>10, <2>1 DEF ShownBefore
<1>12. \A k \in 1 .. Len(v.kids) : k \in 1 .. Len(w.kids) \/ k = n
  BY <1>1, <1>3
<1>13. DryInStep(v)
  <2>1. v.dry => \A k \in 1 .. Len(w.kids) : w.kids[k].position = k
    BY DEF Base, DryInStep
  <2> QED
    BY <1>3, <1>5, <1>12, <2>1 DEF DryInStep
<1>14. JobOutcomes(v)
  BY <1>3, <1>5, <1>12 DEF Base, JobOutcomes
<1>15. OpenLaw(v)
  BY <1>3, <1>5 DEF OpenLaw
<1>16. ClosedLaw(v)
  <2>1. v.status \notin Terminal
    BY DEF InFlight, Terminal
  <2>2. v.status \notin {"ROLLED_BACK", "FAILED", "CANCELLED", "SUCCEEDED"}
    BY <2>1 DEF Terminal
  <2> QED
    BY <2>1, <2>2 DEF ClosedLaw, IncompleteLaw, RolledBackLaw, FailedLaw, SucceededLaw,
                      AnnouncedLaw
<1>17. Follows(w, v)
  <2>1. Fresh(v.kids[n])
    BY <1>3 DEF NewJob, Fresh
  <2>2. \A k \in 1 .. Len(v.kids) : k > Len(w.kids) => Fresh(v.kids[k])
    BY <1>1, <1>12, <2>1
  <2> QED
    BY <1>1, <1>3, <2>2 DEF Follows
<1> QED
  BY <1>7, <1>8, <1>9, <1>11, <1>13, <1>14, <1>15, <1>16, <1>17 DEF Lawful, Base

(* What a transaction keeps, one step of it after another. *)
LEMMA FollowsTrans ==
  ASSUME NEW u, NEW w, NEW v, WellFormed(u), WellFormed(w), WellFormed(v),
         Follows(u, w), w.outbox = u.outbox, Follows(w, v)
  PROVE  Follows(u, v)
<1>1. /\ Len(u.kids) \in Nat /\ Len(w.kids) \in Nat /\ Len(v.kids) \in Nat
      /\ Len(u.plan) \in Nat /\ Len(w.plan) \in Nat /\ Len(v.plan) \in Nat
  BY Lengths
<1>2. v.dry = u.dry
  BY DEF Follows
<1>3. v.outbox = u.outbox \/ v.outbox = Append(u.outbox, RunClosed(v.status, v.code))
  BY DEF Follows
<1>4. Len(u.kids) <= Len(v.kids) /\ \A k \in 1 .. Len(u.kids) : v.kids[k] = u.kids[k]
  BY <1>1 DEF Follows
<1>a. \A k \in 1 .. Len(v.kids) : k > Len(u.kids) => Fresh(v.kids[k])
  <2> SUFFICES ASSUME NEW k \in 1 .. Len(v.kids), k > Len(u.kids)
               PROVE  Fresh(v.kids[k])
    OBVIOUS
  <2>1. k > Len(w.kids) => Fresh(v.kids[k])
    BY DEF Follows
  <2>2. k \in 1 .. Len(w.kids) => v.kids[k] = w.kids[k] /\ Fresh(w.kids[k])
    BY DEF Follows
  <2> QED
    BY <1>1, <2>1, <2>2
<1>5. Len(u.plan) <= Len(v.plan) /\ \A i \in 1 .. Len(u.plan) : v.plan[i] = u.plan[i]
  BY <1>1 DEF Follows
<1>6. ASSUME NEW i \in 1 .. Len(v.plan), i > Len(u.plan)
      PROVE  Copied(u, v.plan[i])
  <2>1. CASE i <= Len(w.plan)
    <3>1. i \in 1 .. Len(w.plan) /\ v.plan[i] = w.plan[i]
      BY <1>1, <2>1 DEF Follows
    <3> QED
      BY <1>6, <3>1 DEF Follows
  <2>2. CASE i > Len(w.plan)
    <3>1. Copied(w, v.plan[i])
      BY <2>2 DEF Follows
    <3>2. PICK j \in 1 .. Len(w.plan) : /\ w.plan[j].item = v.plan[i].item
                                        /\ w.plan[j].version = v.plan[i].version
                                        /\ w.plan[j].phase # NoPhase
      BY <3>1 DEF Copied
    <3>3. CASE j \in 1 .. Len(u.plan)
      <4>1. w.plan[j] = u.plan[j]
        BY <3>3 DEF Follows
      <4> QED
        BY <3>2, <3>3, <4>1 DEF Copied
    <3>4. CASE j > Len(u.plan)
      <4>1. Copied(u, w.plan[j])
        BY <3>4 DEF Follows
      <4> QED
        BY <3>2, <4>1 DEF Copied
    <3> QED
      BY <1>1, <3>3, <3>4
  <2> QED
    BY <1>1, <2>1, <2>2
<1> QED
  BY <1>2, <1>3, <1>4, <1>a, <1>5, <1>6 DEF Follows

(* A row that differs in bookkeeping only follows. *)
LEMMA SameFollows ==
  ASSUME NEW w, WellFormed(w), NEW v, v.kids = w.kids, v.plan = w.plan, v.dry = w.dry,
         v.outbox = w.outbox
  PROVE  Follows(w, v)
<1>1. Len(w.kids) \in Nat /\ Len(w.plan) \in Nat
  BY Lengths
<1> QED
  BY <1>1 DEF Follows

(***************************************************************************)
(* merge_outputs of the last child: the newer output wins, and every other *)
(* child's stays shown.                                                    *)
(***************************************************************************)
LEMMA MergeFields ==
  ASSUME NEW w, WellFormed(w), Base(w), NEW k \in 1 .. Len(w.kids), k = Len(w.kids)
  PROVE  LET m == MergeOutputs(w, k)
         IN  /\ Base(m) /\ Follows(w, m)
             /\ m.kids = w.kids /\ m.plan = w.plan /\ m.phase = w.phase
             /\ m.status = w.status /\ m.code = w.code /\ m.cause = w.cause
             /\ m.dry = w.dry /\ m.outbox = w.outbox /\ m.purpose = w.purpose
             /\ ~Returning(m) /\ m.phase # NoPhase => \A j \in 1 .. Len(m.kids) : Shown(m, j)
<1> DEFINE m == MergeOutputs(w, k)
           d == EntryOf(w, k).item
           p == w.kids[k].position
           outputs == [w.outputs EXCEPT ![d] = p]
<1>1. /\ w \in Run /\ w.kids \in Seq(Job) /\ Len(w.kids) \in Nat /\ w.outputs \in [Devices -> Nat]
  BY Lengths DEF Run
<1>2. \A j \in 1 .. Len(w.kids) : EntryOf(w, j).item \in Devices /\ w.kids[j].position \in Nat
  <2>1. \A j \in 1 .. Len(w.kids) : EntryOf(w, j) \in Entry /\ w.kids[j] \in Job
    BY EntryOfType, KidType
  <2> QED
    BY <2>1 DEF Entry, Job
<1>3. \A j \in 1 .. Len(w.kids) : w.kids[j].position <= p
  BY <1>1, <1>2 DEF WellFormed, AlongThePlan
<1>4. m = IF Published(w.kids[k]) THEN [w EXCEPT !.outputs = outputs] ELSE w
  BY DEF MergeOutputs
<1>5. d \in Devices /\ p \in Nat
  BY <1>2
<1> HIDE DEF d, p, m
<1>6. /\ m.kids = w.kids /\ m.plan = w.plan /\ m.phase = w.phase
      /\ m.status = w.status /\ m.code = w.code /\ m.cause = w.cause
      /\ m.dry = w.dry /\ m.outbox = w.outbox /\ m.purpose = w.purpose
      /\ m.outputs = IF Published(w.kids[k]) THEN outputs ELSE w.outputs
  BY <1>1, <1>4 DEF Run
<1>7. \A x \in Devices : m.outputs[x] = IF Published(w.kids[k]) /\ x = d THEN p ELSE w.outputs[x]
  BY <1>1, <1>6
<1>8. \A j : EntryOf(m, j) = EntryOf(w, j)
  BY <1>6 DEF EntryOf
<1>9. \A j \in 1 .. Len(w.kids) : Shown(w, j) => Shown(m, j)
  <2> SUFFICES ASSUME NEW j \in 1 .. Len(w.kids), Shown(w, j), Published(m.kids[j])
               PROVE  m.outputs[EntryOf(m, j).item] >= m.kids[j].position
    BY DEF Shown
  <2> DEFINE x == EntryOf(w, j).item
             a == w.kids[j].position
  <2>1. w.outputs[x] >= a
    BY <1>6 DEF Shown
  <2>2. x \in Devices /\ a \in Nat /\ a <= p /\ w.outputs[x] \in Nat
    BY <1>1, <1>2, <1>3
  <2>3. m.outputs[x] = p \/ m.outputs[x] = w.outputs[x]
    BY <1>7, <2>2
  <2> HIDE DEF x, a
  <2>4. m.outputs[x] >= a
    BY <1>5, <2>1, <2>2, <2>3
  <2> QED
    BY <1>6, <1>8, <2>4 DEF x, a
<1>10. Shown(m, k)
  <2> SUFFICES ASSUME Published(w.kids[k]) PROVE m.outputs[d] >= p
    BY <1>6, <1>8 DEF Shown, d, p
  <2> QED
    BY <1>5, <1>7
<1>11. /\ PlanInOrder(m) /\ JobOutcomes(m) /\ Returning(m) = Returning(w)
       /\ ForwardOnSuccess(m) /\ DryInStep(m)
  BY <1>6, SameReading DEF Base
<1>12. CauseSet(m)
  BY <1>6, <1>11 DEF Base, CauseSet
<1>13. ~Returning(m) /\ m.phase # NoPhase => \A j \in 1 .. (Len(w.kids) - 1) : Shown(w, j)
  BY <1>6, <1>11 DEF Base, ShownBefore
<1>14. ~Returning(m) /\ m.phase # NoPhase => \A j \in 1 .. Len(w.kids) : Shown(m, j)
  <2>1. \A j \in 1 .. Len(w.kids) : j \in 1 .. (Len(w.kids) - 1) \/ j = k
    BY <1>1
  <2> QED
    BY <1>9, <1>10, <1>13, <2>1
<1>15. ShownBefore(m)
  <2>1. 1 .. (Len(w.kids) - 1) \subseteq 1 .. Len(w.kids)
    BY <1>1
  <2> QED
    BY <1>6, <1>14, <2>1 DEF ShownBefore
<1>16. Base(m)
  BY <1>11, <1>12, <1>15 DEF Base
<1>17. Follows(w, m)
  BY <1>6, SameFollows
<1> QED
  BY <1>6, <1>14, <1>16, <1>17 DEF m

(* The entries a rollback appends: ROLLBACK, each for a configured device. *)
LEMMA RollbackEntriesFacts ==
  ASSUME NEW w, WellFormed(w), NEW items, NEW i \in 1 .. Len(RollbackEntries(w, items))
  PROVE  /\ RollbackEntries(w, items)[i].phase = PhaseRollback
         /\ \E k \in KidsOfPhase(w, PhaseConfiguration) :
              /\ RollbackEntries(w, items)[i].item = EntryOf(w, k).item
              /\ RollbackEntries(w, items)[i].version = EntryOf(w, k).version
<1> DEFINE I == {k \in Touched(w, items) : NeedsEntry(w, k)}
           order == RollbackOrder(w, items)
           more == RollbackEntries(w, items)
           back(k) == [EntryOf(w, k) EXCEPT !.phase = PhaseRollback, !.probe = FALSE,
                                            !.ran = RanSteps(w.kids[k])]
<1>1. w.kids \in Seq(Job) /\ Len(w.kids) \in Nat
  BY Lengths
<1>2. I \subseteq KidsOfPhase(w, PhaseConfiguration) /\ I \subseteq 1 .. Len(w.kids)
  BY DEF Touched, KidsOfPhase
<1>3. order \in Seq(I)
  BY <1>1, <1>2, AscendingType, BackwardsType DEF RollbackOrder
<1> HIDE DEF I, order
<1>4. Len(order) \in Nat /\ \A n \in 1 .. Len(order) : order[n] \in I
  BY <1>3, ElementOfSeq, LenProperties
<1>5. \A k \in 1 .. Len(w.kids) : EntryOf(w, k) \in Entry
  BY EntryOfType
<1>6. \A k \in I : /\ back(k).phase = PhaseRollback
                   /\ back(k).item = EntryOf(w, k).item
                   /\ back(k).version = EntryOf(w, k).version
  BY <1>2, <1>5 DEF Entry
<1> HIDE DEF back
<1>7. more = [n \in 1 .. Len(order) |-> back(order[n])]
  BY DEF RollbackEntries, order, back
<1>8. more \in Seq(Entry)
  BY RollbackEntriesType
<1> HIDE DEF more
<1>9. i \in 1 .. Len(order)
  BY <1>7, <1>8, LenProperties DEF more
<1>10. more[i] = back(order[i]) /\ order[i] \in I
  BY <1>4, <1>7, <1>9
<1> QED
  BY <1>2, <1>6, <1>10 DEF more

(***************************************************************************)
(* Planning a rollback of a live run that has noted its cause.             *)
(***************************************************************************)
LEMMA RecordFields ==
  ASSUME NEW w, WellFormed(w), Base(w), ~w.dry, w.cause \in CauseCodes, NEW items
  PROVE  LET p == RecordRollback(w, items)
         IN  /\ Base(p) /\ Follows(w, p)
             /\ p.kids = w.kids /\ p.phase = w.phase /\ p.status = w.status
             /\ p.code = w.code /\ p.cause = w.cause /\ p.dry = w.dry
             /\ p.outbox = w.outbox
             /\ \A i \in 1 .. Len(p.plan) : i > Len(w.plan) => p.plan[i].phase = PhaseRollback
<1> DEFINE p == RecordRollback(w, items)
           more == RollbackEntries(w, items)
           cfg == KidsOfPhase(w, PhaseConfiguration)
<1>1. /\ w \in Run /\ w.plan \in Seq(Entry) /\ Len(w.plan) \in Nat /\ Len(w.kids) \in Nat
  BY Lengths
<1>2. more \in Seq(Entry) /\ Len(more) \in Nat
  BY RollbackEntriesType, LenProperties
<1>3. \A i \in 1 .. Len(more) :
        /\ more[i].phase = PhaseRollback
        /\ \E k \in cfg : more[i].item = EntryOf(w, k).item /\ more[i].version = EntryOf(w, k).version
  BY RollbackEntriesFacts
<1> HIDE DEF more
<1>4. p = [w EXCEPT !.noRollback = w.noRollback \cup NoRollbackItems(w, items),
                    !.plan = w.plan \o more]
  BY DEF RecordRollback, more
<1> HIDE DEF p
<1>5. /\ p.kids = w.kids /\ p.phase = w.phase /\ p.status = w.status
      /\ p.code = w.code /\ p.cause = w.cause /\ p.dry = w.dry
      /\ p.outbox = w.outbox /\ p.outputs = w.outputs /\ p.plan = w.plan \o more
  BY <1>1, <1>4 DEF Run
<1>6. /\ Len(p.plan) = Len(w.plan) + Len(more)
      /\ \A i \in 1 .. (Len(w.plan) + Len(more)) :
           p.plan[i] = IF i <= Len(w.plan) THEN w.plan[i] ELSE more[i - Len(w.plan)]
  BY <1>1, <1>2, <1>5, ConcatProperties
<1>7. \A i \in 1 .. Len(w.plan) : i \in 1 .. Len(p.plan) /\ p.plan[i] = w.plan[i]
  BY <1>1, <1>2, <1>6
<1>8. ASSUME NEW i \in 1 .. Len(p.plan), i > Len(w.plan)
      PROVE  /\ p.plan[i].phase = PhaseRollback
             /\ \E k \in cfg : /\ p.plan[i].item = EntryOf(w, k).item
                               /\ p.plan[i].version = EntryOf(w, k).version
  <2>1. i - Len(w.plan) \in 1 .. Len(more)
    BY <1>1, <1>2, <1>6, <1>8
  <2>2. p.plan[i] = more[i - Len(w.plan)]
    BY <1>1, <1>2, <1>6, <1>8
  <2> QED
    BY <1>3, <2>1, <2>2
<1>9. \A k \in 1 .. Len(w.kids) : w.kids[k].position \in 1 .. Len(w.plan)
  BY DEF WellFormed, AlongThePlan
<1>10. \A k \in 1 .. Len(w.kids) : EntryOf(p, k) = EntryOf(w, k)
  BY <1>5, <1>7, <1>9 DEF EntryOf
<1>11. \A k \in cfg : /\ w.kids[k].position \in 1 .. Len(w.plan)
                      /\ w.plan[w.kids[k].position].phase = PhaseConfiguration
  BY <1>9 DEF KidsOfPhase, EntryOf
<1>12. PlanInOrder(p)
  <2>1. Rank(PhaseRollback) = 4 /\ Rank(PhaseConfiguration) = 2 /\ Rank(NoPhase) = 0
    BY DEF Rank, NoPhase, PhasePreconditions, PhaseConfiguration, PhaseVerification, PhaseRollback
  <2>2. \A x : Rank(x) \in 0 .. 4
    BY DEF Rank
  <2> SUFFICES ASSUME NEW i \in 1 .. Len(p.plan), NEW j \in 1 .. Len(p.plan), i < j
               PROVE  /\ Rank(p.plan[i].phase) <= Rank(p.plan[j].phase)
                      /\ p.plan[i].phase = NoPhase => p.plan[j].phase = NoPhase
    BY DEF PlanInOrder
  <2>3. CASE j <= Len(w.plan)
    <3>1. i \in 1 .. Len(w.plan) /\ j \in 1 .. Len(w.plan)
      BY <1>1, <1>2, <1>6, <2>3
    <3> QED
      BY <1>7, <3>1 DEF Base, PlanInOrder
  <2>4. CASE j > Len(w.plan)
    <3>1. p.plan[j].phase = PhaseRollback
      BY <1>8, <2>4
    <3>2. Rank(p.plan[i].phase) <= Rank(p.plan[j].phase)
      BY <2>1, <2>2, <3>1
    <3>3. p.plan[i].phase # NoPhase
      <4>1. CASE i > Len(w.plan)
        BY <1>8, <4>1 DEF PhaseRollback, NoPhase
      <4>2. CASE i \in 1 .. Len(w.plan)
        <5>1. PICK k \in cfg : p.plan[j].item = EntryOf(w, k).item
          BY <1>8, <2>4
        <5> DEFINE a == w.kids[k].position
        <5>2. a \in 1 .. Len(w.plan) /\ w.plan[a].phase = PhaseConfiguration
          BY <1>11
        <5> HIDE DEF a
        <5>3. w.plan[a].phase # NoPhase
          BY <5>2 DEF PhaseConfiguration, NoPhase
        <5>4. i < a => w.plan[i].phase # NoPhase
          BY <4>2, <5>2, <5>3 DEF Base, PlanInOrder
        <5>5. a < i => w.plan[i].phase # NoPhase
          <6>1. a < i => Rank(w.plan[a].phase) <= Rank(w.plan[i].phase)
            BY <4>2, <5>2 DEF Base, PlanInOrder
          <6> QED
            BY <2>1, <2>2, <5>2, <6>1
        <5>6. a < i \/ i < a \/ a = i
          BY <1>1, <4>2, <5>2
        <5> QED
          BY <1>7, <4>2, <5>3, <5>4, <5>5, <5>6
      <4> QED
        BY <1>1, <1>6, <4>1, <4>2
    <3> QED
      BY <3>2, <3>3
  <2> QED
    BY <1>1, <1>6, <2>3, <2>4
<1>13. CauseSet(p)
  BY <1>5 DEF CauseSet
<1>14. ForwardOnSuccess(p)
  <2>1. \A j \in 1 .. Len(w.kids) : \A i \in 1 .. (j - 1) : i \in 1 .. Len(w.kids)
    BY <1>1
  <2> QED
    BY <1>5, <1>10, <2>1 DEF Base, ForwardOnSuccess
<1>15. ShownBefore(p)
  <2>1. Returning(w) => Returning(p)
    BY <1>5, <1>7 DEF Returning
  <2>2. 1 .. (Len(w.kids) - 1) \subseteq 1 .. Len(w.kids)
    BY <1>1
  <2>3. \A k \in 1 .. Len(w.kids) : Shown(w, k) => Shown(p, k)
    BY <1>5, <1>10 DEF Shown
  <2> QED
    BY <1>5, <2>1, <2>2, <2>3 DEF Base, ShownBefore
<1>16. DryInStep(p) /\ JobOutcomes(p)
  BY <1>5 DEF Base, DryInStep, JobOutcomes
<1>17. Base(p)
  BY <1>12, <1>13, <1>14, <1>15, <1>16 DEF Base
<1>18. \A i \in 1 .. Len(p.plan) : i > Len(w.plan) => Copied(w, p.plan[i])
  <2> SUFFICES ASSUME NEW i \in 1 .. Len(p.plan), i > Len(w.plan)
               PROVE  Copied(w, p.plan[i])
    OBVIOUS
  <2>1. PICK k \in cfg : p.plan[i].item = EntryOf(w, k).item /\ p.plan[i].version = EntryOf(w, k).version
    BY <1>8
  <2> QED
    BY <1>11, <2>1 DEF Copied, EntryOf, PhaseConfiguration, NoPhase
<1>19. Follows(w, p)
  BY <1>1, <1>2, <1>5, <1>6, <1>7, <1>18 DEF Follows
<1> QED
  BY <1>5, <1>8, <1>17, <1>19 DEF p
(* What queue_child leaves of the row. *)
LEMMA QueueChildFields ==
  ASSUME NEW w \in Run, NEW position
  PROVE  LET q == QueueChild(w, position)
         IN  /\ q.kids = Append(w.kids, NewJob(position)) /\ q.plan = w.plan
             /\ q.outputs = w.outputs /\ q.status = w.status
             /\ q.phase = IF w.plan[position].phase = NoPhase THEN w.phase
                          ELSE w.plan[position].phase
             /\ q.code = w.code /\ q.cause = w.cause /\ q.dry = w.dry /\ q.outbox = w.outbox
<1> DEFINE q == QueueChild(w, position)
           phase == IF w.plan[position].phase = NoPhase THEN w.phase
                    ELSE w.plan[position].phase
           kids == Append(w.kids, NewJob(position))
<1>1. q = [w EXCEPT !.phase = phase, !.kids = kids]
  BY DEF QueueChild
<1> HIDE DEF q, phase, kids
<1>2. /\ q.kids = kids /\ q.plan = w.plan /\ q.outputs = w.outputs /\ q.status = w.status
      /\ q.phase = phase
      /\ q.code = w.code /\ q.cause = w.cause /\ q.dry = w.dry /\ q.outbox = w.outbox
  BY <1>1 DEF Run
<1> QED
  BY <1>2 DEF q, phase, kids

-----------------------------------------------------------------------------
(* Rolling back.                                                           *)

(***************************************************************************)
(* _close_after_rollback_planned, of a live run that has noted its cause.  *)
(***************************************************************************)
LEMMA PlannedLawful ==
  ASSUME NEW w, WellFormed(w), Base(w), LiveKids(w) = {}, w.status \in InFlight,
         ~w.dry, w.code = w.cause, w.cause \in CauseCodes
  PROVE  LET v == CloseAfterRollbackPlanned(w, RecordRollback(w, Devices))
         IN  Lawful(v) /\ Follows(w, v)
<1> DEFINE p == RecordRollback(w, Devices)
           v == CloseAfterRollbackPlanned(w, p)
           n == Len(w.plan) + 1
<1>1. WellFormed(p) /\ Len(w.plan) \in Nat /\ Len(p.plan) \in Nat
  BY RecordRollbackWellFormed
<1>2. /\ Base(p) /\ Follows(w, p)
      /\ p.kids = w.kids /\ p.phase = w.phase /\ p.status = w.status
      /\ p.code = w.code /\ p.cause = w.cause /\ p.dry = w.dry
      /\ p.outbox = w.outbox
      /\ \A i \in 1 .. Len(p.plan) : i > Len(w.plan) => p.plan[i].phase = PhaseRollback
  BY RecordFields
<1>3. WellFormed(v)
  BY CloseAfterRollbackPlannedWellFormed
<1>4. CASE Len(w.plan) < Len(p.plan)
  <2> DEFINE q == QueueChild(p, n)
  <2>1. v = [q EXCEPT !.phase = PhaseRollback, !.status = "RUNNING"]
    BY <1>4 DEF CloseAfterRollbackPlanned
  <2>2. WellFormed(q)
    BY <1>4, QueueAppended
  <2> HIDE DEF p, v
  <2>3. p \in Run
    BY <1>1 DEF WellFormed
  <2>4. /\ q.kids = Append(p.kids, NewJob(n)) /\ q.plan = p.plan /\ q.outputs = p.outputs
        /\ q.code = p.code /\ q.cause = p.cause /\ q.dry = p.dry /\ q.outbox = p.outbox
    BY <2>3, QueueChildFields
  <2> HIDE DEF q
  <2>5. /\ v.kids = q.kids /\ v.plan = q.plan /\ v.outputs = q.outputs
        /\ v.code = q.code /\ v.cause = q.cause /\ v.dry = q.dry /\ v.outbox = q.outbox
        /\ v.phase = PhaseRollback /\ v.status = "RUNNING"
    BY <2>1, <2>2 DEF WellFormed, Run
  <2>6. n \in 1 .. Len(p.plan) /\ n > Len(w.plan)
    BY <1>1, <1>4
  <2>7. p.plan[n].phase = PhaseRollback
    BY <1>2, <2>6
  <2>8. Returning(p)
    BY <1>2, <2>6, <2>7 DEF Returning
  <2>9. \A k \in 1 .. Len(p.kids) : p.kids[k].position < n
    <3>1. \A k \in 1 .. Len(w.kids) : w.kids[k].position \in 1 .. Len(w.plan)
      BY DEF WellFormed, AlongThePlan
    <3> QED
      BY <1>1, <1>2, <3>1
  <2> HIDE DEF n
  <2>10. IncompleteLaw(p) /\ "RUNNING" \in InFlight
    BY <1>2 DEF IncompleteLaw, InFlight
  <2>11. Lawful(v) /\ Follows(p, v)
    BY <1>1, <1>2, <2>4, <2>5, <2>6, <2>7, <2>8, <2>9, <2>10, QueueLawful
  <2>12. Follows(w, v)
    BY <1>1, <1>2, <1>3, <2>11, FollowsTrans DEF v
  <2> QED
    BY <2>11, <2>12 DEF v, p
<1>5. CASE ~(Len(w.plan) < Len(p.plan))
  <2>1. \/ v = CloseRun(p, "FAILED", "ROLLBACK_INCOMPLETE")
        \/ v = CloseRun(p, "ROLLED_BACK", NoCode)
    BY <1>5 DEF CloseAfterRollbackPlanned
  <2>2. Kept(p, "ROLLBACK_INCOMPLETE") = "ROLLBACK_INCOMPLETE" /\ Kept(p, NoCode) = p.cause
    BY <1>2 DEF Kept, NoCode
  <2>3. "FAILED" \in Terminal /\ "ROLLED_BACK" \in Terminal
    BY DEF Terminal
  <2> HIDE DEF p, v
  <2>4. /\ Lawful(CloseRun(p, "FAILED", "ROLLBACK_INCOMPLETE"))
        /\ Follows(p, CloseRun(p, "FAILED", "ROLLBACK_INCOMPLETE"))
    BY <1>1, <1>2, <2>2, <2>3, CloseLawful
  <2>5. /\ Lawful(CloseRun(p, "ROLLED_BACK", NoCode))
        /\ Follows(p, CloseRun(p, "ROLLED_BACK", NoCode))
    BY <1>1, <1>2, <2>2, <2>3, CloseLawful
  <2>6. Lawful(v) /\ Follows(p, v)
    BY <2>1, <2>4, <2>5
  <2>7. Follows(w, v)
    BY <1>1, <1>2, <1>3, <2>6, FollowsTrans DEF v
  <2> QED
    BY <2>6, <2>7 DEF v, p
<1> QED
  BY <1>4, <1>5

(* What noting the cause leaves of the row. *)
LEMMA SetCauseFields ==
  ASSUME NEW w, WellFormed(w), Base(w), NEW code \in CauseCodes
  PROVE  LET c == SetCause(w, code)
         IN  /\ WellFormed(c) /\ Base(c) /\ Follows(w, c)
             /\ c.kids = w.kids /\ c.plan = w.plan /\ c.phase = w.phase
             /\ c.status = w.status /\ c.code = code /\ c.cause = code
             /\ c.dry = w.dry /\ c.outbox = w.outbox /\ LiveKids(c) = LiveKids(w)
<1> DEFINE c == SetCause(w, code)
<1>1. w \in Run /\ code \in Codes
  BY DEF WellFormed, Codes
<1>2. /\ c.kids = w.kids /\ c.plan = w.plan /\ c.phase = w.phase
      /\ c.status = w.status /\ c.code = code /\ c.cause = code
      /\ c.dry = w.dry /\ c.outbox = w.outbox /\ c.outputs = w.outputs
  BY <1>1 DEF SetCause, Run
<1>3. WellFormed(c) /\ LiveKids(c) = LiveKids(w)
  BY <1>1, SetCauseWellFormed
<1> HIDE DEF c
<1>4. Base(c)
  BY <1>2, SameBase
<1>5. Follows(w, c)
  BY <1>2, SameFollows
<1> QED
  BY <1>2, <1>3, <1>4, <1>5 DEF c

(***************************************************************************)
(* _enter_rollback: a run that touched nothing says so, one that did goes  *)
(* back over what it touched.                                              *)
(***************************************************************************)
LEMMA EnterRollbackLawful ==
  ASSUME NEW w, WellFormed(w), Base(w), LiveKids(w) = {}, w.status \in InFlight,
         ~w.dry, NEW code \in CauseCodes, NEW cancelled
  PROVE  LET v == EnterRollback(w, code, cancelled)
         IN  Lawful(v) /\ Follows(w, v)
<1> DEFINE c == SetCause(w, code)
           v == EnterRollback(w, code, cancelled)
           end == IF cancelled THEN "CANCELLED" ELSE "FAILED"
<1>1. /\ WellFormed(c) /\ Base(c) /\ Follows(w, c)
      /\ c.kids = w.kids /\ c.plan = w.plan
      /\ c.status = w.status /\ c.code = code /\ c.cause = code
      /\ c.dry = w.dry /\ c.outbox = w.outbox /\ LiveKids(c) = {}
  BY SetCauseFields
<1>2. code \in Codes
  BY DEF Codes
<1>3. WellFormed(v)
  BY <1>2, EnterRollbackWellFormed
<1>4. Lawful(v) /\ Follows(c, v)
  <2>1. CASE Touched(w, Devices) = {}
    <3>1. v = CloseRun(c, end, NoCode)
      BY <2>1 DEF EnterRollback
    <3>2. /\ end \in Terminal /\ end # "ROLLED_BACK" /\ end # "SUCCEEDED"
          /\ Kept(c, NoCode) = code /\ code # "ROLLBACK_INCOMPLETE"
      BY <1>1 DEF Terminal, Kept, CauseCodes
    <3> HIDE DEF c, v, end
    <3>3. Touched(c, Devices) = {}
      BY <1>1, <2>1, SameTouched
    <3> QED
      BY <1>1, <3>1, <3>2, <3>3, CloseLawful
  <2>2. CASE Touched(w, Devices) # {}
    <3>1. v = CloseAfterRollbackPlanned(c, RecordRollback(c, Devices))
      BY <2>2 DEF EnterRollback
    <3> HIDE DEF c, v
    <3> QED
      BY <1>1, <3>1, PlannedLawful
  <2> QED
    BY <2>1, <2>2
<1> HIDE DEF c, v
<1>5. Follows(w, v)
  BY <1>1, <1>3, <1>4, FollowsTrans
<1> QED
  BY <1>4, <1>5 DEF v

(* The end of a rollback of a live run. *)
LEMMA FinishRollbackLawful ==
  ASSUME NEW w, WellFormed(w), Base(w), ~w.dry, w.code = w.cause, w.cause \in CauseCodes
  PROVE  Lawful(FinishRollback(w)) /\ Follows(w, FinishRollback(w))
<1>1. \/ FinishRollback(w) = CloseRun(w, "FAILED", "ROLLBACK_INCOMPLETE")
      \/ FinishRollback(w) = CloseRun(w, "ROLLED_BACK", NoCode)
  BY DEF FinishRollback
<1>2. Kept(w, "ROLLBACK_INCOMPLETE") = "ROLLBACK_INCOMPLETE" /\ Kept(w, NoCode) = w.cause
  BY DEF Kept, NoCode
<1>3. "FAILED" \in Terminal /\ "ROLLED_BACK" \in Terminal
  BY DEF Terminal
<1>4. /\ Lawful(CloseRun(w, "FAILED", "ROLLBACK_INCOMPLETE"))
      /\ Follows(w, CloseRun(w, "FAILED", "ROLLBACK_INCOMPLETE"))
  BY <1>2, <1>3, CloseLawful
<1>5. /\ Lawful(CloseRun(w, "ROLLED_BACK", NoCode))
      /\ Follows(w, CloseRun(w, "ROLLED_BACK", NoCode))
  <2>1. w.cause # "ROLLBACK_INCOMPLETE"
    BY DEF CauseCodes
  <2> QED
    BY <1>2, <1>3, <2>1, CloseLawful
<1> QED
  BY <1>1, <1>4, <1>5

-----------------------------------------------------------------------------
(* Advancing.                                                              *)

(* The phases of a plan up to, and behind, the last child. *)
LEMMA RankFacts ==
  /\ \A x : Rank(x) \in 0 .. 4
  /\ Rank(NoPhase) = 0 /\ Rank(PhasePreconditions) = 1 /\ Rank(PhaseConfiguration) = 2
  /\ Rank(PhaseVerification) = 3 /\ Rank(PhaseRollback) = 4
  /\ \A x \in Phases \cup {NoPhase} : /\ Rank(x) = 4 => x = PhaseRollback
                                      /\ Rank(x) = 0 => x = NoPhase
BY DEF Rank, Phases, NoPhase, PhasePreconditions, PhaseConfiguration, PhaseVerification,
       PhaseRollback

(***************************************************************************)
(* Where a run stands bounds what it did: before its first configuration   *)
(* entry it touched nothing, at the end of a plan that is not a rollback   *)
(* it never planned one, and a rollback is followed by rollbacks only.     *)
(***************************************************************************)
LEMMA StandsAt ==
  ASSUME NEW w, WellFormed(w), Base(w), NEW k \in 1 .. Len(w.kids), k = Len(w.kids)
  PROVE  /\ EntryOf(w, k).phase \in {NoPhase, PhasePreconditions} =>
              \A items : Touched(w, items) = {}
         /\ ~PlanReaches(w, k) /\ EntryOf(w, k).phase # PhaseRollback => ~Returning(w)
         /\ PlanReaches(w, k) =>
              LET next == w.plan[w.kids[k].position + 1].phase
              IN  /\ w.kids[k].position + 1 \in 1 .. Len(w.plan)
                  /\ EntryOf(w, k).phase = PhaseRollback => next = PhaseRollback
                  /\ EntryOf(w, k).phase = NoPhase <=> next = NoPhase
         /\ ~PlanReaches(w, k) => w.kids[k].position = Len(w.plan)
<1> DEFINE a == w.kids[k].position
<1>1. w.plan \in Seq(Entry) /\ Len(w.plan) \in Nat /\ Len(w.kids) \in Nat
  BY Lengths
<1>2. a \in 1 .. Len(w.plan) /\ EntryOf(w, k) = w.plan[a]
  BY DEF WellFormed, AlongThePlan, EntryOf
<1>3. \A i \in 1 .. Len(w.plan) : w.plan[i].phase \in Phases \cup {NoPhase}
  <2>1. \A i \in 1 .. Len(w.plan) : w.plan[i] \in Entry
    BY <1>1, ElementOfSeq
  <2> QED
    BY <2>1 DEF Entry
<1>4. \A i, j \in 1 .. Len(w.plan) :
        i < j => /\ Rank(w.plan[i].phase) <= Rank(w.plan[j].phase)
                 /\ w.plan[i].phase = NoPhase => w.plan[j].phase = NoPhase
  BY DEF Base, PlanInOrder
<1>5. ASSUME w.plan[a].phase \in {NoPhase, PhasePreconditions}, NEW items
      PROVE  Touched(w, items) = {}
  <2> SUFFICES ASSUME NEW j \in 1 .. Len(w.kids), EntryOf(w, j).phase = PhaseConfiguration
               PROVE  FALSE
    BY DEF Touched, KidsOfPhase
  <2> DEFINE b == w.kids[j].position
  <2>1. b \in 1 .. Len(w.plan) /\ w.plan[b].phase = PhaseConfiguration /\ (b < a \/ b = a)
    <3>1. j = k \/ j < k
      BY <1>1
    <3> QED
      BY <3>1 DEF WellFormed, AlongThePlan, EntryOf
  <2> HIDE DEF a, b
  <2>2. Rank(w.plan[b].phase) <= Rank(w.plan[a].phase) \/ b = a
    BY <1>2, <1>4, <2>1
  <2>3. Rank(w.plan[b].phase) = 2 /\ Rank(w.plan[a].phase) \in {0, 1}
    BY <1>5, <2>1, RankFacts
  <2> QED
    BY <2>2, <2>3
<1>6. ~PlanReaches(w, k) => a = Len(w.plan)
  BY <1>1, <1>2 DEF PlanReaches
<1>7. ASSUME ~PlanReaches(w, k), w.plan[a].phase # PhaseRollback
      PROVE  ~Returning(w)
  <2> SUFFICES ASSUME NEW i \in 1 .. Len(w.plan), w.plan[i].phase = PhaseRollback
               PROVE  FALSE
    BY DEF Returning
  <2>1. i < a \/ i = a
    BY <1>1, <1>6, <1>7
  <2> HIDE DEF a
  <2>2. i < a
    BY <1>7, <2>1
  <2>3. Rank(w.plan[i].phase) <= Rank(w.plan[a].phase)
    BY <1>2, <1>4, <2>2
  <2>4. Rank(w.plan[a].phase) = 4
    BY <2>3, RankFacts
  <2> QED
    BY <1>2, <1>3, <1>7, <2>4, RankFacts
<1>8. ASSUME PlanReaches(w, k)
      PROVE  /\ a + 1 \in 1 .. Len(w.plan)
             /\ w.plan[a].phase = PhaseRollback => w.plan[a + 1].phase = PhaseRollback
             /\ w.plan[a].phase = NoPhase <=> w.plan[a + 1].phase = NoPhase
  <2>1. a + 1 \in 1 .. Len(w.plan) /\ a < a + 1
    BY <1>1, <1>2, <1>8 DEF PlanReaches
  <2> DEFINE b == a + 1
  <2> HIDE DEF a, b
  <2>2. b \in 1 .. Len(w.plan) /\ a < b
    BY <2>1 DEF b
  <2>3. /\ Rank(w.plan[a].phase) <= Rank(w.plan[b].phase)
        /\ w.plan[a].phase = NoPhase => w.plan[b].phase = NoPhase
    BY <1>2, <1>4, <2>2
  <2>4. w.plan[b].phase \in Phases \cup {NoPhase} /\ w.plan[a].phase \in Phases \cup {NoPhase}
    BY <1>2, <1>3, <2>2
  <2>5. w.plan[a].phase = PhaseRollback => w.plan[b].phase = PhaseRollback
    BY <2>3, <2>4, RankFacts
  <2>6. w.plan[b].phase = NoPhase => w.plan[a].phase = NoPhase
    BY <2>3, <2>4, RankFacts
  <2> QED
    BY <2>2, <2>3, <2>5, <2>6 DEF b
<1> QED
  BY <1>2, <1>5, <1>6, <1>7, <1>8

(***************************************************************************)
(* Queueing the entry behind the last child, whose outcome lets it.        *)
(***************************************************************************)
LEMMA QueueNextLawful ==
  ASSUME NEW w, WellFormed(w), Base(w), LiveKids(w) = {}, w.status \in InFlight,
         w.code = w.cause, IncompleteLaw(w),
         NEW k \in 1 .. Len(w.kids), k = Len(w.kids), PlanReaches(w, k),
         w.phase = EntryOf(w, k).phase,
         w.dry \/ w.kids[k].status = "SUCCEEDED" \/ w.phase = PhaseRollback,
         ~Returning(w) /\ w.phase # NoPhase => \A j \in 1 .. Len(w.kids) : Shown(w, j)
  PROVE  Lawful(QueueNext(w, k)) /\ Follows(w, QueueNext(w, k))
<1> DEFINE at == w.kids[k].position + 1
           q == QueueChild(w, at)
           v == QueueNext(w, k)
<1>1. w \in Run /\ Len(w.kids) \in Nat /\ Len(w.plan) \in Nat /\ w.dry \in BOOLEAN
  BY Lengths
<1>2. /\ at \in 1 .. Len(w.plan)
      /\ w.phase = PhaseRollback => w.plan[at].phase = PhaseRollback
      /\ w.phase = NoPhase <=> w.plan[at].phase = NoPhase
  BY StandsAt
<1>3. /\ q.kids = Append(w.kids, NewJob(at)) /\ q.plan = w.plan
      /\ q.outputs = w.outputs
      /\ q.phase = IF w.plan[at].phase = NoPhase THEN w.phase ELSE w.plan[at].phase
      /\ q.code = w.code /\ q.cause = w.cause /\ q.dry = w.dry /\ q.outbox = w.outbox
  BY <1>1, QueueChildFields
<1>4. \A j \in 1 .. Len(w.kids) : w.kids[j].position \in 1 .. Len(w.plan) /\ w.kids[j].position < at
  <2>1. \A j \in 1 .. Len(w.kids) : j = k \/ j < k
    BY <1>1
  <2>2. \A j \in 1 .. Len(w.kids) : w.kids[j].position \in 1 .. Len(w.plan)
    BY DEF WellFormed, AlongThePlan
  <2>3. \A j \in 1 .. Len(w.kids) : j < k => w.kids[j].position < w.kids[k].position
    BY DEF WellFormed, AlongThePlan
  <2> QED
    BY <2>1, <2>2, <2>3
<1>5. WellFormed(q)
  BY <1>2, <1>4, QueueChildWellFormed
<1>6. v = [q EXCEPT !.status = "RUNNING"]
  BY DEF QueueNext
<1>7. w.dry => at = Len(w.kids) + 1
  BY DEF Base, DryInStep
<1> HIDE DEF at, q, v
<1>8. /\ v.kids = q.kids /\ v.plan = q.plan /\ v.outputs = q.outputs /\ v.phase = q.phase
      /\ v.code = q.code /\ v.cause = q.cause /\ v.dry = q.dry /\ v.outbox = q.outbox
      /\ v.status = "RUNNING"
  BY <1>5, <1>6 DEF WellFormed, Run
<1>9. v.phase = w.plan[at].phase
  BY <1>2, <1>3, <1>8
<1>10. ASSUME ~w.dry, w.plan[at].phase # PhaseRollback, NEW j \in 1 .. Len(w.kids)
       PROVE  w.kids[j].status = "SUCCEEDED"
  <2>1. w.phase # PhaseRollback /\ w.kids[k].status = "SUCCEEDED"
    BY <1>2, <1>10
  <2>2. j = k \/ j \in 1 .. (k - 1)
    BY <1>1
  <2> QED
    BY <1>10, <2>1, <2>2 DEF Base, ForwardOnSuccess
<1>11. "RUNNING" \in InFlight
  BY DEF InFlight
<1>12. ~Returning(w) /\ w.plan[at].phase # NoPhase => \A j \in 1 .. Len(w.kids) : Shown(w, j)
  BY <1>2
<1>13. Lawful(v) /\ Follows(w, v)
  BY <1>2, <1>3, <1>4, <1>7, <1>8, <1>9, <1>10, <1>11, <1>12, QueueLawful
<1> QED
  BY <1>13 DEF v

(* A transaction that stamps playbooks closes a clean simulation of all of *)
(* its plan.                                                               *)
Earned(left) ==
  left.stamps =>
    /\ left.row.dry
    /\ left.row.status \in Terminal
    /\ \A k \in 1 .. Len(left.row.kids) : left.row.kids[k].status = "SUCCEEDED"
    /\ \A i \in 1 .. Len(left.row.plan) :
         \E k \in 1 .. Len(left.row.kids) : EntryOf(left.row, k) = left.row.plan[i]

(* What is left of run w is lawful, follows it and stamps what it may. *)
LawfulLeft(left, w) == Lawful(left.row) /\ Follows(w, left.row) /\ Earned(left)

(* A function that only rewrites the row. *)
LEMMA LeftLawful ==
  ASSUME NEW w, NEW v, Lawful(v), Follows(w, v)
  PROVE  LawfulLeft(Left(v), w)
BY DEF LawfulLeft, Left, Earned

(* Of those fields, the ones a simulation is judged by. *)
LEMMA CloseRunKeeps ==
  ASSUME NEW w \in Run, NEW status, NEW code
  PROVE  LET c == CloseRun(w, status, code)
         IN  c.kids = w.kids /\ c.plan = w.plan /\ c.dry = w.dry /\ c.status = status
BY CloseRunFields

(* The end of a simulation. *)
LEMMA FinishDryRunLawful ==
  ASSUME NEW w, WellFormed(w), Base(w), w.dry, IncompleteLaw(w),
         NEW k \in 1 .. Len(w.kids), k = Len(w.kids), ~PlanReaches(w, k),
         ~Returning(w) /\ w.phase # NoPhase => \A j \in 1 .. Len(w.kids) : Shown(w, j)
  PROVE  LawfulLeft(FinishDryRun(w), w)
<1> DEFINE ok == w.kids # <<>> /\ \A j \in 1 .. Len(w.kids) : w.kids[j].status = "SUCCEEDED"
           end == IF ok THEN "SUCCEEDED" ELSE "FAILED"
           c == CloseRun(w, end, NoCode)
<1>1. w \in Run /\ Len(w.plan) \in Nat /\ Len(w.kids) \in Nat
  BY Lengths
<1>2. FinishDryRun(w) = [row |-> c, settlesPath |-> FALSE, stamps |-> ok]
  BY DEF FinishDryRun
<1>3. end \in Terminal /\ end # "ROLLED_BACK" /\ ~Returning(w) /\ Kept(w, NoCode) = w.code
  BY DEF Terminal, Returning, Kept
<1>4. ok => \A j \in 1 .. Len(w.kids) : w.kids[j].status = "SUCCEEDED"
  OBVIOUS
<1> HIDE DEF ok, end
<1>5. Lawful(c) /\ Follows(w, c)
  BY <1>3, CloseLawful DEF IncompleteLaw
<1>6. c.kids = w.kids /\ c.plan = w.plan /\ c.dry = w.dry /\ c.status = end
  BY <1>1, CloseRunKeeps, ZenonT(60)
<1> HIDE DEF c
<1>7. ASSUME NEW i \in 1 .. Len(w.plan)
      PROVE  i \in 1 .. Len(w.kids) /\ EntryOf(c, i) = w.plan[i]
  <2>1. w.kids[k].position = Len(w.plan) /\ w.kids[k].position = k
    BY StandsAt DEF Base, DryInStep
  <2>2. i \in 1 .. Len(w.kids)
    BY <2>1
  <2>3. w.kids[i].position = i
    BY <2>2 DEF Base, DryInStep
  <2> QED
    BY <1>6, <2>2, <2>3 DEF EntryOf
<1>8. Earned([row |-> c, settlesPath |-> FALSE, stamps |-> ok])
  BY <1>3, <1>4, <1>6, <1>7, ZenonT(60) DEF Earned
<1> QED
  BY <1>2, <1>5, <1>8 DEF LawfulLeft

(* What a transaction leaves after an intermediate row. *)
LEMMA LeftTrans ==
  ASSUME NEW u, NEW w, NEW left, WellFormed(u), WellFormed(w), WellFormed(left.row),
         Follows(u, w), w.outbox = u.outbox, LawfulLeft(left, w)
  PROVE  LawfulLeft(left, u)
BY FollowsTrans DEF LawfulLeft

(***************************************************************************)
(* advance_run: whatever the outcome of the last child, the run goes on,   *)
(* back or to an end that its row bears out.                               *)
(***************************************************************************)
LEMMA AdvanceLawful ==
  ASSUME NEW w, WellFormed(w), Lawful(w), NEW k \in 1 .. Len(w.kids)
  PROVE  LawfulLeft(AdvanceRun(w, k), w)
<1> DEFINE phase == EntryOf(w, k).phase
           m == MergeOutputs(w, k)
           status == w.kids[k].status
           cancelled == status = "CANCELLED"
<1>1. CASE AdvanceIsNoop(w, k)
  <2>1. AdvanceRun(w, k) = Left(w)
    BY <1>1 DEF AdvanceRun
  <2>2. Follows(w, w)
    BY SameFollows
  <2> QED
    BY <2>1, <2>2, LeftLawful
<1>2. CASE ~AdvanceIsNoop(w, k)
  <2>1. /\ w.status \in InFlight
        /\ ~IsLive(w.kids[k])
        /\ \A j \in 1 .. Len(w.kids) : ~(w.kids[j].position > w.kids[k].position)
    BY <1>2 DEF AdvanceIsNoop
  <2>2. Len(w.kids) \in Nat /\ w.dry \in BOOLEAN /\ w.kids \in Seq(Job)
    BY Lengths
  <2>3. k = Len(w.kids)
    <3>1. k < Len(w.kids) => w.kids[k].position < w.kids[Len(w.kids)].position
      BY <2>2 DEF WellFormed, AlongThePlan
    <3>2. Len(w.kids) \in 1 .. Len(w.kids)
      BY <2>2
    <3>3. w.kids[k].position \in Nat /\ w.kids[Len(w.kids)].position \in Nat
      BY <3>2, KidType DEF Job
    <3> QED
      BY <2>1, <2>2, <3>1, <3>2, <3>3
  <2>4. LiveKids(w) = {}
    BY <2>1, <2>3 DEF WellFormed, OneLive, LiveKids
  <2>5. Base(w) /\ IncompleteLaw(w) /\ w.code = w.cause
    BY <2>1 DEF Lawful, ClosedLaw, OpenLaw
  <2>6. w.phase = phase
    <3>1. w.kids # <<>>
      BY <2>2
    <3> QED
      BY <2>1, <2>3, <3>1 DEF Lawful, OpenLaw
  <2>7. status \in {"SUCCEEDED", "FAILED", "CANCELLED"}
    <3>1. status \in Terminal
      BY <2>1, KidType DEF Job, IsLive
    <3> QED
      BY <2>5, <3>1 DEF Base, JobOutcomes, Terminal
  <2>8. WellFormed(AdvanceRun(w, k).row)
    BY AdvanceRunWellLeft DEF WellLeft
  <2>9. /\ WellFormed(m) /\ LiveKids(m) = {}
    BY <2>4, MergeOutputsWellFormed
  <2>10. /\ Base(m) /\ Follows(w, m)
         /\ m.kids = w.kids /\ m.plan = w.plan /\ m.phase = w.phase
         /\ m.status = w.status /\ m.code = w.code /\ m.cause = w.cause
         /\ m.dry = w.dry /\ m.outbox = w.outbox
         /\ ~Returning(m) /\ m.phase # NoPhase => \A j \in 1 .. Len(m.kids) : Shown(m, j)
    BY <2>3, <2>5, MergeFields
  <2>11. AdvanceRun(w, k) =
           IF phase = NoPhase THEN AdvanceLegacy(w, k)
           ELSE IF MovesOn(w, k)
                THEN IF PlanReaches(w, k) THEN Left(QueueNext(m, k)) ELSE FinishRun(m, phase)
           ELSE Left(ForwardFailure(m, phase, cancelled))
    BY <1>2 DEF AdvanceRun
  <2> HIDE DEF m
  <2>12. EntryOf(m, k).phase = phase /\ PlanReaches(m, k) = PlanReaches(w, k) /\ IncompleteLaw(m)
    BY <2>5, <2>10 DEF EntryOf, PlanReaches, IncompleteLaw
  <2>13. {"SUCCEEDED", "FAILED", "CANCELLED"} \subseteq Terminal
    BY DEF Terminal
  <2>14. Kept(w, NoCode) = w.code /\ Kept(m, NoCode) = m.code
    BY DEF Kept
  <2>15. CASE phase = NoPhase
    <3>1. w.phase = NoPhase /\ phase # PhaseRollback
      BY <2>6, <2>15 DEF NoPhase, PhaseRollback
    <3>2. CASE status # "SUCCEEDED"
      <4>1. AdvanceRun(w, k) = Left(CloseRun(w, status, NoCode))
        BY <2>11, <2>15, <3>2 DEF AdvanceLegacy
      <4>2. Touched(w, Devices) = {}
        BY <2>3, <2>5, <2>15, StandsAt
      <4>3. status \in Terminal /\ status # "ROLLED_BACK"
        BY <2>7 DEF Terminal
      <4> HIDE DEF status, phase
      <4>4. Lawful(CloseRun(w, status, NoCode)) /\ Follows(w, CloseRun(w, status, NoCode))
        BY <2>5, <2>14, <3>2, <4>2, <4>3, CloseLawful DEF IncompleteLaw
      <4> QED
        BY <4>1, <4>4, LeftLawful
    <3>3. CASE status = "SUCCEEDED" /\ PlanReaches(w, k)
      <4>1. AdvanceRun(w, k) = Left(QueueNext(w, k))
        BY <2>11, <2>15, <3>3 DEF AdvanceLegacy
      <4>2. Lawful(QueueNext(w, k)) /\ Follows(w, QueueNext(w, k))
        BY <2>1, <2>3, <2>4, <2>5, <2>6, <3>1, <3>3, QueueNextLawful
      <4> QED
        BY <4>1, <4>2, LeftLawful
    <3>4. CASE status = "SUCCEEDED" /\ ~PlanReaches(w, k)
      <4> DEFINE c == CloseRun(w, "SUCCEEDED", NoCode)
      <4>1. AdvanceRun(w, k).row = c /\ AdvanceRun(w, k).stamps = FALSE
        BY <2>11, <2>15, <3>4 DEF AdvanceLegacy, Left, Succeed
      <4>2. ~Returning(w)
        BY <2>3, <2>5, <3>1, <3>4, StandsAt
      <4>3. Lawful(c) /\ Follows(w, c)
        BY <2>5, <2>13, <2>14, <3>1, <4>2, CloseLawful DEF IncompleteLaw
      <4> HIDE DEF c
      <4> QED
        BY <4>1, <4>3 DEF LawfulLeft, Earned
    <3> QED
      BY <3>2, <3>3, <3>4
  <2>16. CASE phase # NoPhase /\ MovesOn(w, k) /\ PlanReaches(w, k)
    <3>1. AdvanceRun(w, k) = Left(QueueNext(m, k))
      BY <2>11, <2>16
    <3>2. m.dry \/ m.kids[k].status = "SUCCEEDED" \/ m.phase = PhaseRollback
      BY <2>6, <2>10, <2>16 DEF MovesOn
    <3>3. m.phase = EntryOf(m, k).phase /\ m.status \in InFlight /\ m.code = m.cause
          /\ k \in 1 .. Len(m.kids) /\ k = Len(m.kids)
      BY <2>1, <2>3, <2>5, <2>6, <2>10, <2>12
    <3> HIDE DEF phase
    <3>4. Lawful(QueueNext(m, k)) /\ Follows(m, QueueNext(m, k))
      BY <2>9, <2>10, <2>12, <2>16, <3>2, <3>3, QueueNextLawful
    <3>5. LawfulLeft(AdvanceRun(w, k), m)
      BY <3>1, <3>4, LeftLawful
    <3> QED
      BY <2>8, <2>9, <2>10, <3>5, LeftTrans
  <2>17. CASE phase # NoPhase /\ MovesOn(w, k) /\ ~PlanReaches(w, k)
    <3>1. AdvanceRun(w, k) = FinishRun(m, phase)
      BY <2>11, <2>17
    <3>2. LawfulLeft(FinishRun(m, phase), m)
      <4>1. CASE m.dry
        <5>1. FinishRun(m, phase) = FinishDryRun(m)
          BY <4>1 DEF FinishRun
        <5>2. k \in 1 .. Len(m.kids) /\ k = Len(m.kids) /\ ~PlanReaches(m, k)
          BY <2>3, <2>10, <2>12, <2>17
        <5> QED
          BY <2>9, <2>10, <2>12, <4>1, <5>1, <5>2, FinishDryRunLawful
      <4>2. CASE ~m.dry /\ phase = PhaseRollback
        <5>1. FinishRun(m, phase) = Left(FinishRollback(m))
          BY <4>2 DEF FinishRun
        <5>2. m.cause \in CauseCodes /\ m.code = m.cause
          BY <2>5, <2>6, <2>10, <4>2 DEF Base, CauseSet
        <5>3. Lawful(FinishRollback(m)) /\ Follows(m, FinishRollback(m))
          BY <2>9, <2>10, <4>2, <5>2, FinishRollbackLawful
        <5> QED
          BY <5>1, <5>3, LeftLawful
      <4>3. CASE ~m.dry /\ phase # PhaseRollback
        <5> DEFINE c == CloseRun(m, "SUCCEEDED", NoCode)
        <5>1. FinishRun(m, phase).row = c /\ FinishRun(m, phase).stamps = FALSE
          BY <4>3 DEF FinishRun, Succeed
        <5>2. k \in 1 .. Len(m.kids) /\ k = Len(m.kids) /\ ~PlanReaches(m, k)
          BY <2>3, <2>10, <2>12, <2>17
        <5>3. ~Returning(m)
          BY <2>9, <2>10, <2>12, <4>3, <5>2, StandsAt
        <5>4. Lawful(c) /\ Follows(m, c)
          BY <2>9, <2>10, <2>12, <2>13, <2>14, <5>3, CloseLawful DEF IncompleteLaw
        <5> HIDE DEF c
        <5> QED
          BY <5>1, <5>4 DEF LawfulLeft, Earned
      <4> QED
        BY <4>1, <4>2, <4>3
    <3> QED
      BY <2>8, <2>9, <2>10, <3>1, <3>2, LeftTrans
  <2>18. CASE phase # NoPhase /\ ~MovesOn(w, k)
    <3> DEFINE f == ForwardFailure(m, phase, cancelled)
    <3>1. AdvanceRun(w, k) = Left(f)
      BY <2>11, <2>18
    <3>2. ~m.dry
      BY <2>10, <2>18 DEF MovesOn
    <3>3. Lawful(f) /\ Follows(m, f)
      <4>1. CASE phase = PhasePreconditions
        <5>1. f = CloseRun(m, "CANCELLED", "CANCELLED") \/ f = CloseRun(m, "FAILED", "PRECONDITION_FAILED")
          BY <4>1 DEF ForwardFailure
        <5>2. k \in 1 .. Len(m.kids) /\ k = Len(m.kids)
          BY <2>3, <2>10
        <5>3. Touched(m, Devices) = {}
          BY <2>9, <2>10, <2>12, <4>1, <5>2, StandsAt
        <5>4. Kept(m, "CANCELLED") = "CANCELLED" /\ Kept(m, "PRECONDITION_FAILED") = "PRECONDITION_FAILED"
          BY DEF Kept, NoCode
        <5> HIDE DEF f
        <5>5. /\ Lawful(CloseRun(m, "CANCELLED", "CANCELLED"))
              /\ Follows(m, CloseRun(m, "CANCELLED", "CANCELLED"))
          BY <2>9, <2>10, <2>13, <5>3, <5>4, CloseLawful
        <5>6. /\ Lawful(CloseRun(m, "FAILED", "PRECONDITION_FAILED"))
              /\ Follows(m, CloseRun(m, "FAILED", "PRECONDITION_FAILED"))
          BY <2>9, <2>10, <2>13, <5>3, <5>4, CloseLawful
        <5> QED
          BY <5>1, <5>5, <5>6
      <4>2. CASE phase # PhasePreconditions
        <5>1. PICK code \in CauseCodes : f = EnterRollback(m, code, cancelled)
          BY <4>2 DEF ForwardFailure, CauseCodes
        <5>2. m.status \in InFlight
          BY <2>1, <2>10
        <5> HIDE DEF f, cancelled
        <5> QED
          BY <2>9, <2>10, <3>2, <5>1, <5>2, EnterRollbackLawful
      <4> QED
        BY <4>1, <4>2
    <3> HIDE DEF f
    <3>4. LawfulLeft(AdvanceRun(w, k), m)
      BY <3>1, <3>3, LeftLawful
    <3> QED
      BY <2>8, <2>9, <2>10, <3>4, LeftTrans
  <2> QED
    BY <2>15, <2>16, <2>17, <2>18
<1> QED
  BY <1>1, <1>2

-----------------------------------------------------------------------------
(* A child, the reaper and the office.                                     *)

(* What writing the row of one child leaves of the run. *)
LEMMA KidFields ==
  ASSUME NEW w \in Run, NEW k \in 1 .. Len(w.kids), NEW job
  PROVE  LET v == [w EXCEPT !.kids[k] = job]
         IN  /\ v.kids = [w.kids EXCEPT ![k] = job]
             /\ v.plan = w.plan /\ v.phase = w.phase /\ v.outputs = w.outputs
             /\ v.status = w.status /\ v.code = w.code /\ v.cause = w.cause
             /\ v.dry = w.dry /\ v.outbox = w.outbox /\ v.service = w.service
             /\ Len(v.kids) = Len(w.kids)
             /\ v.kids[k] = job
             /\ \A j \in 1 .. Len(w.kids) : j # k => v.kids[j] = w.kids[j]
<1> DEFINE v == [w EXCEPT !.kids[k] = job]
<1>1. /\ v.kids = [w.kids EXCEPT ![k] = job]
      /\ v.plan = w.plan /\ v.phase = w.phase /\ v.outputs = w.outputs
      /\ v.status = w.status /\ v.code = w.code /\ v.cause = w.cause
      /\ v.dry = w.dry /\ v.outbox = w.outbox /\ v.service = w.service
  BY DEF Run
<1>2. w.kids \in Seq(Job)
  BY DEF Run
<1> HIDE DEF v
<1>3. /\ Len(v.kids) = Len(w.kids)
      /\ v.kids[k] = job
      /\ \A j \in 1 .. Len(w.kids) : j # k => v.kids[j] = w.kids[j]
  BY <1>1, <1>2
<1> QED
  BY <1>1, <1>3 DEF v

(***************************************************************************)
(* A live child is the last one of an open run: whatever becomes of it,    *)
(* the row stays lawful.                                                   *)
(***************************************************************************)
LEMMA KidLawful ==
  ASSUME NEW w, WellFormed(w), Lawful(w), NEW k \in 1 .. Len(w.kids), IsLive(w.kids[k]),
         NEW job \in Job, job.position = w.kids[k].position, job.status # "ROLLED_BACK"
  PROVE  Lawful([w EXCEPT !.kids[k] = job])
<1> DEFINE v == [w EXCEPT !.kids[k] = job]
<1>1. w \in Run /\ Len(w.kids) \in Nat /\ w.dry \in BOOLEAN /\ w.kids \in Seq(Job)
  BY Lengths
<1>2. /\ v.plan = w.plan /\ v.phase = w.phase /\ v.outputs = w.outputs
      /\ v.status = w.status /\ v.code = w.code /\ v.cause = w.cause
      /\ v.dry = w.dry /\ v.outbox = w.outbox
      /\ Len(v.kids) = Len(w.kids)
      /\ v.kids[k] = job
      /\ \A j \in 1 .. Len(w.kids) : j # k => v.kids[j] = w.kids[j]
  BY <1>1, KidFields
<1>3. k = Len(w.kids) /\ w.status \notin Terminal
  BY DEF WellFormed, OneLive, LiveKids
<1> HIDE DEF v
<1>4. \A j \in 1 .. Len(w.kids) :
        v.kids[j].position = w.kids[j].position /\ EntryOf(v, j) = EntryOf(w, j)
  BY <1>2 DEF EntryOf
<1>5. \A j \in 1 .. (Len(w.kids) - 1) : j \in 1 .. Len(w.kids) /\ j # k
  BY <1>1, <1>3
<1>6. Base(w) /\ OpenLaw(w) /\ ClosedLaw(w)
  BY DEF Lawful
<1>7. Returning(v) = Returning(w)
  BY <1>2 DEF Returning
<1>8. Base(v)
  <2>1. PlanInOrder(v) /\ CauseSet(v)
    BY <1>2, <1>6, <1>7 DEF Base, PlanInOrder, CauseSet
  <2>2. ForwardOnSuccess(v)
    <3>1. SUFFICES ASSUME NEW j \in 1 .. Len(v.kids), NEW i \in 1 .. (j - 1),
                          ~v.dry /\ EntryOf(v, j).phase # PhaseRollback
                   PROVE  v.kids[i].status = "SUCCEEDED" /\ EntryOf(v, i).phase # PhaseRollback
      BY DEF ForwardOnSuccess
    <3>2. i \in 1 .. (Len(w.kids) - 1) /\ j \in 1 .. Len(w.kids)
      BY <1>1, <1>2, <3>1
    <3>3. i \in 1 .. Len(w.kids) /\ i # k
      BY <1>5, <3>2
    <3>4. w.kids[i].status = "SUCCEEDED" /\ EntryOf(w, i).phase # PhaseRollback
      BY <1>2, <1>4, <1>6, <3>1, <3>2 DEF Base, ForwardOnSuccess
    <3> QED
      BY <1>2, <1>4, <3>3, <3>4
  <2>3. ShownBefore(v)
    <3>1. \A j \in 1 .. (Len(w.kids) - 1) : Shown(w, j) => Shown(v, j)
      BY <1>2, <1>4, <1>5 DEF Shown
    <3> QED
      BY <1>2, <1>6, <1>7, <3>1 DEF Base, ShownBefore
  <2>4. DryInStep(v)
    BY <1>2, <1>4, <1>6 DEF Base, DryInStep
  <2>5. JobOutcomes(v)
    BY <1>2, <1>6 DEF Base, JobOutcomes
  <2> QED
    BY <2>1, <2>2, <2>3, <2>4, <2>5 DEF Base
<1>9. OpenLaw(v)
  <2>1. v.kids # <<>> /\ w.kids # <<>>
    BY <1>1, <1>2
  <2> QED
    BY <1>2, <1>3, <1>4, <1>6, <2>1 DEF OpenLaw
<1>10. ClosedLaw(v)
  <2>1. IncompleteLaw(v)
    BY <1>2, <1>6 DEF ClosedLaw, IncompleteLaw
  <2>2. v.status \notin {"ROLLED_BACK", "FAILED", "CANCELLED", "SUCCEEDED"}
    BY <1>2, <1>3 DEF Terminal
  <2> QED
    BY <1>2, <1>3, <2>1, <2>2
       DEF ClosedLaw, RolledBackLaw, FailedLaw, SucceededLaw, AnnouncedLaw
<1> QED
  BY <1>8, <1>9, <1>10 DEF Lawful, v

(* A run that planned anything has a child. *)
Begun(w) == w.kids = <<>> => w.plan = <<>>

(***************************************************************************)
(* repair_stranded_runs, of a run that was quiet for long or for less.     *)
(***************************************************************************)
LEMMA RepairLawful ==
  ASSUME NEW w, WellFormed(w), Lawful(w), Begun(w), Stranded(w)
  PROVE  LawfulLeft(RepairFresh(w), w) /\ LawfulLeft(RepairExpired(w), w)
<1>1. /\ w \in Run /\ w.kids \in Seq(Job) /\ w.plan \in Seq(Entry)
      /\ Len(w.kids) \in Nat /\ w.dry \in BOOLEAN
  BY Lengths
<1>2. w.status \in InFlight /\ LiveKids(w) = {}
  BY DEF Stranded
<1>3. Base(w) /\ IncompleteLaw(w) /\ w.code = w.cause
      /\ (w.kids # <<>> => w.phase = EntryOf(w, Len(w.kids)).phase)
  BY <1>2 DEF Lawful, ClosedLaw, OpenLaw
<1>4. w.kids # <<>> => Len(w.kids) \in 1 .. Len(w.kids)
  BY <1>1
<1>5. w.kids # <<>> => LawfulLeft(AdvanceLast(w), w)
  BY <1>4, AdvanceLawful DEF AdvanceLast
<1>6. w.kids = <<>> => Touched(w, Devices) = {}
  BY DEF Touched, KidsOfPhase
<1>7. /\ Kept(w, NoCode) = w.code
      /\ Kept(w, "ROLLBACK_INCOMPLETE") = "ROLLBACK_INCOMPLETE"
      /\ Kept(w, "STRANDED_RUN_EXPIRED") = "STRANDED_RUN_EXPIRED"
  BY DEF Kept, NoCode
<1>8. "SUCCEEDED" \in Terminal /\ "FAILED" \in Terminal
  BY DEF Terminal
<1>9. LawfulLeft(RepairFresh(w), w)
  <2>1. CASE w.kids # <<>>
    BY <1>5, <2>1 DEF RepairFresh
  <2>2. CASE w.kids = <<>>
    <3>1. w.plan = <<>>
      BY <2>2 DEF Begun
    <3>2. RepairFresh(w) = Left(CloseRun(w, "SUCCEEDED", NoCode))
      BY <2>2, <3>1 DEF RepairFresh
    <3>3. ~Returning(w) /\ \A k \in 1 .. Len(w.kids) : Shown(w, k)
      BY <2>2, <3>1 DEF Returning
    <3>4. Lawful(CloseRun(w, "SUCCEEDED", NoCode)) /\ Follows(w, CloseRun(w, "SUCCEEDED", NoCode))
      BY <1>3, <1>7, <1>8, <3>3, CloseLawful DEF IncompleteLaw
    <3> QED
      BY <3>2, <3>4, LeftLawful
  <2> QED
    BY <2>1, <2>2
<1>10. LawfulLeft(RepairExpired(w), w)
  <2>1. CASE w.phase = PhaseRollback /\ ~w.dry
    <3>1. CASE w.kids # <<>>
      BY <1>5, <2>1, <3>1 DEF RepairExpired
    <3>2. CASE w.kids = <<>>
      <4>1. RepairExpired(w) = Left(CloseRun(w, "FAILED", "ROLLBACK_INCOMPLETE"))
        BY <2>1, <3>2 DEF RepairExpired
      <4>2. w.cause \in CauseCodes
        BY <1>3, <2>1 DEF Base, CauseSet
      <4>3. /\ Lawful(CloseRun(w, "FAILED", "ROLLBACK_INCOMPLETE"))
            /\ Follows(w, CloseRun(w, "FAILED", "ROLLBACK_INCOMPLETE"))
        BY <1>3, <1>7, <1>8, <2>1, <4>2, CloseLawful
      <4> QED
        BY <4>1, <4>3, LeftLawful
    <3> QED
      BY <3>1, <3>2
  <2>2. CASE ~(w.phase = PhaseRollback /\ ~w.dry) /\ ~w.dry /\ LastIsFinal(w)
    <3>1. RepairExpired(w) = AdvanceLast(w)
      BY <2>2 DEF RepairExpired
    <3>2. w.kids # <<>>
      BY <2>2 DEF LastIsFinal
    <3> QED
      BY <1>5, <3>1, <3>2
  <2>3. CASE /\ ~(w.phase = PhaseRollback /\ ~w.dry) /\ ~(~w.dry /\ LastIsFinal(w))
             /\ ~w.dry /\ w.phase \in {PhaseConfiguration, PhaseVerification}
    <3>1. RepairExpired(w) = Left(EnterRollback(w, "STRANDED_RUN_EXPIRED", FALSE))
      BY <2>3 DEF RepairExpired
    <3>2. "STRANDED_RUN_EXPIRED" \in CauseCodes
      BY DEF CauseCodes
    <3>3. /\ Lawful(EnterRollback(w, "STRANDED_RUN_EXPIRED", FALSE))
          /\ Follows(w, EnterRollback(w, "STRANDED_RUN_EXPIRED", FALSE))
      BY <1>2, <1>3, <2>3, <3>2, EnterRollbackLawful
    <3> QED
      BY <3>1, <3>3, LeftLawful
  <2>4. CASE /\ ~(w.phase = PhaseRollback /\ ~w.dry) /\ ~(~w.dry /\ LastIsFinal(w))
             /\ ~(~w.dry /\ w.phase \in {PhaseConfiguration, PhaseVerification})
    <3>1. RepairExpired(w) = Left(CloseRun(w, "FAILED", "STRANDED_RUN_EXPIRED"))
      BY <2>4 DEF RepairExpired
    <3>2. ~w.dry => Touched(w, Devices) = {}
      <4>1. w.phase \in Phases \cup {NoPhase}
        BY <1>1 DEF Run
      <4>2. ~w.dry => w.phase \in {NoPhase, PhasePreconditions}
        BY <2>4, <4>1 DEF Phases
      <4>3. ~w.dry /\ w.kids # <<>> => Touched(w, Devices) = {}
        BY <1>3, <1>4, <4>2, StandsAt
      <4> QED
        BY <1>6, <4>3
    <3>3. /\ Lawful(CloseRun(w, "FAILED", "STRANDED_RUN_EXPIRED"))
          /\ Follows(w, CloseRun(w, "FAILED", "STRANDED_RUN_EXPIRED"))
      BY <1>3, <1>7, <1>8, <3>2, CloseLawful
    <3> QED
      BY <3>1, <3>3, LeftLawful
  <2> QED
    BY <2>1, <2>2, <2>3, <2>4
<1> QED
  BY <1>9, <1>10

(* What reopening leaves of a row that has noted its cause. *)
LEMMA ReopenedFields ==
  ASSUME NEW w, WellFormed(w), Base(w), LiveKids(w) = {}, w.phase # NoPhase,
         w.cause \in CauseCodes
  PROVE  LET o == Reopened(w)
         IN  /\ WellFormed(o) /\ Base(o) /\ Follows(w, o) /\ LiveKids(o) = {}
             /\ o.kids = w.kids /\ o.plan = w.plan /\ o.phase = PhaseRollback
             /\ o.status \in InFlight /\ o.code = w.code /\ o.cause = w.cause
             /\ o.dry = w.dry /\ o.outbox = w.outbox /\ o.outputs = w.outputs
<1> DEFINE o == Reopened(w)
<1>1. w \in Run
  BY DEF WellFormed
<1>2. /\ o.kids = w.kids /\ o.plan = w.plan /\ o.phase = PhaseRollback
      /\ o.code = w.code /\ o.cause = w.cause
      /\ o.dry = w.dry /\ o.outbox = w.outbox /\ o.outputs = w.outputs
  BY <1>1 DEF Reopened, Run
<1>3. WellFormed(o) /\ o.status \in InFlight /\ LiveKids(o) = {}
  BY ReopenedWellFormed
<1> HIDE DEF o
<1>4. Base(o)
  BY <1>2, SameBase
<1>5. Follows(w, o)
  BY <1>2, SameFollows
<1> QED
  BY <1>2, <1>3, <1>4, <1>5 DEF o

(* revert_run, of a live run that succeeded. *)
LEMMA RevertedLawful ==
  ASSUME NEW w, WellFormed(w), Lawful(w), w.status = "SUCCEEDED", ~w.dry,
         w.phase # NoPhase
  PROVE  Lawful(Reverted(w)) /\ Follows(w, Reverted(w))
<1> DEFINE c == SetCause(w, "REVERTED")
           o == Reopened(c)
           v == Reverted(w)
<1>1. LiveKids(w) = {} /\ w.status \in Terminal /\ Base(w) /\ "REVERTED" \in CauseCodes
  BY DEF WellFormed, OneLive, Terminal, Lawful, CauseCodes
<1>2. /\ WellFormed(c) /\ Base(c) /\ Follows(w, c)
      /\ c.phase = w.phase /\ c.code = "REVERTED" /\ c.cause = "REVERTED"
      /\ c.dry = w.dry /\ c.outbox = w.outbox /\ LiveKids(c) = {}
  BY <1>1, SetCauseFields
<1>3. v = CloseAfterRollbackPlanned(o, RecordRollback(o, Devices))
  BY DEF Reverted
<1>4. WellFormed(v)
  BY <1>1, RevertedWellFormed
<1> HIDE DEF c, v
<1>5. /\ WellFormed(o) /\ Base(o) /\ Follows(c, o) /\ LiveKids(o) = {}
      /\ o.status \in InFlight /\ o.code = c.code /\ o.cause = c.cause
      /\ o.dry = c.dry /\ o.outbox = c.outbox
  BY <1>1, <1>2, ReopenedFields
<1> HIDE DEF o
<1>6. Lawful(v) /\ Follows(o, v)
  BY <1>1, <1>2, <1>3, <1>5, PlannedLawful
<1>7. Follows(c, v)
  BY <1>2, <1>4, <1>5, <1>6, FollowsTrans
<1>8. Follows(w, v)
  BY <1>2, <1>4, <1>7, FollowsTrans
<1> QED
  BY <1>6, <1>8 DEF v

(***************************************************************************)
(* retry_rollback, of a live run whose rollback was incomplete: the code   *)
(* is the cause again while the rollback is tried again.                   *)
(***************************************************************************)
LEMMA RetriedLawful ==
  ASSUME NEW w, WellFormed(w), Lawful(w), w.status = "FAILED",
         w.code = "ROLLBACK_INCOMPLETE", w.phase # NoPhase
  PROVE  Lawful(Retried(w)) /\ Follows(w, Retried(w))
<1> DEFINE o == Reopened(w)
           c == [o EXCEPT !.code = IF w.cause = NoCode THEN @ ELSE w.cause]
           items == RetryItems(w)
           p == RecordRollback(c, items)
           n == Len(w.plan) + 1
           v == Retried(w)
<1>1. LiveKids(w) = {} /\ w.status \in Terminal /\ Base(w)
  BY DEF WellFormed, OneLive, Terminal, Lawful
<1>2. ~w.dry /\ w.cause \in CauseCodes
  BY DEF Lawful, ClosedLaw, IncompleteLaw
<1>3. w.cause # NoCode
  BY <1>2 DEF CauseCodes, NoCode
<1>4. v = IF Len(w.plan) < Len(p.plan) THEN QueueChild(p, n) ELSE FinishRollback(p)
  BY DEF Retried
<1>5. WellFormed(v)
  BY <1>1, RetriedWellFormed
<1>6. /\ WellFormed(o) /\ Base(o) /\ Follows(w, o) /\ LiveKids(o) = {}
      /\ o.kids = w.kids /\ o.plan = w.plan /\ o.phase = PhaseRollback
      /\ o.status \in InFlight /\ o.cause = w.cause
      /\ o.dry = w.dry /\ o.outbox = w.outbox
  BY <1>1, <1>2, ReopenedFields
<1> HIDE DEF o, v, items
<1>7. /\ c \in Run /\ c.kids = o.kids /\ c.plan = o.plan /\ c.status = o.status
      /\ c.phase = o.phase /\ c.code = w.cause /\ c.cause = o.cause /\ c.dry = o.dry
      /\ c.outputs = o.outputs /\ c.outbox = o.outbox
  BY <1>2, <1>3, <1>6 DEF WellFormed, Run, Codes
<1> HIDE DEF c
<1>8. WellFormed(c) /\ Base(c) /\ LiveKids(c) = {}
  BY <1>6, <1>7, SameChildren, SameBase, SameReading
<1>9. Follows(w, c) /\ c.outbox = w.outbox /\ c.plan = w.plan /\ c.kids = w.kids
      /\ ~c.dry /\ c.code = w.cause /\ c.cause = w.cause
  BY <1>2, <1>6, <1>7, SameFollows
<1>10. /\ WellFormed(p) /\ Len(c.plan) \in Nat /\ Len(p.plan) \in Nat
  BY <1>8, RecordRollbackWellFormed
<1>11. /\ Base(p) /\ Follows(c, p)
       /\ p.kids = c.kids /\ p.phase = c.phase /\ p.status = c.status
       /\ p.code = c.code /\ p.cause = c.cause /\ p.dry = c.dry
       /\ p.outbox = c.outbox
       /\ \A i \in 1 .. Len(p.plan) : i > Len(c.plan) => p.plan[i].phase = PhaseRollback
  BY <1>2, <1>8, <1>9, RecordFields
<1> HIDE DEF p
<1>12. Lawful(v) /\ Follows(p, v)
  <2>1. CASE Len(w.plan) < Len(p.plan)
    <3>1. v = QueueChild(p, n) /\ p \in Run
      BY <1>4, <1>10, <2>1 DEF WellFormed
    <3>2. n \in 1 .. Len(p.plan) /\ n > Len(c.plan)
      BY <1>9, <1>10, <2>1
    <3>3. p.plan[n].phase = PhaseRollback /\ PhaseRollback # NoPhase
      BY <1>11, <3>2 DEF PhaseRollback, NoPhase
    <3>4. /\ v.kids = Append(p.kids, NewJob(n)) /\ v.plan = p.plan
          /\ v.outputs = p.outputs /\ v.status = p.status /\ v.phase = p.plan[n].phase
          /\ v.code = p.code /\ v.cause = p.cause /\ v.dry = p.dry /\ v.outbox = p.outbox
      BY <3>1, <3>3, QueueChildFields
    <3>5. Returning(p)
      BY <1>9, <1>11, <3>2, <3>3 DEF Returning
    <3>6. \A k \in 1 .. Len(p.kids) : p.kids[k].position < n
      <4>1. \A k \in 1 .. Len(w.kids) : w.kids[k].position \in 1 .. Len(w.plan)
        BY DEF WellFormed, AlongThePlan
      <4> QED
        BY <1>9, <1>10, <1>11, <4>1
    <3> HIDE DEF n
    <3>7. IncompleteLaw(p) /\ p.status \in InFlight /\ ~p.dry /\ p.code = p.cause
      BY <1>2, <1>6, <1>7, <1>9, <1>11 DEF IncompleteLaw
    <3> QED
      BY <1>10, <1>11, <3>2, <3>3, <3>4, <3>5, <3>6, <3>7, QueueLawful
  <2>2. CASE ~(Len(w.plan) < Len(p.plan))
    <3>1. v = FinishRollback(p)
      BY <1>4, <2>2
    <3> QED
      BY <1>2, <1>9, <1>10, <1>11, <3>1, FinishRollbackLawful
  <2> QED
    BY <2>1, <2>2
<1>13. Follows(c, v)
  BY <1>5, <1>8, <1>10, <1>11, <1>12, FollowsTrans
<1>14. Follows(w, v)
  BY <1>5, <1>8, <1>9, <1>13, FollowsTrans
<1> QED
  BY <1>12, <1>14 DEF v

-----------------------------------------------------------------------------
(* What the log of a job admits.                                           *)

(* The steps logged as having reached the device, or perhaps to have. *)
Reached(job) ==
  {e.name : e \in {x \in job.log : \/ x.status = "SUCCEEDED"
                                   \/ x.status = "FAILED" /\ x.stage = "command"}}

(* ... and, once the job has ended, everything a rollback would go by. *)
Marked(job) == IF IsLive(job) THEN Reached(job) ELSE RanSteps(job)

(* A job in a step, or parked at one, has that step's name on record. *)
StepKnown(e, job) ==
  /\ job.inflight # NoStep => job.inflight = JobSteps(e)[job.next].name
  /\ job.status = "PENDING_MANUAL" =>
       \E x \in job.log : x.status = "PENDING" /\ x.name = JobSteps(e)[job.next].name

(***************************************************************************)
(* What a step of a job may make of its row: it executes the same entry,   *)
(* knows its step, and forgets nothing that reached the device.            *)
(***************************************************************************)
Recorded(e, old, job) ==
  /\ job \in Job
  /\ job.position = old.position
  /\ IsLive(old) \/ job = old
  /\ IsLive(old) => job.status # "ROLLED_BACK"
  /\ job.inflight # NoStep \/ job.status = "PENDING_MANUAL" => job.next <= Len(JobSteps(e))
  /\ StepKnown(e, job)
  /\ Marked(old) \cap Names \subseteq Marked(job)

(* Everything that reached the device counts as run. *)
LEMMA ReachedRan ==
  ASSUME NEW job \in Job
  PROVE  Reached(job) \cap Names \subseteq RanSteps(job)
<1>1. SUFFICES ASSUME NEW x \in job.log, x.name \in Names,
                      x.status = "SUCCEEDED" \/ (x.status = "FAILED" /\ x.stage = "command")
               PROVE  x.name \in RanSteps(job)
  BY DEF Reached
<1>2. x.name \in LoggedSteps(job)
  BY <1>1 DEF LoggedSteps
<1>3. x.name # NoStep /\ x.name # SessionProbeName
  BY <1>1, RunPlanAssumption DEF StepNames
<1> QED
  BY <1>2, <1>3 DEF RanSteps

(* Logging a step. *)
LEMMA LoggedRecords ==
  ASSUME NEW e, NEW old \in Job, IsLive(old), NEW job \in Job, IsLive(job),
         job.position = old.position, job.status # "PENDING_MANUAL",
         Reached(old) \subseteq Reached(job),
         NEW step, step.name \in StepNames,
         NEW status \in {"SUCCEEDED", "FAILED", "SKIPPED"},
         NEW stage \in {"connect", "render", "command"}
  PROVE  LET l == Logged(job, step, status, stage)
         IN  /\ Recorded(e, old, l)
             /\ status = "SUCCEEDED" \/ (status = "FAILED" /\ stage = "command")
                  => step.name \in Marked(l)
<1> DEFINE l == Logged(job, step, status, stage)
           line == [name |-> step.name, status |-> status, stage |-> stage]
<1>1. /\ l \in Job /\ l.position = job.position /\ l.status = job.status
      /\ l.inflight = NoStep
  <2>1. status \in {"SUCCEEDED", "FAILED", "SKIPPED", "PENDING"}
    OBVIOUS
  <2> QED
    BY <2>1, LoggedType
<1>2. l.log = job.log \cup {line}
  BY DEF Logged, Job
<1> HIDE DEF l
<1>3. line.name = step.name /\ line.status = status /\ line.stage = stage
  OBVIOUS
<1> HIDE DEF line
<1>4. Reached(job) \subseteq Reached(l)
  BY <1>2 DEF Reached
<1>5. status = "SUCCEEDED" \/ (status = "FAILED" /\ stage = "command")
        => step.name \in Reached(l)
  BY <1>2, <1>3 DEF Reached
<1>6. Marked(l) = Reached(l) /\ Marked(old) = Reached(old)
  BY <1>1 DEF Marked, IsLive
<1>7. job.status # "ROLLED_BACK"
  BY DEF IsLive, InFlight
<1>8. Recorded(e, old, l)
  BY <1>1, <1>4, <1>6, <1>7 DEF Recorded, StepKnown
<1> QED
  BY <1>5, <1>6, <1>8 DEF l

(* Ending a job: the step it was in counts as run unless it succeeded. *)
LEMMA FinishedRecords ==
  ASSUME NEW e, NEW old \in Job, IsLive(old), NEW job \in Job,
         job.position = old.position, Reached(old) \subseteq Reached(job),
         NEW status \in {"SUCCEEDED", "FAILED"}
  PROVE  LET f == FinishedJob(job, status)
         IN  /\ Recorded(e, old, f)
             /\ status = "FAILED" /\ job.inflight \in Names => job.inflight \in Marked(f)
             /\ Reached(job) \cap Names \subseteq Marked(f)
<1> DEFINE f == FinishedJob(job, status)
           u == Unclaimed(job)
           cut == IF status # "SUCCEEDED" /\ job.inflight # NoStep
                  THEN job.inflight ELSE job.interrupted
<1>1. u \in Job /\ u.position = job.position /\ u.inflight = NoStep
  BY UnclaimedType
<1>2. u.log = job.log
  BY DEF Unclaimed, Job
<1> HIDE DEF u
<1>3. cut \in StepNames \cup {NoStep} /\ status \in InFlight \cup Terminal
  BY DEF Job, Terminal
<1>4. f = [u EXCEPT !.status = status, !.interrupted = cut]
  BY DEF FinishedJob, u
<1>5. status = "FAILED" /\ job.inflight \in Names => cut = job.inflight
  BY RunPlanAssumption DEF StepNames
<1> HIDE DEF cut, f
<1>6. /\ f \in Job /\ f.position = u.position /\ f.log = u.log /\ f.status = status
      /\ f.inflight = NoStep /\ f.interrupted = cut
  BY <1>1, <1>3, <1>4 DEF Job
<1>7. Reached(f) = Reached(job)
  BY <1>2, <1>6 DEF Reached
<1>8. Marked(f) = RanSteps(f) /\ Marked(old) = Reached(old)
  BY <1>6 DEF Marked, IsLive, InFlight
<1>9. Reached(job) \cap Names \subseteq Marked(f)
  BY <1>6, <1>7, <1>8, ReachedRan
<1>10. Recorded(e, old, f)
  BY <1>1, <1>6, <1>8, <1>9 DEF Recorded, StepKnown
<1>11. status = "FAILED" /\ job.inflight \in Names => job.inflight \in Marked(f)
  BY <1>5, <1>6, <1>8, RunPlanAssumption DEF RanSteps, StepNames
<1> QED
  BY <1>9, <1>10, <1>11 DEF f

(* Failing a pause: the pending entry of a manual step counts as reached. *)
LEMMA PendingRecords ==
  ASSUME NEW job \in Job
  PROVE  LET p == PendingFailed(job)
         IN  /\ p \in Job /\ p.position = job.position /\ Reached(job) \subseteq Reached(p)
             /\ \A x \in job.log : x.status = "PENDING" /\ job.parked # "guided"
                  => x.name \in Reached(p)
<1> DEFINE stage == IF job.parked = "guided" THEN "render" ELSE "command"
           failed == {[x EXCEPT !.status = "FAILED", !.stage = stage] :
                        x \in job.log \ NotPending(job.log)}
           log == NotPending(job.log) \cup failed
           p == PendingFailed(job)
<1>1. job.log \subseteq LogEntry
  BY DEF Job
<1>2. stage \in {"connect", "render", "command"}
  OBVIOUS
<1>3. \A x \in LogEntry : LET y == [x EXCEPT !.status = "FAILED", !.stage = stage]
                          IN  /\ y \in LogEntry /\ y.name = x.name /\ y.status = "FAILED"
                              /\ y.stage = stage
  BY <1>2 DEF LogEntry
<1>4. log \subseteq LogEntry
  BY <1>1, <1>3 DEF NotPending
<1>5. p = [job EXCEPT !.inflight = NoStep, !.log = log]
  BY DEF PendingFailed
<1>6. \A x \in job.log : x.status # "PENDING" => x \in log
  BY DEF NotPending
<1>7. \A x \in job.log : x.status = "PENDING" =>
        \E y \in log : y.name = x.name /\ y.status = "FAILED" /\ y.stage = stage
  <2>1. SUFFICES ASSUME NEW x \in job.log, x.status = "PENDING"
                 PROVE  \E y \in log : y.name = x.name /\ y.status = "FAILED" /\ y.stage = stage
    OBVIOUS
  <2>2. x \in job.log \ NotPending(job.log) /\ x \in LogEntry
    BY <1>1, <2>1 DEF NotPending
  <2> DEFINE y == [x EXCEPT !.status = "FAILED", !.stage = stage]
  <2>3. y \in log
    BY <2>2
  <2>4. y.name = x.name /\ y.status = "FAILED" /\ y.stage = stage
    BY <1>3, <2>2
  <2> QED
    BY <2>3, <2>4
<1> HIDE DEF log, p
<1>8. p \in Job /\ p.position = job.position /\ p.log = log
  BY <1>4, <1>5 DEF Job
<1>9. Reached(job) \subseteq Reached(p)
  BY <1>6, <1>8 DEF Reached
<1>10. \A x \in job.log : x.status = "PENDING" /\ job.parked # "guided"
         => x.name \in Reached(p)
  BY <1>7, <1>8 DEF Reached
<1> QED
  BY <1>8, <1>9, <1>10 DEF p

-----------------------------------------------------------------------------
(* The steps of a job.                                                     *)

(* What a transaction makes of the row after the child: finish_job's       *)
(* follow-ons, or only some of them.                                       *)
Carried(w, k, status, advances, emits) ==
  LET after == IF advances THEN AdvanceRun(w, k) ELSE Left(w)
  IN  IF emits THEN [after EXCEPT !.row.outbox = Append(@, JobFinished(status))] ELSE after

(* Child k of run r, with this row, admits a on the device. *)
Admits(r, k, job, a) ==
  /\ ~runs[r].dry
  /\ EntryOf(runs[r], k).phase \in {PhaseConfiguration, NoPhase}
  /\ a[1] = r /\ a[2] = EntryOf(runs[r], k).item /\ a[3] \in Marked(job)

(* A job at work: between its claim and its end, a pause included. *)
Busy(job) == job.status \in {"RUNNING", "PENDING_MANUAL"}

(***************************************************************************)
(* What a step of child k does, which leaves it as `job`: it acts on the   *)
(* device at most as the step it stands at would, and only at work; what   *)
(* it logs as done it did; it passes a step by skipping or doing it, and   *)
(* succeeds when it passed them all; it begins when its run's turn came.   *)
(***************************************************************************)
Does(r, k, job) ==
  LET old == runs[r].kids[k]
      did == old.next <= Len(StepsOf(r, k)) /\ applied' = Acted(r, k, StepAt(r, k))
  IN  /\ applied' = applied \/ (Busy(old) /\ did)
      /\ \A x \in job.log : x.status = "SUCCEEDED" =>
           x \in old.log \/ (x.name = StepAt(r, k).name /\ did)
      /\ IsLive(job) => \/ job.next = old.next
                        \/ /\ job.next = old.next + 1
                           /\ old.next <= Len(StepsOf(r, k))
                           /\ SkippedByPlan(r, k) \/ did
      /\ IsLive(old) /\ job.status = "SUCCEEDED" => old.next > Len(StepsOf(r, k))
      /\ Busy(job) \/ job.log # {} => Busy(old) \/ old.log # {} \/ OldestOfService(r)

(* The shape of every step of a job: its row, then the run's. *)
JobMoves(r, k) ==
  \E job \in Job, status \in Terminal, advances \in BOOLEAN, emits \in BOOLEAN :
    /\ Recorded(EntryOf(runs[r], k), runs[r].kids[k], job)
    /\ Commit(r, Carried([runs[r] EXCEPT !.kids[k] = job], k, status, advances, emits))
    /\ version' = version
    /\ \A a \in applied' : a \in applied \/ Admits(r, k, job, a)
    /\ Does(r, k, job)

(* What a run knows of its children. *)
Known(w) ==
  /\ Begun(w)
  /\ \A k \in 1 .. Len(w.kids) : StepKnown(EntryOf(w, k), w.kids[k])

(* A worker's update of a job alone. *)
LEMMA UpdateMoves ==
  ASSUME IInv, NEW r \in RunIds, NEW k \in 1 .. Len(runs[r].kids), NEW job,
         Recorded(EntryOf(runs[r], k), runs[r].kids[k], job),
         UpdateJob(r, k, job), Does(r, k, job),
         \A a \in applied' : a \in applied \/ Admits(r, k, job, a)
  PROVE  JobMoves(r, k)
<1> DEFINE w == [runs[r] EXCEPT !.kids[k] = job]
<1>1. runs' = [runs EXCEPT ![r] = w] /\ version' = version /\ lastDry' = lastDry /\ drift' = drift
  BY DEF UpdateJob
<1>2. lastDry = [d \in Devices |-> lastDry[d]]
  BY DEF IInv, TablesOK
<1> HIDE DEF w
<1>3. Commit(r, Left(w))
  BY <1>1, <1>2 DEF Commit, Left
<1>4. Carried(w, k, "FAILED", FALSE, FALSE) = Left(w)
  BY DEF Carried
<1>5. "FAILED" \in Terminal /\ job \in Job
  BY DEF Terminal, Recorded
<1>6. Commit(r, Carried(w, k, "FAILED", FALSE, FALSE))
  BY <1>3, <1>4
<1> QED
  BY <1>1, <1>5, <1>6 DEF JobMoves, w

(* A terminal transition. *)
LEMMA SettleMoves ==
  ASSUME IInv, NEW r \in RunIds, NEW k \in 1 .. Len(runs[r].kids), NEW job, NEW w,
         NEW status \in Terminal, NEW spent,
         Recorded(EntryOf(runs[r], k), runs[r].kids[k], job),
         Finished(w, k, status) = [runs[r] EXCEPT !.kids[k] = job],
         SettleJob(r, k, w, status, spent), Does(r, k, job),
         \A a \in applied' : a \in applied \/ Admits(r, k, job, a)
  PROVE  JobMoves(r, k)
<1>1. PICK advances \in BOOLEAN, emits \in BOOLEAN :
        Commit(r, FinishJob(w, k, status, advances, emits)) /\ version' = version
  BY DEF SettleJob
<1>2. FinishJob(w, k, status, advances, emits)
        = Carried([runs[r] EXCEPT !.kids[k] = job], k, status, advances, emits)
  BY DEF FinishJob, Carried
<1>3. job \in Job
  BY DEF Recorded
<1> QED
  BY <1>1, <1>2, <1>3 DEF JobMoves

(* What the step leaves on the device is admitted by a log that names it. *)
LEMMA ActedAdmitted ==
  ASSUME IInv, NEW r \in RunIds, NEW k \in 1 .. Len(runs[r].kids),
         runs[r].kids[k].next <= Len(StepsOf(r, k)), NEW job,
         StepAt(r, k).name \in Names => StepAt(r, k).name \in Marked(job)
  PROVE  \A a \in Acted(r, k, StepAt(r, k)) : a \in applied \/ Admits(r, k, job, a)
<1> DEFINE e == EntryOf(runs[r], k)
           name == StepAt(r, k).name
<1>1. e \in Entry /\ runs[r].kids[k].next \in 1 .. Len(StepsOf(r, k))
  BY JobFacts, EntryOfType, StepAtType
<1>2. Configures(e, StepAt(r, k)) => name \in Names /\ e.phase \in {PhaseConfiguration, NoPhase}
  BY <1>1, StepNameType, ConfiguresType DEF StepAt, StepsOf
<1>3. \A a \in Acted(r, k, StepAt(r, k)) :
        a \in applied \/ (~runs[r].dry /\ Configures(e, StepAt(r, k)) /\ a = <<r, e.item, name>>)
  BY DEF Acted
<1> HIDE DEF name, e
<1>4. Configures(e, StepAt(r, k)) =>
        name \in Marked(job) /\ e.phase \in {PhaseConfiguration, NoPhase}
  BY <1>2 DEF name
<1> QED
  BY <1>3, <1>4 DEF Admits, e

(* A run whose child is written twice in a transaction. *)
LEMMA KidTwice ==
  ASSUME NEW w \in Run, NEW k \in 1 .. Len(w.kids), NEW a, NEW b
  PROVE  [[w EXCEPT !.kids[k] = a] EXCEPT !.kids[k] = b] = [w EXCEPT !.kids[k] = b]
<1>1. w.kids \in Seq(Job)
  BY DEF Run
<1>2. [[w.kids EXCEPT ![k] = a] EXCEPT ![k] = b] = [w.kids EXCEPT ![k] = b]
  BY <1>1
<1> QED
  BY <1>2 DEF Run

(* Cancelling a job: what it logged, pending entries included, counts as run. *)
LEMMA CancelledRecords ==
  ASSUME NEW e, NEW old \in Job, IsLive(old)
  PROVE  LET c == [Unclaimed(old) EXCEPT !.status = "CANCELLED"]
         IN  /\ Recorded(e, old, c)
             /\ \A x \in old.log : x.status = "PENDING" /\ x.name \in Names
                  => x.name \in Marked(c)
<1> DEFINE u == Unclaimed(old)
           c == [u EXCEPT !.status = "CANCELLED"]
<1>1. u \in Job /\ u.position = old.position /\ u.inflight = NoStep
  BY UnclaimedType
<1>2. u.log = old.log
  BY DEF Unclaimed, Job
<1> HIDE DEF u
<1>3. c \in Job /\ c.position = u.position /\ c.inflight = NoStep /\ c.log = u.log
      /\ c.status = "CANCELLED"
  BY <1>1 DEF Job, Terminal
<1> HIDE DEF c
<1>4. Marked(c) = RanSteps(c) /\ Marked(old) = Reached(old) /\ Reached(c) = Reached(old)
  BY <1>2, <1>3 DEF Marked, IsLive, InFlight, Reached
<1>5. Reached(c) \cap Names \subseteq RanSteps(c)
  BY <1>3, ReachedRan
<1>6. Recorded(e, old, c)
  BY <1>1, <1>3, <1>4, <1>5 DEF Recorded, StepKnown
<1>7. \A x \in old.log : x.status = "PENDING" /\ x.name \in Names => x.name \in Marked(c)
  <2>1. SUFFICES ASSUME NEW x \in old.log, x.status = "PENDING", x.name \in Names
                 PROVE  x.name \in RanSteps(c)
    BY <1>4
  <2>2. x.name \in LoggedSteps(c)
    BY <1>2, <1>3, <2>1 DEF LoggedSteps
  <2>3. x.name # NoStep /\ x.name # SessionProbeName
    BY <2>1, RunPlanAssumption DEF StepNames
  <2> QED
    BY <2>2, <2>3 DEF RanSteps
<1> QED
  BY <1>6, <1>7 DEF c, u

(* What a log entry more, and the end, make of a job. *)
LEMMA LoggedFields ==
  ASSUME NEW job \in Job, NEW step, NEW status, NEW stage
  PROVE  LET l == Logged(job, step, status, stage)
         IN  /\ l.status = job.status
             /\ l.next = IF status = "FAILED" THEN job.next ELSE job.next + 1
             /\ \A x \in l.log : x \in job.log \/ (x.name = step.name /\ x.status = status)
BY DEF Logged, Job

LEMMA FinishedFields ==
  ASSUME NEW job \in Job, NEW status
  PROVE  LET f == FinishedJob(job, status) IN f.status = status /\ f.log = job.log
BY DEF FinishedJob, Unclaimed, Job

LEMMA CancelledFields ==
  ASSUME NEW job \in Job
  PROVE  LET c == [Unclaimed(job) EXCEPT !.status = "CANCELLED"]
         IN  c.status = "CANCELLED" /\ c.log = job.log
BY DEF Unclaimed, Job

LEMMA PendingFailedFields ==
  ASSUME NEW job \in Job
  PROVE  \A x \in PendingFailed(job).log : x \in job.log \/ x.status = "FAILED"
<1>1. PendingFailed(job).log = NotPending(job.log) \cup
        {[e EXCEPT !.status = "FAILED",
                   !.stage = IF job.parked = "guided" THEN "render" ELSE "command"] :
           e \in job.log \ NotPending(job.log)}
  BY DEF PendingFailed, Job
<1>2. \A e \in job.log : e \in LogEntry
  BY DEF Job
<1> QED
  BY <1>1, <1>2 DEF NotPending, LogEntry

(* A job that ends without succeeding, or only moves between states. *)
LEMMA DoesLittle ==
  ASSUME NEW r, NEW k, NEW job, Busy(runs[r].kids[k]) \/ runs[r].kids[k].log # {} \/ OldestOfService(r)
                                \/ ~(Busy(job) \/ job.log # {}),
         \/ applied' = applied
         \/ /\ Busy(runs[r].kids[k]) /\ runs[r].kids[k].next <= Len(StepsOf(r, k))
            /\ applied' = Acted(r, k, StepAt(r, k)),
         \A x \in job.log : x.status = "SUCCEEDED" => x \in runs[r].kids[k].log,
         IsLive(job) => job.next = runs[r].kids[k].next,
         IsLive(runs[r].kids[k]) => job.status # "SUCCEEDED"
  PROVE  Does(r, k, job)
BY DEF Does

(***************************************************************************)
(* Every step of a job has that shape.                                     *)
(***************************************************************************)
LEMMA JobStepMoves ==
  ASSUME IInv, NEW r \in RunIds, NEW k \in 1 .. Len(runs[r].kids), Known(runs[r]),
         JobStep(r, k)
  PROVE  JobMoves(r, k)
<1> DEFINE job == runs[r].kids[k]
           e == EntryOf(runs[r], k)
           step == StepAt(r, k)
<1>1. WellFormed(runs[r]) /\ job \in Job /\ runs[r].dry \in BOOLEAN
  BY JobFacts
<1>2. job.inflight # NoStep \/ job.status = "PENDING_MANUAL"
        => job.next <= Len(StepsOf(r, k))
  BY JobFacts
<1>3. job.next <= Len(StepsOf(r, k)) => step.name \in StepNames
  BY StepAtType
<1>4. job.status \in {"QUEUED", "RUNNING", "PENDING_MANUAL"} => IsLive(job)
  BY DEF IsLive, InFlight
<1>5. StepsOf(r, k) = JobSteps(e) /\ step = JobSteps(e)[job.next]
  BY DEF StepsOf, StepAt
<1>6. StepKnown(e, job)
  BY DEF Known
<1>7. runs[r] \in Run
  BY <1>1 DEF WellFormed
<1>8. {"FAILED", "SUCCEEDED"} \subseteq Terminal
  BY DEF Terminal
<1>9. IsLive(job) => Marked(job) = Reached(job)
  BY DEF Marked
<1>10. \A new : (step.name \in Names => step.name \in Marked(new)) /\ job.next <= Len(StepsOf(r, k))
         => \A a \in Acted(r, k, step) : a \in applied \/ Admits(r, k, new, a)
  BY ActedAdmitted
<1>z. job.status = "RUNNING" \/ job.status = "PENDING_MANUAL" => Busy(job)
  BY DEF Busy
<1> HIDE DEF step, e
<1>11. CASE Claim(r, k)
  <2> DEFINE new == [job EXCEPT !.status = "RUNNING", !.lock = ~runs[r].dry,
                                !.attempts = job.attempts + 1, !.failed = FALSE]
  <2>1. UpdateJob(r, k, new) /\ applied' = applied /\ job.status = "QUEUED" /\ OldestOfService(r)
    BY <1>11 DEF Claim
  <2>a. job.attempts \in Nat
    BY <1>1 DEF Job
  <2>2. job.attempts + 1 \in Nat /\ (~runs[r].dry) \in BOOLEAN /\ "RUNNING" \in InFlight
    <3> HIDE DEF job
    <3> QED
      BY <2>a DEF InFlight
  <2>3. /\ new \in Job /\ new.position = job.position /\ new.status = "RUNNING"
        /\ new.inflight = job.inflight /\ new.next = job.next /\ new.log = job.log
    BY <1>1, <2>2, Zenon DEF Job
  <2> HIDE DEF new
  <2>4. IsLive(job) /\ IsLive(new) /\ Reached(new) = Reached(job)
    BY <2>1, <2>3 DEF IsLive, InFlight, Reached
  <2>5. Recorded(e, job, new)
    BY <1>1, <1>2, <1>5, <1>6, <2>3, <2>4 DEF Recorded, StepKnown, Marked
  <2>6. Does(r, k, new)
    BY <2>1, <2>3, DoesLittle
  <2> QED
    BY <2>1, <2>5, <2>6, UpdateMoves DEF e
<1>12. CASE RefuseClaim(r, k)
  <2>1. SettleJob(r, k, runs[r], "FAILED", 0) /\ applied' = applied /\ IsLive(job)
    BY <1>4, <1>12 DEF RefuseClaim
  <2>2. Recorded(e, job, FinishedJob(job, "FAILED"))
    BY <1>1, <2>1, FinishedRecords
  <2>3. Finished(runs[r], k, "FAILED") = [runs[r] EXCEPT !.kids[k] = FinishedJob(job, "FAILED")]
    BY DEF Finished
  <2>4. Does(r, k, FinishedJob(job, "FAILED"))
    BY <1>1, <2>1, FinishedFields, DoesLittle DEF IsLive, InFlight, Busy
  <2> QED
    BY <1>8, <2>1, <2>2, <2>3, <2>4, SettleMoves DEF e
<1>13. CASE SkipStep(r, k)
  <2> DEFINE new == Logged(job, step, "SKIPPED", "render")
  <2>1. AtStep(r, k) /\ UpdateJob(r, k, new) /\ applied' = applied
    BY <1>13 DEF SkipStep, step
  <2>2. job.status = "RUNNING" /\ job.next <= Len(StepsOf(r, k))
    BY <2>1 DEF AtStep
  <2>3. Recorded(e, job, new)
    BY <1>1, <1>3, <1>4, <2>2, LoggedRecords
  <2>4. /\ new.status = job.status /\ new.next = job.next + 1
        /\ \A x \in new.log : x \in job.log \/ (x.name = step.name /\ x.status = "SKIPPED")
    BY <1>1, LoggedFields
  <2>5. SkippedByPlan(r, k)
    BY <1>13 DEF SkipStep
  <2> HIDE DEF new
  <2>6. Does(r, k, new)
    BY <1>z, <2>1, <2>2, <2>4, <2>5 DEF Does
  <2> QED
    BY <2>1, <2>3, <2>6, UpdateMoves DEF e
<1>14. CASE StartStep(r, k)
  <2> DEFINE new == [job EXCEPT !.inflight = step.name]
  <2>1. AtStep(r, k) /\ UpdateJob(r, k, new) /\ applied' = applied
    BY <1>14 DEF StartStep, step
  <2>2. job.status = "RUNNING" /\ job.next <= Len(StepsOf(r, k)) /\ step.name \in StepNames
    BY <1>3, <2>1 DEF AtStep
  <2>3. /\ new \in Job /\ new.position = job.position /\ new.next = job.next
        /\ new.log = job.log /\ new.status = job.status /\ new.inflight = step.name
    BY <1>1, <2>2 DEF Job
  <2> HIDE DEF new
  <2>4. IsLive(job) /\ IsLive(new) /\ Reached(new) = Reached(job)
    BY <1>4, <2>2, <2>3 DEF IsLive, Reached
  <2>5. Recorded(e, job, new)
    BY <1>1, <1>5, <2>2, <2>3, <2>4 DEF Recorded, StepKnown, Marked
  <2>6. Does(r, k, new)
    BY <1>z, <2>1, <2>2, <2>3, DoesLittle
  <2> QED
    BY <2>1, <2>5, <2>6, UpdateMoves DEF e
<1>15. CASE EndStep(r, k)
  <2>1. job.status = "RUNNING" /\ job.next <= Len(StepsOf(r, k)) /\ IsLive(job)
    BY <1>2, <1>4, <1>15 DEF EndStep
  <2>2. PICK status \in {"SUCCEEDED", "FAILED"}, stage \in {"connect", "command"} :
          /\ UpdateJob(r, k, Logged(job, step, status, stage))
          /\ \/ applied' = applied /\ status = "FAILED"
             \/ stage = "command" /\ applied' = Acted(r, k, step)
    BY <1>15 DEF EndStep, MayHaveActed, step
  <2> DEFINE new == Logged(job, step, status, stage)
  <2>3. Recorded(e, job, new) /\ (stage = "command" => step.name \in Marked(new))
    <3>1. /\ status \in {"SUCCEEDED", "FAILED", "SKIPPED"}
          /\ stage \in {"connect", "render", "command"}
      OBVIOUS
    <3> QED
      BY <1>1, <1>3, <2>1, <3>1, LoggedRecords
  <2>4. UpdateJob(r, k, new)
    BY <2>2
  <2>6. /\ new.status = job.status
        /\ new.next = IF status = "FAILED" THEN job.next ELSE job.next + 1
        /\ \A x \in new.log : x \in job.log \/ (x.name = step.name /\ x.status = status)
    BY <1>1, LoggedFields
  <2> HIDE DEF new
  <2>5. \A a \in applied' : a \in applied \/ Admits(r, k, new, a)
    BY <1>10, <2>1, <2>2, <2>3
  <2>7. Does(r, k, new)
    BY <1>z, <2>1, <2>2, <2>6 DEF Does, step
  <2> QED
    BY <2>3, <2>4, <2>5, <2>7, UpdateMoves DEF e
<1>16. CASE Settle(r, k)
  <2>1. IsLive(job) /\ applied' = applied
    BY <1>4, <1>16 DEF Settle
  <2>2. PICK status \in {"SUCCEEDED", "FAILED"} :
          /\ SettleJob(r, k, runs[r], status, 0) /\ Busy(job)
          /\ status = "SUCCEEDED" => job.next > Len(StepsOf(r, k))
    BY <1>16, <1>z DEF Settle
  <2>3. Recorded(e, job, FinishedJob(job, status))
    BY <1>1, <2>1, FinishedRecords
  <2>4. Finished(runs[r], k, status) = [runs[r] EXCEPT !.kids[k] = FinishedJob(job, status)]
    BY DEF Finished
  <2>5. /\ FinishedJob(job, status).status = status /\ FinishedJob(job, status).log = job.log
        /\ ~IsLive(FinishedJob(job, status))
    BY <1>1, FinishedFields DEF IsLive, InFlight
  <2>6. Does(r, k, FinishedJob(job, status))
    BY <2>1, <2>2, <2>5 DEF Does
  <2> QED
    BY <1>8, <2>1, <2>2, <2>3, <2>4, <2>6, SettleMoves DEF e
<1>17. CASE ReapUnknown(r, k)
  <2> DEFINE new == FinishedJob(job, "FAILED")
  <2>1. /\ SettleJob(r, k, runs[r], "FAILED", 1) /\ job.inflight # NoStep /\ IsLive(job)
        /\ applied' \in {applied, Acted(r, k, step)} /\ Busy(job)
    BY <1>4, <1>17, <1>z DEF ReapUnknown, MayHaveActed, step
  <2>2. job.inflight = step.name /\ job.next <= Len(StepsOf(r, k))
    BY <1>2, <1>5, <1>6, <2>1 DEF StepKnown
  <2>3. Recorded(e, job, new) /\ (step.name \in Names => step.name \in Marked(new))
    BY <1>1, <2>1, <2>2, FinishedRecords
  <2>4. Finished(runs[r], k, "FAILED") = [runs[r] EXCEPT !.kids[k] = new]
    BY DEF Finished
  <2>6. new.status = "FAILED" /\ new.log = job.log /\ ~IsLive(new)
    BY <1>1, FinishedFields DEF IsLive, InFlight
  <2> HIDE DEF new
  <2>5. \A a \in applied' : a \in applied \/ Admits(r, k, new, a)
    BY <1>10, <2>1, <2>2, <2>3
  <2>7. Does(r, k, new)
    BY <2>1, <2>2, <2>6, DoesLittle DEF step
  <2> QED
    BY <1>8, <2>1, <2>3, <2>4, <2>5, <2>7, SettleMoves DEF e
<1>18. CASE Park(r, k)
  <2> DEFINE pending == [name |-> step.name, status |-> "PENDING", stage |-> "command"]
             why == IF runs[r].guided /\ job.parked # "continued" /\ e.phase # PhaseRollback
                    THEN "guided" ELSE "manual"
             log == job.log \cup {pending}
             new == [job EXCEPT !.status = "PENDING_MANUAL", !.log = log, !.parked = why]
  <2>1. AtStep(r, k) /\ UpdateJob(r, k, new) /\ applied' = applied
    BY <1>18 DEF Park, step, e
  <2>2. /\ job.status = "RUNNING" /\ job.next <= Len(StepsOf(r, k)) /\ step.name \in StepNames
        /\ job.inflight = NoStep /\ IsLive(job)
    BY <1>3, <1>4, <2>1 DEF AtStep
  <2>3. log \subseteq LogEntry
    <3>1. pending \in LogEntry
      BY <2>2 DEF LogEntry
    <3> QED
      BY <1>1, <3>1 DEF Job
  <2>4. why \in {"no", "manual", "guided", "continued"} /\ "PENDING_MANUAL" \in InFlight
    BY DEF InFlight
  <2>5. pending.name = step.name /\ pending.status = "PENDING" /\ pending \in log
    OBVIOUS
  <2>6. \A x \in job.log : x \in log
    OBVIOUS
  <2>a. \A x \in log : x \in job.log \/ x.status = "PENDING"
    OBVIOUS
  <2> HIDE DEF log, why, pending
  <2>7. /\ new \in Job /\ new.position = job.position /\ new.next = job.next
        /\ new.log = log /\ new.status = "PENDING_MANUAL" /\ new.inflight = job.inflight
    BY <1>1, <2>3, <2>4 DEF Job
  <2> HIDE DEF new
  <2>8. IsLive(new) /\ Reached(job) \subseteq Reached(new)
    BY <2>4, <2>6, <2>7 DEF IsLive, Reached
  <2>9. StepKnown(e, new)
    BY <1>5, <2>2, <2>5, <2>7 DEF StepKnown
  <2>10. Recorded(e, job, new)
    BY <1>1, <1>5, <2>2, <2>7, <2>8, <2>9 DEF Recorded, Marked
  <2>11. Does(r, k, new)
    BY <1>z, <2>1, <2>2, <2>7, <2>a, DoesLittle
  <2> QED
    BY <2>1, <2>10, <2>11, UpdateMoves DEF e
<1>19. CASE FailParked(r, k)
  <2> DEFINE p == PendingFailed(job)
             w == [runs[r] EXCEPT !.kids[k] = p]
             new == FinishedJob(p, "FAILED")
  <2>1. /\ SettleJob(r, k, w, "FAILED", 0) /\ job.status = "PENDING_MANUAL" /\ IsLive(job)
        /\ \/ applied' = applied
           \/ job.parked # "guided" /\ applied' \in {applied, Acted(r, k, step)}
    BY <1>4, <1>19 DEF FailParked, MayHaveActed, step
  <2>2. /\ p \in Job /\ p.position = job.position /\ Reached(job) \subseteq Reached(p)
        /\ \A x \in job.log : x.status = "PENDING" /\ job.parked # "guided" => x.name \in Reached(p)
    BY <1>1, PendingRecords
  <2>3. job.next <= Len(StepsOf(r, k)) /\ \E x \in job.log : x.status = "PENDING" /\ x.name = step.name
    BY <1>2, <1>5, <1>6, <2>1 DEF StepKnown
  <2>4. w.kids[k] = p
    BY <1>7, KidFields
  <2>a. \A x \in p.log : x \in job.log \/ x.status = "FAILED"
    BY <1>1, PendingFailedFields
  <2> HIDE DEF p
  <2>b. new.status = "FAILED" /\ new.log = p.log /\ ~IsLive(new)
    BY <2>2, FinishedFields DEF IsLive, InFlight
  <2>5. Recorded(e, job, new) /\ Reached(p) \cap Names \subseteq Marked(new)
    BY <1>1, <2>1, <2>2, FinishedRecords
  <2>6. Finished(w, k, "FAILED") = [w EXCEPT !.kids[k] = new]
    BY <2>4 DEF Finished
  <2>7. [w EXCEPT !.kids[k] = new] = [runs[r] EXCEPT !.kids[k] = new]
    BY <1>7, KidTwice, ZenonT(60)
  <2>8. Finished(w, k, "FAILED") = [runs[r] EXCEPT !.kids[k] = new]
    BY <2>6, <2>7
  <2> HIDE DEF new, w
  <2>9. job.parked # "guided" /\ step.name \in Names => step.name \in Marked(new)
    BY <2>2, <2>3, <2>5
  <2>10. \A a \in applied' : a \in applied \/ Admits(r, k, new, a)
    BY <1>10, <2>1, <2>3, <2>9
  <2>11. Does(r, k, new)
    BY <1>z, <2>1, <2>3, <2>a, <2>b, DoesLittle DEF step
  <2> QED
    BY <1>8, <2>1, <2>5, <2>8, <2>10, <2>11, SettleMoves DEF e
<1>20. CASE Requeue(r, k)
  <2> DEFINE queued == [job EXCEPT !.status = "QUEUED"]
             logged == Logged(queued, step, "FAILED", "command")
  <2>1. job.status = "RUNNING" /\ IsLive(job)
    BY <1>4, <1>20 DEF Requeue
  <2>2. \/ job.inflight = NoStep /\ UpdateJob(r, k, queued) /\ applied' = applied
        \/ /\ job.inflight # NoStep /\ UpdateJob(r, k, logged)
           /\ applied' \in {applied, Acted(r, k, step)}
    BY <1>20 DEF Requeue, MayHaveActed, step
  <2>3. queued \in Job /\ queued.position = job.position /\ queued.inflight = job.inflight
        /\ queued.status = "QUEUED" /\ queued.log = job.log /\ queued.next = job.next
    BY <1>1 DEF Job, InFlight
  <2> HIDE DEF queued
  <2>4. IsLive(queued) /\ Reached(queued) = Reached(job)
    BY <2>3 DEF IsLive, InFlight, Reached
  <2>5. CASE job.inflight = NoStep
    <3>1. Recorded(e, job, queued)
      BY <2>1, <2>3, <2>4, <2>5 DEF Recorded, StepKnown, Marked
    <3>2. Does(r, k, queued)
      BY <1>z, <2>1, <2>2, <2>3, <2>5, DoesLittle
    <3> QED
      BY <2>2, <2>5, <3>1, <3>2, UpdateMoves DEF e
  <2>6. CASE job.inflight # NoStep
    <3>1. Recorded(e, job, logged) /\ step.name \in Marked(logged)
      BY <1>1, <1>2, <1>3, <2>1, <2>3, <2>4, <2>6, LoggedRecords
    <3>2. UpdateJob(r, k, logged) /\ applied' \in {applied, Acted(r, k, step)}
      BY <2>2, <2>6
    <3>4. /\ logged.status = queued.status /\ logged.next = queued.next
          /\ \A x \in logged.log : x \in queued.log \/ x.status = "FAILED"
      BY <2>3, LoggedFields
    <3> HIDE DEF logged
    <3>3. \A a \in applied' : a \in applied \/ Admits(r, k, logged, a)
      BY <1>2, <1>10, <2>6, <3>1, <3>2
    <3>5. Does(r, k, logged)
      BY <1>2, <1>z, <2>1, <2>3, <2>6, <3>2, <3>4, DoesLittle DEF step
    <3> QED
      BY <3>1, <3>2, <3>3, <3>5, UpdateMoves DEF e
  <2> QED
    BY <2>5, <2>6
<1>21. CASE Resume(r, k)
  <2> DEFINE log == NotPending(job.log)
             unparked == [job EXCEPT !.status = "QUEUED", !.log = log]
             go == [unparked EXCEPT !.parked = "continued"]
             done == Logged(unparked, step, "SUCCEEDED", "command")
  <2>1. job.status = "PENDING_MANUAL" /\ IsLive(job) /\ job.next <= Len(StepsOf(r, k))
    BY <1>2, <1>4, <1>21 DEF Resume
  <2>2. \/ UpdateJob(r, k, go) /\ applied' = applied
        \/ UpdateJob(r, k, done) /\ applied' = Acted(r, k, step)
    BY <1>21 DEF Resume, step
  <2>3. log \subseteq LogEntry /\ \A x \in job.log : x.status # "PENDING" => x \in log
    BY <1>1 DEF Job, NotPending
  <2>a. log \subseteq job.log
    BY DEF NotPending
  <2> HIDE DEF log
  <2>4. unparked \in Job /\ unparked.position = job.position /\ unparked.next = job.next
        /\ unparked.status = "QUEUED" /\ unparked.log = log /\ unparked.inflight = job.inflight
    BY <1>1, <2>3 DEF Job, InFlight
  <2> HIDE DEF unparked
  <2>5. IsLive(unparked) /\ Reached(job) \subseteq Reached(unparked)
    BY <2>3, <2>4 DEF IsLive, InFlight, Reached
  <2>6. go \in Job /\ go.position = job.position /\ go.next = job.next /\ go.status = "QUEUED"
        /\ go.log = log /\ go.inflight = job.inflight
    BY <2>4 DEF Job
  <2>7. Recorded(e, job, done) /\ step.name \in Marked(done)
    BY <1>1, <1>3, <2>1, <2>4, <2>5, LoggedRecords
  <2>b. /\ done.status = unparked.status /\ done.next = unparked.next + 1
        /\ \A x \in done.log : x \in unparked.log \/ x.name = step.name
    BY <2>4, LoggedFields
  <2> HIDE DEF go, done
  <2>8. CASE UpdateJob(r, k, go) /\ applied' = applied
    <3>1. IsLive(go) /\ Reached(job) \subseteq Reached(go)
      BY <2>3, <2>6 DEF IsLive, InFlight, Reached
    <3>2. Recorded(e, job, go)
      BY <1>2, <1>5, <1>6, <2>1, <2>6, <3>1 DEF Recorded, StepKnown, Marked
    <3>3. Does(r, k, go)
      BY <1>z, <2>1, <2>6, <2>8, <2>a, DoesLittle
    <3> QED
      BY <2>8, <3>2, <3>3, UpdateMoves DEF e
  <2>9. CASE UpdateJob(r, k, done) /\ applied' = Acted(r, k, step)
    <3>1. \A a \in applied' : a \in applied \/ Admits(r, k, done, a)
      BY <1>10, <2>1, <2>7, <2>9
    <3>2. Does(r, k, done)
      BY <1>z, <2>1, <2>4, <2>9, <2>a, <2>b DEF Does, step
    <3> QED
      BY <2>7, <2>9, <3>1, <3>2, UpdateMoves DEF e
  <2> QED
    BY <2>2, <2>8, <2>9
<1>22. CASE Cancel(r, k)
  <2> DEFINE new == [Unclaimed(job) EXCEPT !.status = "CANCELLED"]
             w == [runs[r] EXCEPT !.kids[k] = new]
  <2>1. /\ Commit(r, AdvanceRun(w, k)) /\ version' = version /\ IsLive(job)
        /\ \/ applied' = applied
           \/ job.status = "PENDING_MANUAL" /\ applied' \in {applied, Acted(r, k, step)}
    BY <1>22 DEF Cancel, Cancelled, MayHaveActed, step
  <2>2. /\ Recorded(e, job, new)
        /\ \A x \in job.log : x.status = "PENDING" /\ x.name \in Names => x.name \in Marked(new)
    BY <1>1, <2>1, CancelledRecords
  <2>a. new.status = "CANCELLED" /\ new.log = job.log /\ ~IsLive(new) /\ ~Busy(new)
    BY <1>1, CancelledFields DEF IsLive, InFlight, Busy
  <2> HIDE DEF new, w
  <2>3. job.status = "PENDING_MANUAL" =>
          /\ job.next <= Len(StepsOf(r, k))
          /\ step.name \in Names => step.name \in Marked(new)
    BY <1>2, <1>5, <1>6, <2>2 DEF StepKnown
  <2>4. \A a \in applied' : a \in applied \/ Admits(r, k, new, a)
    BY <1>10, <2>1, <2>3
  <2>5. Carried(w, k, "FAILED", TRUE, FALSE) = AdvanceRun(w, k)
    BY DEF Carried
  <2>6. new \in Job
    BY <2>2 DEF Recorded
  <2>7. Commit(r, Carried([runs[r] EXCEPT !.kids[k] = new], k, "FAILED", TRUE, FALSE))
    BY <2>1, <2>5 DEF w
  <2>8. Recorded(EntryOf(runs[r], k), runs[r].kids[k], new)
    BY <2>2 DEF e
  <2>9. Does(r, k, new)
    BY <1>z, <2>1, <2>3, <2>a, DoesLittle DEF step
  <2> QED
    BY <1>8, <2>1, <2>4, <2>6, <2>7, <2>8, <2>9 DEF JobMoves
<1>23. CASE AdvanceAgain(r, k)
  <2>1. Commit(r, AdvanceRun(runs[r], k)) /\ version' = version /\ applied' = applied
    BY <1>23 DEF AdvanceAgain
  <2>2. [runs[r] EXCEPT !.kids[k] = job] = runs[r]
    <3>1. [runs[r].kids EXCEPT ![k] = job] = runs[r].kids
      BY <1>7 DEF Run
    <3> QED
      BY <1>7, <3>1 DEF Run
  <2>3. Carried(runs[r], k, "FAILED", TRUE, FALSE) = AdvanceRun(runs[r], k)
    BY DEF Carried
  <2>4. Commit(r, Carried([runs[r] EXCEPT !.kids[k] = job], k, "FAILED", TRUE, FALSE))
    BY <2>1, <2>2, <2>3
  <2>5. IsLive(job) => job.status # "ROLLED_BACK"
    BY DEF IsLive, InFlight
  <2>6. Recorded(EntryOf(runs[r], k), runs[r].kids[k], job)
    BY <1>1, <1>2, <1>5, <1>6, <2>5 DEF Recorded, e
  <2>7. Does(r, k, job)
    BY <2>1, DoesLittle DEF IsLive, InFlight
  <2> QED
    BY <1>1, <1>8, <2>1, <2>4, <2>6, <2>7 DEF JobMoves
<1> QED
  BY <1>11, <1>12, <1>13, <1>14, <1>15, <1>16, <1>17, <1>18, <1>19, <1>20, <1>21, <1>22, <1>23
     DEF JobStep, WorkerStep

-----------------------------------------------------------------------------
(* A row and what a transaction made of it.                                *)

(* The children keep their entries and admit what they admitted. *)
Grows(w, v) ==
  /\ v.dry = w.dry
  /\ Len(w.kids) <= Len(v.kids)
  /\ \A k \in 1 .. Len(w.kids) : /\ v.kids[k].position = w.kids[k].position
                                 /\ Marked(w.kids[k]) \cap Names \subseteq Marked(v.kids[k])
  /\ Len(w.plan) <= Len(v.plan)
  /\ \A i \in 1 .. Len(w.plan) : v.plan[i] = w.plan[i]
  /\ \A i \in 1 .. Len(v.plan) : i > Len(w.plan) => Copied(w, v.plan[i])

(* More than one event is announced only when JOB_FINISHED is the last. *)
Told(w, v) ==
  Len(v.outbox) > Len(w.outbox) + 1 => v.outbox[Len(v.outbox)].kind = "JOB_FINISHED"

Onward(left, w) ==
  /\ WellFormed(left.row)
  /\ Lawful(left.row)
  /\ Known(left.row)
  /\ Grows(w, left.row)
  /\ Told(w, left.row)
  /\ Earned(left)

(* A new child knows its step: it is in none. *)
LEMMA FollowsKnown ==
  ASSUME NEW w, NEW v, WellFormed(w), WellFormed(v), Known(w), Follows(w, v)
  PROVE  Known(v)
<1>1. /\ Len(w.kids) \in Nat /\ Len(v.kids) \in Nat /\ w.kids \in Seq(Job)
      /\ v.kids \in Seq(Job) /\ w.plan \in Seq(Entry) /\ v.plan \in Seq(Entry)
  BY Lengths
<1>2. Begun(v)
  <2>1. SUFFICES ASSUME v.kids = <<>>
                 PROVE  v.plan = <<>>
    BY DEF Begun
  <2>2. w.kids = <<>>
    BY <1>1, <2>1 DEF Follows
  <2>3. w.plan = <<>>
    BY <2>2 DEF Known, Begun
  <2>4. \A i \in 1 .. Len(v.plan) : Copied(w, v.plan[i])
    BY <1>1, <2>3 DEF Follows
  <2>5. \A i \in 1 .. Len(v.plan) : FALSE
    BY <2>3, <2>4 DEF Copied
  <2> QED
    BY <1>1, <2>5
<1>3. SUFFICES ASSUME NEW k \in 1 .. Len(v.kids)
               PROVE  StepKnown(EntryOf(v, k), v.kids[k])
  BY <1>2 DEF Known
<1>4. CASE k <= Len(w.kids)
  <2>1. k \in 1 .. Len(w.kids)
    BY <1>1, <1>4
  <2>2. v.kids[k] = w.kids[k] /\ w.kids[k].position \in 1 .. Len(w.plan)
    BY <2>1 DEF Follows, WellFormed, AlongThePlan
  <2>3. EntryOf(v, k) = EntryOf(w, k)
    BY <2>2 DEF Follows, EntryOf
  <2> QED
    BY <2>1, <2>2, <2>3 DEF Known
<1>5. CASE k > Len(w.kids)
  BY <1>5 DEF Follows, Fresh, StepKnown
<1> QED
  BY <1>1, <1>4, <1>5

(* What follows grows, and announces one event at most. *)
LEMMA FollowsGrows ==
  ASSUME NEW w, NEW v, WellFormed(w), WellFormed(v), Follows(w, v)
  PROVE  Grows(w, v) /\ Len(v.outbox) <= Len(w.outbox) + 1
<1>1. w.outbox \in Seq(Event) /\ Len(w.outbox) \in Nat
  BY Lengths
<1>2. Len(v.outbox) <= Len(w.outbox) + 1
  <2>1. CASE v.outbox = w.outbox
    BY <1>1, <2>1
  <2>2. CASE v.outbox = Append(w.outbox, RunClosed(v.status, v.code))
    <3>1. Len(Append(w.outbox, RunClosed(v.status, v.code))) = Len(w.outbox) + 1
      BY <1>1
    <3> QED
      BY <1>1, <2>2, <3>1
  <2> QED
    BY <2>1, <2>2 DEF Follows
<1> QED
  BY <1>2 DEF Follows, Grows

(* An office action or a repair. *)
LEMMA FollowsOnward ==
  ASSUME NEW w, WellFormed(w), Known(w), NEW left, WellFormed(left.row), LawfulLeft(left, w)
  PROVE  Onward(left, w)
<1>1. Len(w.outbox) \in Nat /\ Len(left.row.outbox) \in Nat
  BY Lengths
<1>2. Known(left.row) /\ Grows(w, left.row) /\ Len(left.row.outbox) <= Len(w.outbox) + 1
  BY FollowsKnown, FollowsGrows DEF LawfulLeft
<1>3. Told(w, left.row)
  BY <1>1, <1>2 DEF Told
<1> QED
  BY <1>2, <1>3 DEF Onward, LawfulLeft

(* JOB_FINISHED behind whatever the row announced. *)
LEMMA EmitLawful ==
  ASSUME NEW w, WellFormed(w), Lawful(w), Known(w), NEW status \in Terminal
  PROVE  LET v == [w EXCEPT !.outbox = Append(@, JobFinished(status))]
         IN  /\ WellFormed(v) /\ Lawful(v) /\ Known(v)
             /\ v.kids = w.kids /\ v.plan = w.plan /\ v.dry = w.dry /\ v.status = w.status
             /\ v.outbox[Len(v.outbox)].kind = "JOB_FINISHED"
<1> DEFINE event == JobFinished(status)
           box == Append(w.outbox, event)
           v == [w EXCEPT !.outbox = box]
<1>1. w \in Run /\ w.outbox \in Seq(Event) /\ Len(w.outbox) \in Nat
  BY Lengths
<1>2. event \in Event /\ event.kind = "JOB_FINISHED"
  BY DEF JobFinished, Event, Codes
<1> HIDE DEF event
<1>3. /\ box \in Seq(Event) /\ Len(box) = Len(w.outbox) + 1 /\ box[Len(box)] = event
      /\ \A n \in 1 .. Len(w.outbox) : box[n] = w.outbox[n]
  BY <1>1, <1>2
<1> HIDE DEF box
<1>4. /\ v \in Run /\ v.kids = w.kids /\ v.plan = w.plan /\ v.outputs = w.outputs
      /\ v.phase = w.phase /\ v.cause = w.cause /\ v.dry = w.dry /\ v.code = w.code
      /\ v.status = w.status /\ v.outbox = box
  BY <1>1, <1>3 DEF Run
<1> HIDE DEF v
<1>5. WellFormed(v)
  BY <1>4, SameChildren
<1>6. Base(v)
  BY <1>4, SameBase DEF Lawful
<1>7. \A k : EntryOf(v, k) = EntryOf(w, k)
  BY <1>4 DEF EntryOf
<1>8. OpenLaw(v)
  BY <1>4, <1>7 DEF Lawful, OpenLaw
<1>9. Touched(v, Devices) = Touched(w, Devices) /\ Returning(v) = Returning(w)
  BY <1>4, SameTouched DEF Returning
<1>10. \A k : Shown(v, k) = Shown(w, k)
  BY <1>4, <1>7 DEF Shown
<1>11. IncompleteLaw(v) /\ RolledBackLaw(v) /\ FailedLaw(v) /\ SucceededLaw(v)
  BY <1>4, <1>9, <1>10 DEF Lawful, ClosedLaw, IncompleteLaw, RolledBackLaw, FailedLaw, SucceededLaw
<1>12. Announced(w) => Announced(v)
  <2>1. SUFFICES ASSUME NEW n \in 1 .. Len(w.outbox), w.outbox[n] = RunClosed(w.status, w.code),
                        \A m \in (n + 1) .. Len(w.outbox) : w.outbox[m].kind # "RUN_CLOSED"
                 PROVE  Announced(v)
    BY DEF Announced
  <2>2. n \in 1 .. Len(v.outbox) /\ v.outbox[n] = RunClosed(v.status, v.code)
    BY <1>1, <1>3, <1>4, <2>1
  <2>3. \A m \in (n + 1) .. Len(v.outbox) : v.outbox[m].kind # "RUN_CLOSED"
    <3>1. SUFFICES ASSUME NEW m \in (n + 1) .. Len(v.outbox)
                   PROVE  v.outbox[m].kind # "RUN_CLOSED"
      OBVIOUS
    <3>2. m = Len(box) \/ m \in (n + 1) .. Len(w.outbox)
      BY <1>1, <1>3, <1>4
    <3>3. m \in (n + 1) .. Len(w.outbox) => m \in 1 .. Len(w.outbox)
      BY <1>1
    <3> QED
      BY <1>2, <1>3, <1>4, <2>1, <3>2, <3>3
  <2> QED
    BY <2>2, <2>3 DEF Announced
<1>13. AnnouncedLaw(v)
  BY <1>4, <1>12 DEF Lawful, ClosedLaw, AnnouncedLaw
<1>14. Lawful(v)
  BY <1>6, <1>8, <1>11, <1>13 DEF Lawful, ClosedLaw
<1>15. Known(v)
  BY <1>4, <1>7 DEF Known, Begun
<1>16. v.outbox[Len(v.outbox)].kind = "JOB_FINISHED"
  BY <1>2, <1>3, <1>4
<1> QED
  BY <1>4, <1>5, <1>14, <1>15, <1>16 DEF v, box, event

(* The row of one child, rewritten as its steps may. *)
LEMMA KidOnward ==
  ASSUME NEW w, WellFormed(w), Lawful(w), Known(w), NEW k \in 1 .. Len(w.kids), NEW job,
         Recorded(EntryOf(w, k), w.kids[k], job)
  PROVE  LET v == [w EXCEPT !.kids[k] = job]
         IN  /\ WellFormed(v) /\ Lawful(v) /\ Known(v) /\ Grows(w, v)
             /\ v.kids[k] = job /\ Len(v.kids) = Len(w.kids) /\ v.plan = w.plan
             /\ v.outbox = w.outbox /\ v.dry = w.dry
<1> DEFINE v == [w EXCEPT !.kids[k] = job]
           old == w.kids[k]
<1>1. /\ w \in Run /\ Len(w.kids) \in Nat /\ Len(w.plan) \in Nat /\ w.kids \in Seq(Job)
      /\ w.plan \in Seq(Entry)
  BY Lengths
<1>2. /\ job \in Job /\ job.position = old.position /\ (IsLive(old) \/ job = old)
      /\ (IsLive(old) => job.status # "ROLLED_BACK")
      /\ (job.inflight # NoStep \/ job.status = "PENDING_MANUAL"
            => job.next <= Len(JobSteps(EntryOf(w, k))))
      /\ StepKnown(EntryOf(w, k), job)
      /\ Marked(old) \cap Names \subseteq Marked(job)
  BY DEF Recorded
<1>3. /\ v.plan = w.plan /\ v.dry = w.dry /\ v.outbox = w.outbox
      /\ Len(v.kids) = Len(w.kids) /\ v.kids[k] = job
      /\ \A j \in 1 .. Len(w.kids) : j # k => v.kids[j] = w.kids[j]
  BY <1>1, KidFields
<1>4. WellFormed(v)
  BY <1>2, ReplaceKid
<1>5. Lawful(v)
  <2>1. CASE IsLive(old)
    BY <1>2, <2>1, KidLawful
  <2>2. CASE job = old
    <3>1. [w.kids EXCEPT ![k] = job] = w.kids
      BY <1>1, <2>2
    <3>2. v = w
      BY <1>1, <3>1 DEF Run
    <3> QED
      BY <3>2
  <2> QED
    BY <1>2, <2>1, <2>2
<1> HIDE DEF v
<1>6. \A j \in 1 .. Len(w.kids) :
        v.kids[j].position = w.kids[j].position /\ EntryOf(v, j) = EntryOf(w, j)
  BY <1>2, <1>3 DEF EntryOf
<1>7. Known(v)
  <2>1. Begun(v)
    <3>1. v.kids # <<>>
      BY <1>1, <1>3
    <3> QED
      BY <3>1 DEF Begun
  <2>2. \A j \in 1 .. Len(v.kids) : StepKnown(EntryOf(v, j), v.kids[j])
    BY <1>2, <1>3, <1>6 DEF Known
  <2> QED
    BY <2>1, <2>2 DEF Known
<1>8. Grows(w, v)
  <2>1. \A j \in 1 .. Len(w.kids) : /\ v.kids[j].position = w.kids[j].position
                                    /\ Marked(w.kids[j]) \cap Names \subseteq Marked(v.kids[j])
    BY <1>2, <1>3, <1>6
  <2>2. Len(w.kids) <= Len(v.kids) /\ Len(w.plan) <= Len(v.plan)
    BY <1>1, <1>3
  <2>3. \A i \in 1 .. Len(v.plan) : ~(i > Len(w.plan))
    BY <1>1, <1>3
  <2> QED
    BY <1>3, <2>1, <2>2, <2>3 DEF Grows
<1> QED
  BY <1>3, <1>4, <1>5, <1>7, <1>8 DEF v

(* Growing, after a step that left the plan alone. *)
LEMMA GrowsTrans ==
  ASSUME NEW u, NEW w, NEW v, WellFormed(u), WellFormed(w), WellFormed(v),
         Grows(u, w), w.plan = u.plan, Grows(w, v)
  PROVE  Grows(u, v)
<1>1. Len(u.kids) \in Nat /\ Len(w.kids) \in Nat /\ Len(v.kids) \in Nat
  BY Lengths
<1>2. \A e : Copied(w, e) = Copied(u, e)
  BY DEF Copied
<1>3. \A k \in 1 .. Len(u.kids) : /\ k \in 1 .. Len(w.kids)
                                  /\ v.kids[k].position = u.kids[k].position
                                  /\ Marked(u.kids[k]) \cap Names \subseteq Marked(v.kids[k])
  <2>1. \A k \in 1 .. Len(u.kids) : k \in 1 .. Len(w.kids)
    BY <1>1 DEF Grows
  <2> QED
    BY <2>1 DEF Grows
<1>4. Len(u.kids) <= Len(v.kids)
  BY <1>1 DEF Grows
<1> QED
  BY <1>2, <1>3, <1>4 DEF Grows

(***************************************************************************)
(* finish_job and its follow-ons, cancelling, and a repeated advance.      *)
(***************************************************************************)
LEMMA CarriedOnward ==
  ASSUME NEW w, WellFormed(w), Lawful(w), Known(w), NEW k \in 1 .. Len(w.kids), NEW job,
         Recorded(EntryOf(w, k), w.kids[k], job),
         NEW status \in Terminal, NEW advances \in BOOLEAN, NEW emits \in BOOLEAN
  PROVE  LET left == Carried([w EXCEPT !.kids[k] = job], k, status, advances, emits)
         IN  Onward(left, w) /\ left.row.kids[k] = job
<1> DEFINE v == [w EXCEPT !.kids[k] = job]
           after == IF advances THEN AdvanceRun(v, k) ELSE Left(v)
           row == after.row
           told == [row EXCEPT !.outbox = Append(@, JobFinished(status))]
           left == Carried(v, k, status, advances, emits)
<1>1. /\ WellFormed(v) /\ Lawful(v) /\ Known(v) /\ Grows(w, v)
      /\ v.kids[k] = job /\ Len(v.kids) = Len(w.kids) /\ v.plan = w.plan
      /\ v.outbox = w.outbox /\ v.dry = w.dry
  BY KidOnward
<1> HIDE DEF v
<1>2. k \in 1 .. Len(v.kids)
  BY <1>1
<1>3. WellFormed(row) /\ LawfulLeft(after, v)
  <2>1. CASE advances
    BY <1>1, <1>2, <2>1, AdvanceRunWellLeft, AdvanceLawful DEF WellLeft
  <2>2. CASE ~advances
    <3>1. Follows(v, v)
      BY <1>1, SameFollows
    <3>2. LawfulLeft(Left(v), v) /\ Left(v).row = v
      BY <1>1, <3>1, LeftLawful DEF Left
    <3> QED
      BY <1>1, <2>2, <3>2
  <2> QED
    BY <2>1, <2>2
<1>4. after \in [row : {after.row}, settlesPath : {after.settlesPath}, stamps : {after.stamps}]
  BY DEF AdvanceRun, AdvanceLegacy, FinishRun, FinishDryRun, Succeed, Left
<1>5. left = IF emits THEN [after EXCEPT !.row = told] ELSE after
  BY DEF Carried
<1> HIDE DEF after, left
<1>6. Follows(v, row) /\ Lawful(row) /\ Earned(after)
  BY <1>3 DEF LawfulLeft
<1>7. Known(row) /\ Grows(v, row) /\ Len(row.outbox) <= Len(w.outbox) + 1
  BY <1>1, <1>3, <1>6, FollowsKnown, FollowsGrows
<1>8. row.kids[k] = job
  BY <1>1, <1>2, <1>6 DEF Follows
<1>9. Grows(w, row)
  BY <1>1, <1>3, <1>7, GrowsTrans
<1> HIDE DEF row
<1>10. CASE emits
  <2>1. /\ WellFormed(told) /\ Lawful(told) /\ Known(told)
        /\ told.kids = row.kids /\ told.plan = row.plan /\ told.dry = row.dry
        /\ told.status = row.status
        /\ told.outbox[Len(told.outbox)].kind = "JOB_FINISHED"
    BY <1>3, <1>6, <1>7, EmitLawful
  <2> HIDE DEF told
  <2>2. left.row = told /\ left.stamps = after.stamps
    BY <1>4, <1>5, <1>10
  <2>3. Grows(w, told)
    BY <1>9, <2>1 DEF Grows
  <2>4. Told(w, told)
    BY <2>1 DEF Told
  <2>5. Earned(left)
    <3>1. \A j : EntryOf(told, j) = EntryOf(row, j)
      BY <2>1 DEF EntryOf
    <3> QED
      BY <1>6, <2>1, <2>2, <3>1, SMTT(30) DEF Earned, row
  <2> QED
    BY <1>8, <2>1, <2>2, <2>3, <2>4, <2>5 DEF Onward, left, v
<1>11. CASE ~emits
  <2>1. left = after /\ left.row = row
    BY <1>5, <1>11 DEF row
  <2>2. Len(w.outbox) \in Nat /\ Len(row.outbox) \in Nat
    BY <1>3, Lengths
  <2>3. Told(w, row)
    BY <1>7, <2>2 DEF Told
  <2> QED
    BY <1>3, <1>6, <1>7, <1>8, <1>9, <2>1, <2>3 DEF Onward, left, v
<1> QED
  BY <1>10, <1>11

-----------------------------------------------------------------------------
(* The inductive invariant.                                                *)

RowsLawful == \A r \in RunIds : Lawful(runs[r]) /\ Known(runs[r])

(* Some configuration child of the run, or child older than the phases,    *)
(* admits step n on device d.                                              *)
Admitted(w, d, n) ==
  /\ ~w.dry
  /\ \E k \in 1 .. Len(w.kids) :
       /\ EntryOf(w, k).phase \in {PhaseConfiguration, NoPhase}
       /\ EntryOf(w, k).item = d /\ n \in Marked(w.kids[k])

(* The devices hold nothing that no log admits. *)
Traced == \A a \in applied : Admitted(runs[a[1]], a[2], a[3])

(* The run is a clean simulation that executed version v on device d. *)
Simulates(w, d, v) ==
  /\ w.dry
  /\ w.status \in Terminal
  /\ \A k \in 1 .. Len(w.kids) : w.kids[k].status = "SUCCEEDED"
  /\ \E k \in 1 .. Len(w.kids) : EntryOf(w, k).item = d /\ EntryOf(w, k).version = v

(* A stamped version was simulated. *)
StampsEarned ==
  \A d \in Devices :
    lastDry[d] <= Simulated \/ \E q \in RunIds : Simulates(runs[q], d, lastDry[d])

(* LiveVersionsWereSimulated, by simulations that are over. *)
PlansSimulated ==
  \A r \in RunIds : \A i \in 1 .. Len(runs[r].plan) :
    \/ runs[r].dry
    \/ runs[r].plan[i].phase = NoPhase
    \/ runs[r].plan[i].item \in SystemDevices
    \/ runs[r].plan[i].version <= Simulated
    \/ \E q \in 1 .. (r - 1) : Simulates(runs[q], runs[r].plan[i].item, runs[r].plan[i].version)

OInv == IInv /\ RowsLawful /\ Traced /\ StampsEarned /\ PlansSimulated

(* What a row admits it admits for good. *)
LEMMA AdmittedGrows ==
  ASSUME NEW w, NEW v, WellFormed(w), WellFormed(v), Grows(w, v),
         NEW d, NEW n \in Names, Admitted(w, d, n)
  PROVE  Admitted(v, d, n)
<1>1. PICK k \in 1 .. Len(w.kids) : /\ EntryOf(w, k).phase \in {PhaseConfiguration, NoPhase}
                                    /\ EntryOf(w, k).item = d
                                    /\ n \in Marked(w.kids[k])
  BY DEF Admitted
<1>2. k \in 1 .. Len(v.kids)
  <2>1. Len(w.kids) \in Nat /\ Len(v.kids) \in Nat
    BY Lengths
  <2> QED
    BY <1>1, <2>1 DEF Grows
<1>3. w.kids[k].position \in 1 .. Len(w.plan)
  BY <1>1 DEF WellFormed, AlongThePlan
<1>4. EntryOf(v, k) = EntryOf(w, k) /\ n \in Marked(v.kids[k]) /\ v.dry = w.dry
  BY <1>1, <1>3 DEF Grows, EntryOf
<1> QED
  BY <1>1, <1>2, <1>4 DEF Admitted

(* A simulation that is over stays as it is. *)
LEMMA DryStays ==
  ASSUME IInv, Next, NEW r \in RunIds, runs[r].dry, runs[r].status \in Terminal
  PROVE  runs'[r] = runs[r]
<1>1. runs'[r] # runs[r] => RevertRun(r) \/ RetryRollback(r)
  BY OnlyTheOfficeReopens
<1>2. ~RevertRun(r) /\ ~RetryRollback(r)
  BY DEF RevertRun, NotRevertible, RetryRollback, NotRetryable
<1> QED
  BY <1>1, <1>2

(***************************************************************************)
(* A transaction that takes a row onward.                                  *)
(***************************************************************************)
LEMMA CommitOnward ==
  ASSUME OInv, Next, NEW r \in RunIds, NEW left, Onward(left, runs[r]), Commit(r, left),
         \A a \in applied' : a \in applied \/ (a[1] = r /\ Admitted(left.row, a[2], a[3]))
  PROVE  RowsLawful' /\ Traced' /\ StampsEarned' /\ PlansSimulated'
<1> DEFINE w == left.row
<1>1. /\ IInv /\ RowsLawful /\ Traced /\ StampsEarned /\ PlansSimulated
  BY DEF OInv
<1>2. /\ WellFormed(w) /\ Lawful(w) /\ Known(w) /\ Grows(runs[r], w) /\ Earned(left)
  BY DEF Onward
<1>3. runs \in Seq(Run) /\ Len(runs) \in Nat /\ WellFormed(runs[r])
  BY <1>1 DEF IInv, TablesOK, RowsWellFormed
<1>4. /\ Len(runs') = Len(runs)
      /\ \A q \in 1 .. Len(runs) : runs'[q] = IF q = r THEN w ELSE runs[q]
  BY <1>3 DEF Commit, RunIds
<1>5. \A q \in RunIds : \A d, v : Simulates(runs[q], d, v) => Simulates(runs'[q], d, v)
  <2>1. SUFFICES ASSUME NEW q \in RunIds, NEW d, NEW v, Simulates(runs[q], d, v)
                 PROVE  Simulates(runs'[q], d, v)
    OBVIOUS
  <2>2. runs'[q] = runs[q]
    BY <1>1, <2>1, DryStays DEF Simulates
  <2> QED
    BY <2>1, <2>2
<1> HIDE DEF w
<1>6. RowsLawful'
  <2>1. \A q \in 1 .. Len(runs) : Lawful(runs'[q]) /\ Known(runs'[q])
    BY <1>1, <1>2, <1>4 DEF RowsLawful, RunIds
  <2> QED
    BY <1>4, <2>1 DEF RowsLawful, RunIds
<1>7. Traced'
  <2>1. SUFFICES ASSUME NEW a \in applied'
                 PROVE  Admitted(runs'[a[1]], a[2], a[3])
    BY DEF Traced
  <2>2. CASE a \in applied
    <3>1. a[1] \in 1 .. Len(runs) /\ a[3] \in Names
      BY <1>1, <2>2 DEF IInv, TablesOK
    <3>2. Admitted(runs[a[1]], a[2], a[3])
      BY <1>1, <2>2 DEF Traced
    <3>3. CASE a[1] = r
      <4>1. Admitted(w, a[2], a[3])
        BY <1>2, <1>3, <3>1, <3>2, <3>3, AdmittedGrows
      <4> QED
        BY <1>4, <3>1, <3>3, <4>1
    <3>4. CASE a[1] # r
      BY <1>4, <3>1, <3>2, <3>4
    <3> QED
      BY <3>3, <3>4
  <2>3. CASE a[1] = r /\ Admitted(w, a[2], a[3])
    BY <1>4, <2>3 DEF RunIds
  <2> QED
    BY <2>1, <2>2, <2>3 DEF w
<1>8. StampsEarned'
  <2>1. SUFFICES ASSUME NEW d \in Devices
                 PROVE  \/ lastDry'[d] <= Simulated
                        \/ \E q \in 1 .. Len(runs) : Simulates(runs'[q], d, lastDry'[d])
    BY <1>4 DEF StampsEarned, RunIds
  <2>2. lastDry'[d] = IF left.stamps /\ Stamps(w, d) THEN version[d] ELSE lastDry[d]
    BY DEF Commit, w
  <2>3. CASE left.stamps /\ Stamps(w, d)
    <3>1. PICK i \in 1 .. Len(w.plan) : w.plan[i].item = d /\ w.plan[i].version = version[d]
      BY <2>3 DEF Stamps
    <3>2. Simulates(w, d, version[d])
      BY <1>2, <2>3, <3>1 DEF Earned, Simulates, w
    <3>3. runs'[r] = w
      BY <1>4 DEF RunIds
    <3>4. Simulates(runs'[r], d, lastDry'[d])
      BY <2>2, <2>3, <3>2, <3>3
    <3> QED
      BY <3>4 DEF RunIds
  <2>4. CASE ~(left.stamps /\ Stamps(w, d))
    <3>1. lastDry'[d] = lastDry[d]
      BY <2>2, <2>4
    <3> QED
      BY <1>1, <1>5, <3>1 DEF StampsEarned, RunIds
  <2> QED
    BY <2>3, <2>4
<1>9. PlansSimulated'
  <2>1. SUFFICES ASSUME NEW p \in 1 .. Len(runs), NEW i \in 1 .. Len(runs'[p].plan)
                 PROVE  \/ runs'[p].dry
                        \/ runs'[p].plan[i].phase = NoPhase
                        \/ runs'[p].plan[i].item \in SystemDevices
                        \/ runs'[p].plan[i].version <= Simulated
                        \/ \E q \in 1 .. (p - 1) :
                             Simulates(runs'[q], runs'[p].plan[i].item, runs'[p].plan[i].version)
    BY <1>4 DEF PlansSimulated, RunIds
  <2>2. \A j \in 1 .. Len(runs[p].plan) :
          \/ runs[p].dry
          \/ runs[p].plan[j].phase = NoPhase
          \/ runs[p].plan[j].item \in SystemDevices
          \/ runs[p].plan[j].version <= Simulated
          \/ \E q \in 1 .. (p - 1) :
               Simulates(runs'[q], runs[p].plan[j].item, runs[p].plan[j].version)
    <3>1. \A q \in 1 .. (p - 1) : q \in RunIds
      BY <1>3 DEF RunIds
    <3> QED
      BY <1>1, <1>5, <3>1 DEF PlansSimulated, RunIds
  <2>3. CASE p # r
    BY <1>4, <2>1, <2>2, <2>3
  <2>4. CASE p = r
    <3>1. runs'[p] = w /\ w.dry = runs[p].dry
      BY <1>2, <1>4, <2>4 DEF Grows
    <3>2. \E j \in 1 .. Len(runs[p].plan) :
            /\ w.plan[i].item = runs[p].plan[j].item
            /\ w.plan[i].version = runs[p].plan[j].version
            /\ w.plan[i].phase = NoPhase \/ runs[p].plan[j].phase # NoPhase
      <4>1. Len(runs[p].plan) \in Nat /\ i \in 1 .. Len(w.plan)
        BY <1>3, <2>1, <2>4, <3>1, Lengths
      <4>2. CASE i <= Len(runs[p].plan)
        <5>1. i \in 1 .. Len(runs[p].plan)
          BY <4>1, <4>2
        <5>2. w.plan[i] = runs[p].plan[i]
          BY <1>2, <2>4, <5>1 DEF Grows
        <5> QED
          BY <5>1, <5>2
      <4>3. CASE i > Len(runs[p].plan)
        <5>1. Copied(runs[p], w.plan[i])
          BY <1>2, <2>4, <4>1, <4>3 DEF Grows
        <5> QED
          BY <5>1 DEF Copied
      <4> QED
        BY <4>1, <4>2, <4>3
    <3> QED
      BY <2>2, <3>1, <3>2
  <2> QED
    BY <2>3, <2>4
<1> QED
  BY <1>6, <1>7, <1>8, <1>9

(* A transaction on run r takes its row onward, and what it leaves on the  *)
(* devices the row admits.                                                 *)
RunMoves(r) ==
  \E left :
    /\ Onward(left, runs[r])
    /\ Commit(r, left)
    /\ \A a \in applied' : a \in applied \/ (a[1] = r /\ Admitted(left.row, a[2], a[3]))

(* The steps of jobs. *)
LEMMA JobStepOnward ==
  ASSUME OInv, NEW r \in RunIds, NEW k \in 1 .. Len(runs[r].kids), JobStep(r, k)
  PROVE  RunMoves(r)
<1>1. IInv /\ WellFormed(runs[r]) /\ Lawful(runs[r]) /\ Known(runs[r])
  BY DEF OInv, RowsLawful, IInv, RowsWellFormed
<1>2. JobMoves(r, k)
  BY <1>1, JobStepMoves
<1>3. PICK job \in Job, status \in Terminal, advances \in BOOLEAN, emits \in BOOLEAN :
        /\ Recorded(EntryOf(runs[r], k), runs[r].kids[k], job)
        /\ Commit(r, Carried([runs[r] EXCEPT !.kids[k] = job], k, status, advances, emits))
        /\ \A a \in applied' : a \in applied \/ Admits(r, k, job, a)
  BY <1>2 DEF JobMoves
<1> DEFINE left == Carried([runs[r] EXCEPT !.kids[k] = job], k, status, advances, emits)
           w == left.row
<1>4. Onward(left, runs[r]) /\ w.kids[k] = job
  BY <1>1, <1>3, CarriedOnward
<1>5. Commit(r, left)
  BY <1>3
<1> HIDE DEF left
<1>6. Grows(runs[r], w) /\ WellFormed(w)
  BY <1>4 DEF Onward
<1> HIDE DEF w
<1>7. EntryOf(w, k) = EntryOf(runs[r], k) /\ w.dry = runs[r].dry /\ k \in 1 .. Len(w.kids)
  <2>1. Len(runs[r].kids) \in Nat /\ Len(w.kids) \in Nat
    BY <1>1, <1>6, Lengths
  <2>2. k \in 1 .. Len(w.kids)
    BY <1>6, <2>1 DEF Grows
  <2>3. runs[r].kids[k].position \in 1 .. Len(runs[r].plan)
    BY <1>1 DEF WellFormed, AlongThePlan
  <2> QED
    BY <1>6, <2>2, <2>3 DEF Grows, EntryOf
<1>8. \A a : Admits(r, k, job, a) => a[1] = r /\ Admitted(w, a[2], a[3])
  BY <1>4, <1>7 DEF Admits, Admitted, w
<1>9. \A a \in applied' : a \in applied \/ (a[1] = r /\ Admitted(left.row, a[2], a[3]))
  BY <1>3, <1>8 DEF w
<1> QED
  BY <1>4, <1>5, <1>9 DEF RunMoves

(* The reaper's repair and the office actions. *)
LEMMA RunStepOnward ==
  ASSUME OInv, NEW r \in RunIds, RepairStrandedRun(r) \/ RevertRun(r) \/ RetryRollback(r)
  PROVE  RunMoves(r)
<1> DEFINE w == runs[r]
<1>1. IInv /\ WellFormed(w) /\ Lawful(w) /\ Known(w) /\ Begun(w)
  BY DEF OInv, RowsLawful, IInv, RowsWellFormed, Known
<1>2. applied' = applied
  BY DEF RepairStrandedRun, RevertRun, RetryRollback
<1>3. \A left : WellFormed(left.row) /\ LawfulLeft(left, w) /\ Commit(r, left) => RunMoves(r)
  BY <1>1, <1>2, FollowsOnward DEF RunMoves
<1>4. CASE RepairStrandedRun(r)
  <2>1. Stranded(w) /\ (Commit(r, RepairFresh(w)) \/ Commit(r, RepairExpired(w)))
    BY <1>4 DEF RepairStrandedRun
  <2>2. LawfulLeft(RepairFresh(w), w) /\ LawfulLeft(RepairExpired(w), w)
    BY <1>1, <2>1, RepairLawful
  <2>3. WellFormed(RepairFresh(w).row) /\ WellFormed(RepairExpired(w).row)
    BY <1>1, <2>1, RepairWellLeft DEF WellLeft
  <2> QED
    BY <1>3, <2>1, <2>2, <2>3
<1>5. CASE RevertRun(r)
  <2>1. /\ Commit(r, Left(Reverted(w)))
        /\ ~w.dry /\ w.status = "SUCCEEDED" /\ w.phase # NoPhase
    BY <1>5 DEF RevertRun, NotRevertible
  <2>2. Lawful(Reverted(w)) /\ Follows(w, Reverted(w))
    BY <1>1, <2>1, RevertedLawful
  <2>3. WellFormed(Reverted(w))
    BY <1>1, <2>1, RevertedWellFormed DEF Terminal
  <2>4. LawfulLeft(Left(Reverted(w)), w) /\ Left(Reverted(w)).row = Reverted(w)
    BY <2>2, LeftLawful DEF Left
  <2> QED
    BY <1>3, <2>1, <2>3, <2>4
<1>6. CASE RetryRollback(r)
  <2>1. /\ Commit(r, Left(Retried(w)))
        /\ w.status = "FAILED" /\ w.code = "ROLLBACK_INCOMPLETE" /\ w.phase # NoPhase
    BY <1>6 DEF RetryRollback, NotRetryable
  <2>2. Lawful(Retried(w)) /\ Follows(w, Retried(w))
    BY <1>1, <2>1, RetriedLawful
  <2>3. WellFormed(Retried(w))
    BY <1>1, <2>1, RetriedWellFormed DEF Terminal
  <2>4. LawfulLeft(Left(Retried(w)), w) /\ Left(Retried(w)).row = Retried(w)
    BY <2>2, LeftLawful DEF Left
  <2> QED
    BY <1>3, <2>1, <2>3, <2>4
<1> QED
  BY <1>4, <1>5, <1>6

-----------------------------------------------------------------------------
(* New runs.                                                               *)

(***************************************************************************)
(* A part of a plan: phases between two ranks and in order, every entry    *)
(* for a device of the path, at the version that was current.              *)
(***************************************************************************)
Laid(s, lo, hi, path, versions) ==
  /\ \A i \in 1 .. Len(s) :
       /\ lo <= Rank(s[i].phase) /\ Rank(s[i].phase) <= hi
       /\ s[i].version = versions[s[i].item]
       /\ \E j \in 1 .. Len(path) : s[i].item = path[j]
  /\ \A i, j \in 1 .. Len(s) : i < j => Rank(s[i].phase) <= Rank(s[j].phase)

(* One part behind another. *)
LEMMA LaidConcat ==
  ASSUME NEW s \in Seq(Entry), NEW t \in Seq(Entry), NEW path, NEW versions,
         NEW a \in Nat, NEW b \in Nat, NEW c \in Nat, NEW d \in Nat, a <= b, b <= c, c <= d,
         Laid(s, a, b, path, versions), Laid(t, c, d, path, versions)
  PROVE  Laid(s \o t, a, d, path, versions)
<1> DEFINE u == s \o t
           n == Len(s)
           m == Len(t)
<1>1. /\ n \in Nat /\ m \in Nat /\ Len(u) = n + m
      /\ \A i \in 1 .. (n + m) : u[i] = IF i <= n THEN s[i] ELSE t[i - n]
  BY ConcatProperties, LenProperties
<1> HIDE DEF u
<1>2. \A i \in 1 .. (n + m) :
        \/ i \in 1 .. n /\ u[i] = s[i]
        \/ i > n /\ i - n \in 1 .. m /\ u[i] = t[i - n]
  <2> HIDE DEF n, m
  <2> QED
    BY <1>1
<1>3. \A x : Rank(x) \in 0 .. 4
  BY RankFacts
<1>4. \A i \in 1 .. n : /\ a <= Rank(s[i].phase) /\ Rank(s[i].phase) <= b
                        /\ s[i].version = versions[s[i].item]
                        /\ \E j \in 1 .. Len(path) : s[i].item = path[j]
  BY DEF Laid
<1>5. \A i \in 1 .. m : /\ c <= Rank(t[i].phase) /\ Rank(t[i].phase) <= d
                        /\ t[i].version = versions[t[i].item]
                        /\ \E j \in 1 .. Len(path) : t[i].item = path[j]
  BY DEF Laid
<1>6. /\ \A i, j \in 1 .. n : i < j => Rank(s[i].phase) <= Rank(s[j].phase)
      /\ \A i, j \in 1 .. m : i < j => Rank(t[i].phase) <= Rank(t[j].phase)
  BY DEF Laid
<1> HIDE DEF n, m
<1>7. \A i \in 1 .. (n + m) : /\ a <= Rank(u[i].phase) /\ Rank(u[i].phase) <= d
                              /\ u[i].version = versions[u[i].item]
                              /\ \E j \in 1 .. Len(path) : u[i].item = path[j]
  <2>1. SUFFICES ASSUME NEW i \in 1 .. (n + m)
                 PROVE  /\ a <= Rank(u[i].phase) /\ Rank(u[i].phase) <= d
                        /\ u[i].version = versions[u[i].item]
                        /\ \E j \in 1 .. Len(path) : u[i].item = path[j]
    OBVIOUS
  <2>2. Rank(u[i].phase) \in Nat
    BY <1>3
  <2>3. CASE i \in 1 .. n /\ u[i] = s[i]
    BY <1>4, <2>2, <2>3
  <2>4. CASE i - n \in 1 .. m /\ u[i] = t[i - n]
    BY <1>5, <2>2, <2>4
  <2> QED
    BY <1>2, <2>3, <2>4
<1>8. \A i, j \in 1 .. (n + m) : i < j => Rank(u[i].phase) <= Rank(u[j].phase)
  <2>1. SUFFICES ASSUME NEW i \in 1 .. (n + m), NEW j \in 1 .. (n + m), i < j
                 PROVE  Rank(u[i].phase) <= Rank(u[j].phase)
    OBVIOUS
  <2>2. Rank(u[i].phase) \in Nat /\ Rank(u[j].phase) \in Nat
    BY <1>3, SMTT(30)
  <2>3. CASE j \in 1 .. n /\ u[j] = s[j]
    <3>1. i \in 1 .. n /\ u[i] = s[i]
      BY <1>1, <1>2, <2>1, <2>3
    <3> QED
      BY <1>6, <2>1, <2>3, <3>1
  <2>4. CASE j - n \in 1 .. m /\ u[j] = t[j - n]
    <3>1. CASE i \in 1 .. n /\ u[i] = s[i]
      <4>1. Rank(u[i].phase) <= b /\ c <= Rank(u[j].phase)
        BY <1>4, <1>5, <2>4, <3>1
      <4> QED
        BY <2>2, <4>1
    <3>2. CASE i - n \in 1 .. m /\ u[i] = t[i - n]
      <4>1. i - n < j - n
        BY <1>1, <2>1
      <4> QED
        BY <1>6, <2>4, <3>2, <4>1
    <3> QED
      BY <1>2, <3>1, <3>2
  <2> QED
    BY <1>2, <2>3, <2>4
<1> QED
  BY <1>1, <1>7, <1>8 DEF Laid, u

(* The entries of one phase. *)
LEMMA PhaseEntriesLaid ==
  ASSUME NEW path \in Seq(Devices), NEW ordered \in Seq(Devices),
         \A i \in 1 .. Len(ordered) : \E j \in 1 .. Len(path) : ordered[i] = path[j],
         NEW versions \in [Devices -> Versions], NEW phase \in Phases, NEW leaf, NEW bringUp
  PROVE  LET s == PhaseEntries(ordered, versions, phase, leaf, bringUp)
         IN  s \in Seq(Entry) /\ Laid(s, Rank(phase), Rank(phase), path, versions)
<1> DEFINE entry == [i \in 1 .. Len(ordered) |->
             LET d == ordered[i]
             IN  PlanEntry(d, versions[d], phase,
                   /\ phase = PhasePreconditions
                   /\ NeedsProbe(Definition[d][versions[d]], bringUp /\ d = leaf))]
           I == {i \in 1 .. Len(ordered) : JobSteps(entry[i]) # <<>>}
           kept == Ascending(I)
           s == PhaseEntries(ordered, versions, phase, leaf, bringUp)
<1>1. \A i \in 1 .. Len(ordered) : /\ entry[i].item = ordered[i]
                                   /\ entry[i].version = versions[ordered[i]]
                                   /\ entry[i].phase = phase
  BY DEF PlanEntry
<1> HIDE DEF entry
<1>2. Len(ordered) \in Nat
  BY LenProperties
<1>3. kept \in Seq(I)
  BY <1>2, AscendingType
<1>4. s = [k \in 1 .. Len(kept) |-> entry[kept[k]]]
  BY DEF PhaseEntries, entry
<1>5. s \in Seq(Entry)
  BY PhaseEntriesType
<1> HIDE DEF kept, s
<1>6. Len(kept) \in Nat /\ \A k \in 1 .. Len(kept) : kept[k] \in 1 .. Len(ordered)
  BY <1>3, ElementOfSeq, LenProperties
<1>7. 1 .. Len(s) = 1 .. Len(kept)
  BY <1>4, <1>5, LenProperties
<1>8. \A k \in 1 .. Len(s) : /\ s[k].phase = phase
                             /\ s[k].version = versions[s[k].item]
                             /\ \E j \in 1 .. Len(path) : s[k].item = path[j]
  <2>1. SUFFICES ASSUME NEW k \in 1 .. Len(s)
                 PROVE  /\ s[k].phase = phase
                        /\ s[k].version = versions[s[k].item]
                        /\ \E j \in 1 .. Len(path) : s[k].item = path[j]
    OBVIOUS
  <2>2. k \in 1 .. Len(kept) /\ kept[k] \in 1 .. Len(ordered) /\ s[k] = entry[kept[k]]
    BY <1>4, <1>6, <1>7
  <2> QED
    BY <1>1, <2>2
<1>9. Rank(phase) \in Nat
  <2>1. Rank(phase) \in 0 .. 4
    BY RankFacts
  <2> QED
    BY <2>1
<1>10. Laid(s, Rank(phase), Rank(phase), path, versions)
  <2> DEFINE rank == Rank(phase)
  <2>1. \A k \in 1 .. Len(s) : Rank(s[k].phase) = rank
    BY <1>8, Zenon
  <2>2. rank \in Nat
    BY <1>9
  <2> HIDE DEF rank
  <2>3. \A i \in 1 .. Len(s) : rank <= Rank(s[i].phase) /\ Rank(s[i].phase) <= rank
    BY <2>1, <2>2
  <2>4. \A i, j \in 1 .. Len(s) : i < j => Rank(s[i].phase) <= Rank(s[j].phase)
    BY <2>1, <2>2
  <2>5. Laid(s, rank, rank, path, versions)
    BY <1>8, <2>3, <2>4, Zenon DEF Laid
  <2> QED
    BY <2>5 DEF rank
<1> QED
  BY <1>5, <1>10 DEF s

(***************************************************************************)
(* The plan create_run snapshots is phase-major, a live one without a      *)
(* rollback, over devices of the path at their current versions.           *)
(***************************************************************************)
LEMMA NewPlanLaid ==
  ASSUME NEW path \in Seq(Devices), NEW purpose, NEW dry \in BOOLEAN,
         NEW versions \in [Devices -> Versions]
  PROVE  Laid(NewPlan(path, purpose, dry, versions), 1, IF dry THEN 4 ELSE 3, path, versions)
<1> DEFINE ordered == OrderForPurpose(path, purpose)
           bringUp == purpose \notin TeardownPurposes
           part(order, phase) == PhaseEntries(order, versions, phase, path[1], bringUp)
           OnPath(order) == \A i \in 1 .. Len(order) : \E j \in 1 .. Len(path) : order[i] = path[j]
<1>1. \A order \in Seq(Devices) : OnPath(order) =>
        Backwards(order) \in Seq(Devices) /\ OnPath(Backwards(order))
  <2>1. SUFFICES ASSUME NEW order \in Seq(Devices), OnPath(order)
                 PROVE  Backwards(order) \in Seq(Devices) /\ OnPath(Backwards(order))
    OBVIOUS
  <2>2. Backwards(order) \in Seq(Devices) /\ Len(Backwards(order)) = Len(order) /\ Len(order) \in Nat
    BY BackwardsType, LenProperties
  <2>3. \A i \in 1 .. Len(order) : /\ Backwards(order)[i] = order[Len(order) + 1 - i]
                                   /\ Len(order) + 1 - i \in 1 .. Len(order)
    BY <2>2 DEF Backwards
  <2> QED
    BY <2>1, <2>2, <2>3, ZenonT(60)
<1>2. /\ ordered \in Seq(Devices) /\ OnPath(ordered)
      /\ Backwards(ordered) \in Seq(Devices) /\ OnPath(Backwards(ordered))
  <2>1. OnPath(path)
    OBVIOUS
  <2>2. ordered \in Seq(Devices) /\ OnPath(ordered)
    BY <1>1, <2>1 DEF OrderForPurpose
  <2> HIDE DEF ordered
  <2> QED
    BY <1>1, <2>2
<1>3. NewPlan(path, purpose, dry, versions) =
        part(ordered, PhasePreconditions) \o part(ordered, PhaseConfiguration)
          \o part(ordered, PhaseVerification)
          \o (IF dry THEN part(Backwards(ordered), PhaseRollback) ELSE <<>>)
  BY DEF NewPlan
<1> HIDE DEF ordered
<1>4. /\ Rank(PhasePreconditions) = 1 /\ Rank(PhaseConfiguration) = 2
      /\ Rank(PhaseVerification) = 3 /\ Rank(PhaseRollback) = 4
  BY RankFacts
<1>5. \A order \in Seq(Devices), phase \in Phases : OnPath(order) =>
        /\ part(order, phase) \in Seq(Entry)
        /\ Laid(part(order, phase), Rank(phase), Rank(phase), path, versions)
  BY PhaseEntriesLaid
<1> HIDE DEF part, OnPath
<1> DEFINE p == part(ordered, PhasePreconditions)
           c == part(ordered, PhaseConfiguration)
           v == part(ordered, PhaseVerification)
           b == part(Backwards(ordered), PhaseRollback)
<1>6. /\ p \in Seq(Entry) /\ Laid(p, 1, 1, path, versions)
      /\ c \in Seq(Entry) /\ Laid(c, 2, 2, path, versions)
      /\ v \in Seq(Entry) /\ Laid(v, 3, 3, path, versions)
      /\ b \in Seq(Entry) /\ Laid(b, 4, 4, path, versions)
  <2>1. {PhasePreconditions, PhaseConfiguration, PhaseVerification, PhaseRollback} \subseteq Phases
    BY DEF Phases
  <2> QED
    BY <1>2, <1>4, <1>5, <2>1
<1> HIDE DEF p, c, v, b
<1> DEFINE pc == p \o c
           pcv == pc \o v
<1>7. pc \in Seq(Entry) /\ Laid(pc, 1, 2, path, versions)
  BY <1>6, LaidConcat, ConcatProperties
<1> HIDE DEF pc
<1>8. pcv \in Seq(Entry) /\ Laid(pcv, 1, 3, path, versions)
  <2>1. 1 \in Nat /\ 2 \in Nat /\ 3 \in Nat /\ 1 <= 2 /\ 2 <= 3 /\ 3 <= 3
    OBVIOUS
  <2>2. Laid(pc \o v, 1, 3, path, versions)
    BY <1>6, <1>7, <2>1, LaidConcat
  <2>3. pc \o v \in Seq(Entry)
    BY <1>6, <1>7, ConcatProperties
  <2> QED
    BY <2>2, <2>3
<1> HIDE DEF pcv
<1>9. CASE dry
  <2>1. 1 \in Nat /\ 3 \in Nat /\ 4 \in Nat /\ 1 <= 3 /\ 3 <= 4 /\ 4 <= 4
    OBVIOUS
  <2>2. Laid(pcv \o b, 1, 4, path, versions)
    BY <1>6, <1>8, <2>1, LaidConcat
  <2> QED
    BY <1>3, <1>9, <2>2 DEF p, c, v, b, pc, pcv
<1>10. CASE ~dry
  <2>1. pcv \o <<>> = pcv
    BY <1>8
  <2> QED
    BY <1>3, <1>8, <1>10, <2>1 DEF p, c, v, pc, pcv
<1> QED
  BY <1>9, <1>10

(* A row as create_run, or the engine before it, opened it. *)
LEMMA OpenedLawful ==
  ASSUME NEW w, WellFormed(w), PlanInOrder(w), w.status = "QUEUED",
         w.code = NoCode, w.cause = NoCode,
         ~w.dry => \A i \in 1 .. Len(w.plan) : w.plan[i].phase # PhaseRollback,
         \/ w.plan = <<>> /\ w.kids = <<>> /\ w.phase = NoPhase
         \/ w.plan # <<>> /\ w.kids = <<NewJob(1)>> /\ w.phase = w.plan[1].phase
  PROVE  Lawful(w) /\ Known(w)
<1>1. w.plan \in Seq(Entry) /\ w.dry \in BOOLEAN /\ Len(w.plan) \in Nat
  BY Lengths
<1>2. w.plan # <<>> => 1 \in 1 .. Len(w.plan)
  BY <1>1
<1>3. \/ Len(w.kids) = 0
      \/ Len(w.kids) = 1 /\ w.kids[1] = NewJob(1)
  <2>1. \A x : Len(<<x>>) = 1 /\ <<x>>[1] = x /\ <<x>> # <<>>
    OBVIOUS
  <2>2. Len(<<>>) = 0
    OBVIOUS
  <2> QED
    BY <2>1, <2>2
<1>4. NewJob(1).position = 1 /\ NewJob(1).status = "QUEUED" /\ NewJob(1).inflight = NoStep
  BY DEF NewJob
<1>5. ~Returning(w)
  BY DEF Returning
<1>6. ~w.dry => w.phase # PhaseRollback
  BY <1>2 DEF NoPhase, PhaseRollback
<1>7. CauseSet(w)
  BY <1>5, <1>6 DEF CauseSet
<1>8. \A k \in 1 .. Len(w.kids) : k = 1 /\ Len(w.kids) = 1 /\ w.kids[k] = NewJob(1)
  <2> DEFINE n == Len(w.kids)
  <2>1. n = 0 \/ n = 1
    BY <1>3
  <2> HIDE DEF n
  <2>2. \A k \in 1 .. n : k = 1 /\ n = 1
    BY <2>1
  <2> QED
    BY <1>3, <2>2 DEF n
<1>9. ForwardOnSuccess(w) /\ ShownBefore(w)
  BY <1>8 DEF ForwardOnSuccess, ShownBefore
<1>10. DryInStep(w) /\ JobOutcomes(w)
  BY <1>4, <1>8 DEF DryInStep, JobOutcomes
<1>11. OpenLaw(w)
  BY <1>4, <1>8 DEF OpenLaw, EntryOf
<1>12. ClosedLaw(w)
  BY DEF ClosedLaw, IncompleteLaw, RolledBackLaw, FailedLaw, SucceededLaw, AnnouncedLaw,
         NoCode, Terminal
<1>13. Known(w)
  <2>1. \A x : <<x>> # <<>>
    OBVIOUS
  <2>2. Begun(w)
    BY <2>1 DEF Begun
  <2>3. \A k \in 1 .. Len(w.kids) : StepKnown(EntryOf(w, k), w.kids[k])
    BY <1>4, <1>8 DEF StepKnown
  <2> QED
    BY <2>2, <2>3 DEF Known
<1> QED
  BY <1>7, <1>9, <1>10, <1>11, <1>12, <1>13 DEF Lawful, Base

(***************************************************************************)
(* create_or_get_run: the gates it passed show in the plan it snapshots.   *)
(***************************************************************************)
LEMMA CreateOnward ==
  ASSUME OInv, IInv', NEW s \in Services, NEW purpose \in RunPurposes,
         NEW dry \in DryRuns, NEW guided \in GuidedRuns,
         CreateOrGetRun(s, purpose, dry, guided)
  PROVE  RowsLawful' /\ Traced' /\ StampsEarned' /\ PlansSimulated'
<1> DEFINE w == NewRun(s, purpose, dry, guided)
           path == Path[s][reparents[s]]
           plan == NewPlan(path, purpose, dry, version)
           n == Len(runs) + 1
<1>1. /\ IInv /\ RowsLawful /\ Traced /\ StampsEarned /\ PlansSimulated
  BY DEF OInv
<1>2. /\ runs \in Seq(Run) /\ version \in [Devices -> Versions] /\ Len(runs) \in Nat
      /\ lastDry \in [Devices -> 0 .. MaxVersion]
      /\ reparents[s] \in PathRevisions /\ dry \in BOOLEAN
  BY <1>1, ProvisioningRunsAssumption DEF IInv, TablesOK
<1>3. path \in Seq(Devices)
  BY <1>2, RunPlanAssumption
<1>4. runs' = Append(runs, w) /\ applied' = applied /\ lastDry' = lastDry /\ GatesPass(s, dry)
  BY DEF CreateOrGetRun
<1>5. /\ w.plan = plan /\ w.dry = dry /\ w.status = "QUEUED" /\ w.code = NoCode
      /\ w.cause = NoCode /\ w.phase = (IF plan = <<>> THEN NoPhase ELSE plan[1].phase)
      /\ w.kids = IF plan = <<>> THEN <<>> ELSE <<NewJob(1)>>
  BY DEF NewRun
<1>6. Laid(plan, 1, IF dry THEN 4 ELSE 3, path, version)
  BY <1>2, <1>3, NewPlanLaid
<1> HIDE DEF plan, w, path
<1>7. /\ Len(runs') = n /\ runs'[n] = w
      /\ \A q \in 1 .. Len(runs) : runs'[q] = runs[q]
  BY <1>2, <1>4
<1>8. WellFormed(w)
  <2>1. n \in 1 .. Len(runs')
    BY <1>2, <1>7
  <2>2. \A q \in 1 .. Len(runs') : WellFormed(runs'[q])
    BY DEF IInv, RowsWellFormed, RunIds
  <2> QED
    BY <1>7, <2>1, <2>2
<1>9. \A q \in 1 .. n : q = n \/ q \in 1 .. Len(runs)
  BY <1>2
<1>10. \A q \in 1 .. Len(runs) : q \in 1 .. n /\ q \in 1 .. (n - 1) /\ q # n
  BY <1>2
<1>11. Len(plan) \in Nat /\ plan \in Seq(Entry)
  BY <1>5, <1>8, Lengths
<1>12. PlanInOrder(w)
  <2>1. \A i, j \in 1 .. Len(plan) : i < j => Rank(plan[i].phase) <= Rank(plan[j].phase)
    BY <1>6 DEF Laid
  <2>2. \A i \in 1 .. Len(plan) : 1 <= Rank(plan[i].phase)
    BY <1>6 DEF Laid
  <2>3. \A i \in 1 .. Len(plan) : plan[i].phase # NoPhase
    BY <2>2, RankFacts
  <2> QED
    BY <1>5, <2>1, <2>3 DEF PlanInOrder
<1>13. ~w.dry => \A i \in 1 .. Len(w.plan) : w.plan[i].phase # PhaseRollback
  <2>1. ~dry => \A i \in 1 .. Len(plan) : Rank(plan[i].phase) <= 3
    BY <1>6 DEF Laid
  <2> QED
    BY <1>5, <2>1, RankFacts
<1>14. Lawful(w) /\ Known(w)
  <2>1. \/ w.plan = <<>> /\ w.kids = <<>> /\ w.phase = NoPhase
        \/ w.plan # <<>> /\ w.kids = <<NewJob(1)>> /\ w.phase = w.plan[1].phase
    BY <1>5
  <2> QED
    BY <1>5, <1>8, <1>12, <1>13, <2>1, OpenedLawful
<1>16. RowsLawful'
  <2>1. \A q \in 1 .. n : Lawful(runs'[q]) /\ Known(runs'[q])
    BY <1>1, <1>7, <1>9, <1>14 DEF RowsLawful, RunIds
  <2> QED
    BY <1>7, <2>1 DEF RowsLawful, RunIds
<1>17. Traced'
  <2>1. SUFFICES ASSUME NEW a \in applied
                 PROVE  Admitted(runs'[a[1]], a[2], a[3])
    BY <1>4 DEF Traced
  <2>2. a[1] \in 1 .. Len(runs) /\ Admitted(runs[a[1]], a[2], a[3])
    BY <1>1 DEF IInv, TablesOK, Traced
  <2> QED
    BY <1>7, <2>2
<1>18. StampsEarned'
  <2>1. \A d \in Devices :
          lastDry'[d] <= Simulated \/ \E q \in 1 .. n : Simulates(runs'[q], d, lastDry'[d])
    BY <1>1, <1>4, <1>7, <1>10 DEF StampsEarned, RunIds
  <2> QED
    BY <1>7, <2>1 DEF StampsEarned, RunIds
<1>19. PlansSimulated'
  <2> DEFINE Fine(p, i) ==
               \/ runs'[p].dry
               \/ runs'[p].plan[i].phase = NoPhase
               \/ runs'[p].plan[i].item \in SystemDevices
               \/ runs'[p].plan[i].version <= Simulated
               \/ \E q \in 1 .. (p - 1) :
                    Simulates(runs'[q], runs'[p].plan[i].item, runs'[p].plan[i].version)
  <2>1. ASSUME NEW p \in 1 .. Len(runs), NEW i \in 1 .. Len(runs'[p].plan)
        PROVE  Fine(p, i)
    <3>1. runs'[p] = runs[p]
      BY <1>7, <2>1
    <3>2. \A q \in 1 .. (p - 1) : q \in 1 .. Len(runs) /\ runs'[q] = runs[q]
      <4>1. \A q \in 1 .. (p - 1) : q \in 1 .. Len(runs)
        BY <1>2, <2>1
      <4> QED
        BY <1>7, <4>1
    <3>3. i \in 1 .. Len(runs[p].plan) /\ p \in RunIds
      BY <2>1, <3>1 DEF RunIds
    <3> QED
      BY <1>1, <3>1, <3>2, <3>3 DEF PlansSimulated
  <2>2. ASSUME NEW i \in 1 .. Len(plan), ~dry
        PROVE  Fine(n, i)
    <3>1. PICK j \in 1 .. Len(path) : plan[i].item = path[j]
      BY <1>6, <2>2 DEF Laid
    <3>2. plan[i].version = version[plan[i].item]
      BY <1>6, <2>2 DEF Laid
    <3>3. /\ path[j] \in SystemDevices \/ lastDry[path[j]] = version[path[j]]
          /\ path[j] \in Devices
      <4>1. path[j] \in SystemDevices \/ lastDry[path[j]] = version[path[j]]
        BY <1>4, <2>2 DEF GatesPass, path
      <4> QED
        BY <1>3, <4>1, ElementOfSeq
    <3>4. \/ plan[i].item \in SystemDevices
          \/ plan[i].version <= Simulated
          \/ \E q \in RunIds : Simulates(runs[q], plan[i].item, plan[i].version)
      BY <1>1, <3>1, <3>2, <3>3 DEF StampsEarned
    <3>5. \/ plan[i].item \in SystemDevices
          \/ plan[i].version <= Simulated
          \/ \E q \in 1 .. (n - 1) : Simulates(runs'[q], plan[i].item, plan[i].version)
      BY <1>7, <1>10, <3>4 DEF RunIds
    <3> HIDE DEF n
    <3> QED
      BY <1>5, <1>7, <3>5
  <2>3. \A p \in 1 .. n : \A i \in 1 .. Len(runs'[p].plan) : Fine(p, i)
    <3>1. SUFFICES ASSUME NEW p \in 1 .. n, NEW i \in 1 .. Len(runs'[p].plan)
                   PROVE  Fine(p, i)
      OBVIOUS
    <3>2. CASE p = n /\ dry
      <4>1. runs'[n].dry
        BY <1>5, <1>7, <3>2
      <4> QED
        BY <3>2, <4>1
    <3>3. CASE p = n /\ ~dry
      <4>1. i \in 1 .. Len(plan)
        BY <1>5, <1>7, <3>1, <3>3
      <4>2. Fine(n, i)
        BY <2>2, <3>3, <4>1
      <4> HIDE DEF Fine
      <4> QED
        BY <3>3, <4>2
    <3>4. CASE p \in 1 .. Len(runs)
      BY <2>1, <3>1, <3>4
    <3> QED
      BY <1>2, <1>9, <3>1, <3>2, <3>3, <3>4
  <2> QED
    BY <1>7, <2>3 DEF PlansSimulated, RunIds
<1> QED
  BY <1>16, <1>17, <1>18, <1>19

(* At the start there is at most a run older than engine v2. *)
LEMMA InitOInv == Init => OInv
<1> SUFFICES ASSUME Init PROVE OInv
  OBVIOUS
<1>1. IInv
  BY InitIInv
<1>2. applied = {} /\ lastDry = [d \in Devices |-> Simulated] /\ Simulated \in {0, 1}
  BY ProvisioningRunsAssumption DEF Init
<1>3. Traced /\ StampsEarned
  BY <1>2 DEF Traced, StampsEarned
<1>4. CASE runs = <<>>
  BY <1>1, <1>3, <1>4 DEF OInv, RowsLawful, PlansSimulated, RunIds
<1>5. ASSUME NEW s \in LegacyServices, NEW dry \in DryRuns, runs = <<LegacyRun(s, dry)>>
      PROVE  OInv
  <2> DEFINE w == LegacyRun(s, dry)
             path == Path[s][0]
             plan == [i \in 1 .. Len(path) |-> PlanEntry(path[i], 1, NoPhase, FALSE)]
  <2>1. Len(runs) = 1 /\ runs[1] = w
    BY <1>5
  <2>2. WellFormed(w)
    BY <1>1, <2>1 DEF IInv, RowsWellFormed, RunIds
  <2>3. path \in Seq(Devices) /\ path # <<>>
    BY RunPlanAssumption, ProvisioningRunsAssumption DEF PathRevisions
  <2>4. Len(path) \in Nat /\ 1 \in 1 .. Len(path)
    BY <2>3, EmptySeq, LenProperties
  <2>5. /\ w.plan = plan /\ w.status = "QUEUED" /\ w.code = NoCode
        /\ w.cause = NoCode /\ w.phase = NoPhase /\ w.kids = <<NewJob(1)>>
    BY DEF LegacyRun
  <2> HIDE DEF w, path
  <2>6. \A i \in 1 .. Len(path) : plan[i].phase = NoPhase
    BY DEF PlanEntry
  <2>7. DOMAIN plan = 1 .. Len(path)
    OBVIOUS
  <2> HIDE DEF plan
  <2>8. w.plan \in Seq(Entry)
    BY <2>2, Lengths
  <2>9. 1 .. Len(plan) = 1 .. Len(path)
    BY <2>5, <2>7, <2>8, LenProperties
  <2>10. \A i \in 1 .. Len(w.plan) : w.plan[i].phase = NoPhase
    BY <2>5, <2>6, <2>9
  <2>11. 1 \in 1 .. Len(w.plan)
    BY <2>4, <2>5, <2>9
  <2>12. w.plan # <<>>
    BY <2>8, <2>11, EmptySeq
  <2>13. PlanInOrder(w)
    BY <2>10, RankFacts DEF PlanInOrder
  <2>14. \A i \in 1 .. Len(w.plan) : w.plan[i].phase # PhaseRollback
    BY <2>10 DEF NoPhase, PhaseRollback
  <2>15. Lawful(w) /\ Known(w)
    BY <2>2, <2>5, <2>10, <2>11, <2>12, <2>13, <2>14, OpenedLawful
  <2>16. \A r \in RunIds : runs[r] = w
    BY <2>1 DEF RunIds
  <2> QED
    BY <1>1, <1>3, <2>10, <2>15, <2>16 DEF OInv, RowsLawful, PlansSimulated
<1> QED
  BY <1>4, <1>5 DEF Init

(* Every step keeps the invariant. *)
LEMMA NextOInv == OInv /\ [Next]_vars => OInv'
<1> SUFFICES ASSUME OInv, [Next]_vars PROVE OInv'
  OBVIOUS
<1>1. IInv'
  BY NextIInv DEF OInv
<1>2. CASE Produce
  BY <1>1, <1>2, CreateOnward DEF OInv, Produce
<1>3. CASE (\E d \in Devices : EditPlaybook(d)) \/ (\E s \in Services : Reparent(s))
  <2>1. runs' = runs /\ applied' = applied /\ lastDry' = lastDry
    BY <1>3 DEF EditPlaybook, Reparent
  <2> QED
    BY <1>1, <2>1 DEF OInv, RowsLawful, Traced, StampsEarned, PlansSimulated, RunIds
<1>4. ASSUME Next, NEW r \in RunIds, RunMoves(r)
      PROVE  OInv'
  BY <1>1, <1>4, CommitOnward DEF RunMoves, OInv
<1>5. CASE Next /\ \E r \in RunIds : \E k \in 1 .. Len(runs[r].kids) : JobStep(r, k)
  BY <1>4, <1>5, JobStepOnward
<1>6. CASE Next /\ \E r \in RunIds : RepairStrandedRun(r) \/ RevertRun(r) \/ RetryRollback(r)
  BY <1>4, <1>6, RunStepOnward
<1>7. CASE UNCHANGED tables
  BY <1>1, <1>7 DEF tables, OInv, RowsLawful, Traced, StampsEarned, PlansSimulated, RunIds
<1>8. UNCHANGED vars => UNCHANGED tables
  BY DEF vars, tables
<1>9. \A r \in RunIds : PassRefusal(r) => UNCHANGED tables
  BY DEF PassRefusal, tables
<1> QED
  BY <1>2, <1>3, <1>5, <1>6, <1>7, <1>8, <1>9 DEF Next, EngineStep, OfficeStep

-----------------------------------------------------------------------------
(* The theorems.                                                           *)

(* OInv holds throughout. *)
LEMMA OInvHolds == Spec => []OInv
  BY InitOInv, NextOInv, PTL DEF Spec

(***************************************************************************)
(* A run that close_run left ROLLED_BACK still carries the cause of its    *)
(* rollback as its code, however often retry_rollback reopened it.         *)
(***************************************************************************)
THEOREM RolledBackKeepsItsCauseHolds == Spec => []RolledBackKeepsItsCause
<1>1. OInv => RolledBackKeepsItsCause
  BY DEF OInv, RowsLawful, Lawful, ClosedLaw, RolledBackLaw, RolledBackKeepsItsCause
<1> QED
  BY <1>1, OInvHolds, PTL

(***************************************************************************)
(* The last RUN_CLOSED event that close_run wrote for a closed live run    *)
(* carries the status and code of its row, also when the office reopened   *)
(* the run and it closed again, and behind a late JOB_FINISHED.            *)
(***************************************************************************)
THEOREM LastEventHolds == Spec => []LastEventTellsTheOutcome
<1>1. OInv => LastEventTellsTheOutcome
  <2>1. SUFFICES ASSUME OInv, NEW r \in RunIds, runs[r].status \in Terminal, ~runs[r].dry
                 PROVE  Announced(runs[r])
    BY DEF LastEventTellsTheOutcome, Announced
  <2> QED
    BY <2>1 DEF OInv, RowsLawful, Lawful, ClosedLaw, AnnouncedLaw
<1> QED
  BY <1>1, OInvHolds, PTL

(***************************************************************************)
(* advance_run queues a forward entry of a live run only when every        *)
(* earlier one succeeded, and none once the run has begun to roll back.    *)
(***************************************************************************)
THEOREM ForwardNeedsSuccessHolds == Spec => []ForwardNeedsSuccess
<1>1. OInv => ForwardNeedsSuccess
  BY DEF OInv, RowsLawful, Lawful, Base, ForwardOnSuccess, ForwardNeedsSuccess
<1> QED
  BY <1>1, OInvHolds, PTL

(***************************************************************************)
(* A run that succeeded has merged the outputs of every child that         *)
(* published any, and an older child's never over a newer one's, although  *)
(* the advance that merges them may be lost and made up for by the repair. *)
(***************************************************************************)
THEOREM SuccessShowsItsOutputsHolds == Spec => []SuccessShowsItsOutputs
<1>1. OInv => SuccessShowsItsOutputs
  BY DEF OInv, RowsLawful, Lawful, ClosedLaw, SucceededLaw, Shown, SuccessShowsItsOutputs
<1> QED
  BY <1>1, OInvHolds, PTL

(* A row that closed untouched has nothing on the devices. *)
LEMMA FailedUntouched == OInv => FailedMeansUntouched
<1>1. SUFFICES ASSUME OInv, NEW r \in RunIds, runs[r].status \in {"FAILED", "CANCELLED"},
                      runs[r].code # "ROLLBACK_INCOMPLETE", ~Legacy(runs[r]),
                      NEW a \in applied, a[1] = r
               PROVE  FALSE
  BY DEF FailedMeansUntouched, AppliedBy
<1>2. WellFormed(runs[r]) /\ FailedLaw(runs[r]) /\ Admitted(runs[r], a[2], a[3])
  BY <1>1 DEF OInv, IInv, RowsWellFormed, RowsLawful, Lawful, ClosedLaw, Traced
<1>3. Touched(runs[r], Devices) = {}
  BY <1>1, <1>2 DEF FailedLaw, Admitted
<1>4. PICK k \in KidsOfPhase(runs[r], PhaseConfiguration) : a[3] \in Marked(runs[r].kids[k])
  <2>1. PICK k \in 1 .. Len(runs[r].kids) :
          /\ EntryOf(runs[r], k).phase \in {PhaseConfiguration, NoPhase}
          /\ a[3] \in Marked(runs[r].kids[k])
    BY <1>2 DEF Admitted
  <2>2. runs[r].kids[k].position \in 1 .. Len(runs[r].plan)
    BY <1>2 DEF WellFormed, AlongThePlan
  <2>3. EntryOf(runs[r], k).phase # NoPhase
    BY <1>1, <2>2 DEF Legacy, EntryOf
  <2> QED
    BY <2>1, <2>3 DEF KidsOfPhase
<1>5. ~IsLive(runs[r].kids[k]) /\ k \in 1 .. Len(runs[r].kids)
  BY <1>1, <1>2, <1>4 DEF WellFormed, OneLive, LiveKids, Terminal, KidsOfPhase
<1>6. a[3] \in RanSteps(runs[r].kids[k])
  BY <1>4, <1>5 DEF Marked
<1>7. EntryOf(runs[r], k).item \in Devices
  BY <1>2, <1>5, EntryOfType DEF Entry
<1>8. k \in Touched(runs[r], Devices)
  BY <1>4, <1>6, <1>7 DEF Touched
<1> QED
  BY <1>3, <1>8

(***************************************************************************)
(* A live run of engine v2 that _enter_rollback, close_run or the reaper   *)
(* left FAILED or CANCELLED without ROLLBACK_INCOMPLETE has nothing on any *)
(* device: what is on a device some child's log admits (Traced), and a run *)
(* whose log admits anything rolls back instead.  A run older than the     *)
(* phases is not covered: _advance_legacy closes it FAILED as it stands.   *)
(***************************************************************************)
THEOREM FailedMeansUntouchedHolds == Spec => []FailedMeansUntouched
  BY FailedUntouched, OInvHolds, PTL

(***************************************************************************)
(* The dry-run gate of create_run: every playbook version in the plan of a *)
(* live run was executed by an earlier dry run all of whose children       *)
(* succeeded, or was simulated before the start, although edits raise      *)
(* versions between a simulation, its stamp and the plan.  Playbooks with  *)
(* a name of SYSTEM_PLAYBOOK_NAMES are exempt from the gate and from this. *)
(***************************************************************************)
THEOREM LiveVersionsHolds == Spec => []LiveVersionsWereSimulated
<1>1. OInv => LiveVersionsWereSimulated
  <2>1. SUFFICES ASSUME OInv, NEW r \in RunIds, NEW i \in 1 .. Len(runs[r].plan)
                 PROVE  \/ runs[r].dry
                        \/ runs[r].plan[i].phase = NoPhase
                        \/ runs[r].plan[i].item \in SystemDevices
                        \/ runs[r].plan[i].version <= Simulated
                        \/ \E q \in 1 .. (r - 1) :
                             /\ runs[q].dry
                             /\ \A k \in 1 .. Len(runs[q].kids) : runs[q].kids[k].status = "SUCCEEDED"
                             /\ \E k \in 1 .. Len(runs[q].kids) :
                                  /\ EntryOf(runs[q], k).item = runs[r].plan[i].item
                                  /\ EntryOf(runs[q], k).version = runs[r].plan[i].version
    BY DEF LiveVersionsWereSimulated
  <2>2. \/ runs[r].dry
        \/ runs[r].plan[i].phase = NoPhase
        \/ runs[r].plan[i].item \in SystemDevices
        \/ runs[r].plan[i].version <= Simulated
        \/ \E q \in 1 .. (r - 1) :
             Simulates(runs[q], runs[r].plan[i].item, runs[r].plan[i].version)
    BY <2>1 DEF OInv, PlansSimulated
  <2>3. ASSUME NEW q \in 1 .. (r - 1),
               Simulates(runs[q], runs[r].plan[i].item, runs[r].plan[i].version)
        PROVE  /\ runs[q].dry
               /\ \A k \in 1 .. Len(runs[q].kids) : runs[q].kids[k].status = "SUCCEEDED"
               /\ \E k \in 1 .. Len(runs[q].kids) :
                    /\ EntryOf(runs[q], k).item = runs[r].plan[i].item
                    /\ EntryOf(runs[q], k).version = runs[r].plan[i].version
    BY <2>3, Zenon DEF Simulates
  <2> QED
    BY <2>2, <2>3, Zenon
<1> QED
  BY <1>1, OInvHolds, PTL

(***************************************************************************)
(* finish_job writes JOB_FINISHED behind the RUN_CLOSED of the close_run   *)
(* it led to, so that the event's consumer sees the run closed.            *)
(***************************************************************************)
THEOREM FinishFollowsCloseHolds == Spec => FinishFollowsClose
<1> DEFINE Follow ==
      \A r \in RunIds :
        /\ runs[r].status \in InFlight
        /\ runs'[r].status \in Terminal
        /\ Len(runs'[r].outbox) > Len(runs[r].outbox) + 1
        => runs'[r].outbox[Len(runs'[r].outbox)].kind = "JOB_FINISHED"
<1>1. \A x : ~(x \in InFlight /\ x \in Terminal)
  BY DEF InFlight, Terminal
<1>2. OInv /\ Next => Follow
  <2>1. SUFFICES ASSUME OInv, Next, NEW r \in RunIds, runs[r].status \in InFlight,
                        runs'[r].status \in Terminal
                 PROVE  Told(runs[r], runs'[r])
    BY DEF Told
  <2>2. runs'[r] # runs[r] /\ runs \in Seq(Run) /\ Len(runs) \in Nat
    BY <1>1, <2>1 DEF OInv, IInv, TablesOK
  <2>3. ASSUME NEW q \in RunIds, RunMoves(q)
        PROVE  Told(runs[r], runs'[r])
    <3>1. PICK left : Onward(left, runs[q]) /\ Commit(q, left)
      BY <2>3 DEF RunMoves
    <3>2. runs'[r] = IF r = q THEN left.row ELSE runs[r]
      BY <2>2, <3>1 DEF Commit, RunIds
    <3>3. q = r
      BY <2>2, <3>2
    <3> QED
      BY <3>1, <3>2, <3>3 DEF Onward
  <2>4. ~Produce
    <3>1. SUFFICES ASSUME NEW w, runs' = Append(runs, w)
                   PROVE  runs'[r] = runs[r]
      BY <2>2 DEF Produce, CreateOrGetRun
    <3> QED
      BY <2>2, <3>1 DEF RunIds
  <2>5. ~((\E d \in Devices : EditPlaybook(d)) \/ (\E s \in Services : Reparent(s)))
    BY <2>2 DEF EditPlaybook, Reparent
  <2>6. \A q \in RunIds : ~PassRefusal(q)
    BY <2>2 DEF PassRefusal, tables
  <2>7. \E q \in RunIds : RunMoves(q)
    BY <2>1, <2>4, <2>5, <2>6, JobStepOnward, RunStepOnward DEF Next, EngineStep, OfficeStep
  <2> QED
    BY <2>3, <2>7
<1>3. OInv /\ [Next]_vars => [Follow]_vars
  BY <1>2
<1>4. Spec => [][Follow]_vars
  BY <1>3, OInvHolds, PTL DEF Spec
<1> QED
  BY <1>4 DEF FinishFollowsClose
=============================================================================
