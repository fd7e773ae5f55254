----------------------- MODULE ProvisioningRunsProofs -----------------------
(***************************************************************************)
(* Every step of ProvisioningRuns keeps the tables typed and every run     *)
(* well formed (RunRowsProofs): children along the plan, at most one of    *)
(* them live and that one the last, none of a closed run, and a step under *)
(* way or awaited inside its job.                                          *)
(***************************************************************************)
EXTENDS ProvisioningRuns, RunRowsProofs

RowsWellFormed == \A r \in RunIds : WellFormed(runs[r])

(* TablesOK alone is not inductive: that a child's entry exists, and that    *)
(* the step under way exists, rest on the shape of every row.              *)
IInv == TablesOK /\ RowsWellFormed

Footprints == (1 .. Len(runs)) \X Devices \X Names

(***************************************************************************)
(* A step that replaces one row by a well-formed one.                      *)
(***************************************************************************)
LEMMA RowStep ==
  ASSUME IInv, NEW r \in RunIds, NEW w, WellFormed(w),
         runs' = [runs EXCEPT ![r] = w],
         version' = version, reparents' = reparents,
         lastDry' \in [Devices -> 0 .. MaxVersion],
         drift' \in [Services -> BOOLEAN],
         mishaps' \in 0 .. MaxMishaps,
         applied' \subseteq Footprints
  PROVE  IInv'
<1>1. runs \in Seq(Run) /\ w \in Run
  BY DEF IInv, TablesOK, WellFormed
<1>2. /\ runs' \in Seq(Run) /\ Len(runs') = Len(runs)
      /\ \A q \in 1 .. Len(runs) : runs'[q] = IF q = r THEN w ELSE runs[q]
  BY <1>1, ExceptSeq DEF RunIds
<1>3. TablesOK'
  BY <1>2 DEF IInv, TablesOK, Footprints
<1>4. \A q \in 1 .. Len(runs') : WellFormed(runs'[q])
  BY <1>2 DEF IInv, RowsWellFormed, RunIds
<1>5. RowsWellFormed'
  BY <1>4 DEF RowsWellFormed, RunIds
<1> QED
  BY <1>3, <1>5 DEF IInv

(* A committed transaction. *)
LEMMA CommitStep ==
  ASSUME IInv, NEW r \in RunIds, NEW left, WellLeft(left, runs[r]), Commit(r, left),
         version' = version, reparents' = reparents,
         mishaps' \in 0 .. MaxMishaps, applied' \subseteq Footprints
  PROVE  IInv'
<1>1. /\ version \in [Devices -> Versions] /\ lastDry \in [Devices -> 0 .. MaxVersion]
      /\ drift \in [Services -> BOOLEAN]
  BY DEF IInv, TablesOK
<1>2. Versions \subseteq 0 .. MaxVersion
  BY RunPlanAssumption DEF Versions
<1>3. lastDry' \in [Devices -> 0 .. MaxVersion]
  BY <1>1, <1>2 DEF Commit
<1>4. left.row.service \in Services /\ WellFormed(left.row)
  BY DEF WellLeft, WellFormed, Run
<1>5. drift' \in [Services -> BOOLEAN]
  BY <1>1, <1>4 DEF Commit
<1>6. runs' = [runs EXCEPT ![r] = left.row]
  BY DEF Commit
<1> QED
  BY <1>3, <1>4, <1>5, <1>6, RowStep

(* The budget of mishaps is never overdrawn. *)
LEMMA SpendStep ==
  ASSUME IInv, NEW n \in Nat, Spend(n)
  PROVE  mishaps' \in 0 .. MaxMishaps
BY ProvisioningRunsAssumption DEF IInv, TablesOK, Spend

(* A worker's update of one job. *)
LEMMA UpdateJobStep ==
  ASSUME IInv, NEW r \in RunIds, NEW k \in 1 .. Len(runs[r].kids), NEW job \in Job,
         job.position = runs[r].kids[k].position,
         IsLive(runs[r].kids[k]),
         job.inflight # NoStep \/ job.status = "PENDING_MANUAL"
           => job.next <= Len(JobSteps(EntryOf(runs[r], k))),
         UpdateJob(r, k, job),
         mishaps' \in 0 .. MaxMishaps, applied' \subseteq Footprints
  PROVE  IInv'
<1> DEFINE w == [runs[r] EXCEPT !.kids[k] = job]
<1>1. WellFormed(runs[r]) /\ runs \in Seq(Run)
  BY DEF IInv, RowsWellFormed, TablesOK
<1>2. WellFormed(w)
  BY <1>1, ReplaceKid
<1>3. runs' = [runs EXCEPT ![r] = w]
  BY DEF UpdateJob
<1>4. /\ version' = version /\ reparents' = reparents
      /\ lastDry' \in [Devices -> 0 .. MaxVersion] /\ drift' \in [Services -> BOOLEAN]
  BY DEF UpdateJob, IInv, TablesOK
<1> HIDE DEF w
<1> QED
  BY <1>2, <1>3, <1>4, RowStep

(* A settled job, whichever of its follow-ons fail. *)
LEMMA SettleJobStep ==
  ASSUME IInv, NEW r \in RunIds, NEW w, WellFormed(w), w.service = runs[r].service,
         NEW k \in 1 .. Len(w.kids), NEW status \in Terminal, NEW spent \in Nat,
         SettleJob(r, k, w, status, spent),
         applied' \subseteq Footprints
  PROVE  IInv'
<1>1. PICK advances \in BOOLEAN, emits \in BOOLEAN :
        /\ Spend(spent + (IF advances THEN 0 ELSE 1) + (IF emits THEN 0 ELSE 1))
        /\ Commit(r, FinishJob(w, k, status, advances, emits))
        /\ UNCHANGED <<version, reparents>>
  BY DEF SettleJob
<1>2. spent + (IF advances THEN 0 ELSE 1) + (IF emits THEN 0 ELSE 1) \in Nat
  OBVIOUS
<1>3. mishaps' \in 0 .. MaxMishaps
  BY <1>1, <1>2, SpendStep
<1>4. WellLeft(FinishJob(w, k, status, advances, emits), runs[r])
  <2> DEFINE left == FinishJob(w, k, status, advances, emits)
  <2>1. WellLeft(left, w)
    BY FinishJobWellLeft, ZenonT(30)
  <2> HIDE DEF left
  <2>2. WellLeft(left, runs[r])
    BY <2>1 DEF WellLeft
  <2> QED
    BY <2>2 DEF left
<1> QED
  BY <1>1, <1>3, <1>4, CommitStep

-----------------------------------------------------------------------------
(* The worker's helpers.                                                   *)

(* A log entry the worker writes is an entry of the log. *)
LEMMA LoggedType ==
  ASSUME NEW job \in Job, NEW step, step.name \in StepNames,
         NEW status \in {"SUCCEEDED", "FAILED", "SKIPPED", "PENDING"},
         NEW stage \in {"connect", "render", "command"}
  PROVE  LET l == Logged(job, step, status, stage)
         IN  l \in Job /\ l.position = job.position /\ l.status = job.status
             /\ l.inflight = NoStep
<1> DEFINE e == [name |-> step.name, status |-> status, stage |-> stage]
           next == IF status = "FAILED" THEN job.next ELSE job.next + 1
           log == job.log \cup {e}
           l == Logged(job, step, status, stage)
<1>1. e \in LogEntry
  BY DEF LogEntry
<1>2. log \subseteq LogEntry
  BY <1>1 DEF Job
<1>3. next \in Nat \ {0}
  BY DEF Job
<1>4. (status = "FAILED") \in BOOLEAN
  OBVIOUS
<1>5. l = [job EXCEPT !.log = log, !.inflight = NoStep, !.parked = "no", !.next = next,
                      !.failed = (status = "FAILED")]
  BY DEF Logged
<1> HIDE DEF log, next, l
<1>6. NoStep \in StepNames \cup {NoStep} /\ "no" \in {"no", "manual", "guided", "continued"}
  OBVIOUS
<1>7. l \in Job /\ l.position = job.position /\ l.status = job.status /\ l.inflight = NoStep
  BY <1>2, <1>3, <1>4, <1>5, <1>6, Zenon DEF Job
<1> QED
  BY <1>7 DEF l

(* A step that configures a device is one its playbook names. *)
LEMMA ConfiguresType ==
  ASSUME NEW e \in Entry, NEW step, Configures(e, step)
  PROVE  /\ e.phase \in {PhaseConfiguration, NoPhase}
         /\ e.phase = NoPhase => step.name \in Names
<1>1. CASE e.phase = PhaseConfiguration
  BY <1>1 DEF PhaseConfiguration, NoPhase
<1>2. CASE e.phase = NoPhase
  <2>1. DefinitionFor(e)[PhaseConfiguration] \in Seq(Step)
    BY RunPlanAssumption DEF DefinitionFor, Entry, Phases
  <2>2. PICK i \in 1 .. Len(DefinitionFor(e)[PhaseConfiguration]) :
          DefinitionFor(e)[PhaseConfiguration][i] = step
    BY <1>2 DEF Configures, PhaseConfiguration, NoPhase
  <2>3. step \in Step
    BY <2>1, <2>2, ElementOfSeq
  <2> QED
    BY <1>2, <2>3 DEF Step
<1> QED
  BY <1>1, <1>2 DEF Configures

(* What an action leaves on the devices is on a device of the table. *)
LEMMA ActedType ==
  ASSUME IInv, NEW r \in RunIds, NEW k \in 1 .. Len(runs[r].kids),
         NEW i \in 1 .. Len(StepsOf(r, k))
  PROVE  /\ Acted(r, k, StepsOf(r, k)[i]) \subseteq Footprints
         /\ applied \subseteq Footprints
<1> DEFINE e == EntryOf(runs[r], k)
           step == StepsOf(r, k)[i]
<1>1. WellFormed(runs[r]) /\ applied \subseteq Footprints
  BY DEF IInv, RowsWellFormed, TablesOK, Footprints
<1>2. e \in Entry
  BY <1>1, EntryOfType
<1>3. e.item \in Devices
  BY <1>2 DEF Entry
<1>4. Configures(e, step) => step.name \in Names
  BY <1>2, ConfiguresType, StepNameType DEF StepsOf
<1>5. Configures(e, step) => <<r, e.item, step.name>> \in Footprints
  BY <1>3, <1>4 DEF Footprints, RunIds
<1>6. \/ Acted(r, k, step) \subseteq applied
      \/ /\ Configures(e, step)
         /\ Acted(r, k, step) = applied \cup {<<r, e.item, step.name>>}
  BY DEF Acted
<1> QED
  BY <1>1, <1>5, <1>6

(* The step a claimed or parked job stands at. *)
LEMMA StepAtType ==
  ASSUME IInv, NEW r \in RunIds, NEW k \in 1 .. Len(runs[r].kids),
         runs[r].kids[k].next <= Len(StepsOf(r, k))
  PROVE  /\ runs[r].kids[k].next \in 1 .. Len(StepsOf(r, k))
         /\ StepAt(r, k).name \in StepNames
         /\ Acted(r, k, StepAt(r, k)) \subseteq Footprints
<1> DEFINE i == runs[r].kids[k].next
<1>1. WellFormed(runs[r])
  BY DEF IInv, RowsWellFormed
<1>2. EntryOf(runs[r], k) \in Entry /\ i \in Nat \ {0}
  BY <1>1, EntryOfType, KidType DEF Job
<1>3. Len(StepsOf(r, k)) \in Nat
  BY <1>2, JobStepsType, LenProperties DEF StepsOf
<1>4. i \in 1 .. Len(StepsOf(r, k))
  BY <1>2, <1>3
<1> HIDE DEF i
<1>5. StepsOf(r, k)[i].name \in StepNames
  BY <1>2, <1>4, StepNameType DEF StepsOf
<1>6. Acted(r, k, StepsOf(r, k)[i]) \subseteq Footprints
  BY <1>4, ActedType
<1> QED
  BY <1>4, <1>5, <1>6 DEF StepAt, i

-----------------------------------------------------------------------------
(* One step per action.                                                    *)

(* The first runs, of before engine v2, are well formed. *)
LEMMA InitIInv == Init => IInv
<1> SUFFICES ASSUME Init PROVE IInv
  OBVIOUS
<1>1. /\ version \in [Devices -> Versions] /\ lastDry \in [Devices -> 0 .. MaxVersion]
      /\ reparents \in [Services -> PathRevisions] /\ drift \in [Services -> BOOLEAN]
      /\ mishaps \in 0 .. MaxMishaps /\ applied = {}
  BY RunPlanAssumption, ProvisioningRunsAssumption DEF Init, Versions, PathRevisions
<1>2. CASE runs = <<>>
  BY <1>1, <1>2 DEF IInv, TablesOK, RowsWellFormed, RunIds
<1>3. ASSUME NEW s \in LegacyServices, NEW dry \in DryRuns, runs = <<LegacyRun(s, dry)>>
      PROVE  IInv
  <2> DEFINE w == LegacyRun(s, dry)
             path == Path[s][0]
             entry(i) == PlanEntry(path[i], 1, NoPhase, FALSE)
             plan == [i \in 1 .. Len(path) |-> entry(i)]
  <2>1. s \in Services /\ dry \in BOOLEAN /\ path \in Seq(Devices) /\ path # <<>>
        /\ 0 \in PathRevisions
    BY RunPlanAssumption, ProvisioningRunsAssumption DEF PathRevisions
  <2>2. Len(path) \in Nat /\ 1 \in 1 .. Len(path)
    BY <2>1, EmptySeq, LenProperties
  <2>3. \A i \in 1 .. Len(path) : entry(i) \in Entry
    <3>1. 1 \in Versions
      BY RunPlanAssumption DEF Versions
    <3>2. \A i \in 1 .. Len(path) : path[i] \in Devices
      BY <2>1, ElementOfSeq
    <3> QED
      BY <3>1, <3>2 DEF PlanEntry, Entry
  <2>4. plan \in Seq(Entry) /\ 1 \in 1 .. Len(plan)
    <3> HIDE DEF entry, path
    <3>1. plan \in Seq(Entry)
      BY <2>2, <2>3, IsASeq
    <3>2. DOMAIN plan = 1 .. Len(path)
      OBVIOUS
    <3> HIDE DEF plan
    <3> QED
      BY <2>2, <3>1, <3>2, LenProperties
  <2>5. NewJob(1) \in Job
    BY DEF NewJob, Job, InFlight
  <2>6. <<NewJob(1)>> \in Seq(Job) /\ Len(<<NewJob(1)>>) = 1 /\ <<NewJob(1)>>[1] = NewJob(1)
    BY <2>5
  <2> HIDE DEF path, plan
  <2>7. w = [service |-> s, purpose |-> PurposeActivation, dry |-> dry, guided |-> FALSE,
             revision |-> 0, status |-> "QUEUED", phase |-> NoPhase, plan |-> plan,
             code |-> NoCode, cause |-> NoCode, noRollback |-> {},
             outputs |-> [d \in Devices |-> 0], kids |-> <<NewJob(1)>>, outbox |-> <<>>]
    BY DEF LegacyRun, path, plan
  <2>8. [d \in Devices |-> 0] \in [Devices -> Nat] /\ <<>> \in Seq(Event)
    OBVIOUS
  <2>9. PurposeActivation \in Purposes /\ NoCode \in Codes /\ "QUEUED" \in InFlight
    BY DEF Purposes, Codes, InFlight
  <2>10. w \in Run
    BY <2>1, <2>4, <2>6, <2>7, <2>8, <2>9 DEF Run
  <2>11. w.kids = <<NewJob(1)>> /\ w.plan = plan /\ w.status = "QUEUED"
    BY <2>7
  <2> HIDE DEF w
  <2>12. AlongThePlan(w)
    BY <2>2, <2>4, <2>6, <2>11 DEF AlongThePlan, NewJob
  <2>13. OneLive(w)
    BY <2>6, <2>11 DEF OneLive, LiveKids, Terminal
  <2>14. StepInRange(w)
    BY <2>6, <2>11 DEF StepInRange, NewJob
  <2>15. WellFormed(w)
    BY <2>10, <2>12, <2>13, <2>14 DEF WellFormed
  <2>16. runs = <<w>>
    BY <1>3 DEF w
  <2> QED
    BY <1>1, <2>10, <2>15, <2>16 DEF IInv, TablesOK, RowsWellFormed, RunIds
<1> QED
  BY <1>2, <1>3 DEF Init

(* create_or_get_run adds a well-formed row. *)
LEMMA CreateStep ==
  ASSUME IInv, NEW s \in Services, NEW purpose \in RunPurposes,
         NEW dry \in DryRuns, NEW guided \in GuidedRuns,
         CreateOrGetRun(s, purpose, dry, guided)
  PROVE  IInv'
<1> DEFINE w == NewRun(s, purpose, dry, guided)
           plan == NewPlan(Path[s][reparents[s]], purpose, dry, version)
           phase == IF plan = <<>> THEN NoPhase ELSE plan[1].phase
           kids == IF plan = <<>> THEN <<>> ELSE <<NewJob(1)>>
<1>1. /\ runs \in Seq(Run) /\ version \in [Devices -> Versions]
      /\ reparents[s] \in PathRevisions /\ applied \subseteq Footprints
  BY DEF IInv, TablesOK, Footprints
<1>2. plan \in Seq(Entry)
  BY <1>1, NewPlanType, RunPlanAssumption
<1>3. purpose \in Purposes /\ dry \in BOOLEAN /\ guided \in BOOLEAN
  BY ProvisioningRunsAssumption
<1> HIDE DEF plan
<1>4. Len(plan) \in Nat /\ (plan # <<>> => 1 \in 1 .. Len(plan))
  BY <1>2, EmptySeq, LenProperties
<1>5. phase \in Phases \cup {NoPhase}
  <2>1. plan # <<>> => plan[1] \in Entry
    BY <1>2, <1>4, ElementOfSeq
  <2> QED
    BY <2>1 DEF Entry
<1>6. NewJob(1) \in Job
  BY DEF NewJob, Job, InFlight
<1>7. kids \in Seq(Job)
  BY <1>6
<1>8. \/ Len(kids) = 0
      \/ Len(kids) = 1 /\ kids[1] = NewJob(1) /\ 1 \in 1 .. Len(plan)
  BY <1>4
<1> HIDE DEF phase, kids
<1>9. w = [service |-> s, purpose |-> purpose, dry |-> dry, guided |-> guided,
           revision |-> reparents[s], status |-> "QUEUED", phase |-> phase,
           plan |-> plan, code |-> NoCode, cause |-> NoCode, noRollback |-> {},
           outputs |-> [d \in Devices |-> 0], kids |-> kids, outbox |-> <<>>]
  BY DEF NewRun, plan, phase, kids
<1>10. [d \in Devices |-> 0] \in [Devices -> Nat] /\ <<>> \in Seq(Event)
  OBVIOUS
<1>11. NoCode \in Codes /\ "QUEUED" \in InFlight
  BY DEF Codes, InFlight
<1>12. w \in Run
  BY <1>1, <1>2, <1>3, <1>5, <1>7, <1>9, <1>10, <1>11 DEF Run
<1>13. w.kids = kids /\ w.plan = plan /\ w.status = "QUEUED"
  BY <1>9
<1> HIDE DEF w
<1>14. AlongThePlan(w)
  BY <1>8, <1>13 DEF AlongThePlan, NewJob
<1>15. OneLive(w)
  <2>1. \A k \in 1 .. Len(w.kids) : k = Len(w.kids)
    <3> DEFINE n == Len(w.kids)
    <3>1. n = 0 \/ n = 1
      BY <1>8, <1>13
    <3> HIDE DEF n
    <3>2. \A k \in 1 .. n : k = n
      BY <3>1
    <3> QED
      BY <3>2 DEF n
  <2>2. w.status \notin Terminal
    BY <1>13 DEF Terminal
  <2> QED
    BY <2>1, <2>2 DEF OneLive, LiveKids
<1>16. StepInRange(w)
  BY <1>8, <1>13 DEF StepInRange, NewJob
<1>17. WellFormed(w)
  BY <1>12, <1>14, <1>15, <1>16 DEF WellFormed
<1>18. runs' = Append(runs, w) /\ UNCHANGED <<version, lastDry, reparents, drift, mishaps, applied>>
  BY DEF CreateOrGetRun, w
<1>19. /\ runs' \in Seq(Run) /\ Len(runs') = Len(runs) + 1 /\ Len(runs) \in Nat
       /\ \A q \in 1 .. Len(runs) : runs'[q] = runs[q]
       /\ runs'[Len(runs) + 1] = w
  BY <1>1, <1>12, <1>18, AppendProperties, LenProperties
<1>20. 1 .. Len(runs) \subseteq 1 .. Len(runs')
  BY <1>19
<1>21. TablesOK'
  BY <1>1, <1>18, <1>19, <1>20 DEF IInv, TablesOK, Footprints
<1>22. \A q \in 1 .. Len(runs') : WellFormed(runs'[q])
  BY <1>17, <1>19 DEF IInv, RowsWellFormed, RunIds
<1> QED
  BY <1>21, <1>22 DEF IInv, RowsWellFormed, RunIds

(* What is known of a child before a step of its job. *)
LEMMA JobFacts ==
  ASSUME IInv, NEW r \in RunIds, NEW k \in 1 .. Len(runs[r].kids)
  PROVE  /\ WellFormed(runs[r])
         /\ runs[r].kids[k] \in Job
         /\ runs[r].dry \in BOOLEAN
         /\ applied \subseteq Footprints
         /\ mishaps \in 0 .. MaxMishaps
         /\ runs[r].kids[k].inflight # NoStep \/ runs[r].kids[k].status = "PENDING_MANUAL"
              => runs[r].kids[k].next <= Len(StepsOf(r, k))
<1>1. WellFormed(runs[r])
  BY DEF IInv, RowsWellFormed
<1>2. runs[r].kids[k] \in Job
  BY <1>1, KidType
<1>3. runs[r].dry \in BOOLEAN
  BY <1>1 DEF WellFormed, Run
<1>4. applied \subseteq Footprints /\ mishaps \in 0 .. MaxMishaps
  BY DEF IInv, TablesOK, Footprints
<1>5. runs[r].kids[k].inflight # NoStep \/ runs[r].kids[k].status = "PENDING_MANUAL"
        => runs[r].kids[k].next <= Len(StepsOf(r, k))
  BY <1>1 DEF WellFormed, StepInRange, StepsOf
<1> QED
  BY <1>1, <1>2, <1>3, <1>4, <1>5

(***************************************************************************)
(* Every step of a job, by the worker, the reaper, a person or a stale     *)
(* settle.                                                                 *)
(***************************************************************************)
LEMMA JobStepStep ==
  ASSUME IInv, NEW r \in RunIds, NEW k \in 1 .. Len(runs[r].kids), JobStep(r, k)
  PROVE  IInv'
<1> DEFINE job == runs[r].kids[k]
<1>1. /\ WellFormed(runs[r]) /\ job \in Job /\ runs[r].dry \in BOOLEAN
      /\ applied \subseteq Footprints /\ mishaps \in 0 .. MaxMishaps
  BY JobFacts
<1>2. job.inflight # NoStep \/ job.status = "PENDING_MANUAL"
        => job.next <= Len(StepsOf(r, k))
  BY JobFacts
<1>3. job.next <= Len(StepsOf(r, k)) =>
        StepAt(r, k).name \in StepNames /\ Acted(r, k, StepAt(r, k)) \subseteq Footprints
  BY StepAtType
<1>4. {"FAILED", "SUCCEEDED"} \subseteq Terminal /\ runs[r].service = runs[r].service
  BY DEF Terminal
<1>5. job.status \in {"QUEUED", "RUNNING", "PENDING_MANUAL"} => IsLive(job)
  BY DEF IsLive, InFlight
<1>6. StepsOf(r, k) = JobSteps(EntryOf(runs[r], k))
  BY DEF StepsOf
<1>7. 0 \in Nat /\ 1 \in Nat
  OBVIOUS
<1>8. CASE Claim(r, k)
  <2> DEFINE new == [job EXCEPT !.status = "RUNNING", !.lock = ~runs[r].dry,
                                !.attempts = job.attempts + 1, !.failed = FALSE]
  <2>1. UpdateJob(r, k, new) /\ applied' = applied /\ mishaps' = mishaps /\ job.status = "QUEUED"
    BY <1>8 DEF Claim
  <2>a. job.attempts \in Nat
    BY <1>1 DEF Job
  <2>2. job.attempts + 1 \in Nat /\ (~runs[r].dry) \in BOOLEAN /\ "RUNNING" \in InFlight
    <3> HIDE DEF job
    <3> QED
      BY <2>a DEF InFlight
  <2>3. /\ new \in Job /\ new.position = job.position /\ new.status = "RUNNING"
        /\ new.inflight = job.inflight /\ new.next = job.next
    BY <1>1, <2>2, Zenon DEF Job
  <2> HIDE DEF new
  <2>4. new.inflight # NoStep \/ new.status = "PENDING_MANUAL"
          => new.next <= Len(JobSteps(EntryOf(runs[r], k)))
    BY <1>2, <1>6, <2>3
  <2> QED
    BY <1>1, <1>5, <2>1, <2>3, <2>4, UpdateJobStep
<1>9. CASE RefuseClaim(r, k)
  BY <1>1, <1>4, <1>7, <1>9, SettleJobStep DEF RefuseClaim
<1>10. CASE SkipStep(r, k)
  <2>1. AtStep(r, k) /\ UpdateJob(r, k, Logged(job, StepAt(r, k), "SKIPPED", "render"))
        /\ applied' = applied /\ mishaps' = mishaps
    BY <1>10 DEF SkipStep
  <2>2. job.status = "RUNNING" /\ StepAt(r, k).name \in StepNames
    BY <1>3, <2>1 DEF AtStep
  <2> DEFINE new == Logged(job, StepAt(r, k), "SKIPPED", "render")
  <2>3. new \in Job /\ new.position = job.position /\ new.status = job.status
        /\ new.inflight = NoStep
    BY <1>1, <2>2, LoggedType
  <2> HIDE DEF new
  <2> QED
    BY <1>1, <1>5, <2>1, <2>2, <2>3, UpdateJobStep DEF new
<1>11. CASE StartStep(r, k)
  <2> DEFINE new == [job EXCEPT !.inflight = StepAt(r, k).name]
  <2>1. AtStep(r, k) /\ UpdateJob(r, k, new) /\ applied' = applied /\ mishaps' = mishaps
    BY <1>11 DEF StartStep
  <2>2. job.status = "RUNNING" /\ job.next <= Len(StepsOf(r, k)) /\ StepAt(r, k).name \in StepNames
    BY <1>3, <2>1 DEF AtStep
  <2>3. new \in Job /\ new.position = job.position /\ new.next = job.next
    BY <1>1, <2>2 DEF Job
  <2> HIDE DEF new
  <2> QED
    BY <1>1, <1>5, <1>6, <2>1, <2>2, <2>3, UpdateJobStep
<1>12. CASE EndStep(r, k)
  <2>1. job.status = "RUNNING" /\ job.next <= Len(StepsOf(r, k))
    BY <1>2, <1>12 DEF EndStep
  <2>2. PICK status \in {"SUCCEEDED", "FAILED"}, stage \in {"connect", "command"} :
          /\ UpdateJob(r, k, Logged(job, StepAt(r, k), status, stage))
          /\ applied' \in {applied, Acted(r, k, StepAt(r, k))}
          /\ mishaps' = mishaps \/ Spend(1)
    BY <1>12 DEF EndStep, MayHaveActed
  <2> DEFINE new == Logged(job, StepAt(r, k), status, stage)
  <2>3. new \in Job /\ new.position = job.position /\ new.status = job.status
        /\ new.inflight = NoStep
    <3>1. /\ status \in {"SUCCEEDED", "FAILED", "SKIPPED", "PENDING"}
          /\ stage \in {"connect", "render", "command"}
      OBVIOUS
    <3> QED
      BY <1>1, <1>3, <2>1, <3>1, LoggedType, ZenonT(60)
  <2>4. applied' \subseteq Footprints
    BY <1>1, <1>3, <2>1, <2>2
  <2>5. mishaps' \in 0 .. MaxMishaps
    BY <1>1, <1>7, <2>2, SpendStep
  <2>6. UpdateJob(r, k, new)
    BY <2>2
  <2> HIDE DEF new
  <2> QED
    BY <1>5, <2>1, <2>3, <2>4, <2>5, <2>6, UpdateJobStep
<1>13. CASE Settle(r, k)
  <2>1. applied' = applied /\ \E status \in Terminal : SettleJob(r, k, runs[r], status, 0)
    BY <1>4, <1>13 DEF Settle
  <2> QED
    BY <1>1, <1>7, <2>1, SettleJobStep
<1>14. CASE ReapUnknown(r, k)
  <2>1. SettleJob(r, k, runs[r], "FAILED", 1) /\ job.inflight # NoStep
        /\ applied' \in {applied, Acted(r, k, StepAt(r, k))}
    BY <1>14 DEF ReapUnknown, MayHaveActed
  <2>2. applied' \subseteq Footprints
    BY <1>1, <1>2, <1>3, <2>1
  <2> QED
    BY <1>1, <1>4, <1>7, <2>1, <2>2, SettleJobStep
<1>15. CASE Park(r, k)
  <2> DEFINE pending == [name |-> StepAt(r, k).name, status |-> "PENDING", stage |-> "command"]
             why == IF runs[r].guided /\ job.parked # "continued"
                         /\ EntryOf(runs[r], k).phase # PhaseRollback
                    THEN "guided" ELSE "manual"
             log == job.log \cup {pending}
             new == [job EXCEPT !.status = "PENDING_MANUAL", !.log = log, !.parked = why]
  <2>1. AtStep(r, k) /\ UpdateJob(r, k, new) /\ applied' = applied /\ mishaps' = mishaps
    BY <1>15 DEF Park
  <2>2. job.status = "RUNNING" /\ job.next <= Len(StepsOf(r, k)) /\ StepAt(r, k).name \in StepNames
    BY <1>3, <2>1 DEF AtStep
  <2>3. log \subseteq LogEntry
    <3>1. pending \in LogEntry
      BY <2>2 DEF LogEntry
    <3> QED
      BY <1>1, <3>1 DEF Job
  <2>4. why \in {"no", "manual", "guided", "continued"} /\ "PENDING_MANUAL" \in InFlight
    BY DEF InFlight
  <2> HIDE DEF log, why
  <2>5. new \in Job /\ new.position = job.position /\ new.next = job.next
    BY <1>1, <2>3, <2>4 DEF Job
  <2> HIDE DEF new
  <2> QED
    BY <1>1, <1>5, <1>6, <2>1, <2>2, <2>5, UpdateJobStep
<1>16. CASE FailParked(r, k)
  <2> DEFINE w == [runs[r] EXCEPT !.kids[k] = PendingFailed(@)]
  <2>1. WellFormed(w) /\ w.service = runs[r].service /\ k \in 1 .. Len(w.kids)
    BY <1>1, PendingFailedWellFormed
  <2>2. SettleJob(r, k, w, "FAILED", 0) /\ job.status = "PENDING_MANUAL"
        /\ applied' \in {applied, Acted(r, k, StepAt(r, k))}
    BY <1>16 DEF FailParked, MayHaveActed
  <2>3. applied' \subseteq Footprints
    BY <1>1, <1>2, <1>3, <2>2
  <2> HIDE DEF w
  <2> QED
    BY <1>4, <1>7, <2>1, <2>2, <2>3, SettleJobStep
<1>17. CASE Requeue(r, k)
  <2> DEFINE queued == [job EXCEPT !.status = "QUEUED"]
             logged == Logged(queued, StepAt(r, k), "FAILED", "command")
  <2>1. job.status = "RUNNING" /\ mishaps' \in 0 .. MaxMishaps
    <3>1. job.status = "RUNNING" /\ Spend(IF job.failed THEN 0 ELSE 1)
      BY <1>17 DEF Requeue
    <3>2. (IF job.failed THEN 0 ELSE 1) \in Nat
      OBVIOUS
    <3> QED
      BY <3>1, <3>2, SpendStep
  <2>2. \/ job.inflight = NoStep /\ UpdateJob(r, k, queued) /\ applied' = applied
        \/ /\ job.inflight # NoStep /\ UpdateJob(r, k, logged)
           /\ applied' \in {applied, Acted(r, k, StepAt(r, k))}
    BY <1>17 DEF Requeue, MayHaveActed
  <2>3. queued \in Job /\ queued.position = job.position /\ queued.inflight = job.inflight
        /\ queued.status = "QUEUED"
    BY <1>1 DEF Job, InFlight
  <2> HIDE DEF queued
  <2>4. CASE job.inflight = NoStep
    BY <1>1, <1>5, <2>1, <2>2, <2>3, <2>4, UpdateJobStep
  <2>5. CASE job.inflight # NoStep
    <3>1. logged \in Job /\ logged.position = job.position /\ logged.inflight = NoStep
          /\ logged.status = "QUEUED"
      BY <1>2, <1>3, <2>3, <2>5, LoggedType, ZenonT(60)
    <3>2. applied' \subseteq Footprints /\ UpdateJob(r, k, logged)
      BY <1>1, <1>2, <1>3, <2>2, <2>5
    <3> HIDE DEF logged
    <3> QED
      BY <1>5, <2>1, <3>1, <3>2, UpdateJobStep
  <2> QED
    BY <2>4, <2>5
<1>18. CASE Resume(r, k)
  <2> DEFINE log == NotPending(job.log)
             unparked == [job EXCEPT !.status = "QUEUED", !.log = log]
             go == [unparked EXCEPT !.parked = "continued"]
             done == Logged(unparked, StepAt(r, k), "SUCCEEDED", "command")
  <2>1. job.status = "PENDING_MANUAL" /\ mishaps' = mishaps
    BY <1>18 DEF Resume
  <2>2. \/ UpdateJob(r, k, go) /\ applied' = applied
        \/ UpdateJob(r, k, done) /\ applied' = Acted(r, k, StepAt(r, k))
    BY <1>18 DEF Resume
  <2>3. log \subseteq LogEntry
    BY <1>1 DEF Job, NotPending
  <2> HIDE DEF log
  <2>4. unparked \in Job /\ unparked.position = job.position /\ unparked.next = job.next
        /\ unparked.status = "QUEUED"
    BY <1>1, <2>3 DEF Job, InFlight
  <2> HIDE DEF unparked
  <2>5. go \in Job /\ go.position = job.position /\ go.next = job.next
    BY <2>4 DEF Job
  <2>6. done \in Job /\ done.position = job.position /\ done.inflight = NoStep
        /\ done.status = "QUEUED"
    BY <1>2, <1>3, <2>1, <2>4, LoggedType, ZenonT(60)
  <2>7. applied' \subseteq Footprints
    BY <1>1, <1>2, <1>3, <2>1, <2>2
  <2> HIDE DEF go, done
  <2>8. CASE UpdateJob(r, k, go)
    BY <1>1, <1>2, <1>5, <1>6, <2>1, <2>5, <2>7, <2>8, UpdateJobStep
  <2>9. CASE UpdateJob(r, k, done)
    BY <1>1, <1>5, <2>1, <2>6, <2>7, <2>9, UpdateJobStep
  <2> QED
    BY <2>2, <2>8, <2>9
<1>19. CASE Cancel(r, k)
  <2> DEFINE w == Cancelled(runs[r], k)
  <2>1. WellFormed(w) /\ w.service = runs[r].service /\ k \in 1 .. Len(w.kids)
    BY <1>1, CancelledWellFormed
  <2>2. /\ Commit(r, AdvanceRun(w, k)) /\ version' = version /\ reparents' = reparents
        /\ Spend(1)
    BY <1>19 DEF Cancel
  <2>3. \/ applied' = applied
        \/ job.status = "PENDING_MANUAL" /\ applied' \in {applied, Acted(r, k, StepAt(r, k))}
    BY <1>19 DEF Cancel, MayHaveActed
  <2>4. applied' \subseteq Footprints
    BY <1>1, <1>2, <1>3, <2>3
  <2>5. mishaps' \in 0 .. MaxMishaps
    BY <1>7, <2>2, SpendStep
  <2>6. WellLeft(AdvanceRun(w, k), runs[r])
    BY <2>1, AdvanceRunWellLeft DEF WellLeft
  <2> HIDE DEF w
  <2> QED
    BY <2>2, <2>4, <2>5, <2>6, CommitStep
<1>20. CASE AdvanceAgain(r, k)
  BY <1>1, <1>20, AdvanceRunWellLeft, CommitStep DEF AdvanceAgain
<1> QED
  BY <1>8, <1>9, <1>10, <1>11, <1>12, <1>13, <1>14, <1>15, <1>16, <1>17, <1>18, <1>19, <1>20
     DEF JobStep, WorkerStep

(* The reaper's repair and the office actions. *)
LEMMA RunStepStep ==
  ASSUME IInv, NEW r \in RunIds,
         RepairStrandedRun(r) \/ RevertRun(r) \/ RetryRollback(r)
  PROVE  IInv'
<1>1. WellFormed(runs[r]) /\ applied \subseteq Footprints /\ mishaps \in 0 .. MaxMishaps
  BY DEF IInv, RowsWellFormed, TablesOK, Footprints
<1>2. CASE RepairStrandedRun(r)
  <2>1. WellLeft(RepairFresh(runs[r]), runs[r]) /\ WellLeft(RepairExpired(runs[r]), runs[r])
    BY <1>1, <1>2, RepairWellLeft DEF RepairStrandedRun
  <2> QED
    BY <1>1, <1>2, <2>1, CommitStep DEF RepairStrandedRun
<1>3. CASE RevertRun(r)
  <2>1. runs[r].status \in Terminal
    BY <1>3 DEF RevertRun, NotRevertible, Terminal
  <2>2. WellLeft(Left(Reverted(runs[r])), runs[r])
    BY <1>1, <2>1, RevertedWellFormed, LeftWellLeft
  <2> QED
    BY <1>1, <1>3, <2>2, CommitStep DEF RevertRun
<1>4. CASE RetryRollback(r)
  <2>1. runs[r].status \in Terminal
    BY <1>4 DEF RetryRollback, NotRetryable, Terminal
  <2>2. WellLeft(Left(Retried(runs[r])), runs[r])
    BY <1>1, <2>1, RetriedWellFormed, LeftWellLeft
  <2> QED
    BY <1>1, <1>4, <2>2, CommitStep DEF RetryRollback
<1> QED
  BY <1>2, <1>3, <1>4

(* Edits and re-parentings leave the runs alone. *)
LEMMA OutsideStep ==
  ASSUME IInv, (\E d \in Devices : EditPlaybook(d)) \/ (\E s \in Services : Reparent(s))
  PROVE  IInv'
<1>1. CASE \E d \in Devices : EditPlaybook(d)
  <2>1. PICK d \in Devices : EditPlaybook(d)
    BY <1>1
  <2>2. UNCHANGED <<runs, lastDry, reparents, drift, mishaps, applied>>
    BY <2>1 DEF EditPlaybook
  <2>3. version' \in [Devices -> Versions]
    BY <2>1, RunPlanAssumption DEF EditPlaybook, IInv, TablesOK, Versions
  <2> QED
    BY <2>2, <2>3 DEF IInv, TablesOK, RowsWellFormed, RunIds
<1>2. CASE \E s \in Services : Reparent(s)
  <2>1. PICK s \in Services : Reparent(s)
    BY <1>2
  <2>2. UNCHANGED <<runs, version, lastDry, mishaps, applied>>
    BY <2>1 DEF Reparent
  <2>3. reparents' \in [Services -> PathRevisions] /\ drift' \in [Services -> BOOLEAN]
    BY <2>1, RunPlanAssumption, SMTT(30) DEF Reparent, IInv, TablesOK, PathRevisions
  <2> QED
    BY <2>2, <2>3 DEF IInv, TablesOK, RowsWellFormed, RunIds
<1> QED
  BY <1>1, <1>2

(* Every step keeps the inductive invariant. *)
LEMMA NextIInv == IInv /\ [Next]_vars => IInv'
<1> SUFFICES ASSUME IInv, [Next]_vars PROVE IInv'
  OBVIOUS
<1>1. CASE Produce
  BY <1>1, CreateStep DEF Produce
<1>2. CASE (\E d \in Devices : EditPlaybook(d)) \/ (\E s \in Services : Reparent(s))
  BY <1>2, OutsideStep
<1>3. CASE \E r \in RunIds : \E k \in 1 .. Len(runs[r].kids) : JobStep(r, k)
  BY <1>3, JobStepStep
<1>4. CASE \E r \in RunIds : RepairStrandedRun(r) \/ RevertRun(r) \/ RetryRollback(r)
  BY <1>4, RunStepStep
<1>5. CASE UNCHANGED tables
  BY <1>5 DEF tables, IInv, TablesOK, RowsWellFormed, RunIds
<1>6. UNCHANGED vars => UNCHANGED tables
  BY DEF vars, tables
<1>7. \A r \in RunIds : PassRefusal(r) => UNCHANGED tables
  BY DEF PassRefusal, tables
<1> QED
  BY <1>1, <1>2, <1>3, <1>4, <1>5, <1>6, <1>7 DEF Next, EngineStep, OfficeStep

(***************************************************************************)
(* A run has at most one live child, it is the last one queued, and a      *)
(* closed run has none (the module docstring of provisioning_runs.py: "at  *)
(* most one child of a run is QUEUED or RUNNING at once"), whatever        *)
(* settles, stale advances, repairs, cancels and office actions do.        *)
(***************************************************************************)
THEOREM OneLiveChildHolds == Spec => []OneLiveChild
<1>1. IInv => OneLiveChild
  BY DEF IInv, RowsWellFormed, WellFormed, OneLive, OneLiveChild
<1> QED
  BY <1>1, InitIInv, NextIInv, PTL DEF Spec

(***************************************************************************)
(* Children follow the plan: each has its entry, later ones have later     *)
(* entries, so no entry of a plan is ever executed by two children.        *)
(***************************************************************************)
THEOREM ChildrenAlongThePlan == Spec => [](\A r \in RunIds : AlongThePlan(runs[r]))
<1>1. IInv => \A r \in RunIds : AlongThePlan(runs[r])
  BY DEF IInv, RowsWellFormed, WellFormed
<1> QED
  BY <1>1, InitIInv, NextIInv, PTL DEF Spec

-----------------------------------------------------------------------------
(* A closed run is reopened only by the office and only to roll back.      *)


(* A run whose child takes a step is open, and it is the only run changed. *)
LEMMA JobStepOpen ==
  ASSUME IInv, NEW q \in RunIds, NEW k \in 1 .. Len(runs[q].kids), JobStep(q, k)
  PROVE  /\ runs[q].status \notin Terminal
         /\ Len(runs') = Len(runs)
         /\ \A r \in RunIds \ {q} : runs'[r] = runs[r]
<1> DEFINE job == runs[q].kids[k]
<1>1. WellFormed(runs[q]) /\ runs \in Seq(Run)
  BY DEF IInv, RowsWellFormed, TablesOK
<1>2. IsLive(job) => runs[q].status \notin Terminal
  BY <1>1 DEF WellFormed, OneLive, LiveKids
<1>3. ASSUME NEW w, runs' = [runs EXCEPT ![q] = w]
      PROVE  Len(runs') = Len(runs) /\ \A r \in RunIds \ {q} : runs'[r] = runs[r]
  BY <1>1, <1>3, ExceptSeq DEF RunIds
<1>4. ASSUME NEW new, UpdateJob(q, k, new)
      PROVE  Len(runs') = Len(runs) /\ \A r \in RunIds \ {q} : runs'[r] = runs[r]
  BY <1>3, <1>4 DEF UpdateJob
<1>5. ASSUME NEW left, Commit(q, left)
      PROVE  Len(runs') = Len(runs) /\ \A r \in RunIds \ {q} : runs'[r] = runs[r]
  BY <1>3, <1>5 DEF Commit
<1>6. ASSUME NEW w, NEW status, NEW spent, SettleJob(q, k, w, status, spent)
      PROVE  Len(runs') = Len(runs) /\ \A r \in RunIds \ {q} : runs'[r] = runs[r]
  BY <1>5, <1>6 DEF SettleJob
<1>7. job.status \in InFlight => IsLive(job)
  BY DEF IsLive
<1>8. {"QUEUED", "RUNNING", "PENDING_MANUAL"} \subseteq InFlight
  BY DEF InFlight
<1>9. CASE Claim(q, k) \/ RefuseClaim(q, k)
  BY <1>2, <1>4, <1>6, <1>7, <1>8, <1>9 DEF Claim, RefuseClaim
<1>10. CASE SkipStep(q, k) \/ StartStep(q, k) \/ Park(q, k)
  BY <1>2, <1>4, <1>7, <1>8, <1>10 DEF SkipStep, StartStep, Park, AtStep
<1>11. CASE EndStep(q, k)
  BY <1>2, <1>4, <1>7, <1>8, <1>11 DEF EndStep
<1>12. CASE Settle(q, k) \/ ReapUnknown(q, k) \/ FailParked(q, k)
  BY <1>2, <1>6, <1>7, <1>8, <1>12 DEF Settle, ReapUnknown, FailParked
<1>13. CASE Requeue(q, k) \/ Resume(q, k)
  BY <1>2, <1>4, <1>7, <1>8, <1>13 DEF Requeue, Resume
<1>14. CASE Cancel(q, k)
  BY <1>2, <1>5, <1>14 DEF Cancel
<1>15. CASE AdvanceAgain(q, k)
  <2>1. ~AdvanceIsNoop(runs[q], k)
    BY <1>15 DEF AdvanceAgain, AdvanceRun, Left
  <2>2. runs[q].status \notin Terminal
    BY <2>1 DEF AdvanceIsNoop, InFlight, Terminal
  <2> QED
    BY <1>5, <1>15, <2>2 DEF AdvanceAgain
<1> QED
  BY <1>9, <1>10, <1>11, <1>12, <1>13, <1>14, <1>15 DEF JobStep, WorkerStep

(* Closing a run leaves its phase alone. *)
LEMMA CloseRunPhase ==
  ASSUME NEW w \in Run, NEW status, NEW code
  PROVE  CloseRun(w, status, code).phase = w.phase /\ CloseRun(w, status, code).status = status
BY DEF CloseRun, Run

(* Both office actions leave a run that rolls back and has not succeeded. *)
LEMMA RevertedPhase ==
  ASSUME NEW w, WellFormed(w), w.status \in Terminal
  PROVE  Reverted(w).phase = PhaseRollback /\ Reverted(w).status # "SUCCEEDED"
<1> DEFINE c == SetCause(w, "REVERTED")
           o == Reopened(c)
           p == RecordRollback(o, Devices)
<1>1. LiveKids(w) = {} /\ "REVERTED" \in Codes
  BY DEF WellFormed, OneLive, Codes, CauseCodes
<1>2. WellFormed(c) /\ LiveKids(c) = {}
  BY <1>1, SetCauseWellFormed
<1> HIDE DEF c
<1>3. /\ WellFormed(o) /\ LiveKids(o) = {} /\ o.status \in InFlight
      /\ o.phase = PhaseRollback
  BY <1>2, ReopenedWellFormed DEF Reopened, WellFormed, Run
<1> HIDE DEF o
<1>4. WellFormed(p) /\ p.phase = PhaseRollback
  BY <1>3, RecordRollbackWellFormed DEF RecordRollback, WellFormed, Run
<1>5. Reverted(w) = CloseAfterRollbackPlanned(o, p)
  BY DEF Reverted, o, c
<1>6. CASE Len(o.plan) < Len(p.plan)
  <2> DEFINE q == QueueChild(p, Len(o.plan) + 1)
  <2>1. WellFormed(q)
    BY <1>3, <1>6, QueueAppended
  <2>2. Reverted(w) = [q EXCEPT !.phase = PhaseRollback, !.status = "RUNNING"]
    BY <1>5, <1>6 DEF CloseAfterRollbackPlanned
  <2> HIDE DEF q
  <2> QED
    BY <2>1, <2>2 DEF WellFormed, Run
<1>7. CASE ~(Len(o.plan) < Len(p.plan))
  <2>1. \E status \in {"FAILED", "ROLLED_BACK"} : \E code : Reverted(w) = CloseRun(p, status, code)
    BY <1>5, <1>7 DEF CloseAfterRollbackPlanned
  <2> QED
    BY <1>4, <2>1, CloseRunPhase DEF WellFormed
<1> QED
  BY <1>6, <1>7

(* retry_rollback leaves the run rolling back. *)
LEMMA RetriedPhase ==
  ASSUME NEW w, WellFormed(w), w.status \in Terminal
  PROVE  Retried(w).phase = PhaseRollback /\ Retried(w).status # "SUCCEEDED"
<1> DEFINE o == Reopened(w)
           c == [o EXCEPT !.code = IF w.cause = NoCode THEN @ ELSE w.cause]
           items == RetryItems(w)
           more == RollbackEntries(c, items)
           p == RecordRollback(c, items)
           n == Len(w.plan) + 1
<1>1. LiveKids(w) = {} /\ w \in Run
  BY DEF WellFormed, OneLive
<1>2. WellFormed(o) /\ o.plan = w.plan /\ o.kids = w.kids
  BY <1>1, ReopenedWellFormed
<1>3. o.phase = PhaseRollback /\ o.status = "RUNNING"
  BY <1>1 DEF Reopened, Run
<1> HIDE DEF o
<1>4. /\ c \in Run /\ c.kids = o.kids /\ c.plan = o.plan /\ c.status = o.status
      /\ c.phase = PhaseRollback
  BY <1>1, <1>2, <1>3 DEF WellFormed, Run
<1>5. Retried(w) = IF Len(w.plan) < Len(p.plan) THEN QueueChild(p, n) ELSE FinishRollback(p)
  BY DEF Retried, o
<1> HIDE DEF c, items
<1>6. WellFormed(c)
  BY <1>2, <1>4, SameChildren
<1>7. /\ p \in Run /\ p.phase = PhaseRollback /\ p.plan = w.plan \o more
      /\ p.status = "RUNNING"
  BY <1>2, <1>3, <1>4, <1>6, RecordRollbackWellFormed DEF RecordRollback, WellFormed, Run
<1>8. more \in Seq(Entry) /\ w.plan \in Seq(Entry)
  BY <1>1, <1>6, RollbackEntriesType DEF Run
<1>9. \A i \in 1 .. Len(more) : more[i].phase = PhaseRollback
  <2> DEFINE order == RollbackOrder(c, items)
             back(k) == [EntryOf(c, k) EXCEPT !.phase = PhaseRollback, !.probe = FALSE,
                                              !.ran = RanSteps(c.kids[k])]
  <2>1. c.kids \in Seq(Job) /\ Len(c.kids) \in Nat
    BY <1>4, LenProperties DEF Run
  <2>2. Touched(c, items) \subseteq 1 .. Len(c.kids)
    BY DEF Touched, KidsOfPhase
  <2>3. order \in Seq(1 .. Len(c.kids))
    <3>1. {k \in Touched(c, items) : NeedsEntry(c, k)} \subseteq 1 .. Len(c.kids)
      BY <2>2
    <3>2. Ascending({k \in Touched(c, items) : NeedsEntry(c, k)}) \in Seq(1 .. Len(c.kids))
      BY <2>1, <3>1, AscendingType, SeqMonotonic, ZenonT(60)
    <3> QED
      BY <3>2, BackwardsType DEF RollbackOrder
  <2>4. \A k \in 1 .. Len(c.kids) : EntryOf(c, k) \in Entry
    BY <1>6, EntryOfType
  <2>5. \A k \in 1 .. Len(c.kids) : back(k).phase = PhaseRollback
    BY <2>4 DEF Entry
  <2> HIDE DEF order, back
  <2>6. more = [i \in 1 .. Len(order) |-> back(order[i])]
    BY DEF RollbackEntries, order, back
  <2>7. Len(order) \in Nat /\ \A i \in 1 .. Len(order) : order[i] \in 1 .. Len(c.kids)
    BY <2>3, ElementOfSeq, LenProperties
  <2> HIDE DEF more
  <2>8. 1 .. Len(more) = 1 .. Len(order)
    BY <1>8, <2>6, LenProperties
  <2> QED
    BY <2>5, <2>6, <2>7, <2>8
<1> HIDE DEF more, p
<1>10. CASE Len(w.plan) < Len(p.plan)
  <2>1. /\ Len(p.plan) = Len(w.plan) + Len(more)
        /\ \A i \in 1 .. (Len(w.plan) + Len(more)) :
             p.plan[i] = IF i <= Len(w.plan) THEN w.plan[i] ELSE more[i - Len(w.plan)]
        /\ Len(w.plan) \in Nat /\ Len(more) \in Nat
    BY <1>7, <1>8, ConcatProperties, LenProperties
  <2>2. p.plan[n] = more[1] /\ 1 \in 1 .. Len(more)
    BY <1>10, <2>1, SMTT(30)
  <2>3. p.plan[n].phase = PhaseRollback
    BY <1>9, <2>2
  <2>4. PhaseRollback # NoPhase
    BY DEF PhaseRollback, NoPhase
  <2>5. QueueChild(p, n).phase = PhaseRollback /\ QueueChild(p, n).status = "RUNNING"
    BY <1>7, <2>3, <2>4 DEF QueueChild, Run
  <2> QED
    BY <1>5, <1>10, <2>5
<1>11. CASE ~(Len(w.plan) < Len(p.plan))
  <2>1. \E status \in {"FAILED", "ROLLED_BACK"} : \E code : Retried(w) = CloseRun(p, status, code)
    BY <1>5, <1>11 DEF FinishRollback
  <2> QED
    BY <1>7, <2>1, CloseRunPhase
<1> QED
  BY <1>10, <1>11

(* What an office action that passed its guards does to a run. *)
LEMMA OfficeReopens ==
  ASSUME IInv, NEW q \in RunIds, RevertRun(q) \/ RetryRollback(q)
  PROVE  /\ \A r \in RunIds \ {q} : runs'[r] = runs[r]
         /\ runs'[q].phase = PhaseRollback /\ runs'[q].status # "SUCCEEDED"
         /\ \/ runs[q].status = "SUCCEEDED"
            \/ runs[q].status = "FAILED" /\ runs[q].code = "ROLLBACK_INCOMPLETE"
         /\ q \in deciding /\ deciding' = deciding \ {q} /\ unseen' = unseen
<1>1. WellFormed(runs[q]) /\ runs \in Seq(Run)
  BY DEF IInv, RowsWellFormed, TablesOK
<1>2. ASSUME NEW w, Commit(q, Left(w))
      PROVE  runs'[q] = w /\ \A r \in RunIds \ {q} : runs'[r] = runs[r]
  BY <1>1, <1>2 DEF Commit, Left, RunIds
<1>3. CASE RevertRun(q)
  <2>1. Commit(q, Left(Reverted(runs[q]))) /\ ~NotRevertible(q)
    BY <1>3 DEF RevertRun
  <2>2. /\ runs[q].status = "SUCCEEDED"
        /\ q \in deciding /\ deciding' = deciding \ {q} /\ unseen' = unseen
    BY <1>3, <2>1 DEF RevertRun, NotRevertible
  <2>3. Reverted(runs[q]).phase = PhaseRollback /\ Reverted(runs[q]).status # "SUCCEEDED"
    BY <1>1, <2>2, RevertedPhase DEF Terminal
  <2> QED
    BY <1>2, <2>1, <2>2, <2>3
<1>4. CASE RetryRollback(q)
  <2>1. Commit(q, Left(Retried(runs[q]))) /\ ~NotRetryable(q)
    BY <1>4 DEF RetryRollback
  <2>2. /\ runs[q].status = "FAILED" /\ runs[q].code = "ROLLBACK_INCOMPLETE"
        /\ q \in deciding /\ deciding' = deciding \ {q} /\ unseen' = unseen
    BY <1>4, <2>1 DEF RetryRollback, NotRetryable
  <2>3. Retried(runs[q]).phase = PhaseRollback /\ Retried(runs[q]).status # "SUCCEEDED"
    BY <1>1, <2>2, RetriedPhase DEF Terminal
  <2> QED
    BY <1>2, <2>1, <2>2, <2>3
<1> QED
  BY <1>3, <1>4

(* A step that changes a closed run is an office action on that run. *)
LEMMA OnlyTheOfficeReopens ==
  ASSUME IInv, Next, NEW r \in RunIds, runs[r].status \in Terminal, runs'[r] # runs[r]
  PROVE  RevertRun(r) \/ RetryRollback(r)
<1>1. runs \in Seq(Run) /\ Len(runs) \in Nat
  BY LenProperties DEF IInv, TablesOK
<1>2. ~Produce
  <2>1. ASSUME Produce PROVE runs'[r] = runs[r]
    BY <1>1, <2>1, AppendProperties DEF Produce, CreateOrGetRun, RunIds
  <2> QED
    BY <2>1
<1>3. (\A d \in Devices : ~EditPlaybook(d)) /\ (\A s \in Services : ~Reparent(s))
  BY DEF EditPlaybook, Reparent
<1>4. ASSUME NEW q \in RunIds, NEW k \in 1 .. Len(runs[q].kids)
      PROVE  ~JobStep(q, k)
  BY JobStepOpen
<1>5. ASSUME NEW q \in RunIds, RepairStrandedRun(q)
      PROVE  FALSE
  <2>1. runs[q].status \notin Terminal
    BY <1>5 DEF RepairStrandedRun, Stranded, InFlight, Terminal
  <2>2. \A p \in RunIds \ {q} : runs'[p] = runs[p]
    BY <1>1, <1>5 DEF RepairStrandedRun, Commit, RunIds
  <2> QED
    BY <2>1, <2>2
<1>6. ASSUME NEW q \in RunIds, RevertRun(q) \/ RetryRollback(q)
      PROVE  q = r
  BY <1>6, OfficeReopens
<1>7. \A q \in RunIds : ~PassRefusal(q)
  BY DEF PassRefusal, tables
<1>8. \E q \in RunIds : RevertRun(q) \/ RetryRollback(q)
  BY <1>2, <1>3, <1>4, <1>5, <1>7 DEF Next, EngineStep, OfficeStep
<1> QED
  BY <1>6, <1>8

(* A step removes no run. *)
LEMMA RunsStay ==
  ASSUME IInv, [Next]_vars
  PROVE  RunIds \subseteq RunIds'
<1>1. runs \in Seq(Run) /\ Len(runs) \in Nat
  BY LenProperties DEF IInv, TablesOK
<1>2. CASE Produce
  <2>1. PICK s \in Services, purpose \in RunPurposes, dry \in DryRuns, guided \in GuidedRuns :
          CreateOrGetRun(s, purpose, dry, guided)
    BY <1>2 DEF Produce
  <2>2. IInv'
    BY <2>1, CreateStep
  <2>3. runs' \in Seq(Run) /\ Len(runs') \in Nat
    BY <2>2, LenProperties DEF IInv, TablesOK
  <2>4. Len(runs') = Len(runs) + 1
    BY <1>1, <2>1 DEF CreateOrGetRun
  <2> QED
    BY <1>1, <2>3, <2>4 DEF RunIds
<1>3. CASE UNCHANGED runs
  BY <1>3 DEF RunIds
<1>4. ASSUME NEW q \in RunIds, NEW k \in 1 .. Len(runs[q].kids), JobStep(q, k)
      PROVE  RunIds \subseteq RunIds'
  BY <1>4, JobStepOpen DEF RunIds
<1>5. ASSUME NEW q \in RunIds, RepairStrandedRun(q) \/ RevertRun(q) \/ RetryRollback(q)
      PROVE  RunIds \subseteq RunIds'
  <2>1. PICK w : runs' = [runs EXCEPT ![q] = w]
    BY <1>5 DEF RepairStrandedRun, RevertRun, RetryRollback, Commit
  <2>2. Len(runs') = Len(runs)
    BY <1>1, <2>1, ExceptSeq DEF RunIds
  <2> QED
    BY <2>2 DEF RunIds
<1>6. (\E d \in Devices : EditPlaybook(d)) \/ (\E s \in Services : Reparent(s))
        \/ (\E q \in RunIds : PassRefusal(q)) \/ UNCHANGED vars
        => UNCHANGED runs
  BY DEF EditPlaybook, Reparent, PassRefusal, tables, vars
<1> QED
  BY <1>2, <1>3, <1>4, <1>5, <1>6 DEF Next, EngineStep, OfficeStep

(* The office actions under way are on runs of the table. *)
HistoryOK == deciding \subseteq RunIds /\ unseen \subseteq RunIds

LEMMA NextHistoryOK == IInv /\ HistoryOK /\ [Next]_vars => HistoryOK'
<1> SUFFICES ASSUME IInv, HistoryOK, [Next]_vars PROVE HistoryOK'
  OBVIOUS
<1>1. RunIds \subseteq RunIds'
  BY RunsStay
<1>2. CASE EngineStep
  <2>1. OpenedUnseen \subseteq RunIds'
    BY DEF OpenedUnseen, RunIds
  <2> QED
    BY <1>1, <1>2, <2>1 DEF EngineStep, HistoryOK
<1>3. CASE OfficeStep
  BY <1>1, <1>3 DEF OfficeStep, PassRefusal, RevertRun, RetryRollback, HistoryOK
<1>4. CASE UNCHANGED vars
  BY <1>1, <1>4 DEF vars, HistoryOK
<1> QED
  BY <1>2, <1>3, <1>4 DEF Next

(***************************************************************************)
(* The tables stay typed, for every set of services, devices and playbooks *)
(* and every bound: no handler of the engine writes a row it could not     *)
(* read back.                                                              *)
(***************************************************************************)
THEOREM TypeCorrect == Spec => []TypeOK
<1>1. IInv /\ HistoryOK => TypeOK
  BY DEF IInv, HistoryOK, TypeOK
<1>2. Init => HistoryOK
  BY DEF Init, HistoryOK
<1> QED
  BY <1>1, <1>2, InitIInv, NextIInv, NextHistoryOK, PTL DEF Spec
=============================================================================
