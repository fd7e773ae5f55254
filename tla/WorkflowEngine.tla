--------------------------- MODULE WorkflowEngine ---------------------------
(***************************************************************************)
(* The version 1 workflow engine (utils/workflow_engine.py): a create or   *)
(* update in a server process starts the tenant workflows whose triggers   *)
(* match; each runs as a task of that process's event loop, in one         *)
(* database transaction of its own, its steps in topological order.        *)
(*                                                                         *)
(* execute_workflow is a plain function, so within one process nothing     *)
(* else runs until it returns; processes interleave at every statement     *)
(* that reads or writes the database (READ COMMITTED).  A unique index     *)
(* makes the second inserter of a key wait for the first one's             *)
(* transaction.                                                            *)
(***************************************************************************)
EXTENDS Naturals, Sequences, FiniteSets, SequencesExt

CONSTANTS
  Procs,        \* server processes, each with one event loop
  Workflows,    \* active workflows of engine version 1, all of one company
  TriggersOf,   \* [Workflows -> set of triggers]
  StepsOf,      \* [Workflows -> set of steps]
  KindOf,       \* [steps -> action type]
  EdgeChoices,  \* [Workflows -> set of edge relations a tenant may draw]
  Services,     \* client services
  NoService,    \* an event about something that is not a service
  Targets,      \* what an event may be about: a service, or NoService
  Statuses,     \* values of the field the conditions look at
  Refusing,     \* steps whose handler may raise ValueError
  Breaking,     \* steps whose statement the database may reject
  Deletable,    \* workflows a tenant may delete
  MaxEvents,    \* bound: updates that reach check_workflow_triggers
  MaxDirect,    \* bound: runs opened by a request, not by a workflow
  MaxEnds,      \* bound: orders cancelled, jobs and runs that end
  MaxCrashes    \* bound: processes that die

ASSUME BoundsAssumption ==
  /\ MaxEvents \in Nat /\ MaxDirect \in Nat
  /\ MaxEnds \in Nat /\ MaxCrashes \in Nat
  /\ Deletable \subseteq Workflows /\ Targets \subseteq Services \cup {NoService}

(* The action types of a step; an order is an INSTALLATION or a SALE.      *)
ActionTypes == {"order", "sale", "job", "path", "task", "entity", "update", "http"}

(* An edge row names two rows of workflow_step.                            *)
AllSteps == UNION {StepsOf[w] : w \in Workflows}

ASSUME GraphAssumption ==
  /\ IsFiniteSet(Workflows)
  /\ \A w \in Workflows : /\ IsFiniteSet(StepsOf[w])
                          /\ \A s \in StepsOf[w] : KindOf[s] \in ActionTypes
                          /\ EdgeChoices[w] \subseteq SUBSET (AllSteps \X AllSteps)

MAX_WORKFLOW_DEPTH == 3

NoData    == "no data"
NoExec    == [phase |-> "none"]

VARIABLES
  edges,       \* the edges each workflow was drawn with
  workflows,   \* the workflows that still exist
  status,      \* the service's watched field, as committed
  db,          \* committed rows the steps create
  executions,  \* committed workflow_execution rows with their step rows
  loop,        \* [Procs -> tasks scheduled on the event loop, in order]
  cur,         \* [Procs -> the execution in progress]
  gone,        \* executions that left no row, with the reason
  events, direct, crashes

vars == <<edges, workflows, status, db, executions, loop, cur, gone,
          events, direct, crashes>>

-----------------------------------------------------------------------------
(* Triggers. *)

(* The field of a condition before and after the change; NoData when the   *)
(* caller gave no dictionary at all.  Without a condition, or with an      *)
(* operator it does not know, a trigger matches every event of its type.   *)
MatchesFieldConditions(c, before, after) ==
  \/ c.operator \notin {"changed", "changed_to", "changed_from", "equals"}
  \/ c.operator = "changed" /\ (NoData \in {before, after} \/ before # after)
  \/ c.operator = "changed_to" /\ after = c.value /\ before # c.value
  \/ c.operator = "changed_from" /\ before = c.value /\ after # c.value
  \/ c.operator = "equals" /\ after = c.value

(* One row per trigger that matches, as the join returns them.             *)
MatchingRows(ev) ==
  UNION {{<<w, t>> : t \in {u \in TriggersOf[w] :
                              /\ u.res = ev.res /\ u.type = ev.type
                              /\ MatchesFieldConditions(u.cond, ev.before, ev.after)}}
         : w \in workflows}

(* WF-2: one task per workflow, however many of its triggers match.        *)
MatchedOf(ev) == {[wf |-> row[1]] : row \in MatchingRows(ev)}

(* Mutant: one task per matching trigger.                                  *)
MatchedPerTrigger(ev) == {[wf |-> row[1], by |-> row[2]] : row \in MatchingRows(ev)}

FindMatchingWorkflows(ev) == MatchedOf(ev)

TooDeep(depth) == depth >= MAX_WORKFLOW_DEPTH

(* The tasks check_workflow_triggers schedules, in the order the query     *)
(* happened to return the workflows.  An execution is named by what caused *)
(* it: the event, then workflow and step alternately.                      *)
ScheduledTasks(ev, depth) ==
  IF TooDeep(depth) THEN {<<>>}
  ELSE LET Task(m) == [job |-> "execute", wf |-> m.wf, ev |-> ev, depth |-> depth,
                       id |-> Append(ev.cause, m.wf)]
       IN {[i \in DOMAIN q |-> Task(q[i])] : q \in SetToSeqs(FindMatchingWorkflows(ev))}

-----------------------------------------------------------------------------
(* Rows, as the transaction of process p sees them. *)

(* The partial unique indexes: uq_order_installation_per_service over live *)
(* orders, uq_provisioning_job_company_idem and                            *)
(* uq_provisioning_run_company_idem over rows in flight.                   *)
Conflicts(r, s) == r.kind = s.kind /\ r.key = s.key /\ r.live /\ s.live
                   /\ r.kind \in {"order", "job", "path"}

RowOf(x) == [kind |-> KindOf[x.step], key |-> x.ev.service, live |-> TRUE,
             by |-> x.id, step |-> x.step]

Visible(p) == db \cup cur[p].writes

(* The pre-check of a step finds a live row with its key.                  *)
Existing(p, x) == \E r \in Visible(p) : Conflicts(r, RowOf(x))

(* The row is in another transaction that has not ended: the insert waits. *)
Blockers(p) ==
  {q \in Procs \ {p} : /\ cur[p].phase = "insert" /\ cur[q] # NoExec
                       /\ \E r \in cur[q].writes : Conflicts(r, RowOf(cur[p]))}

Taken(x) == \E r \in db : Conflicts(r, RowOf(x))

-----------------------------------------------------------------------------
(* Kahn's algorithm, one step at a time. *)

InDegree(w) ==
  [s \in StepsOf[w] |-> Cardinality({e \in edges[w] : e[2] = s /\ e[1] \in StepsOf[w]})]

Roots(w) == {s \in StepsOf[w] : InDegree(w)[s] = 0}

(* The step at hand is done: its neighbours lose an incoming edge, those   *)
(* left with none join the queue.                                          *)
Completed(x) ==
  LET after(s) == x.indeg[s] - IF <<x.step, s>> \in edges[x.wf] THEN 1 ELSE 0
      freed    == {s \in StepsOf[x.wf] : <<x.step, s>> \in edges[x.wf] /\ after(s) = 0}
  IN {[x EXCEPT !.rows = Append(@, [step |-> x.step, status |-> "COMPLETED"]),
                !.indeg = [s \in DOMAIN @ |-> after(s)],
                !.queue = @ \o q,
                !.phase = "next"] : q \in SetToSeqs(freed)}

(* Mutant: a step is queued as soon as one of its predecessors is done.    *)
CompletedFreesEarly(x) ==
  LET freed == {s \in StepsOf[x.wf] : /\ <<x.step, s>> \in edges[x.wf]
                                      /\ ~\E i \in DOMAIN x.queue : x.queue[i] = s
                                      /\ ~\E i \in DOMAIN x.rows : x.rows[i].step = s
                                      /\ s # x.step}
  IN {[x EXCEPT !.rows = Append(@, [step |-> x.step, status |-> "COMPLETED"]),
                !.queue = @ \o q,
                !.phase = "next"] : q \in SetToSeqs(freed)}

StepDone(x) == Completed(x)

(* Mutant: the failure is recorded in place of the steps before it.        *)
StepFailedAlone(x) ==
  [x EXCEPT !.rows = <<[step |-> x.step, status |-> "FAILED"]>>, !.phase = "failed"]

(* A handler raised: the step and the execution are FAILED, and what the   *)
(* earlier steps wrote is committed with them.                             *)
StepFailed(x) ==
  [x EXCEPT !.rows = Append(@, [step |-> x.step, status |-> "FAILED"]),
            !.phase = "failed"]

(* A flush failed outside a savepoint: the session has rolled back and     *)
(* refuses everything until rollback() is called.                          *)
Poisoned(x) == [x EXCEPT !.writes = {}, !.phase = "poisoned"]

(* CREATE_ORDER and CREATE_TASK queue a CREATED trigger for the new row.   *)
FiresCreated == [order |-> "order", sale |-> "order", task |-> "task"]

(* ... with the new row as after_data: its status is what conditions see.  *)
CreatedStatus == [order |-> "ACTIVE", task |-> "PENDING"]

Inserted(x) ==
  LET k == KindOf[x.step]
  IN [x EXCEPT !.writes = @ \cup {RowOf(x)},
               !.fire = IF k \in DOMAIN FiresCreated
                        THEN Append(@, [res |-> FiresCreated[k], type |-> "CREATED",
                                        before |-> NoData,
                                        after |-> CreatedStatus[FiresCreated[k]],
                                        service |-> x.ev.service,
                                        cause |-> Append(x.id, x.step)])
                        ELSE @]

-----------------------------------------------------------------------------
(* The actions of a process. *)

(* check_workflow_triggers after a committed update of service v.          *)
Event(p, v, x) ==
  /\ events < MaxEvents
  /\ cur[p] = NoExec
  /\ events' = events + 1
  /\ status' = IF v \in Services THEN [status EXCEPT ![v] = x] ELSE status
  /\ LET ev == [res |-> "client_service", type |-> "UPDATED",
                before |-> IF v \in Services THEN status[v] ELSE NoData,
                after |-> x, service |-> v, cause |-> <<events + 1>>]
     IN \E q \in ScheduledTasks(ev, 0) : loop' = [loop EXCEPT ![p] = @ \o q]
  /\ UNCHANGED <<edges, workflows, db, executions, cur, gone, direct, crashes>>

(* The _fire coroutine of a CREATED trigger.                               *)
Fire(p) ==
  /\ cur[p] = NoExec /\ loop[p] # <<>> /\ Head(loop[p]).job = "fire"
  /\ \E q \in ScheduledTasks(Head(loop[p]).ev, Head(loop[p]).depth) :
       loop' = [loop EXCEPT ![p] = Tail(@) \o q]
  /\ UNCHANGED <<edges, workflows, status, db, executions, cur, gone, events, direct, crashes>>

(* _execute_workflow_async: a session of its own, the depth one higher,    *)
(* the workflow loaded, its execution row RUNNING.                         *)
Start(p) ==
  /\ cur[p] = NoExec /\ loop[p] # <<>> /\ Head(loop[p]).job = "execute"
  /\ loop' = [loop EXCEPT ![p] = Tail(@)]
  /\ LET t == Head(loop[p]) IN
     \/ /\ t.wf \in workflows
        /\ \E q \in SetToSeqs(Roots(t.wf)) :
             cur' = [cur EXCEPT ![p] =
                      [id |-> t.id, wf |-> t.wf, ev |-> t.ev, depth |-> t.depth + 1,
                       queue |-> q, indeg |-> InDegree(t.wf), phase |-> "next",
                       step |-> "", rows |-> <<>>, writes |-> {}, fire |-> <<>>]]
        /\ UNCHANGED gone
     \/ /\ t.wf \notin workflows
        /\ gone' = gone \cup {[id |-> t.id, why |-> "deleted"]}
        /\ UNCHANGED cur
  /\ UNCHANGED <<edges, workflows, status, db, executions, events, direct, crashes>>

Becomes(p, X) == \E x \in X : cur' = [cur EXCEPT ![p] = x]

OnlyCur == UNCHANGED <<edges, workflows, status, db, executions, loop, gone,
                       events, direct, crashes>>

(* The handlers, up to the statement that inserts a row under a unique     *)
(* index: what the execution becomes.                                      *)

(* UPDATE_FIELD writes a row that nothing else here reads.                 *)
ExecuteUpdateField(x) == StepDone(x)

ExecuteCreateEntity(x) == StepDone(Inserted(x))
ExecuteCreateTask(x) == StepDone(Inserted(x))
ExecuteHttpRequest(x) == StepDone(x)

Inserting(x) == {[x EXCEPT !.phase = "insert"]}

(* Only an INSTALLATION order needs a service and has a pre-check.         *)
ExecuteCreateOrder(p, x) ==
  IF KindOf[x.step] = "sale" THEN StepDone(Inserted(x))
  ELSE IF x.ev.service = NoService THEN {StepFailed(x)}
  ELSE IF Existing(p, x) THEN StepDone(x) ELSE Inserting(x)

ExecuteEnqueueExplicit(p, x) == IF Existing(p, x) THEN StepDone(x) ELSE Inserting(x)

(* An event without a service is skipped: the step is COMPLETED.           *)
ExecuteEnqueuePath(p, x) ==
  IF x.ev.service = NoService \/ Existing(p, x) THEN StepDone(x) ELSE Inserting(x)

Handled(p, x) ==
  LET k == KindOf[x.step] IN
  CASE k \in {"order", "sale"} -> ExecuteCreateOrder(p, x)
    [] k = "job"    -> ExecuteEnqueueExplicit(p, x)
    [] k = "path"   -> ExecuteEnqueuePath(p, x)
    [] k = "task"   -> ExecuteCreateTask(x)
    [] k = "entity" -> ExecuteCreateEntity(x)
    [] k = "update" -> ExecuteUpdateField(x)
    [] k = "http"   -> ExecuteHttpRequest(x)

(* The next step of the queue: its handler may raise, or the database may  *)
(* reject one of its statements.                                           *)
ExecuteStep(p) ==
  /\ cur[p].phase = "next" /\ cur[p].queue # <<>>
  /\ LET x == [cur[p] EXCEPT !.step = Head(cur[p].queue), !.queue = Tail(@)]
     IN \/ x.step \in Refusing /\ Becomes(p, {StepFailed(x)})
        \/ x.step \in Breaking /\ Becomes(p, {Poisoned(x)})
        \/ Becomes(p, Handled(p, x))
  /\ OnlyCur

(* Mutant: create_or_get_run without its savepoint.                        *)
LostTheRaceUnsaved(x) == Poisoned(x)

(* The flush of a row that another session may have inserted meanwhile.    *)
(* Only the run of a path step is inserted inside a savepoint.             *)
LostTheRace(x) ==
  IF KindOf[x.step] = "path" THEN [x EXCEPT !.phase = "lost"] ELSE Poisoned(x)

(* Mutant: the indexes do not exist, only the pre-checks.                  *)
InsertUnchecked(p) ==
  /\ cur[p].phase = "insert"
  /\ Becomes(p, StepDone(Inserted(cur[p])))
  /\ OnlyCur

Insert(p) ==
  /\ cur[p].phase = "insert"
  /\ Blockers(p) = {}
  /\ \/ ~Taken(cur[p]) /\ Becomes(p, StepDone(Inserted(cur[p])))
     \/ Taken(cur[p]) /\ Becomes(p, {LostTheRace(cur[p])})
  /\ OnlyCur

(* create_or_get_run looks again for the winner's run, which may have      *)
(* ended already.                                                          *)
FindWinner(p) ==
  /\ cur[p].phase = "lost"
  /\ \/ Existing(p, cur[p]) /\ Becomes(p, StepDone(cur[p]))
     \/ ~Existing(p, cur[p]) /\ Becomes(p, {StepFailed(cur[p])})
  /\ OnlyCur

(* Two transactions wait for each other's rows: the database aborts one.   *)
(* The savepoint of a path step keeps the rest of the transaction.         *)
DeadlockDetected(p) ==
  /\ \E q \in Blockers(p) : p \in Blockers(q)
  /\ Becomes(p, {IF KindOf[cur[p].step] = "path" THEN StepFailed(cur[p])
                 ELSE Poisoned(cur[p])})
  /\ OnlyCur

(* WF-4: COMPLETED only when every step was reached.                       *)
FinalStatus(x) ==
  IF x.phase = "failed" \/ Len(x.rows) < Cardinality(StepsOf[x.wf])
  THEN "FAILED" ELSE "COMPLETED"

(* Mutant: the follow-ons start from the depth outside this execution.     *)
FollowupsAtCallersDepth(x) ==
  [i \in DOMAIN x.fire |-> [job |-> "fire", ev |-> x.fire[i], depth |-> x.depth - 1]]

(* The tasks _fire_created_trigger schedules after the commit.             *)
Followups(x) == [i \in DOMAIN x.fire |->
                   [job |-> "fire", ev |-> x.fire[i], depth |-> x.depth]]

Commit(p) ==
  /\ cur[p].phase = "failed" \/ (cur[p].phase = "next" /\ cur[p].queue = <<>>)
  /\ LET x == cur[p] IN
     /\ db' = db \cup x.writes
     /\ executions' = executions \cup
          {[id |-> x.id, wf |-> x.wf, ev |-> x.ev, status |-> FinalStatus(x), rows |-> x.rows]}
     /\ loop' = [loop EXCEPT ![p] = @ \o Followups(x)]
  /\ cur' = [cur EXCEPT ![p] = NoExec]
  /\ UNCHANGED <<edges, workflows, status, gone, events, direct, crashes>>

(* Mutant: the triggers of a discarded execution are fired all the same.   *)
DiscardButFire(p) ==
  /\ cur[p].phase = "poisoned"
  /\ gone' = gone \cup {[id |-> cur[p].id, why |-> KindOf[cur[p].step]]}
  /\ loop' = [loop EXCEPT ![p] = @ \o Followups(cur[p])]
  /\ cur' = [cur EXCEPT ![p] = NoExec]
  /\ UNCHANGED <<edges, workflows, status, db, executions, events, direct, crashes>>

(* commit() raises on a poisoned session; _execute_workflow_async rolls    *)
(* back and closes it.  The queued triggers are never fired.               *)
Discard(p) ==
  /\ cur[p].phase = "poisoned"
  /\ gone' = gone \cup {[id |-> cur[p].id, why |-> KindOf[cur[p].step]]}
  /\ cur' = [cur EXCEPT ![p] = NoExec]
  /\ UNCHANGED <<edges, workflows, status, db, executions, loop, events, direct, crashes>>

-----------------------------------------------------------------------------
(* What happens around the processes. *)

(* The process dies: its transaction is rolled back, its tasks are lost.   *)
Crash(p) ==
  /\ crashes < MaxCrashes
  /\ crashes' = crashes + 1
  /\ gone' = gone
       \cup {[id |-> t.id, why |-> "crash"] :
               t \in {u \in ToSet(loop[p]) : u.job = "execute"}}
       \cup (IF cur[p] = NoExec THEN {} ELSE {[id |-> cur[p].id, why |-> "crash"]})
  /\ cur' = [cur EXCEPT ![p] = NoExec]
  /\ loop' = [loop EXCEPT ![p] = <<>>]
  /\ UNCHANGED <<edges, workflows, status, db, executions, events, direct>>

(* A request opens a run for the service (create_or_get_run and a commit). *)
DirectRun(v) ==
  LET r == [kind |-> "path", key |-> v, live |-> TRUE, by |-> <<>>, step |-> ""] IN
  /\ direct < MaxDirect
  /\ \A p \in Procs : cur[p] # NoExec => ~\E s \in cur[p].writes : Conflicts(r, s)
  /\ ~\E s \in db : Conflicts(r, s)
  /\ db' = db \cup {r}
  /\ direct' = direct + 1
  /\ UNCHANGED <<edges, workflows, status, executions, loop, cur, gone, events, crashes>>

(* An order is cancelled, a job or a run ends.                             *)
Ends(r) ==
  /\ Cardinality({s \in db : ~s.live}) < MaxEnds
  /\ r \in db /\ r.live /\ r.kind \in {"order", "job", "path"}
  /\ db' = (db \ {r}) \cup {[r EXCEPT !.live = FALSE]}
  /\ UNCHANGED <<edges, workflows, status, executions, loop, cur, gone, events, direct, crashes>>

(* A workflow is deleted, with its executions; the row lock an execution   *)
(* holds on its workflow makes this wait.                                  *)
DeleteWorkflow(w) ==
  /\ w \in workflows \cap Deletable
  /\ \A p \in Procs : cur[p] # NoExec => cur[p].wf # w
  /\ workflows' = workflows \ {w}
  /\ executions' = {e \in executions : e.wf # w}
  /\ UNCHANGED <<edges, status, db, loop, cur, gone, events, direct, crashes>>

-----------------------------------------------------------------------------
Init ==
  /\ edges \in {f \in [Workflows -> UNION {EdgeChoices[w] : w \in Workflows}] :
                  \A w \in Workflows : f[w] \in EdgeChoices[w]}
  /\ workflows = Workflows
  /\ status \in [Services -> Statuses]
  /\ db = {} /\ executions = {} /\ gone = {}
  /\ loop = [p \in Procs |-> <<>>]
  /\ cur = [p \in Procs |-> NoExec]
  /\ events = 0 /\ direct = 0 /\ crashes = 0

(* What a process does by itself.                                          *)
Work(p) ==
  \/ Fire(p) \/ Start(p) \/ ExecuteStep(p) \/ Insert(p) \/ FindWinner(p)
  \/ DeadlockDetected(p) \/ Commit(p) \/ Discard(p)

(* Nothing is left to do.                                                  *)
AtRest ==
  /\ \A p \in Procs : cur[p] = NoExec /\ loop[p] = <<>>
  /\ UNCHANGED vars

Next ==
  \/ \E p \in Procs : Work(p)
  \/ \E p \in Procs, v \in Targets, x \in Statuses : Event(p, v, x)
  \/ \E p \in Procs : Crash(p)
  \/ \E v \in Services : DirectRun(v)
  \/ \E r \in db : Ends(r)
  \/ \E w \in Workflows : DeleteWorkflow(w)
  \/ AtRest

Spec == Init /\ [][Next]_vars /\ \A p \in Procs : WF_vars(Work(p))

-----------------------------------------------------------------------------
(* Properties. *)

(* The executions a process has scheduled or has under way.                *)
Scheduled == UNION {{t \in ToSet(loop[p]) : t.job = "execute"} : p \in Procs}

Running == {p \in Procs : cur[p] # NoExec}

(* However two processes, a request and a crash interleave, a service has  *)
(* at most one installation order that is not cancelled, and a key at most *)
(* one job and one run in flight (the pre-checks and the partial unique    *)
(* indexes of CREATE_ORDER and ENQUEUE_PROVISIONING).                      *)
OneLiveRowPerKey == \A r, s \in db : Conflicts(r, s) => r = s

(* A follow-on workflow never starts for a row that is not there: a        *)
(* CREATED trigger fires after the commit only, and not at all when the    *)
(* transaction was lost (_queue_created_trigger's promise).                *)
FollowOnSeesEntity ==
  \A p \in Procs : \A i \in DOMAIN loop[p] :
    LET ev == loop[p][i].ev IN
    Len(ev.cause) > 1 =>
      \E r \in db : ev.cause = Append(r.by, r.step)

(* Every row a workflow created is accounted for: the execution that made  *)
(* it is committed, with that step COMPLETED, unless its workflow was      *)
(* deleted since; and an execution that left no row created nothing.       *)
RowsAreAccountedFor ==
  \A r \in db : r.by # <<>> =>
    /\ \A g \in gone : g.id # r.by
    /\ \/ \E e \in executions : /\ e.id = r.by
                                /\ [step |-> r.step, status |-> "COMPLETED"] \in ToSet(e.rows)
       \/ r.by[Len(r.by)] \notin workflows

(* Every step that ran had all its predecessors in S COMPLETED before it.  *)
Ordered(S, g, rows) ==
  \A i \in DOMAIN rows : \A d \in g :
    d[1] \in S /\ d[2] = rows[i].step =>
      \E j \in 1..(i - 1) : rows[j] = [step |-> d[1], status |-> "COMPLETED"]

(* A committed execution respects the drawn graph: no step ran before all  *)
(* its predecessors in the workflow were COMPLETED, and COMPLETED means    *)
(* that every step ran, so a cyclic graph always ends FAILED               *)
(* (execute_workflow, WF-4).                                               *)
StepsFollowTheGraph ==
  \A e \in executions :
    /\ Ordered(StepsOf[e.wf], edges[e.wf], e.rows)
    /\ e.status = "COMPLETED" =>
         {r.step : r \in {q \in ToSet(e.rows) : q.status = "COMPLETED"}} = StepsOf[e.wf]

(* A workflow that creates what triggers it stops: no chain of executions, *)
(* each started by a row of the one before, is longer than                 *)
(* MAX_WORKFLOW_DEPTH.                                                     *)
ChainsAreBounded ==
  /\ \A t \in Scheduled : Len(t.id) <= 2 * MAX_WORKFLOW_DEPTH
  /\ \A e \in executions : Len(e.id) <= 2 * MAX_WORKFLOW_DEPTH

(* An event starts a workflow once, whichever of its triggers match and    *)
(* wherever its earlier execution has got to (WF-2).                       *)
OncePerEvent ==
  \A p \in Procs :
    /\ \A i, j \in DOMAIN loop[p] :
         loop[p][i].job = "execute" /\ loop[p][j].job = "execute"
           /\ loop[p][i].id = loop[p][j].id => i = j
    /\ \A t \in Scheduled : \A e \in executions : e.id # t.id
    /\ cur[p] # NoExec => \A e \in executions : e.id # cur[p].id

(* Losing the race for a provisioning run loses no execution: the          *)
(* savepoint of create_or_get_run keeps what the earlier steps did, and    *)
(* the execution commits, whether its step goes on with the winner's run   *)
(* or fails because that run has ended meanwhile.                          *)
LostRunRaceIsHarmless == \A g \in gone : g.why # "path"

(* The comment at the pre-check of a job and the one at the commit of an   *)
(* execution: a genuine race fails the step, and steps completed before a  *)
(* later one failed are committed.                                         *)
RacesOnlyFailTheStep == \A g \in gone : g.why \in {"crash", "deleted"}
=============================================================================
