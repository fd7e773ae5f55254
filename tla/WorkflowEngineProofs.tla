------------------------ MODULE WorkflowEngineProofs ------------------------
(***************************************************************************)
(* The workflow engine for any number of processes, workflows, steps and   *)
(* events, whatever the tenant draws: what interleaved executions leave in *)
(* the database, what a committed execution says of the graph, and that no *)
(* execution is started twice or counted both as done and as lost.         *)
(***************************************************************************)
EXTENDS WorkflowEngine, FiniteSetTheorems, SequenceTheorems, TLAPS

-----------------------------------------------------------------------------
(* Types. *)

(* What an execution is named by: the number of the event, then workflows  *)
(* and steps.                                                              *)
IdPart == Nat \cup Workflows \cup AllSteps \cup {""}
Id == Seq(IdPart)

EventRecord ==
  [res : {"client_service", "order", "task"}, type : {"CREATED", "UPDATED"},
   before : Statuses \cup {NoData}, after : Statuses \cup {"ACTIVE", "PENDING"},
   service : Services \cup {NoService}, cause : Id]

Row == [kind : ActionTypes, key : Services \cup {NoService}, live : BOOLEAN, by : Id,
        step : AllSteps \cup {""}]

StepRow == [step : AllSteps, status : {"COMPLETED", "FAILED"}]

ExecuteTask == [job : {"execute"}, wf : Workflows, ev : EventRecord, depth : Nat, id : Id]
FireTask == [job : {"fire"}, ev : EventRecord, depth : Nat]
Task == ExecuteTask \cup FireTask

Exec ==
  [id : Id, wf : Workflows, ev : EventRecord, depth : Nat,
   queue : Seq(AllSteps), indeg : UNION {[StepsOf[w] -> Int] : w \in Workflows},
   phase : {"next", "insert", "lost", "failed", "poisoned"},
   step : AllSteps \cup {""}, rows : Seq(StepRow), writes : SUBSET Row,
   fire : Seq(EventRecord)]

(* Every table, queue and execution in progress holds what it should.      *)
TypeOK ==
  /\ edges \in [Workflows -> SUBSET (AllSteps \X AllSteps)]
  /\ workflows \in SUBSET Workflows
  /\ status \in [Services -> Statuses]
  /\ db \in SUBSET Row
  /\ executions \in SUBSET [id : Id, wf : Workflows, ev : EventRecord,
                            status : {"COMPLETED", "FAILED"}, rows : Seq(StepRow)]
  /\ loop \in [Procs -> Seq(Task)]
  /\ cur \in [Procs -> Exec \cup {NoExec}]
  /\ gone \in SUBSET [id : Id, why : ActionTypes \cup {"crash", "deleted"}]
  /\ events \in Nat

-----------------------------------------------------------------------------
(* One execution. *)

Ran(rows) == {rows[i].step : i \in DOMAIN rows}

(* The edges into s whose source has yet to run.                           *)
Waiting(S, g, rows, s) == {d \in g : d[2] = s /\ d[1] \in S /\ d[1] \notin Ran(rows)}

Distinct(q) == \A i, j \in DOMAIN q : q[i] = q[j] => i = j

(* Kahn's algorithm at work, the steps in C taken from the queue and not   *)
(* yet done: in-degrees count what a step waits for, and exactly the steps *)
(* that wait for nothing are queued, in hand or done, each of them once.   *)
Kahn(S, g, queue, indeg, rows, C) ==
  /\ indeg \in [S -> Int] /\ \A s \in S : indeg[s] = Cardinality(Waiting(S, g, rows, s))
  /\ queue \in Seq(S) /\ C \subseteq S /\ Ran(rows) \subseteq S
  /\ Distinct(queue)
  /\ \A i, j \in DOMAIN rows : rows[i].step = rows[j].step => i = j
  /\ \A i \in DOMAIN rows : rows[i].status = "COMPLETED"
  /\ ToSet(queue) \cap Ran(rows) = {}
  /\ C \cap (ToSet(queue) \cup Ran(rows)) = {}
  /\ \A s \in S : indeg[s] = 0 <=> s \in ToSet(queue) \cup Ran(rows) \cup C
  /\ Ordered(S, g, rows)

KahnOf(x, C) == Kahn(StepsOf[x.wf], edges[x.wf], x.queue, x.indeg, x.rows, C)

(* The rows an execution has written and the triggers it will fire are     *)
(* those of its own completed steps.                                       *)
Vouched(x) ==
  /\ \A r \in x.writes : /\ r.by = x.id
                         /\ [step |-> r.step, status |-> "COMPLETED"] \in ToSet(x.rows)
  /\ \A i \in DOMAIN x.fire : \E r \in x.writes : x.fire[i].cause = Append(x.id, r.step)
  /\ \A i, j \in DOMAIN x.fire : x.fire[i].cause = x.fire[j].cause => i = j

(* Named after its event and its workflow, two names per level of nesting. *)
Named(x) ==
  /\ x.depth \in 1 .. MAX_WORKFLOW_DEPTH /\ Len(x.id) = 2 * x.depth
  /\ x.id = Append(x.ev.cause, x.wf)

ExecOK(x) ==
  /\ Named(x)
  /\ x.phase = "next" => KahnOf(x, {})
  /\ x.phase \in {"insert", "lost"} => KahnOf(x, {x.step})
  /\ x.phase = "failed" => Ordered(StepsOf[x.wf], edges[x.wf], x.rows)
  /\ x.phase # "poisoned" => Vouched(x)
  /\ x.phase = "poisoned" => x.step \in AllSteps

ExecsOK == \A p \in Procs : cur[p] # NoExec => ExecOK(cur[p])

-----------------------------------------------------------------------------
(* Rows under the unique indexes. *)

(* A row not yet committed conflicts with no committed one, nor with one   *)
(* of another transaction, and the key about to be inserted is not among   *)
(* the transaction's own.                                                  *)
IndexesHold ==
  /\ OneLiveRowPerKey
  /\ \A p \in Running : \A r \in cur[p].writes : \A s \in db : ~Conflicts(r, s)
  /\ \A p, q \in Running : \A r \in cur[p].writes, s \in cur[q].writes :
       Conflicts(r, s) => p = q /\ r = s
  /\ \A p \in Running : cur[p].phase = "insert" =>
       \A r \in cur[p].writes : ~Conflicts(r, RowOf(cur[p]))

-----------------------------------------------------------------------------
(* Names. *)

(* c is the name of a row that is there.                                   *)
FromRow(c) == \E r \in db : c = Append(r.by, r.step)

(* What a task on the loop is called.                                      *)
NameOf(t) == IF t.job = "execute" THEN t.id ELSE t.ev.cause

TaskShape(t) ==
  /\ t.job = "execute" => /\ t.depth \in 0 .. MAX_WORKFLOW_DEPTH - 1
                          /\ Len(t.id) = 2 * t.depth + 2
                          /\ t.id = Append(t.ev.cause, t.wf)
  /\ t.job = "fire" => /\ t.depth \in 1 .. MAX_WORKFLOW_DEPTH
                       /\ Len(t.ev.cause) = 2 * t.depth + 1

TaskOK(t) == TaskShape(t) /\ (Len(t.ev.cause) > 1 => FromRow(t.ev.cause))

TasksOK == \A p \in Procs : \A i \in DOMAIN loop[p] : TaskOK(loop[p][i])

(* Executions that wait or run, and those that are done or lost.           *)
PendingIds == {t.id : t \in Scheduled} \cup {cur[p].id : p \in Running}
UsedIds == {g.id : g \in gone} \cup {e.id : e \in executions}
             \cup {r.by : r \in {s \in db : s.by # <<>>}}

(* No two tasks of a kind have one name.                                   *)
TasksDistinct ==
  \A p, q \in Procs : \A i \in DOMAIN loop[p], j \in DOMAIN loop[q] :
    loop[p][i].job = loop[q][j].job /\ NameOf(loop[p][i]) = NameOf(loop[q][j])
      => p = q /\ i = j

RunningDistinct ==
  /\ \A p, q \in Running : cur[p].id = cur[q].id => p = q
  /\ \A p \in Running : \A t \in Scheduled : t.id # cur[p].id

(* An execution is pending or used, never both, and lost ones wrote        *)
(* nothing.                                                                *)
NeverTwice ==
  /\ PendingIds \cap UsedIds = {}
  /\ \A g \in gone : \A r \in db : r.by # g.id

(* Every execution descends from an event that happened, those of a        *)
(* follow-on through a row that is there.                                  *)
Descent ==
  \A y \in PendingIds \cup UsedIds :
    /\ Len(y) >= 2 /\ y[1] \in 1 .. events
    /\ Len(y) > 2 => \E r \in db : \E w \in Workflows : y = Append(Append(r.by, r.step), w)

(* A trigger that has not fired has started nothing.                       *)
FireFirst ==
  \A p \in Procs : \A i \in DOMAIN loop[p] : loop[p][i].job = "fire" =>
    /\ loop[p][i].ev.cause[1] \in 1 .. events
    /\ \A w \in Workflows : Append(loop[p][i].ev.cause, w) \notin PendingIds \cup UsedIds

ExecutionsOK ==
  \A e \in executions : Len(e.id) <= 2 * MAX_WORKFLOW_DEPTH /\ e.id[Len(e.id)] = e.wf

NamesOK ==
  /\ TasksOK /\ TasksDistinct /\ RunningDistinct /\ NeverTwice /\ Descent /\ FireFirst
  /\ ExecutionsOK

-----------------------------------------------------------------------------
(* Sequences. *)

LEMMA SeqOfMore ==
  ASSUME NEW S, NEW T \in SUBSET S, NEW q \in Seq(T)
  PROVE  q \in Seq(S)
<1>1. q \in [1 .. Len(q) -> T] /\ Len(q) \in Nat
  BY LenProperties
<1>2. q \in [1 .. Len(q) -> S]
  BY <1>1
<1>3. QED
  BY <1>1, <1>2

LEMMA IntervalCounted ==
  ASSUME NEW n \in Nat
  PROVE  Cardinality(1 .. n) = n
  BY FS_Interval

(* An order of a finite set names every element once.                      *)
LEMMA OrderOfSet ==
  ASSUME NEW S, IsFiniteSet(S), NEW q \in SetToSeqs(S)
  PROVE  /\ q \in Seq(S) /\ Len(q) = Cardinality(S)
         /\ Distinct(q) /\ ToSet(q) = S
<1> DEFINE n == Cardinality(S)
<1>1. n \in Nat
  BY FS_CardinalityType
<1>2. q \in [1 .. n -> S] /\ \A i, j \in 1 .. n : i # j => q[i] # q[j]
  BY DEF SetToSeqs
<1> HIDE DEF n
<1>3. q \in Seq(S) /\ Len(q) = n /\ DOMAIN q = 1 .. n
  BY <1>1, <1>2
<1>4. Distinct(q)
  BY <1>2, <1>3 DEF Distinct
<1>5. q \in Injection(1 .. n, S)
  BY <1>2 DEF Injection, IsInjective
<1>6. Cardinality(1 .. n) = n
  BY <1>1, FS_Interval
<1>7. q \in Surjection(1 .. n, S)
  BY <1>5, <1>6, FS_Injection DEF n
<1>8. ToSet(q) = S
  BY <1>2, <1>3, <1>7 DEF Surjection, ToSet
<1>9. QED
  BY <1>3, <1>4, <1>8 DEF n

(* A name extended is a name, and tells what it was extended from.         *)
LEMMA IdExtended ==
  ASSUME NEW a \in Id, NEW e \in IdPart
  PROVE  /\ Append(a, e) \in Id /\ Len(Append(a, e)) = Len(a) + 1 /\ Len(a) \in Nat
         /\ \A i \in 1 .. Len(a) : Append(a, e)[i] = a[i]
         /\ Append(a, e)[Len(a) + 1] = e
         /\ \A b \in Id, f \in IdPart : Append(a, e) = Append(b, f) => a = b /\ e = f
<1>1. \A b \in Id, f \in IdPart : Append(a, e) = Append(b, f) => a = b /\ e = f
  BY AppendInjective DEF Id
<1>2. QED
  BY <1>1, AppendProperties DEF Id

LEMMA NamesDiffer ==
  \A a, b \in Id : \A e, f \in IdPart : Append(a, e) = Append(b, f) => a = b /\ e = f
<1> SUFFICES ASSUME NEW a \in Id, NEW b \in Id, NEW e \in IdPart, NEW f \in IdPart,
                    Append(a, e) = Append(b, f)
             PROVE  a = b /\ e = f
  BY Zenon
<1>1. \A z \in Id, g \in IdPart : Append(a, e) = Append(z, g) => a = z /\ e = g
  BY IdExtended
<1>2. QED
  BY <1>1, Zenon

LEMMA DifferExtended ==
  ASSUME NEW a \in Id, NEW b \in Id, a # b, NEW e \in IdPart, NEW f \in IdPart
  PROVE  Append(a, e) # Append(b, f)
  BY NamesDiffer, Zenon

(* The members of a sequence and of what is made from it.                  *)
LEMMA ConcatSet ==
  ASSUME NEW S, NEW s \in Seq(S), NEW t \in Seq(S)
  PROVE  ToSet(s \o t) = ToSet(s) \cup ToSet(t)
<1>1. /\ s \o t \in Seq(S) /\ Len(s \o t) = Len(s) + Len(t)
      /\ \A i \in 1 .. Len(s) + Len(t) : (s \o t)[i] =
                     IF i <= Len(s) THEN s[i] ELSE t[i - Len(s)]
  BY ConcatProperties
<1>2. DOMAIN s = 1 .. Len(s) /\ DOMAIN t = 1 .. Len(t) /\ DOMAIN (s \o t) = 1 .. Len(s) + Len(t)
  BY <1>1
<1>3. ASSUME NEW i \in 1 .. Len(t) PROVE t[i] \in ToSet(s \o t)
  <2>1. Len(s) + i \in 1 .. Len(s) + Len(t) /\ (s \o t)[Len(s) + i] = t[i]
    BY <1>1
  <2>2. QED
    BY <1>2, <2>1 DEF ToSet
<1>4. ToSet(s) \subseteq ToSet(s \o t)
  BY <1>1, <1>2 DEF ToSet
<1>5. ToSet(s \o t) \subseteq ToSet(s) \cup ToSet(t)
  BY <1>1, <1>2 DEF ToSet
<1>6. QED
  BY <1>2, <1>3, <1>4, <1>5 DEF ToSet

LEMMA TailSet ==
  ASSUME NEW S, NEW s \in Seq(S), s # <<>>
  PROVE  /\ ToSet(s) = {Head(s)} \cup ToSet(Tail(s))
         /\ Distinct(s) => Distinct(Tail(s)) /\ Head(s) \notin ToSet(Tail(s))
<1>1. /\ Head(s) \in S /\ Tail(s) \in Seq(S) /\ Len(Tail(s)) = Len(s) - 1
      /\ \A i \in 1 .. Len(Tail(s)) : Tail(s)[i] = s[i + 1]
      /\ Head(s) = s[1] /\ Len(s) \in Nat \ {0}
      /\ DOMAIN s = 1 .. Len(s) /\ DOMAIN Tail(s) = 1 .. Len(s) - 1
  BY HeadTailProperties
<1>2. ASSUME NEW i \in 1 .. Len(s), i # 1 PROVE s[i] \in ToSet(Tail(s))
  <2>1. i - 1 \in 1 .. Len(s) - 1 /\ Tail(s)[i - 1] = s[i]
    BY <1>1, <1>2
  <2>2. QED
    BY <1>1, <2>1 DEF ToSet
<1>3. ToSet(s) = {Head(s)} \cup ToSet(Tail(s))
  BY <1>1, <1>2 DEF ToSet
<1>4. Distinct(s) => Distinct(Tail(s)) /\ Head(s) \notin ToSet(Tail(s))
  BY <1>1 DEF Distinct, ToSet
<1>5. QED
  BY <1>3, <1>4

(* Two sequences without repetition and without a common member.           *)
LEMMA ConcatDistinct ==
  ASSUME NEW S, NEW s \in Seq(S), NEW t \in Seq(S),
         Distinct(s), Distinct(t), ToSet(s) \cap ToSet(t) = {}
  PROVE  Distinct(s \o t)
<1>1. /\ s \o t \in Seq(S) /\ Len(s \o t) = Len(s) + Len(t)
      /\ \A i \in 1 .. Len(s) + Len(t) : (s \o t)[i] =
                     IF i <= Len(s) THEN s[i] ELSE t[i - Len(s)]
  BY ConcatProperties
<1>2. DOMAIN s = 1 .. Len(s) /\ DOMAIN t = 1 .. Len(t) /\ DOMAIN (s \o t) = 1 .. Len(s) + Len(t)
  BY <1>1
<1> SUFFICES ASSUME NEW i \in 1 .. Len(s) + Len(t), NEW j \in 1 .. Len(s) + Len(t),
                    (s \o t)[i] = (s \o t)[j]
             PROVE  i = j
  BY <1>2 DEF Distinct
<1>3. CASE i <= Len(s) /\ j <= Len(s)
  BY <1>1, <1>2, <1>3 DEF Distinct
<1>4. CASE i > Len(s) /\ j > Len(s)
  <2>1. i - Len(s) \in 1 .. Len(t) /\ j - Len(s) \in 1 .. Len(t)
    BY <1>4
  <2>2. t[i - Len(s)] = t[j - Len(s)]
    BY <1>1, <1>4
  <2>3. i - Len(s) = j - Len(s)
    BY <1>2, <2>1, <2>2 DEF Distinct
  <2>4. QED
    BY <2>3
<1>5. CASE i <= Len(s) /\ j > Len(s)
  <2>1. j - Len(s) \in 1 .. Len(t) /\ s[i] = t[j - Len(s)]
    BY <1>1, <1>5
  <2>2. s[i] \in ToSet(s) /\ t[j - Len(s)] \in ToSet(t)
    BY <1>2, <1>5, <2>1 DEF ToSet
  <2>3. QED
    BY <2>1, <2>2
<1>6. CASE i > Len(s) /\ j <= Len(s)
  <2>1. i - Len(s) \in 1 .. Len(t) /\ s[j] = t[i - Len(s)]
    BY <1>1, <1>6
  <2>2. s[j] \in ToSet(s) /\ t[i - Len(s)] \in ToSet(t)
    BY <1>2, <1>6, <2>1 DEF ToSet
  <2>3. QED
    BY <2>1, <2>2
<1>7. QED
  BY <1>3, <1>4, <1>5, <1>6

(* A step row more.                                                        *)
LEMMA RowAppended ==
  ASSUME NEW rows \in Seq(StepRow), NEW r \in StepRow
  PROVE  /\ Append(rows, r) \in Seq(StepRow)
         /\ DOMAIN rows = 1 .. Len(rows) /\ Len(rows) \in Nat
         /\ DOMAIN Append(rows, r) = 1 .. Len(rows) + 1
         /\ \A i \in 1 .. Len(rows) : Append(rows, r)[i] = rows[i]
         /\ Append(rows, r)[Len(rows) + 1] = r
         /\ Ran(Append(rows, r)) = Ran(rows) \cup {r.step}
         /\ ToSet(Append(rows, r)) = ToSet(rows) \cup {r}
<1>1. /\ Append(rows, r) \in Seq(StepRow)
      /\ DOMAIN rows = 1 .. Len(rows) /\ Len(rows) \in Nat
      /\ DOMAIN Append(rows, r) = 1 .. Len(rows) + 1
      /\ \A i \in 1 .. Len(rows) : Append(rows, r)[i] = rows[i]
      /\ Append(rows, r)[Len(rows) + 1] = r
  BY AppendProperties
<1>2. Ran(Append(rows, r)) = Ran(rows) \cup {r.step}
  <2>1. Len(rows) + 1 \in DOMAIN Append(rows, r)
    BY <1>1
  <2>2. \A i \in DOMAIN Append(rows, r) : i \in DOMAIN rows \/ i = Len(rows) + 1
    BY <1>1
  <2>3. \A i \in DOMAIN rows : i \in DOMAIN Append(rows, r)
    BY <1>1
  <2>4. QED
    BY <1>1, <2>1, <2>2, <2>3 DEF Ran
<1>3. ToSet(Append(rows, r)) = ToSet(rows) \cup {r}
  <2>1. Len(rows) + 1 \in DOMAIN Append(rows, r)
    BY <1>1
  <2>2. \A i \in DOMAIN Append(rows, r) : i \in DOMAIN rows \/ i = Len(rows) + 1
    BY <1>1
  <2>3. \A i \in DOMAIN rows : i \in DOMAIN Append(rows, r)
    BY <1>1
  <2>4. QED
    BY <1>1, <2>1, <2>2, <2>3 DEF ToSet
<1>4. QED
  BY <1>1, <1>2, <1>3

-----------------------------------------------------------------------------
(* Kahn's algorithm (execute_workflow).  S are the steps of the workflow,  *)
(* g its edges.                                                            *)

LEMMA WaitingFinite ==
  ASSUME NEW S, IsFiniteSet(S), NEW A, NEW g \in SUBSET (A \X A), NEW rows, NEW s
  PROVE  /\ IsFiniteSet(Waiting(S, g, rows, s))
         /\ Cardinality(Waiting(S, g, rows, s)) \in Nat
<1>1. Waiting(S, g, rows, s) \in SUBSET (S \X {s})
  BY DEF Waiting
<1>2. IsFiniteSet({s})
  BY FS_Singleton
<1>3. IsFiniteSet(S \X {s})
  BY <1>2, FS_Product
<1>4. IsFiniteSet(Waiting(S, g, rows, s))
  BY <1>1, <1>3, FS_Subset
<1>5. QED
  BY <1>4, FS_CardinalityType

LEMMA KahnStart ==
  ASSUME NEW S, IsFiniteSet(S), NEW A, NEW g \in SUBSET (A \X A), NEW indeg,
         indeg = [s \in S |-> Cardinality({e \in g : e[2] = s /\ e[1] \in S})],
         NEW q \in SetToSeqs({s \in S : indeg[s] = 0})
  PROVE  Kahn(S, g, q, indeg, <<>>, {})
<1>1. Ran(<<>>) = {}
  BY DEF Ran
<1>2. \A s \in S : Waiting(S, g, <<>>, s) = {e \in g : e[2] = s /\ e[1] \in S}
  BY <1>1 DEF Waiting
<1>3. \A s \in S : indeg[s] = Cardinality(Waiting(S, g, <<>>, s))
  BY <1>2
<1>4. indeg \in [S -> Int]
  <2>1. \A s \in S : Cardinality(Waiting(S, g, <<>>, s)) \in Nat
    BY WaitingFinite
  <2>2. QED
    BY <1>3, <2>1
<1> DEFINE R == {s \in S : indeg[s] = 0}
<1>5. IsFiniteSet(R)
  <2>1. R \in SUBSET S
    OBVIOUS
  <2>2. QED
    BY <2>1, FS_Subset
<1>6. q \in Seq(R) /\ Distinct(q) /\ ToSet(q) = R
  BY <1>5, OrderOfSet
<1>7. q \in Seq(S)
  BY <1>6, SeqOfMore
<1>8. Ordered(S, g, <<>>)
  BY DEF Ordered
<1>9. QED
  BY <1>1, <1>3, <1>4, <1>6, <1>7, <1>8 DEF Kahn

(* The head of the queue is taken in hand.                                 *)
LEMMA KahnPop ==
  ASSUME NEW S, NEW g, NEW queue, NEW indeg, NEW rows,
         Kahn(S, g, queue, indeg, rows, {}), queue # <<>>
  PROVE  /\ Head(queue) \in S
         /\ Kahn(S, g, Tail(queue), indeg, rows, {Head(queue)})
<1>1. queue \in Seq(S) /\ Distinct(queue)
  BY DEF Kahn
<1>2. Head(queue) \in S /\ Tail(queue) \in Seq(S)
  BY <1>1, HeadTailProperties
<1>3. /\ ToSet(queue) = {Head(queue)} \cup ToSet(Tail(queue))
      /\ Distinct(Tail(queue)) /\ Head(queue) \notin ToSet(Tail(queue))
  BY <1>1, TailSet
<1>4. QED
  BY <1>2, <1>3 DEF Kahn

(* A step in hand waits for nothing: all its predecessors are COMPLETED,   *)
(* so its row, whatever its status, comes after theirs.                    *)
LEMMA KahnOrdered ==
  ASSUME NEW S, IsFiniteSet(S), NEW A, NEW g \in SUBSET (A \X A), NEW queue, NEW indeg,
         NEW rows \in Seq(StepRow), NEW r \in StepRow,
         Kahn(S, g, queue, indeg, rows, {r.step})
  PROVE  Ordered(S, g, Append(rows, r))
<1> DEFINE new == Append(rows, r)
<1>1. /\ DOMAIN rows = 1 .. Len(rows) /\ Len(rows) \in Nat
      /\ DOMAIN new = 1 .. Len(rows) + 1
      /\ \A i \in 1 .. Len(rows) : new[i] = rows[i]
      /\ new[Len(rows) + 1] = r
  BY RowAppended
<1>2. r.step \in S /\ indeg[r.step] = 0
  BY DEF Kahn
<1>3. Waiting(S, g, rows, r.step) = {}
  <2>1. Cardinality(Waiting(S, g, rows, r.step)) = 0
    BY <1>2 DEF Kahn
  <2>2. QED
    BY <2>1, WaitingFinite, FS_EmptySet
<1> HIDE DEF new
<1> SUFFICES ASSUME NEW i \in 1 .. Len(rows) + 1, NEW d \in g, d[1] \in S, d[2] = new[i].step
             PROVE  \E j \in 1 .. (i - 1) : new[j] = [step |-> d[1], status |-> "COMPLETED"]
  BY <1>1 DEF Ordered, new
<1>4. CASE i \in 1 .. Len(rows)
  <2>0. d[2] = rows[i].step /\ i \in DOMAIN rows /\ Ordered(S, g, rows)
    BY <1>1, <1>4 DEF Kahn
  <2>1. PICK j \in 1 .. (i - 1) : rows[j] = [step |-> d[1], status |-> "COMPLETED"]
    BY <2>0 DEF Ordered
  <2>2. j \in 1 .. Len(rows)
    BY <1>1, <1>4
  <2>3. QED
    BY <1>1, <2>1, <2>2
<1>5. CASE i = Len(rows) + 1
  <2>1. d[1] \in Ran(rows)
    BY <1>1, <1>3, <1>5 DEF Waiting
  <2>2. PICK j \in 1 .. Len(rows) : rows[j].step = d[1]
    BY <1>1, <2>1 DEF Ran
  <2>3. rows[j] \in StepRow /\ rows[j].status = "COMPLETED"
    BY <1>1, <2>2 DEF Kahn
  <2>4. rows[j] = [step |-> d[1], status |-> "COMPLETED"]
    BY <2>2, <2>3 DEF StepRow
  <2>5. j \in 1 .. (i - 1)
    BY <1>1, <1>5
  <2>6. QED
    BY <1>1, <2>4, <2>5
<1>6. QED
  BY <1>1, <1>4, <1>5

(* The step in hand is done and frees those that waited for it alone.      *)
LEMMA KahnDone ==
  ASSUME NEW S, IsFiniteSet(S), NEW A, NEW g \in SUBSET (A \X A), NEW queue, NEW indeg,
         NEW rows \in Seq(StepRow), NEW c, [step |-> c, status |-> "COMPLETED"] \in StepRow,
         Kahn(S, g, queue, indeg, rows, {c}),
         NEW after, after = [s \in S |-> indeg[s] - IF <<c, s>> \in g THEN 1 ELSE 0],
         NEW q \in SetToSeqs({s \in S : <<c, s>> \in g /\ after[s] = 0})
  PROVE  Kahn(S, g, queue \o q, after, Append(rows, [step |-> c, status |-> "COMPLETED"]), {})
<1> DEFINE r == [step |-> c, status |-> "COMPLETED"]
           new == Append(rows, r)
           freed == {s \in S : <<c, s>> \in g /\ after[s] = 0}
<1>1. r \in StepRow /\ r.step = c /\ r.status = "COMPLETED"
  OBVIOUS
<1>2. /\ DOMAIN rows = 1 .. Len(rows) /\ Len(rows) \in Nat
      /\ DOMAIN new = 1 .. Len(rows) + 1
      /\ \A i \in 1 .. Len(rows) : new[i] = rows[i]
      /\ new[Len(rows) + 1] = r
      /\ Ran(new) = Ran(rows) \cup {c}
  BY <1>1, RowAppended
<1>3. Ordered(S, g, new)
  BY <1>1, KahnOrdered
<1>4. IsFiniteSet(freed)
  <2>1. freed \in SUBSET S
    OBVIOUS
  <2>2. QED
    BY <2>1, FS_Subset
<1>5. q \in Seq(freed) /\ Distinct(q) /\ ToSet(q) = freed
  BY <1>4, OrderOfSet
<1>5a. q \in Seq(S)
  <2>1. freed \in SUBSET S
    OBVIOUS
  <2>2. QED
    BY <1>5, <2>1, SeqOfMore
<1>6. /\ queue \in Seq(S) /\ q \in Seq(S) /\ Distinct(queue)
      /\ c \in S /\ c \notin Ran(rows) /\ c \notin ToSet(queue) /\ Ran(rows) \subseteq S
      /\ indeg \in [S -> Int] /\ indeg[c] = 0
      /\ ToSet(queue) \cap Ran(rows) = {}
  BY <1>5a DEF Kahn
<1> HIDE DEF r, new
<1>7. \A s \in S : after[s] = Cardinality(Waiting(S, g, new, s))
  <2> SUFFICES ASSUME NEW s \in S PROVE after[s] = Cardinality(Waiting(S, g, new, s))
    OBVIOUS
  <2>1. Waiting(S, g, new, s) = Waiting(S, g, rows, s) \ {<<c, s>>}
    BY <1>2 DEF Waiting
  <2>2. <<c, s>> \in Waiting(S, g, rows, s) <=> <<c, s>> \in g
    BY <1>6 DEF Waiting
  <2>3. /\ IsFiniteSet(Waiting(S, g, rows, s))
        /\ Cardinality(Waiting(S, g, rows, s)) \in Nat
    BY WaitingFinite
  <2>4. Cardinality(Waiting(S, g, rows, s) \ {<<c, s>>}) =
          IF <<c, s>> \in Waiting(S, g, rows, s) THEN Cardinality(Waiting(S, g, rows, s)) - 1
                                                 ELSE Cardinality(Waiting(S, g, rows, s))
    BY <2>3, FS_RemoveElement, Zenon
  <2>5. indeg[s] = Cardinality(Waiting(S, g, rows, s))
    BY DEF Kahn
  <2>6. after[s] = indeg[s] - IF <<c, s>> \in g THEN 1 ELSE 0
    OBVIOUS
  <2>7. QED
    BY <2>1, <2>2, <2>3, <2>4, <2>5, <2>6
<1>8. after \in [S -> Int]
  BY <1>6
<1>9. \A s \in S : indeg[s] = 0 => after[s] = 0 /\ s \notin freed
  <2> SUFFICES ASSUME NEW s \in S, indeg[s] = 0 PROVE after[s] = 0 /\ <<c, s>> \notin g
    OBVIOUS
  <2>1. Cardinality(Waiting(S, g, rows, s)) = 0
    BY DEF Kahn
  <2>2. Waiting(S, g, rows, s) = {}
    BY <2>1, WaitingFinite, FS_EmptySet
  <2>3. <<c, s>> \in g => <<c, s>> \in Waiting(S, g, rows, s)
    BY <1>6 DEF Waiting
  <2>4. <<c, s>> \notin g
    BY <2>2, <2>3
  <2>5. QED
    BY <2>4
<1>10. \A s \in S : indeg[s] = 0 <=> s \in ToSet(queue) \cup Ran(rows) \cup {c}
  BY DEF Kahn
<1>11. \A s \in S : after[s] = 0 <=> indeg[s] = 0 \/ s \in freed
  BY <1>6, <1>9
<1>12. ToSet(queue \o q) = ToSet(queue) \cup freed
  BY <1>5, <1>6, ConcatSet
<1>13. \A s \in S : after[s] = 0 <=> s \in ToSet(queue \o q) \cup Ran(new) \cup {}
  BY <1>2, <1>10, <1>11, <1>12
<1>14. freed \cap (ToSet(queue) \cup Ran(new)) = {}
  BY <1>2, <1>9, <1>10
<1>15. Distinct(queue \o q)
  <2>1. ToSet(queue) \cap ToSet(q) = {}
    BY <1>5, <1>14
  <2>2. QED
    BY <1>5, <1>6, <2>1, ConcatDistinct
<1>16. queue \o q \in Seq(S)
  BY <1>6, ConcatProperties
<1>17. ToSet(queue \o q) \cap Ran(new) = {}
  BY <1>2, <1>6, <1>12, <1>14
<1>18. \A i, j \in DOMAIN new : new[i].step = new[j].step => i = j
  <2> SUFFICES ASSUME NEW i \in 1 .. Len(rows) + 1, NEW j \in 1 .. Len(rows) + 1,
                      new[i].step = new[j].step
               PROVE  i = j
    BY <1>2
  <2>1. \A k \in 1 .. Len(rows) : rows[k].step # c
    BY <1>2, <1>6 DEF Ran
  <2>2. \A k \in 1 .. Len(rows) : new[k].step # c
    BY <1>2, <2>1
  <2>3. new[Len(rows) + 1].step = c
    BY <1>1, <1>2
  <2>4. i \in 1 .. Len(rows) /\ j \in 1 .. Len(rows) => i = j
    BY <1>2 DEF Kahn
  <2>5. \A k \in 1 .. Len(rows) + 1 : k \in 1 .. Len(rows) \/ k = Len(rows) + 1
    BY <1>2
  <2>6. QED
    BY <2>2, <2>3, <2>4, <2>5
<1>19. \A i \in DOMAIN new : new[i].status = "COMPLETED"
  <2>1. \A k \in 1 .. Len(rows) + 1 : k \in 1 .. Len(rows) \/ k = Len(rows) + 1
    BY <1>2
  <2>2. \A i \in 1 .. Len(rows) : new[i].status = "COMPLETED"
    BY <1>2 DEF Kahn
  <2>3. QED
    BY <1>1, <1>2, <2>1, <2>2
<1>20. Kahn(S, g, queue \o q, after, new, {})
  BY <1>2, <1>3, <1>6, <1>7, <1>8, <1>13, <1>15, <1>16, <1>17, <1>18, <1>19 DEF Kahn
<1>21. QED
  BY <1>20 DEF new, r

(* When as many rows as steps are COMPLETED, every step is.                *)
LEMMA KahnAll ==
  ASSUME NEW S, IsFiniteSet(S), NEW g, NEW queue, NEW indeg, NEW rows \in Seq(StepRow),
         Kahn(S, g, queue, indeg, rows, {}), ~(Len(rows) < Cardinality(S))
  PROVE  {r.step : r \in {q \in ToSet(rows) : q.status = "COMPLETED"}} = S
<1> DEFINE n == Len(rows)
           f == [i \in 1 .. n |-> rows[i].step]
<1>1. n \in Nat /\ DOMAIN rows = 1 .. n /\ Cardinality(S) \in Nat
  BY FS_CardinalityType
<1>2. f \in [1 .. n -> S]
  BY <1>1 DEF Kahn, Ran
<1>3. \A i, j \in 1 .. n : rows[i].step = rows[j].step => i = j
  BY <1>1 DEF Kahn
<1>4. f \in Injection(1 .. n, S)
  BY <1>2, <1>3 DEF Injection, IsInjective
<1>5. Cardinality(1 .. n) = n
  BY <1>1, IntervalCounted
<1> HIDE DEF f
<1>6. Cardinality(1 .. n) <= Cardinality(S)
  BY <1>4, FS_Injection
<1>7. Cardinality(1 .. n) = Cardinality(S)
  BY <1>1, <1>5, <1>6
<1>8. f \in Surjection(1 .. n, S)
  BY <1>4, <1>7, FS_Injection
<1>9. ASSUME NEW s \in S PROVE \E i \in 1 .. n : rows[i].step = s
  <2>1. PICK i \in 1 .. n : f[i] = s
    BY <1>8 DEF Surjection
  <2>2. QED
    BY <2>1 DEF f
<1>10. \A i \in 1 .. n : rows[i].status = "COMPLETED" /\ rows[i].step \in S
  BY <1>1 DEF Kahn, Ran
<1>11. QED
  BY <1>1, <1>9, <1>10 DEF ToSet

-----------------------------------------------------------------------------
(* What the operators make of one execution. *)

(* y is the same execution as x.                                           *)
Same(x, y) == /\ y \in Exec
              /\ y.id = x.id /\ y.wf = x.wf /\ y.ev = x.ev /\ y.depth = x.depth

LEMMA StepsFacts ==
  ASSUME TypeOK, NEW w \in Workflows
  PROVE  /\ IsFiniteSet(StepsOf[w]) /\ StepsOf[w] \subseteq AllSteps
         /\ edges[w] \in SUBSET (AllSteps \X AllSteps)
         /\ \A s \in StepsOf[w] : KindOf[s] \in ActionTypes
  BY GraphAssumption DEF AllSteps, TypeOK

(* Steps are all of known types.                                           *)
LEMMA KindType ==
  ASSUME NEW s \in AllSteps
  PROVE  KindOf[s] \in ActionTypes
  BY GraphAssumption DEF AllSteps

(* A completed step: the graph advances, nothing else changes.             *)
LEMMA StepDoneFacts ==
  ASSUME TypeOK, NEW x \in Exec, KahnOf(x, {x.step}), NEW y \in StepDone(x)
  PROVE  /\ Same(x, y) /\ y.writes = x.writes /\ y.fire = x.fire
         /\ y.phase = "next" /\ y.step = x.step /\ KahnOf(y, {})
         /\ y.rows = Append(x.rows, [step |-> x.step, status |-> "COMPLETED"])
<1> DEFINE S == StepsOf[x.wf]
           g == edges[x.wf]
           after == [s \in S |-> x.indeg[s] - IF <<x.step, s>> \in g THEN 1 ELSE 0]
           freed == {s \in S : <<x.step, s>> \in g /\ after[s] = 0}
           r == [step |-> x.step, status |-> "COMPLETED"]
<1>1. /\ x.wf \in Workflows /\ x.rows \in Seq(StepRow) /\ x.queue \in Seq(AllSteps)
  BY DEF Exec
<1>2. /\ IsFiniteSet(S) /\ S \subseteq AllSteps /\ g \in SUBSET (AllSteps \X AllSteps)
  BY <1>1, StepsFacts
<1>3. /\ x.indeg \in [S -> Int] /\ x.queue \in Seq(S) /\ x.step \in S
      /\ Kahn(S, g, x.queue, x.indeg, x.rows, {x.step})
  BY DEF KahnOf, Kahn
<1>4. r \in StepRow
  BY <1>2, <1>3 DEF StepRow
<1>5. PICK q \in SetToSeqs(freed) :
        y = [x EXCEPT !.rows = Append(@, r), !.indeg = after, !.queue = @ \o q, !.phase = "next"]
  <2>1. DOMAIN x.indeg = S
    BY <1>3
  <2>2. {s \in StepsOf[x.wf] : /\ <<x.step, s>> \in edges[x.wf]
                               /\ x.indeg[s] - (IF <<x.step, s>> \in edges[x.wf] THEN 1 ELSE 0) = 0}
          = freed
    OBVIOUS
  <2>3. QED
    BY <2>1, <2>2 DEF StepDone, Completed
<1>6. /\ y.rows = Append(x.rows, r) /\ y.indeg = after /\ y.queue = x.queue \o q
      /\ y.phase = "next" /\ y.wf = x.wf /\ y.id = x.id /\ y.ev = x.ev /\ y.depth = x.depth
      /\ y.writes = x.writes /\ y.fire = x.fire /\ y.step = x.step
  BY <1>5 DEF Exec
<1>7. Kahn(S, g, x.queue \o q, after, Append(x.rows, r), {})
  <2> HIDE DEF S, g
  <2>1. QED
    BY <1>1, <1>2, <1>3, <1>4, KahnDone
<1>8. KahnOf(y, {})
  BY <1>6, <1>7 DEF KahnOf
<1>9. y \in Exec
  <2>1. Append(x.rows, r) \in Seq(StepRow)
    BY <1>1, <1>4, AppendProperties
  <2>2. x.queue \o q \in Seq(AllSteps)
    BY <1>2, <1>7, SeqOfMore DEF Kahn
  <2>3. after \in UNION {[StepsOf[w] -> Int] : w \in Workflows}
    BY <1>1, <1>3
  <2> HIDE DEF after, r
  <2>4. QED
    BY <1>5, <2>1, <2>2, <2>3 DEF Exec
<1>10. QED
  BY <1>6, <1>8, <1>9 DEF Same

(* A new row of the step in hand, with the trigger it queues.              *)
LEMMA InsertedFacts ==
  ASSUME NEW x \in Exec, x.step \in AllSteps
  PROVE  /\ Same(x, Inserted(x))
         /\ Inserted(x).writes = x.writes \cup {RowOf(x)} /\ RowOf(x) \in Row
         /\ Inserted(x).step = x.step /\ Inserted(x).queue = x.queue
         /\ Inserted(x).indeg = x.indeg /\ Inserted(x).rows = x.rows
         /\ \/ Inserted(x).fire = x.fire
            \/ \E ev \in EventRecord : /\ ev.cause = Append(x.id, x.step)
                                       /\ Inserted(x).fire = Append(x.fire, ev)
<1> DEFINE k == KindOf[x.step]
           ev == [res |-> FiresCreated[k], type |-> "CREATED", before |-> NoData,
                  after |-> CreatedStatus[FiresCreated[k]], service |-> x.ev.service, cause |-> Append(x.id, x.step)]
<1>1. k \in ActionTypes
  BY KindType
<1>2. x.id \in Id /\ x.ev \in EventRecord /\ x.fire \in Seq(EventRecord) /\ x.writes \in SUBSET Row
  BY DEF Exec
<1>3. x.ev.service \in Services \cup {NoService}
  BY <1>2 DEF EventRecord
<1>4. RowOf(x) \in Row
  BY <1>1, <1>2, <1>3 DEF RowOf, Row
<1>5. Append(x.id, x.step) \in Id
  BY <1>2, IdExtended DEF IdPart
<1>6. ASSUME k \in DOMAIN FiresCreated PROVE ev \in EventRecord
  <2>1. k \in {"order", "sale", "task"}
    BY <1>6 DEF FiresCreated
  <2>2. FiresCreated[k] \in {"order", "task"}
    BY <2>1 DEF FiresCreated
  <2>3. CreatedStatus[FiresCreated[k]] \in {"ACTIVE", "PENDING"}
    BY <2>2 DEF CreatedStatus
  <2>4. QED
    BY <2>2, <2>3, <1>3, <1>5 DEF EventRecord
<1>7. Inserted(x) = [x EXCEPT !.writes = @ \cup {RowOf(x)},
                              !.fire = IF k \in DOMAIN FiresCreated THEN Append(@, ev) ELSE @]
  BY DEF Inserted
<1> HIDE DEF k, ev
<1>8. (IF k \in DOMAIN FiresCreated THEN Append(x.fire, ev) ELSE x.fire) \in Seq(EventRecord)
  BY <1>2, <1>6, AppendProperties
<1>9. Inserted(x) \in Exec
  <2> DEFINE wr == x.writes \cup {RowOf(x)}
             fi == IF k \in DOMAIN FiresCreated THEN Append(x.fire, ev) ELSE x.fire
  <2>1. wr \in SUBSET Row /\ fi \in Seq(EventRecord)
    BY <1>2, <1>4, <1>8
  <2>2. Inserted(x) = [x EXCEPT !.writes = wr, !.fire = fi]
    BY <1>7
  <2> HIDE DEF wr, fi
  <2>3. QED
    BY <2>1, <2>2 DEF Exec
<1>10. \/ Inserted(x).fire = x.fire
       \/ \E e \in EventRecord : /\ e.cause = Append(x.id, x.step)
                                 /\ Inserted(x).fire = Append(x.fire, e)
  <2>1. ev.cause = Append(x.id, x.step)
    BY DEF ev
  <2>2. Inserted(x).fire = IF k \in DOMAIN FiresCreated THEN Append(x.fire, ev) ELSE x.fire
    BY <1>7 DEF Exec
  <2>3. QED
    BY <1>6, <2>1, <2>2
<1>11. QED
  BY <1>4, <1>7, <1>9, <1>10 DEF Same, Exec

(* An execution with a step in hand.                                       *)
InHand(x) == x \in Exec /\ Named(x) /\ KahnOf(x, {x.step}) /\ Vouched(x)

LEMMA InHandFacts ==
  ASSUME TypeOK, NEW x, InHand(x)
  PROVE  /\ x \in Exec /\ x.wf \in Workflows /\ x.rows \in Seq(StepRow) /\ x.id \in Id
         /\ x.step \in StepsOf[x.wf] /\ x.step \in AllSteps /\ x.step \notin Ran(x.rows)
         /\ KindOf[x.step] \in ActionTypes
<1>1. x \in Exec /\ x.wf \in Workflows /\ x.rows \in Seq(StepRow) /\ x.id \in Id
  BY DEF InHand, Exec
<1>2. x.step \in StepsOf[x.wf] /\ x.step \notin Ran(x.rows)
  BY DEF InHand, KahnOf, Kahn
<1>3. QED
  BY <1>1, <1>2, StepsFacts

(* The step is COMPLETED or FAILED: what was vouched for still is.         *)
LEMMA VouchedAfterRow ==
  ASSUME NEW x, x.rows \in Seq(StepRow), Vouched(x), NEW r \in StepRow,
         NEW y, y.id = x.id, y.writes = x.writes, y.fire = x.fire, y.rows = Append(x.rows, r)
  PROVE  Vouched(y)
<1>1. ToSet(y.rows) = ToSet(x.rows) \cup {r}
  BY RowAppended
<1>2. QED
  BY <1>1 DEF Vouched

LEMMA VouchedAfterInsert ==
  ASSUME TypeOK, NEW x, InHand(x), NEW y, y.id = x.id,
         y.writes = Inserted(x).writes, y.fire = Inserted(x).fire,
         y.rows = Append(x.rows, [step |-> x.step, status |-> "COMPLETED"])
  PROVE  Vouched(y)
<1> DEFINE r == [step |-> x.step, status |-> "COMPLETED"]
<1>1. /\ x \in Exec /\ x.rows \in Seq(StepRow) /\ x.step \in AllSteps /\ x.step \notin Ran(x.rows)
      /\ x.id \in Id /\ x.fire \in Seq(EventRecord) /\ x.writes \in SUBSET Row /\ Vouched(x)
  BY InHandFacts DEF InHand, Exec
<1>2. r \in StepRow
  BY <1>1 DEF StepRow
<1>3. ToSet(y.rows) = ToSet(x.rows) \cup {r}
  BY <1>1, <1>2, RowAppended
<1>4. y.writes = x.writes \cup {RowOf(x)} /\ RowOf(x).by = x.id /\ RowOf(x).step = x.step
  BY <1>1, InsertedFacts DEF RowOf
<1>5. \A s \in y.writes : /\ s.by = y.id
                          /\ [step |-> s.step, status |-> "COMPLETED"] \in ToSet(y.rows)
  BY <1>1, <1>3, <1>4 DEF Vouched
<1>6. /\ \A i \in DOMAIN x.fire : \E s \in y.writes : x.fire[i].cause = Append(y.id, s.step)
      /\ \A i, j \in DOMAIN x.fire : x.fire[i].cause = x.fire[j].cause => i = j
  BY <1>1, <1>4 DEF Vouched
<1>7. CASE y.fire = x.fire
  BY <1>5, <1>6, <1>7 DEF Vouched
<1>8. ASSUME NEW ev \in EventRecord, ev.cause = Append(x.id, x.step),
             y.fire = Append(x.fire, ev)
      PROVE  Vouched(y)
  <2>1. /\ DOMAIN x.fire = 1 .. Len(x.fire) /\ Len(x.fire) \in Nat
        /\ DOMAIN y.fire = 1 .. Len(x.fire) + 1
        /\ \A i \in 1 .. Len(x.fire) : y.fire[i] = x.fire[i]
        /\ y.fire[Len(x.fire) + 1] = ev
    BY <1>1, <1>8, AppendProperties
  <2>2. \A i \in DOMAIN y.fire : i \in DOMAIN x.fire \/ i = Len(x.fire) + 1
    BY <2>1
  <2>3. \A i \in DOMAIN x.fire : x.fire[i].cause # ev.cause
    <3> SUFFICES ASSUME NEW i \in DOMAIN x.fire, x.fire[i].cause = ev.cause PROVE FALSE
      OBVIOUS
    <3>1. PICK s \in x.writes : x.fire[i].cause = Append(x.id, s.step)
      BY <1>1 DEF Vouched
    <3>2. s.step \in IdPart /\ x.step \in IdPart
      BY <1>1 DEF Row, IdPart
    <3>3. s.step = x.step
      BY <1>1, <1>8, <3>1, <3>2, IdExtended
    <3>4. [step |-> x.step, status |-> "COMPLETED"] \in ToSet(x.rows)
      BY <1>1, <3>3 DEF Vouched
    <3>5. PICK k \in DOMAIN x.rows : x.rows[k] = [step |-> x.step, status |-> "COMPLETED"]
      BY <3>4 DEF ToSet
    <3>6. x.rows[k].step = x.step
      BY <3>5
    <3>7. QED
      BY <1>1, <3>6 DEF Ran
  <2>4. \A i \in DOMAIN y.fire : \E s \in y.writes : y.fire[i].cause = Append(y.id, s.step)
    BY <1>4, <1>6, <1>8, <2>1, <2>2
  <2>5. \A i, j \in DOMAIN y.fire : y.fire[i].cause = y.fire[j].cause => i = j
    BY <1>6, <2>1, <2>2, <2>3, ZenonT(60)
  <2>6. QED
    BY <1>5, <2>4, <2>5 DEF Vouched
<1>9. QED
  BY <1>1, <1>7, <1>8, InsertedFacts

LEMMA DoneOutcome ==
  ASSUME TypeOK, NEW x, InHand(x), NEW y \in StepDone(x)
  PROVE  Same(x, y) /\ ExecOK(y) /\ y.writes = x.writes /\ y.phase = "next"
<1> DEFINE r == [step |-> x.step, status |-> "COMPLETED"]
<1>1. /\ x \in Exec /\ x.rows \in Seq(StepRow) /\ x.step \in AllSteps
      /\ KahnOf(x, {x.step}) /\ Vouched(x) /\ Named(x)
  BY InHandFacts DEF InHand
<1>2. /\ Same(x, y) /\ y.writes = x.writes /\ y.fire = x.fire
      /\ y.phase = "next" /\ KahnOf(y, {}) /\ y.rows = Append(x.rows, r)
  BY <1>1, StepDoneFacts
<1>3. r \in StepRow
  BY <1>1 DEF StepRow
<1>4. Vouched(y)
  BY <1>1, <1>2, <1>3, VouchedAfterRow DEF Same
<1>5. Named(y)
  BY <1>1, <1>2 DEF Named, Same
<1>6. QED
  BY <1>2, <1>4, <1>5 DEF ExecOK

LEMMA InsertOutcome ==
  ASSUME TypeOK, NEW x, InHand(x), NEW y \in StepDone(Inserted(x))
  PROVE  /\ Same(x, y) /\ ExecOK(y) /\ y.writes = x.writes \cup {RowOf(x)} /\ y.phase = "next"
         /\ RowOf(x) \in Row
<1> DEFINE z == Inserted(x)
<1>1. /\ x \in Exec /\ x.rows \in Seq(StepRow) /\ x.step \in AllSteps
      /\ KahnOf(x, {x.step}) /\ Named(x)
  BY InHandFacts DEF InHand
<1>2. /\ Same(x, z) /\ z.writes = x.writes \cup {RowOf(x)} /\ RowOf(x) \in Row
      /\ z.step = x.step /\ z.queue = x.queue /\ z.indeg = x.indeg /\ z.rows = x.rows
  BY <1>1, InsertedFacts
<1> HIDE DEF z
<1>3. z \in Exec /\ KahnOf(z, {z.step})
  BY <1>1, <1>2 DEF Same, KahnOf
<1>4. /\ Same(z, y) /\ y.writes = z.writes /\ y.fire = z.fire
      /\ y.phase = "next" /\ KahnOf(y, {})
      /\ y.rows = Append(x.rows, [step |-> x.step, status |-> "COMPLETED"])
  <2>1. y \in StepDone(z)
    BY DEF z
  <2>2. QED
    BY <1>2, <1>3, <2>1, StepDoneFacts
<1>5. Same(x, y)
  BY <1>2, <1>4 DEF Same
<1>6. Vouched(y)
  <2>1. y.writes = Inserted(x).writes /\ y.fire = Inserted(x).fire /\ y.id = x.id
    BY <1>4, <1>5 DEF z, Same
  <2>2. QED
    BY <1>4, <2>1, VouchedAfterInsert
<1>7. Named(y)
  BY <1>1, <1>5 DEF Named, Same
<1>8. QED
  BY <1>2, <1>4, <1>5, <1>6, <1>7 DEF ExecOK

LEMMA FailOutcome ==
  ASSUME TypeOK, NEW x, InHand(x)
  PROVE  /\ Same(x, StepFailed(x)) /\ ExecOK(StepFailed(x))
         /\ StepFailed(x).writes = x.writes /\ StepFailed(x).phase = "failed"
<1> DEFINE r == [step |-> x.step, status |-> "FAILED"]
           y == StepFailed(x)
<1>1. /\ x \in Exec /\ x.rows \in Seq(StepRow) /\ x.step \in AllSteps /\ x.wf \in Workflows
      /\ KahnOf(x, {x.step}) /\ Vouched(x) /\ Named(x)
  BY InHandFacts DEF InHand
<1>2. r \in StepRow /\ r.step = x.step
  BY <1>1 DEF StepRow
<1>3. Append(x.rows, r) \in Seq(StepRow)
  BY <1>1, <1>2, AppendProperties
<1>4. y = [x EXCEPT !.rows = Append(@, r), !.phase = "failed"]
  BY DEF StepFailed
<1> HIDE DEF r, y
<1>5. Same(x, y) /\ y.writes = x.writes /\ y.fire = x.fire /\ y.phase = "failed"
      /\ y.rows = Append(x.rows, r)
  BY <1>1, <1>3, <1>4 DEF Exec, Same
<1>6. Ordered(StepsOf[x.wf], edges[x.wf], Append(x.rows, r))
  <2>1. Kahn(StepsOf[x.wf], edges[x.wf], x.queue, x.indeg, x.rows, {r.step})
    BY <1>1, <1>2 DEF KahnOf
  <2>2. IsFiniteSet(StepsOf[x.wf]) /\ edges[x.wf] \in SUBSET (AllSteps \X AllSteps)
    BY <1>1, StepsFacts
  <2>3. QED
    BY <1>1, <1>2, <2>1, <2>2, KahnOrdered
<1>7. Vouched(y)
  BY <1>1, <1>2, <1>5, VouchedAfterRow DEF Same
<1>8. Named(y)
  BY <1>1, <1>5 DEF Named, Same
<1>9. QED
  BY <1>5, <1>6, <1>7, <1>8 DEF ExecOK, Same, y

LEMMA PoisonOutcome ==
  ASSUME TypeOK, NEW x, InHand(x)
  PROVE  /\ Same(x, Poisoned(x)) /\ ExecOK(Poisoned(x))
         /\ Poisoned(x).writes = {} /\ Poisoned(x).phase = "poisoned"
         /\ Poisoned(x).step = x.step
<1>1. /\ Same(x, Poisoned(x)) /\ Poisoned(x).writes = {} /\ Poisoned(x).phase = "poisoned"
      /\ Poisoned(x).step = x.step
  BY DEF InHand, Poisoned, Exec, Same
<1>2. x.step \in AllSteps
  BY InHandFacts
<1>3. QED
  BY <1>1, <1>2 DEF ExecOK, Named, Same, InHand

-----------------------------------------------------------------------------
(* What a statement of an execution leaves.                                *)

(* r is under no index that already has its key.                           *)
Free(r) == /\ \A s \in db : ~Conflicts(r, s)
           /\ \A q \in Running : \A s \in cur[q].writes : ~Conflicts(r, s)

(* A transaction is lost at a step that cannot lose a race harmlessly, or  *)
(* at one whose statements the database rejects by themselves.             *)
MayBeLost(x) == KindOf[x.step] = "path" => x.step \in Breaking

Outcome(p, y) ==
  /\ Same(cur[p], y) /\ ExecOK(y)
  /\ y.phase = "poisoned" => MayBeLost(y)
  /\ y.phase = "insert" => \A r \in y.writes : ~Conflicts(r, RowOf(y))
  /\ \/ y.writes \subseteq cur[p].writes
     \/ \E r \in Row : y.writes = cur[p].writes \cup {r} /\ Free(r)

LEMMA ConflictsSymmetric ==
  ASSUME NEW r, NEW s, Conflicts(r, s)
  PROVE  Conflicts(s, r)
  BY DEF Conflicts

LEMMA UnderWay ==
  ASSUME TypeOK, ExecsOK, NEW p \in Procs, cur[p].phase # "none"
  PROVE  p \in Running /\ cur[p] \in Exec /\ ExecOK(cur[p])
  BY DEF TypeOK, ExecsOK, Running, NoExec

LEMMA Relabelled ==
  ASSUME NEW x, NEW y, Same(x, y), Vouched(x), Named(x),
         y.writes = x.writes, y.rows = x.rows, y.fire = x.fire
  PROVE  Vouched(y) /\ Named(y)
<1>1. y.id = x.id /\ y.wf = x.wf /\ y.ev = x.ev /\ y.depth = x.depth
  BY DEF Same
<1>2. Named(y)
  BY <1>1 DEF Named
<1>3. Vouched(y)
  BY <1>1 DEF Vouched
<1>4. QED
  BY <1>2, <1>3

(* The handler of a step: an execution with a step in hand goes on with    *)
(* the next one, fails, or is about to insert a row it has not found.      *)
LEMMA HandledOutcome ==
  ASSUME TypeOK, NEW p \in Procs, NEW x, InHand(x),
         Same(cur[p], x), x.writes = cur[p].writes, NEW y \in Handled(p, x)
  PROVE  Outcome(p, y)
<1>1. /\ x \in Exec /\ x.step \in AllSteps /\ KindOf[x.step] \in ActionTypes
      /\ KahnOf(x, {x.step}) /\ Vouched(x) /\ Named(x)
  BY InHandFacts DEF InHand
<1> DEFINE k == KindOf[x.step]
<1>2. ASSUME y \in StepDone(x) PROVE Outcome(p, y)
  <2>1. Same(x, y) /\ ExecOK(y) /\ y.writes = x.writes /\ y.phase = "next"
    BY <1>2, DoneOutcome
  <2>2. QED
    BY <2>1 DEF Outcome, Same
<1>3. ASSUME y \in StepDone(Inserted(x)), k \notin {"order", "job", "path"} PROVE Outcome(p, y)
  <2>1. /\ Same(x, y) /\ ExecOK(y) /\ y.writes = x.writes \cup {RowOf(x)} /\ y.phase = "next"
        /\ RowOf(x) \in Row
    BY <1>3, InsertOutcome
  <2>2. Free(RowOf(x))
    BY <1>3 DEF Free, Conflicts, RowOf
  <2>3. Same(cur[p], y)
    BY <2>1 DEF Same
  <2>4. QED
    BY <2>1, <2>2, <2>3 DEF Outcome
<1>4. ASSUME y \in {StepFailed(x)} PROVE Outcome(p, y)
  <2>1. Same(x, y) /\ ExecOK(y) /\ y.writes = x.writes /\ y.phase = "failed"
    BY <1>4, FailOutcome
  <2>2. QED
    BY <2>1 DEF Outcome, Same
<1>5. ASSUME y \in Inserting(x), ~Existing(p, x) PROVE Outcome(p, y)
  <2>1. y = [x EXCEPT !.phase = "insert"]
    BY <1>5 DEF Inserting
  <2>2. /\ Same(x, y) /\ y.phase = "insert" /\ y.writes = x.writes /\ y.step = x.step
        /\ y.queue = x.queue /\ y.indeg = x.indeg /\ y.rows = x.rows /\ y.fire = x.fire
    BY <1>1, <2>1 DEF Exec, Same
  <2>3. ExecOK(y)
    <3>1. KahnOf(y, {y.step})
      BY <1>1, <2>2 DEF KahnOf, Same
    <3>2. Vouched(y) /\ Named(y)
      BY <1>1, <2>2, Relabelled
    <3>3. QED
      BY <2>2, <3>1, <3>2 DEF ExecOK
  <2>4. RowOf(y) = RowOf(x)
    BY <2>2 DEF RowOf, Same
  <2>5. \A r \in y.writes : ~Conflicts(r, RowOf(y))
    BY <1>5, <2>2, <2>4 DEF Existing, Visible
  <2>6. Same(cur[p], y)
    BY <2>2 DEF Same
  <2>7. QED
    BY <2>2, <2>3, <2>5, <2>6 DEF Outcome
<1> HIDE DEF k
<1>6. CASE k = "order"
  <2>1. Handled(p, x) = ExecuteCreateOrder(p, x)
    BY <1>6 DEF Handled, k
  <2>2. \/ y \in {StepFailed(x)} \/ y \in StepDone(x)
        \/ ~Existing(p, x) /\ y \in Inserting(x)
    BY <1>6, <2>1 DEF ExecuteCreateOrder, k
  <2>3. QED
    BY <1>2, <1>4, <1>5, <2>2
<1>7. CASE k = "sale"
  <2>1. Handled(p, x) = ExecuteCreateOrder(p, x)
    BY <1>7 DEF Handled, k
  <2>2. y \in StepDone(Inserted(x))
    BY <1>7, <2>1 DEF ExecuteCreateOrder, k
  <2>3. QED
    BY <1>3, <1>7, <2>2
<1>8. CASE k = "job"
  <2>1. Handled(p, x) = ExecuteEnqueueExplicit(p, x)
    BY <1>8 DEF Handled, k
  <2>2. CASE Existing(p, x)
    BY <1>2, <2>1, <2>2 DEF ExecuteEnqueueExplicit
  <2>3. CASE ~Existing(p, x)
    BY <1>5, <2>1, <2>3 DEF ExecuteEnqueueExplicit
  <2>4. QED
    BY <2>2, <2>3
<1>9. CASE k = "path"
  <2>1. Handled(p, x) = ExecuteEnqueuePath(p, x)
    BY <1>9 DEF Handled, k
  <2>2. CASE x.ev.service = NoService \/ Existing(p, x)
    BY <1>2, <2>1, <2>2 DEF ExecuteEnqueuePath
  <2>3. CASE ~(x.ev.service = NoService \/ Existing(p, x))
    BY <1>5, <2>1, <2>3 DEF ExecuteEnqueuePath
  <2>4. QED
    BY <2>2, <2>3
<1>10. CASE k \in {"task", "entity"}
  <2>1. y \in StepDone(Inserted(x))
    BY <1>10 DEF Handled, ExecuteCreateTask, ExecuteCreateEntity, k
  <2>2. QED
    BY <1>3, <1>10, <2>1
<1>11. CASE k \in {"update", "http"}
  <2>1. y \in StepDone(x)
    BY <1>11 DEF Handled, ExecuteUpdateField, ExecuteHttpRequest, k
  <2>2. QED
    BY <1>2, <2>1
<1>12. QED
  BY <1>1, <1>6, <1>7, <1>8, <1>9, <1>10, <1>11 DEF k, ActionTypes

(* The step that ExecuteStep takes from the queue.                         *)
Taking(x) == [x EXCEPT !.step = Head(x.queue), !.queue = Tail(@)]

LEMMA TakingInHand ==
  ASSUME TypeOK, NEW x \in Exec, ExecOK(x), x.phase = "next", x.queue # <<>>
  PROVE  /\ InHand(Taking(x)) /\ Same(x, Taking(x)) /\ Taking(x).writes = x.writes
         /\ Taking(x).step = Head(x.queue)
<1> DEFINE z == Taking(x)
<1>1. /\ Kahn(StepsOf[x.wf], edges[x.wf], x.queue, x.indeg, x.rows, {})
      /\ Named(x) /\ Vouched(x)
  BY DEF ExecOK, KahnOf
<1>2. /\ Head(x.queue) \in StepsOf[x.wf]
      /\ Kahn(StepsOf[x.wf], edges[x.wf], Tail(x.queue), x.indeg, x.rows, {Head(x.queue)})
  BY <1>1, KahnPop
<1>3. x.wf \in Workflows /\ x.queue \in Seq(AllSteps)
  BY DEF Exec
<1>4. Head(x.queue) \in AllSteps /\ Tail(x.queue) \in Seq(AllSteps)
  BY <1>3, HeadTailProperties
<1>5. z = [x EXCEPT !.step = Head(x.queue), !.queue = Tail(x.queue)]
  BY DEF Taking
<1> HIDE DEF z
<1>6. /\ Same(x, z) /\ z.writes = x.writes /\ z.step = Head(x.queue) /\ z.queue = Tail(x.queue)
      /\ z.indeg = x.indeg /\ z.rows = x.rows /\ z.fire = x.fire
  BY <1>4, <1>5 DEF Exec, Same
<1>7. InHand(z)
  <2>1. KahnOf(z, {z.step})
    BY <1>2, <1>6 DEF KahnOf, Same
  <2>2. Vouched(z) /\ Named(z)
    BY <1>1, <1>6, Relabelled
  <2>3. QED
    BY <1>6, <2>1, <2>2 DEF InHand, Same
<1>8. QED
  BY <1>6, <1>7 DEF z

LEMMA StepOutcome ==
  ASSUME TypeOK, ExecsOK, IndexesHold, NEW p \in Procs,
         ExecuteStep(p) \/ Insert(p) \/ FindWinner(p) \/ DeadlockDetected(p)
  PROVE  p \in Running /\ \E y : Outcome(p, y) /\ cur' = [cur EXCEPT ![p] = y]
<1> DEFINE x == cur[p]
<1>1. ASSUME ExecuteStep(p)
      PROVE  p \in Running /\ \E y : Outcome(p, y) /\ cur' = [cur EXCEPT ![p] = y]
  <2>1. x.phase = "next" /\ x.queue # <<>>
    BY <1>1 DEF ExecuteStep
  <2>2. p \in Running /\ x \in Exec /\ ExecOK(x)
    BY <2>1, UnderWay
  <2> DEFINE z == Taking(x)
  <2>3. InHand(z) /\ Same(x, z) /\ z.writes = x.writes
    BY <2>1, <2>2, TakingInHand
  <2>4. \/ Becomes(p, {StepFailed(z)})
        \/ z.step \in Breaking /\ Becomes(p, {Poisoned(z)})
        \/ Becomes(p, Handled(p, z))
    BY <1>1 DEF ExecuteStep, Taking
  <2> HIDE DEF z
  <2>5. Outcome(p, StepFailed(z))
    <3>1. /\ Same(z, StepFailed(z)) /\ ExecOK(StepFailed(z))
          /\ StepFailed(z).writes = z.writes /\ StepFailed(z).phase = "failed"
      BY <2>3, FailOutcome
    <3>2. QED
      BY <2>3, <3>1 DEF Outcome, Same
  <2>6. ASSUME z.step \in Breaking PROVE Outcome(p, Poisoned(z))
    <3>1. /\ Same(z, Poisoned(z)) /\ ExecOK(Poisoned(z))
          /\ Poisoned(z).writes = {} /\ Poisoned(z).phase = "poisoned"
          /\ Poisoned(z).step = z.step
      BY <2>3, PoisonOutcome
    <3>2. QED
      BY <2>3, <2>6, <3>1 DEF Outcome, Same, MayBeLost
  <2>7. \A y \in Handled(p, z) : Outcome(p, y)
    BY <2>3, HandledOutcome
  <2>8. QED
    BY <2>2, <2>4, <2>5, <2>6, <2>7 DEF Becomes
<1>2. ASSUME x.phase \in {"insert", "lost"}
      PROVE  /\ p \in Running /\ x \in Exec /\ InHand(x)
             /\ Outcome(p, StepFailed(x))
             /\ KindOf[x.step] # "path" => Outcome(p, Poisoned(x))
             /\ \A y \in StepDone(x) : Outcome(p, y)
  <2>1. p \in Running /\ x \in Exec /\ ExecOK(x)
    BY <1>2, UnderWay
  <2>2. InHand(x)
    BY <1>2, <2>1 DEF InHand, ExecOK
  <2>3. Outcome(p, StepFailed(x))
    BY <2>2, FailOutcome DEF Outcome
  <2>4. KindOf[x.step] # "path" => Outcome(p, Poisoned(x))
    BY <2>2, PoisonOutcome DEF Outcome, MayBeLost
  <2>5. \A y \in StepDone(x) : Outcome(p, y)
    BY <2>2, DoneOutcome DEF Outcome
  <2>6. QED
    BY <2>1, <2>2, <2>3, <2>4, <2>5
<1>3. ASSUME Insert(p)
      PROVE  p \in Running /\ \E y : Outcome(p, y) /\ cur' = [cur EXCEPT ![p] = y]
  <2>1. x.phase = "insert" /\ Blockers(p) = {}
    BY <1>3 DEF Insert
  <2>2. CASE Taken(x)
    <3>1. Becomes(p, {LostTheRace(x)})
      BY <1>3, <2>2 DEF Insert
    <3>2. \/ LostTheRace(x) = [x EXCEPT !.phase = "lost"]
          \/ KindOf[x.step] # "path" /\ LostTheRace(x) = Poisoned(x)
      BY DEF LostTheRace
    <3> DEFINE y == [x EXCEPT !.phase = "lost"]
    <3>3. /\ Same(x, y) /\ y.phase = "lost" /\ y.writes = x.writes /\ y.step = x.step
          /\ y.queue = x.queue /\ y.indeg = x.indeg /\ y.rows = x.rows /\ y.fire = x.fire
      BY <1>2, <2>1 DEF Exec, Same
    <3> HIDE DEF y
    <3>4. ExecOK(y)
      BY <1>2, <2>1, <3>3 DEF ExecOK, InHand, KahnOf, Vouched, Named, Same
    <3>5. Outcome(p, y)
      BY <3>3, <3>4 DEF Outcome
    <3>6. QED
      BY <1>2, <2>1, <3>1, <3>2, <3>5 DEF Becomes, y
  <2>3. CASE ~Taken(x)
    <3>1. PICK y \in StepDone(Inserted(x)) : cur' = [cur EXCEPT ![p] = y]
      BY <1>3, <2>3 DEF Insert, Becomes
    <3>2. /\ Same(x, y) /\ ExecOK(y) /\ y.writes = x.writes \cup {RowOf(x)} /\ y.phase = "next"
          /\ RowOf(x) \in Row
      BY <1>2, <2>1, <3>1, InsertOutcome
    <3>3. Free(RowOf(x))
      <4>1. \A s \in db : ~Conflicts(s, RowOf(x))
        BY <2>3 DEF Taken
      <4>2. \A q \in Running \ {p} : \A s \in cur[q].writes : ~Conflicts(s, RowOf(x))
        BY <2>1 DEF Blockers, Running
      <4>3. \A s \in x.writes : ~Conflicts(s, RowOf(x))
        BY <1>2, <2>1 DEF IndexesHold
      <4>4. \A s : Conflicts(RowOf(x), s) => Conflicts(s, RowOf(x))
        BY ConflictsSymmetric
      <4>5. QED
        BY <4>1, <4>2, <4>3, <4>4 DEF Free
    <3>4. Outcome(p, y)
      BY <3>2, <3>3 DEF Outcome
    <3>5. QED
      BY <1>2, <2>1, <3>1, <3>4
  <2>4. QED
    BY <2>2, <2>3
<1>4. ASSUME FindWinner(p)
      PROVE  p \in Running /\ \E y : Outcome(p, y) /\ cur' = [cur EXCEPT ![p] = y]
  BY <1>2, <1>4 DEF FindWinner, Becomes
<1>5. ASSUME DeadlockDetected(p)
      PROVE  p \in Running /\ \E y : Outcome(p, y) /\ cur' = [cur EXCEPT ![p] = y]
  <2>1. x.phase = "insert"
    BY <1>5 DEF DeadlockDetected, Blockers
  <2>2. QED
    BY <1>2, <1>5, <2>1 DEF DeadlockDetected, Becomes
<1>6. QED
  BY <1>1, <1>3, <1>4, <1>5

-----------------------------------------------------------------------------
(* The tasks that a matching event schedules.                              *)

LEMMA MatchedFinite ==
  ASSUME TypeOK, NEW ev
  PROVE  /\ FindMatchingWorkflows(ev) \in SUBSET [wf : Workflows]
         /\ IsFiniteSet(FindMatchingWorkflows(ev))
<1>1. FindMatchingWorkflows(ev) \in SUBSET [wf : Workflows]
  <2>1. \A row \in MatchingRows(ev) : row[1] \in workflows
    BY DEF MatchingRows
  <2>2. QED
    BY <2>1 DEF FindMatchingWorkflows, MatchedOf, TypeOK
<1> DEFINE f == [m \in [wf : Workflows] |-> m.wf]
<1>2. f \in Injection([wf : Workflows], Workflows)
  BY DEF Injection, IsInjective
<1>3. IsFiniteSet([wf : Workflows])
  BY <1>2, GraphAssumption, FS_Injection
<1>4. QED
  BY <1>1, <1>3, FS_Subset

LEMMA ScheduledFacts ==
  ASSUME TypeOK, NEW ev \in EventRecord, NEW depth \in Nat, NEW q \in ScheduledTasks(ev, depth)
  PROVE  /\ q \in Seq(Task)
         /\ \A i \in DOMAIN q :
              /\ q[i] \in ExecuteTask /\ q[i].job = "execute" /\ q[i].ev = ev
              /\ q[i].depth = depth /\ depth < MAX_WORKFLOW_DEPTH
              /\ q[i].wf \in Workflows /\ q[i].id = Append(ev.cause, q[i].wf)
         /\ \A i, j \in DOMAIN q : q[i].wf = q[j].wf => i = j
<1>1. CASE TooDeep(depth)
  <2>1. q = <<>>
    BY <1>1 DEF ScheduledTasks
  <2>2. QED
    BY <2>1
<1>2. CASE ~TooDeep(depth)
  <2> DEFINE M == FindMatchingWorkflows(ev)
             T(m) == [job |-> "execute", wf |-> m.wf, ev |-> ev, depth |-> depth,
                      id |-> Append(ev.cause, m.wf)]
  <2>1. PICK o \in SetToSeqs(M) : q = [i \in DOMAIN o |-> T(o[i])]
    BY <1>2 DEF ScheduledTasks
  <2>2. M \in SUBSET [wf : Workflows] /\ IsFiniteSet(M)
    BY MatchedFinite
  <2> HIDE DEF M
  <2>3. o \in Seq(M) /\ Distinct(o)
    BY <2>2, OrderOfSet
  <2>4. \A i \in DOMAIN o : o[i] \in [wf : Workflows]
    BY <2>2, <2>3
  <2>5. ev.cause \in Id
    BY DEF EventRecord
  <2>6. \A w \in Workflows : Append(ev.cause, w) \in Id
    BY <2>5, IdExtended DEF IdPart
  <2>7. \A i \in DOMAIN o : T(o[i]) \in ExecuteTask
    BY <2>4, <2>6 DEF ExecuteTask
  <2>8. DOMAIN o = 1 .. Len(o) /\ Len(o) \in Nat
    BY <2>3
  <2>9. q \in Seq(Task)
    <3>1. q \in [1 .. Len(o) -> Task]
      BY <2>1, <2>7, <2>8 DEF Task
    <3>2. QED
      BY <2>8, <3>1
  <2>10. DOMAIN q = DOMAIN o /\ \A i \in DOMAIN o : q[i] = T(o[i])
    BY <2>1
  <2>11. \A i \in DOMAIN q :
           /\ q[i] \in ExecuteTask /\ q[i].job = "execute" /\ q[i].ev = ev
           /\ q[i].depth = depth /\ q[i].wf = o[i].wf /\ q[i].wf \in Workflows
           /\ q[i].id = Append(ev.cause, q[i].wf)
    BY <2>4, <2>7, <2>10
  <2>12. depth < MAX_WORKFLOW_DEPTH
    BY <1>2 DEF TooDeep, MAX_WORKFLOW_DEPTH
  <2>13. \A i, j \in DOMAIN q : q[i].wf = q[j].wf => i = j
    <3> SUFFICES ASSUME NEW i \in DOMAIN q, NEW j \in DOMAIN q, q[i].wf = q[j].wf
                 PROVE  i = j
      OBVIOUS
    <3>1. o[i].wf = o[j].wf /\ o[i] \in [wf : Workflows] /\ o[j] \in [wf : Workflows]
      BY <2>4, <2>10, <2>11
    <3>2. o[i] = o[j]
      BY <3>1
    <3>3. QED
      BY <2>3, <2>10, <3>2 DEF Distinct
  <2>14. QED
    BY <2>9, <2>11, <2>12, <2>13
<1>3. QED
  BY <1>1, <1>2

(* The triggers a committed execution fires.                               *)
LEMMA FollowupsFacts ==
  ASSUME NEW x \in Exec
  PROVE  /\ Followups(x) \in Seq(Task) /\ DOMAIN Followups(x) = DOMAIN x.fire
         /\ \A i \in DOMAIN x.fire :
              /\ Followups(x)[i] \in FireTask /\ Followups(x)[i].job = "fire"
              /\ Followups(x)[i].ev = x.fire[i] /\ Followups(x)[i].depth = x.depth
<1>1. x.fire \in Seq(EventRecord) /\ x.depth \in Nat
  BY DEF Exec
<1>2. DOMAIN x.fire = 1 .. Len(x.fire) /\ Len(x.fire) \in Nat
  BY <1>1
<1>3. \A i \in DOMAIN x.fire : [job |-> "fire", ev |-> x.fire[i], depth |-> x.depth] \in FireTask
  BY <1>1, <1>2 DEF FireTask
<1>4. Followups(x) \in [1 .. Len(x.fire) -> Task]
  BY <1>2, <1>3 DEF Followups, Task
<1>5. Followups(x) \in Seq(Task)
  BY <1>2, <1>4
<1>6. QED
  BY <1>3, <1>5 DEF Followups

(* The execution that Start opens.                                         *)
Opened(t, q) ==
  [id |-> t.id, wf |-> t.wf, ev |-> t.ev, depth |-> t.depth + 1,
   queue |-> q, indeg |-> InDegree(t.wf), phase |-> "next",
   step |-> "", rows |-> <<>>, writes |-> {}, fire |-> <<>>]

LEMMA Started ==
  ASSUME TypeOK, NEW t \in ExecuteTask, TaskOK(t), NEW q \in SetToSeqs(Roots(t.wf))
  PROVE  /\ Opened(t, q) \in Exec /\ ExecOK(Opened(t, q)) /\ Opened(t, q) # NoExec
         /\ Opened(t, q).writes = {} /\ Opened(t, q).phase = "next" /\ Opened(t, q).id = t.id
<1> DEFINE x == Opened(t, q)
<1> DEFINE S == StepsOf[t.wf]
           g == edges[t.wf]
<1>1. t.wf \in Workflows /\ t.id \in Id /\ t.ev \in EventRecord /\ t.depth \in Nat
      /\ t.job = "execute"
  BY DEF ExecuteTask
<1>2. /\ IsFiniteSet(S) /\ S \subseteq AllSteps /\ g \in SUBSET (AllSteps \X AllSteps)
  BY <1>1, StepsFacts
<1>3. InDegree(t.wf) = [s \in S |-> Cardinality({e \in g : e[2] = s /\ e[1] \in S})]
  BY DEF InDegree
<1>4. q \in SetToSeqs({s \in S : InDegree(t.wf)[s] = 0})
  BY DEF Roots
<1> HIDE DEF S, g
<1>5. Kahn(S, g, q, InDegree(t.wf), <<>>, {})
  BY <1>2, <1>3, <1>4, KahnStart
<1>6. q \in Seq(AllSteps) /\ InDegree(t.wf) \in [S -> Int]
  BY <1>2, <1>5, SeqOfMore DEF Kahn
<1>7. InDegree(t.wf) \in UNION {[StepsOf[w] -> Int] : w \in Workflows}
  BY <1>1, <1>6 DEF S
<1>8. <<>> \in Seq(StepRow) /\ <<>> \in Seq(EventRecord)
  OBVIOUS
<1>9. x \in Exec
  BY <1>1, <1>6, <1>7, <1>8 DEF Exec, Opened
<1>10. /\ x.id = t.id /\ x.wf = t.wf /\ x.ev = t.ev /\ x.depth = t.depth + 1
       /\ x.queue = q /\ x.indeg = InDegree(t.wf) /\ x.phase = "next" /\ x.rows = <<>>
       /\ x.writes = {} /\ x.fire = <<>>
  BY DEF Opened
<1> HIDE DEF x
<1>11. KahnOf(x, {})
  BY <1>5, <1>10 DEF KahnOf, S, g
<1>12. Named(x)
  <2>1. /\ t.depth \in 0 .. MAX_WORKFLOW_DEPTH - 1 /\ Len(t.id) = 2 * t.depth + 2
        /\ t.id = Append(t.ev.cause, t.wf)
    BY <1>1, Zenon DEF TaskOK, TaskShape
  <2>2. t.depth + 1 \in 1 .. MAX_WORKFLOW_DEPTH /\ Len(t.id) = 2 * (t.depth + 1)
    <3>1. \A d \in 0 .. MAX_WORKFLOW_DEPTH - 1 :
            d + 1 \in 1 .. MAX_WORKFLOW_DEPTH /\ 2 * d + 2 = 2 * (d + 1)
      BY DEF MAX_WORKFLOW_DEPTH
    <3>2. QED
      BY <2>1, <3>1, Zenon
  <2>3. QED
    BY <1>10, <2>1, <2>2, Zenon DEF Named
<1>13. Vouched(x)
  BY <1>10 DEF Vouched
<1>14. x # NoExec
  BY <1>10 DEF NoExec
<1>15. QED
  BY <1>9, <1>10, <1>11, <1>12, <1>13, <1>14 DEF ExecOK, x

-----------------------------------------------------------------------------
(* Types and executions, step by step. *)

(* The head of a loop, and what is behind it.                              *)
LEMMA HeadTask ==
  ASSUME TypeOK, TasksOK, NEW p \in Procs, loop[p] # <<>>
  PROVE  /\ loop[p] \in Seq(Task) /\ Head(loop[p]) \in Task /\ Tail(loop[p]) \in Seq(Task)
         /\ Head(loop[p]) = loop[p][1] /\ 1 \in DOMAIN loop[p] /\ TaskOK(Head(loop[p]))
         /\ Head(loop[p]).job = "execute" => Head(loop[p]) \in ExecuteTask
         /\ Head(loop[p]).ev \in EventRecord /\ Head(loop[p]).depth \in Nat
<1>1. loop[p] \in Seq(Task)
  BY DEF TypeOK
<1>2. Head(loop[p]) \in Task /\ Tail(loop[p]) \in Seq(Task)
  BY <1>1, HeadTailProperties
<1>3. Head(loop[p]) = loop[p][1] /\ 1 \in DOMAIN loop[p]
  BY <1>1
<1>4. QED
  BY <1>1, <1>2, <1>3 DEF TasksOK, Task, ExecuteTask, FireTask

(* The event record that Event builds.                                     *)
EventOf(v, x) ==
  [res |-> "client_service", type |-> "UPDATED",
   before |-> IF v \in Services THEN status[v] ELSE NoData,
   after |-> x, service |-> v, cause |-> <<events + 1>>]

LEMMA EventOfType ==
  ASSUME TypeOK, NEW v \in Targets, NEW x \in Statuses
  PROVE  /\ EventOf(v, x) \in EventRecord /\ EventOf(v, x).cause = <<events + 1>>
         /\ <<events + 1>> \in Id
<1>1. v \in Services \cup {NoService}
  BY BoundsAssumption
<1>2. <<events + 1>> \in Id
  <2>1. events + 1 \in Nat
    BY DEF TypeOK
  <2>2. events + 1 \in IdPart
    BY <2>1 DEF IdPart
  <2>3. QED
    BY <2>2 DEF Id
<1>3. (IF v \in Services THEN status[v] ELSE NoData) \in Statuses \cup {NoData}
  BY DEF TypeOK
<1>4. QED
  BY <1>1, <1>2, <1>3 DEF EventOf, EventRecord

(* What happens to the loop of p and to the others.                        *)
Appends(p, q) == loop' = [loop EXCEPT ![p] = @ \o q]
Replaces(p, q) == loop[p] # <<>> /\ loop' = [loop EXCEPT ![p] = Tail(@) \o q]

LEMMA LoopTyped ==
  ASSUME TypeOK, NEW p \in Procs, NEW q \in Seq(Task), Appends(p, q) \/ Replaces(p, q)
  PROVE  loop' \in [Procs -> Seq(Task)]
<1>1. loop \in [Procs -> Seq(Task)]
  BY DEF TypeOK
<1>2. loop[p] \o q \in Seq(Task)
  BY <1>1, ConcatProperties
<1>3. ASSUME loop[p] # <<>> PROVE Tail(loop[p]) \o q \in Seq(Task)
  <2>1. Tail(loop[p]) \in Seq(Task)
    BY <1>1, <1>3, HeadTailProperties
  <2>2. QED
    BY <2>1, ConcatProperties
<1>4. QED
  BY <1>1, <1>2, <1>3 DEF Appends, Replaces

(* The tasks an action puts on the loop.                                   *)
LEMMA EventTasks ==
  ASSUME TypeOK, NEW p \in Procs, NEW v \in Targets, NEW x \in Statuses, Event(p, v, x)
  PROVE  \E q \in ScheduledTasks(EventOf(v, x), 0) : q \in Seq(Task) /\ Appends(p, q)
<1>1. PICK q \in ScheduledTasks(EventOf(v, x), 0) : loop' = [loop EXCEPT ![p] = @ \o q]
  BY DEF Event, EventOf
<1>2. q \in Seq(Task)
  BY <1>1, EventOfType, ScheduledFacts
<1>3. QED
  BY <1>1, <1>2 DEF Appends

LEMMA FireTasks ==
  ASSUME TypeOK, TasksOK, NEW p \in Procs, Fire(p)
  PROVE  \E q \in ScheduledTasks(Head(loop[p]).ev, Head(loop[p]).depth) :
           q \in Seq(Task) /\ Replaces(p, q)
<1>1. loop[p] # <<>>
  BY DEF Fire
<1>2. PICK q \in ScheduledTasks(Head(loop[p]).ev, Head(loop[p]).depth) :
        loop' = [loop EXCEPT ![p] = Tail(@) \o q]
  BY DEF Fire
<1>3. q \in Seq(Task)
  BY <1>1, <1>2, HeadTask, ScheduledFacts
<1>4. QED
  BY <1>1, <1>2, <1>3 DEF Replaces

LEMMA StartTasks ==
  ASSUME TypeOK, TasksOK, NEW p \in Procs, Start(p)
  PROVE  Replaces(p, <<>>)
<1>1. loop[p] # <<>> /\ loop' = [loop EXCEPT ![p] = Tail(@)]
  BY DEF Start
<1>2. Tail(loop[p]) \o <<>> = Tail(loop[p])
  BY <1>1, HeadTask, ConcatEmptySeq
<1>3. loop \in [Procs -> Seq(Task)]
  BY DEF TypeOK
<1>4. QED
  BY <1>1, <1>2, <1>3 DEF Replaces

(* A process that has nothing under way, or another execution.             *)
LEMMA CurStep ==
  ASSUME TypeOK, ExecsOK, NEW p \in Procs, edges' = edges, NEW y,
         cur' = [cur EXCEPT ![p] = y], y = NoExec \/ (y \in Exec /\ ExecOK(y))
  PROVE  cur' \in [Procs -> Exec \cup {NoExec}] /\ ExecsOK'
<1>1. cur' \in [Procs -> Exec \cup {NoExec}]
  BY DEF TypeOK
<1>2. ASSUME NEW q \in Procs, cur'[q] # NoExec PROVE ExecOK(cur'[q])
  BY <1>2 DEF TypeOK, ExecsOK
<1>3. QED
  BY <1>1, <1>2 DEF ExecsOK, ExecOK, KahnOf

LEMMA CurIdle ==
  ASSUME TypeOK, ExecsOK, NEW p \in Procs, edges' = edges,
         cur' = [cur EXCEPT ![p] = NoExec]
  PROVE  cur' \in [Procs -> Exec \cup {NoExec}] /\ ExecsOK'
<1>1. cur' \in [Procs -> Exec \cup {NoExec}]
  BY DEF TypeOK
<1>2. ASSUME NEW q \in Procs, cur'[q] # NoExec PROVE ExecOK(cur'[q])
  BY <1>2 DEF TypeOK, ExecsOK
<1>3. QED
  BY <1>1, <1>2 DEF ExecsOK, ExecOK, KahnOf

LEMMA CurUnmoved ==
  ASSUME ExecsOK, edges' = edges, cur' = cur
  PROVE  ExecsOK'
  BY DEF ExecsOK, ExecOK, KahnOf

LEMMA CommitFacts ==
  ASSUME TypeOK, ExecsOK, NEW p \in Procs, Commit(p)
  PROVE  /\ p \in Running /\ cur[p] \in Exec /\ ExecOK(cur[p]) /\ Vouched(cur[p])
         /\ db' = db \cup cur[p].writes
         /\ executions' = executions \cup
              {[id |-> cur[p].id, wf |-> cur[p].wf, ev |-> cur[p].ev,
                status |-> FinalStatus(cur[p]), rows |-> cur[p].rows]}
         /\ Appends(p, Followups(cur[p])) /\ cur' = [cur EXCEPT ![p] = NoExec]
<1>1. cur[p].phase \in {"failed", "next"}
  BY DEF Commit
<1>2. p \in Running /\ cur[p] \in Exec /\ ExecOK(cur[p])
  BY <1>1, UnderWay
<1>3. Vouched(cur[p])
  BY <1>1, <1>2 DEF ExecOK
<1>4. QED
  BY <1>2, <1>3 DEF Commit, Appends

LEMMA DiscardFacts ==
  ASSUME TypeOK, ExecsOK, NEW p \in Procs, Discard(p)
  PROVE  /\ p \in Running /\ cur[p] \in Exec /\ cur[p].phase = "poisoned"
         /\ KindOf[cur[p].step] \in ActionTypes
         /\ gone' = gone \cup {[id |-> cur[p].id, why |-> KindOf[cur[p].step]]}
         /\ cur' = [cur EXCEPT ![p] = NoExec]
<1>1. cur[p].phase = "poisoned"
  BY DEF Discard
<1>2. p \in Running /\ cur[p] \in Exec /\ ExecOK(cur[p])
  BY <1>1, UnderWay
<1>3. KindOf[cur[p].step] \in ActionTypes
  BY <1>1, <1>2, KindType DEF ExecOK
<1>4. QED
  BY <1>1, <1>2, <1>3 DEF Discard

LEMMA StartFacts ==
  ASSUME TypeOK, TasksOK, NEW p \in Procs, Start(p)
  PROVE  /\ cur[p] = NoExec /\ loop[p] # <<>> /\ Head(loop[p]) \in ExecuteTask
         /\ Head(loop[p]).job = "execute"
         /\ \/ /\ \E q \in SetToSeqs(Roots(Head(loop[p]).wf)) :
                    cur' = [cur EXCEPT ![p] = Opened(Head(loop[p]), q)]
               /\ gone' = gone
            \/ /\ gone' = gone \cup {[id |-> Head(loop[p]).id, why |-> "deleted"]}
               /\ cur' = cur
<1>1. loop[p] # <<>> /\ Head(loop[p]).job = "execute"
  BY DEF Start
<1>2. Head(loop[p]) \in ExecuteTask
  BY <1>1, HeadTask
<1>3. QED
  BY <1>1, <1>2 DEF Start, Opened

LEMMA TypeStep ==
  TypeOK /\ ExecsOK /\ IndexesHold /\ TasksOK /\ [Next]_vars => TypeOK' /\ ExecsOK'
<1> SUFFICES ASSUME TypeOK, ExecsOK, IndexesHold, TasksOK, [Next]_vars
             PROVE  TypeOK' /\ ExecsOK'
  OBVIOUS
<1>1. ASSUME NEW p \in Procs, NEW v \in Targets, NEW x \in Statuses, Event(p, v, x)
      PROVE  TypeOK' /\ ExecsOK'
  <2>1. loop' \in [Procs -> Seq(Task)]
    BY <1>1, EventTasks, LoopTyped
  <2>2. /\ events' = events + 1 /\ UNCHANGED <<edges, workflows, db, executions, cur, gone>>
        /\ status' \in [Services -> Statuses]
    BY <1>1 DEF Event, TypeOK
  <2>3. QED
    BY <2>1, <2>2, CurUnmoved DEF TypeOK
<1>2. ASSUME NEW p \in Procs, Fire(p) PROVE TypeOK' /\ ExecsOK'
  <2>1. loop' \in [Procs -> Seq(Task)]
    BY <1>2, FireTasks, LoopTyped
  <2>2. UNCHANGED <<edges, workflows, status, db, executions, cur, gone, events>>
    BY <1>2 DEF Fire
  <2>3. QED
    BY <2>1, <2>2 DEF TypeOK, ExecsOK, ExecOK, KahnOf
<1>3. ASSUME NEW p \in Procs, Start(p) PROVE TypeOK' /\ ExecsOK'
  <2> DEFINE t == Head(loop[p])
  <2>1. loop' \in [Procs -> Seq(Task)]
    <3>1. <<>> \in Seq(Task)
      OBVIOUS
    <3>2. QED
      BY <1>3, <3>1, StartTasks, LoopTyped
  <2>2. UNCHANGED <<edges, workflows, status, db, executions, events>>
    BY <1>3 DEF Start
  <2>3. loop[p] # <<>> /\ t \in ExecuteTask
    BY <1>3, StartFacts
  <2>4. TaskOK(t) /\ t.id \in Id
    BY <2>3, HeadTask DEF ExecuteTask
  <2> HIDE DEF t
  <2>5. cur' \in [Procs -> Exec \cup {NoExec}] /\ ExecsOK'
    <3>1. CASE cur' = cur
      BY <2>2, <3>1 DEF TypeOK, ExecsOK, ExecOK, KahnOf
    <3>2. ASSUME NEW q \in SetToSeqs(Roots(t.wf)), cur' = [cur EXCEPT ![p] = Opened(t, q)]
          PROVE  cur' \in [Procs -> Exec \cup {NoExec}] /\ ExecsOK'
      <4>1. Opened(t, q) \in Exec /\ ExecOK(Opened(t, q))
        BY <2>3, <2>4, <3>2, Started
      <4>2. QED
        BY <2>2, <3>2, <4>1, CurStep
    <3>3. QED
      BY <1>3, <3>1, <3>2, StartFacts DEF t
  <2>6. gone' \in SUBSET [id : Id, why : ActionTypes \cup {"crash", "deleted"}]
    BY <1>3, <2>4, StartFacts DEF TypeOK, t
  <2>7. QED
    BY <2>1, <2>2, <2>5, <2>6 DEF TypeOK
<1>4. ASSUME NEW p \in Procs,
             ExecuteStep(p) \/ Insert(p) \/ FindWinner(p) \/ DeadlockDetected(p)
      PROVE  TypeOK' /\ ExecsOK'
  <2>1. PICK y : Outcome(p, y) /\ cur' = [cur EXCEPT ![p] = y]
    BY <1>4, StepOutcome
  <2>2. UNCHANGED <<edges, workflows, status, db, executions, loop, gone, events>>
    BY <1>4 DEF ExecuteStep, Insert, FindWinner, DeadlockDetected, OnlyCur
  <2>3. y \in Exec /\ ExecOK(y)
    BY <2>1 DEF Outcome, Same
  <2>4. cur' \in [Procs -> Exec \cup {NoExec}] /\ ExecsOK'
    BY <2>1, <2>2, <2>3, CurStep
  <2>5. QED
    BY <2>2, <2>4 DEF TypeOK
<1>5. ASSUME NEW p \in Procs, Commit(p) PROVE TypeOK' /\ ExecsOK'
  <2> DEFINE x == cur[p]
             e == [id |-> x.id, wf |-> x.wf, ev |-> x.ev, status |-> FinalStatus(x),
                   rows |-> x.rows]
  <2>1. /\ x \in Exec /\ db' = db \cup x.writes /\ executions' = executions \cup {e}
        /\ Appends(p, Followups(x)) /\ cur' = [cur EXCEPT ![p] = NoExec]
    BY <1>5, CommitFacts
  <2>2. UNCHANGED <<edges, workflows, status, gone, events>>
    BY <1>5 DEF Commit
  <2>3. loop' \in [Procs -> Seq(Task)]
    BY <2>1, FollowupsFacts, LoopTyped
  <2>4. cur' \in [Procs -> Exec \cup {NoExec}] /\ ExecsOK'
    BY <2>1, <2>2, CurIdle
  <2>5. e \in [id : Id, wf : Workflows, ev : EventRecord,
               status : {"COMPLETED", "FAILED"}, rows : Seq(StepRow)]
    BY <2>1 DEF Exec, FinalStatus
  <2>6. db' \in SUBSET Row
    BY <2>1 DEF Exec, TypeOK
  <2> HIDE DEF e
  <2>7. QED
    BY <2>1, <2>2, <2>3, <2>4, <2>5, <2>6 DEF TypeOK
<1>6. ASSUME NEW p \in Procs, Discard(p) PROVE TypeOK' /\ ExecsOK'
  <2>1. /\ cur[p] \in Exec /\ KindOf[cur[p].step] \in ActionTypes
        /\ gone' = gone \cup {[id |-> cur[p].id, why |-> KindOf[cur[p].step]]}
        /\ cur' = [cur EXCEPT ![p] = NoExec]
    BY <1>6, DiscardFacts
  <2>2. UNCHANGED <<edges, workflows, status, db, executions, loop, events>>
    BY <1>6 DEF Discard
  <2>3. [id |-> cur[p].id, why |-> KindOf[cur[p].step]]
          \in [id : Id, why : ActionTypes \cup {"crash", "deleted"}]
    BY <2>1 DEF Exec
  <2>4. gone' \in SUBSET [id : Id, why : ActionTypes \cup {"crash", "deleted"}]
    BY <2>1, <2>3 DEF TypeOK
  <2>5. cur' \in [Procs -> Exec \cup {NoExec}] /\ ExecsOK'
    BY <2>1, <2>2, CurIdle
  <2>6. QED
    BY <2>2, <2>4, <2>5 DEF TypeOK
<1>7. ASSUME NEW p \in Procs, Crash(p) PROVE TypeOK' /\ ExecsOK'
  <2>1. /\ cur' = [cur EXCEPT ![p] = NoExec] /\ loop' = [loop EXCEPT ![p] = <<>>]
        /\ UNCHANGED <<edges, workflows, status, db, executions, events>>
    BY <1>7 DEF Crash
  <2>2. cur' \in [Procs -> Exec \cup {NoExec}] /\ ExecsOK'
    BY <2>1, CurIdle
  <2>3. loop' \in [Procs -> Seq(Task)]
    BY <2>1 DEF TypeOK
  <2>4. gone' \in SUBSET [id : Id, why : ActionTypes \cup {"crash", "deleted"}]
    <3>1. \A t \in {u \in ToSet(loop[p]) : u.job = "execute"} : t.id \in Id
      BY DEF ToSet, TypeOK, Task, ExecuteTask, FireTask
    <3>2. cur[p] # NoExec => cur[p].id \in Id
      BY DEF TypeOK, Exec
    <3>3. QED
      BY <1>7, <3>1, <3>2 DEF Crash, TypeOK
  <2>5. QED
    BY <2>1, <2>2, <2>3, <2>4 DEF TypeOK
<1>8. ASSUME NEW v \in Services, DirectRun(v) PROVE TypeOK' /\ ExecsOK'
  <2> DEFINE r == [kind |-> "path", key |-> v, live |-> TRUE, by |-> <<>>, step |-> ""]
  <2>1. r \in Row
    <3>1. <<>> \in Id
      BY DEF Id
    <3>2. QED
      BY <3>1 DEF Row, ActionTypes
  <2>2. /\ db' = db \cup {r}
        /\ UNCHANGED <<edges, workflows, status, executions, loop, cur, gone, events>>
    BY <1>8 DEF DirectRun
  <2> HIDE DEF r
  <2>3. QED
    BY <2>1, <2>2 DEF TypeOK, ExecsOK, ExecOK, KahnOf
<1>9. ASSUME NEW r \in db, Ends(r) PROVE TypeOK' /\ ExecsOK'
  <2>1. /\ db' = (db \ {r}) \cup {[r EXCEPT !.live = FALSE]}
        /\ UNCHANGED <<edges, workflows, status, executions, loop, cur, gone, events>>
    BY <1>9 DEF Ends
  <2>2. [r EXCEPT !.live = FALSE] \in Row
    BY DEF TypeOK, Row
  <2>3. QED
    BY <2>1, <2>2 DEF TypeOK, ExecsOK, ExecOK, KahnOf
<1>10. ASSUME NEW w \in Workflows, DeleteWorkflow(w) PROVE TypeOK' /\ ExecsOK'
  BY <1>10 DEF DeleteWorkflow, TypeOK, ExecsOK, ExecOK, KahnOf
<1>11. CASE AtRest \/ UNCHANGED vars
  BY <1>11 DEF AtRest, vars, TypeOK, ExecsOK, ExecOK, KahnOf
<1>12. QED
  BY <1>1, <1>2, <1>3, <1>4, <1>5, <1>6, <1>7, <1>8, <1>9, <1>10, <1>11 DEF Next, Work

-----------------------------------------------------------------------------
(* The unique indexes, step by step. *)

(* A transaction that adds at most one free row to what it had written.    *)
LEMMA IndexesOutcome ==
  ASSUME TypeOK, IndexesHold, NEW p \in Running, NEW y, Outcome(p, y), db' = db,
         cur' = [cur EXCEPT ![p] = y]
  PROVE  IndexesHold'
<1>1. /\ p \in Procs /\ cur \in [Procs -> Exec \cup {NoExec}]
  BY DEF TypeOK, Running
<1>2. y # NoExec
  <2>1. y \in Exec
    BY DEF Outcome, Same
  <2>2. y.phase \in {"next", "insert", "lost", "failed", "poisoned"}
    BY <2>1 DEF Exec
  <2>3. QED
    BY <2>2 DEF NoExec
<1>3. Running' = Running
  BY <1>1, <1>2 DEF Running
<1>4. cur'[p] = y /\ \A q \in Running \ {p} : cur'[q] = cur[q]
  BY <1>1 DEF Running
<1>5. \A r \in y.writes : r \in cur[p].writes \/ Free(r)
  BY DEF Outcome
<1>6. \A r, s \in y.writes : r \in cur[p].writes \/ s \in cur[p].writes \/ r = s
  BY DEF Outcome
<1>7. OneLiveRowPerKey'
  BY DEF OneLiveRowPerKey, IndexesHold
<1>8. \A q \in Running : \A r \in cur'[q].writes : \A s \in db : ~Conflicts(r, s)
  BY <1>4, <1>5 DEF IndexesHold, Free
<1>9. ASSUME NEW q \in Running, NEW o \in Running,
             NEW r \in cur'[q].writes, NEW s \in cur'[o].writes, Conflicts(r, s)
      PROVE  q = o /\ r = s
  <2>1. CASE r \in cur[q].writes /\ s \in cur[o].writes
    BY <1>9, <2>1 DEF IndexesHold
  <2>2. CASE r \notin cur[q].writes
    <3>1. q = p /\ Free(r) /\ r \in y.writes
      BY <1>4, <1>5, <2>2
    <3>2. s \notin cur[o].writes
      BY <1>9, <3>1 DEF Free
    <3>3. o = p /\ s \in y.writes
      BY <1>4, <3>2
    <3>4. QED
      BY <1>6, <2>2, <3>1, <3>2, <3>3
  <2>3. CASE s \notin cur[o].writes
    <3>1. o = p /\ Free(s) /\ s \in y.writes
      BY <1>4, <1>5, <2>3
    <3>2. r \notin cur[q].writes
      BY <1>9, <3>1, ConflictsSymmetric DEF Free
    <3>3. q = p /\ r \in y.writes
      BY <1>4, <3>2
    <3>4. QED
      BY <1>6, <2>3, <3>1, <3>2, <3>3
  <2>4. QED
    BY <2>1, <2>2, <2>3
<1>10. \A q \in Running : cur'[q].phase = "insert" =>
         \A r \in cur'[q].writes : ~Conflicts(r, RowOf(cur'[q]))
  BY <1>4 DEF IndexesHold, Outcome
<1>11. QED
  BY <1>3, <1>7, <1>8, <1>9, <1>10 DEF IndexesHold

(* A transaction that has written nothing yet, or that is rolled back.     *)
LEMMA IndexesEmpty ==
  ASSUME TypeOK, IndexesHold, NEW p \in Procs, NEW y, y = NoExec \/ y.writes = {}, db' = db,
         cur' = [cur EXCEPT ![p] = y]
  PROVE  IndexesHold'
<1>1. cur'[p] = y /\ \A q \in Procs \ {p} : cur'[q] = cur[q]
  BY DEF TypeOK
<1>2. \A q \in Running' : q \in Procs /\ (q # p => q \in Running) /\ (q = p => y.writes = {})
  BY <1>1 DEF Running
<1>3. OneLiveRowPerKey'
  BY DEF OneLiveRowPerKey, IndexesHold
<1>4. \A q \in Running' : \A r \in cur'[q].writes : q # p
  BY <1>1, <1>2
<1>5. \A q \in Running' : \A r \in cur'[q].writes : \A s \in db' : ~Conflicts(r, s)
  BY <1>1, <1>2, <1>4 DEF IndexesHold
<1>6. \A q, o \in Running' : \A r \in cur'[q].writes, s \in cur'[o].writes :
        Conflicts(r, s) => q = o /\ r = s
  BY <1>1, <1>2, <1>4 DEF IndexesHold
<1>7. \A q \in Running' : cur'[q].phase = "insert" =>
        \A r \in cur'[q].writes : ~Conflicts(r, RowOf(cur'[q]))
  BY <1>1, <1>2, <1>4 DEF IndexesHold
<1>8. QED
  BY <1>3, <1>5, <1>6, <1>7 DEF IndexesHold

(* The rows of a transaction are committed with it.                        *)
LEMMA IndexesCommit ==
  ASSUME TypeOK, IndexesHold, NEW p \in Running, db' = db \cup cur[p].writes,
         cur' = [cur EXCEPT ![p] = NoExec]
  PROVE  IndexesHold'
<1>1. p \in Procs /\ \A q \in Procs \ {p} : cur'[q] = cur[q]
  BY DEF TypeOK, Running
<1>2. \A q \in Running' : q \in Running /\ q # p
  BY <1>1 DEF Running, TypeOK
<1>3. \A q \in Running' : cur'[q] = cur[q]
  BY <1>1, <1>2 DEF Running
<1>4. ASSUME NEW r \in db', NEW s \in db', Conflicts(r, s) PROVE r = s
  <2>1. CASE r \in db /\ s \in db
    BY <1>4, <2>1 DEF IndexesHold, OneLiveRowPerKey
  <2>2. CASE r \in cur[p].writes /\ s \in cur[p].writes
    BY <1>4, <2>2 DEF IndexesHold
  <2>3. CASE r \in cur[p].writes /\ s \in db
    BY <1>4, <2>3 DEF IndexesHold
  <2>4. CASE r \in db /\ s \in cur[p].writes
    BY <1>4, <2>4, ConflictsSymmetric DEF IndexesHold
  <2>5. QED
    BY <2>1, <2>2, <2>3, <2>4
<1>5. \A q \in Running' : \A r \in cur'[q].writes : \A s \in db' : ~Conflicts(r, s)
  BY <1>2, <1>3 DEF IndexesHold
<1>6. \A q, o \in Running' : \A r \in cur'[q].writes, s \in cur'[o].writes :
        Conflicts(r, s) => q = o /\ r = s
  BY <1>2, <1>3 DEF IndexesHold
<1>7. \A q \in Running' : cur'[q].phase = "insert" =>
        \A r \in cur'[q].writes : ~Conflicts(r, RowOf(cur'[q]))
  BY <1>2, <1>3 DEF IndexesHold
<1>8. QED
  BY <1>4, <1>5, <1>6, <1>7 DEF IndexesHold, OneLiveRowPerKey

LEMMA IndexesStep ==
  TypeOK /\ ExecsOK /\ IndexesHold /\ TasksOK /\ [Next]_vars => IndexesHold'
<1> SUFFICES ASSUME TypeOK, ExecsOK, IndexesHold, TasksOK, [Next]_vars PROVE IndexesHold'
  OBVIOUS
<1>1. CASE db' = db /\ cur' = cur
  BY <1>1 DEF IndexesHold, OneLiveRowPerKey, Running
<1>2. ASSUME NEW p \in Procs, Start(p) PROVE IndexesHold'
  <2>1. db' = db
    BY <1>2 DEF Start
  <2>2. loop[p] # <<>> /\ Head(loop[p]) \in ExecuteTask
    BY <1>2, StartFacts
  <2>3. TaskOK(Head(loop[p]))
    BY <2>2, HeadTask
  <2>4. ASSUME NEW q \in SetToSeqs(Roots(Head(loop[p]).wf)),
               cur' = [cur EXCEPT ![p] = Opened(Head(loop[p]), q)]
        PROVE  IndexesHold'
    <3>1. Opened(Head(loop[p]), q).writes = {}
      BY <2>2, <2>3, <2>4, Started
    <3>2. QED
      BY <2>1, <2>4, <3>1, IndexesEmpty
  <2>5. QED
    BY <1>1, <1>2, <2>1, <2>4, StartFacts
<1>3. ASSUME NEW p \in Procs,
             ExecuteStep(p) \/ Insert(p) \/ FindWinner(p) \/ DeadlockDetected(p)
      PROVE  IndexesHold'
  <2>1. p \in Running /\ \E y : Outcome(p, y) /\ cur' = [cur EXCEPT ![p] = y]
    BY <1>3, StepOutcome
  <2>2. db' = db
    BY <1>3 DEF ExecuteStep, Insert, FindWinner, DeadlockDetected, OnlyCur
  <2>3. QED
    BY <2>1, <2>2, IndexesOutcome
<1>4. ASSUME NEW p \in Procs, Commit(p) PROVE IndexesHold'
  BY <1>4, CommitFacts, IndexesCommit
<1>5. ASSUME NEW p \in Procs, Discard(p) \/ Crash(p) PROVE IndexesHold'
  <2>1. db' = db /\ cur' = [cur EXCEPT ![p] = NoExec]
    BY <1>5 DEF Discard, Crash
  <2>2. QED
    BY <2>1, IndexesEmpty
<1>6. ASSUME NEW v \in Services, DirectRun(v) PROVE IndexesHold'
  <2> DEFINE r == [kind |-> "path", key |-> v, live |-> TRUE, by |-> <<>>, step |-> ""]
  <2>1. /\ \A p \in Running : \A s \in cur[p].writes : ~Conflicts(r, s)
        /\ \A s \in db : ~Conflicts(r, s)
        /\ db' = db \cup {r} /\ cur' = cur
    BY <1>6 DEF DirectRun, Running
  <2> HIDE DEF r
  <2>2. /\ \A p \in Running : \A s \in cur[p].writes : ~Conflicts(s, r)
        /\ \A s \in db : ~Conflicts(s, r)
    BY <2>1, ConflictsSymmetric
  <2>3. OneLiveRowPerKey'
    BY <2>1, <2>2 DEF IndexesHold, OneLiveRowPerKey
  <2>4. QED
    BY <2>1, <2>2, <2>3 DEF IndexesHold, Running
<1>7. ASSUME NEW r \in db, Ends(r) PROVE IndexesHold'
  <2> DEFINE e == [r EXCEPT !.live = FALSE]
  <2>1. db' = (db \ {r}) \cup {e} /\ cur' = cur
    BY <1>7 DEF Ends
  <2>2. ~e.live
    BY DEF TypeOK, Row
  <2> HIDE DEF e
  <2>3. \A s : ~Conflicts(e, s) /\ ~Conflicts(s, e)
    BY <2>2 DEF Conflicts
  <2>4. OneLiveRowPerKey'
    BY <2>1, <2>3 DEF IndexesHold, OneLiveRowPerKey
  <2>5. QED
    BY <2>1, <2>3, <2>4 DEF IndexesHold, Running
<1>8. QED
  <2>1. \A p \in Procs, v \in Targets, x \in Statuses : Event(p, v, x) => db' = db /\ cur' = cur
    BY DEF Event
  <2>2. \A p \in Procs : Fire(p) => db' = db /\ cur' = cur
    BY DEF Fire
  <2>3. \A w \in Workflows : DeleteWorkflow(w) => db' = db /\ cur' = cur
    BY DEF DeleteWorkflow
  <2>4. AtRest \/ UNCHANGED vars => db' = db /\ cur' = cur
    BY DEF AtRest, vars
  <2>5. QED
    BY <1>1, <1>2, <1>3, <1>4, <1>5, <1>6, <1>7, <2>1, <2>2, <2>3, <2>4 DEF Next, Work

-----------------------------------------------------------------------------
(* What is on the loops after a step. *)

(* Process p has taken d tasks off its loop and put q behind the rest.     *)
Moves(p, d, q) ==
  /\ \A o \in Procs \ {p} : loop'[o] = loop[o]
  /\ d \in {0, 1} /\ Len(loop[p]) \in Nat /\ d <= Len(loop[p]) /\ Len(q) \in Nat
  /\ DOMAIN loop[p] = 1 .. Len(loop[p]) /\ DOMAIN q = 1 .. Len(q)
  /\ DOMAIN loop'[p] = 1 .. Len(loop[p]) - d + Len(q)
  /\ \A i \in 1 .. Len(loop[p]) - d : loop'[p][i] = loop[p][i + d]
  /\ \A i \in DOMAIN loop'[p] : i > Len(loop[p]) - d =>
       loop'[p][i] = q[i - (Len(loop[p]) - d)]

LEMMA AppendsMoves ==
  ASSUME TypeOK, NEW p \in Procs, NEW q \in Seq(Task), Appends(p, q)
  PROVE  Moves(p, 0, q)
<1>1. loop \in [Procs -> Seq(Task)]
  BY DEF TypeOK
<1>2. loop'[p] = loop[p] \o q /\ \A o \in Procs \ {p} : loop'[o] = loop[o]
  BY <1>1 DEF Appends
<1>3. loop[p] \in Seq(Task)
  BY <1>1
<1>4. QED
  BY <1>2, <1>3, ConcatProperties DEF Moves

LEMMA ReplacesMoves ==
  ASSUME TypeOK, NEW p \in Procs, NEW q \in Seq(Task), Replaces(p, q)
  PROVE  Moves(p, 1, q)
<1>1. loop \in [Procs -> Seq(Task)] /\ loop[p] # <<>>
  BY DEF TypeOK, Replaces
<1>2. loop'[p] = Tail(loop[p]) \o q /\ \A o \in Procs \ {p} : loop'[o] = loop[o]
  BY <1>1 DEF Replaces
<1>3. loop[p] \in Seq(Task) /\ Len(loop[p]) \in Nat /\ 1 <= Len(loop[p])
  BY <1>1
<1>4. /\ Tail(loop[p]) \in Seq(Task) /\ Len(Tail(loop[p])) = Len(loop[p]) - 1
      /\ \A i \in 1 .. Len(loop[p]) - 1 : Tail(loop[p])[i] = loop[p][i + 1]
  BY <1>1, <1>3, HeadTailProperties
<1> DEFINE t == Tail(loop[p])
<1> HIDE DEF t
<1>5. /\ DOMAIN (t \o q) = 1 .. Len(t) + Len(q)
      /\ \A i \in 1 .. Len(t) : (t \o q)[i] = t[i]
      /\ \A i \in 1 .. Len(t) + Len(q) : i > Len(t) => (t \o q)[i] = q[i - Len(t)]
      /\ DOMAIN q = 1 .. Len(q) /\ Len(q) \in Nat
  BY <1>4, ConcatProperties DEF t
<1>6. QED
  BY <1>2, <1>3, <1>4, <1>5 DEF Moves, t

(* A task that was on a loop, and not among those p has taken off.         *)
Behind(p, d, t) ==
  \E o \in Procs : \E j \in DOMAIN loop[o] : t = loop[o][j] /\ (o = p => j > d)

LEMMA LoopAfter ==
  ASSUME NEW p \in Procs, NEW d, NEW q, Moves(p, d, q)
  PROVE  \A o \in Procs : \A i \in DOMAIN loop'[o] :
           \/ Behind(p, d, loop'[o][i])
           \/ \E k \in DOMAIN q : loop'[o][i] = q[k]
<1> SUFFICES ASSUME NEW o \in Procs, NEW i \in DOMAIN loop'[o]
             PROVE  \/ Behind(p, d, loop'[o][i])
                    \/ \E k \in DOMAIN q : loop'[o][i] = q[k]
  OBVIOUS
<1>1. CASE o # p
  <2>1. i \in DOMAIN loop[o] /\ loop'[o][i] = loop[o][i]
    BY <1>1 DEF Moves
  <2>2. QED
    BY <1>1, <2>1 DEF Behind
<1>2. CASE o = p /\ i <= Len(loop[p]) - d
  <2>1. i + d \in DOMAIN loop[p] /\ loop'[p][i] = loop[p][i + d] /\ i + d > d
    BY <1>2 DEF Moves
  <2>2. QED
    BY <1>2, <2>1 DEF Behind
<1>3. CASE o = p /\ i > Len(loop[p]) - d
  <2>1. loop'[p][i] = q[i - (Len(loop[p]) - d)]
    BY <1>3 DEF Moves
  <2>2. i - (Len(loop[p]) - d) \in DOMAIN q
    <3> DEFINE n == Len(loop[p]) - d
               m == Len(q)
    <3>1. n \in Nat /\ m \in Nat /\ i \in 1 .. n + m /\ i > n /\ DOMAIN q = 1 .. m
      BY <1>3 DEF Moves
    <3> HIDE DEF n, m
    <3>2. i - n \in DOMAIN q
      BY <3>1
    <3>3. QED
      BY <3>2 DEF n
  <2>3. QED
    BY <1>3, <2>1, <2>2
<1>4. (i \in Int /\ Len(loop[p]) - d \in Int) \/ o # p
  BY DEF Moves
<1>5. QED
  BY <1>1, <1>2, <1>3, <1>4

LEMMA BehindScheduled ==
  ASSUME NEW p \in Procs, NEW d, NEW t, Behind(p, d, t), t.job = "execute"
  PROVE  t \in Scheduled
  BY DEF Behind, Scheduled, ToSet

(* What p took off has a name of its own among the tasks of its kind.      *)
LEMMA BehindOthers ==
  ASSUME TasksDistinct, NEW p \in Procs, 1 \in DOMAIN loop[p], NEW t, Behind(p, 1, t),
         t.job = loop[p][1].job
  PROVE  NameOf(t) # NameOf(loop[p][1])
<1>1. PICK o \in Procs : \E j \in DOMAIN loop[o] : t = loop[o][j] /\ (o = p => j > 1)
  BY DEF Behind
<1>2. PICK j \in DOMAIN loop[o] : t = loop[o][j] /\ (o = p => j > 1)
  BY <1>1
<1>3. QED
  BY <1>2 DEF TasksDistinct

(* The rows that are there stay, though a live one may end.                *)
RowsStay == \A r \in db : \E s \in db' : s.by = r.by /\ s.step = r.step

LEMMA FromRowStays ==
  ASSUME RowsStay, NEW c, FromRow(c)
  PROVE  FromRow(c)'
  BY DEF RowsStay, FromRow

LEMMA TasksAfter ==
  ASSUME TasksOK, RowsStay, NEW p \in Procs, NEW d, NEW q, Moves(p, d, q),
         \A k \in DOMAIN q : /\ TaskShape(q[k])
                             /\ Len(q[k].ev.cause) > 1 =>
                                  \E r \in db' : q[k].ev.cause = Append(r.by, r.step)
  PROVE  TasksOK'
<1> SUFFICES ASSUME NEW o \in Procs, NEW i \in DOMAIN loop'[o]
             PROVE  /\ TaskShape(loop'[o][i])
                    /\ Len(loop'[o][i].ev.cause) > 1 =>
                         \E r \in db' : loop'[o][i].ev.cause = Append(r.by, r.step)
  BY DEF TasksOK, TaskOK, FromRow, TaskShape
<1>1. CASE Behind(p, d, loop'[o][i])
  <2>1. TaskOK(loop'[o][i])
    BY <1>1 DEF Behind, TasksOK
  <2>2. QED
    BY <2>1 DEF TaskOK, RowsStay, FromRow
<1>2. CASE \E k \in DOMAIN q : loop'[o][i] = q[k]
  BY <1>2 DEF FromRow
<1>3. QED
  BY <1>1, <1>2, LoopAfter

LEMMA Cancels == \A a, b, c \in Int : a + c = b + c => a = b
  OBVIOUS

LEMMA DistinctAfter ==
  ASSUME TasksDistinct, NEW p \in Procs, NEW d, NEW q, Moves(p, d, q),
         \A j, k \in DOMAIN q : NameOf(q[j]) = NameOf(q[k]) => j = k,
         \A o \in Procs : \A i \in DOMAIN loop[o], k \in DOMAIN q :
           loop[o][i].job = q[k].job => NameOf(loop[o][i]) # NameOf(q[k])
  PROVE  TasksDistinct'
<1> DEFINE n == Len(loop[p]) - d
<1>1. n \in Int /\ d \in Int /\ DOMAIN loop'[p] \subseteq Int
  BY DEF Moves
<1>2. ASSUME NEW o \in Procs, NEW i \in DOMAIN loop'[o], o # p \/ i <= n
      PROVE  /\ (IF o = p THEN i + d ELSE i) \in DOMAIN loop[o]
             /\ loop'[o][i] = loop[o][IF o = p THEN i + d ELSE i]
  <2>1. CASE o # p
    BY <2>1 DEF Moves
  <2>2. CASE o = p
    <3> DEFINE m == Len(loop[p])
    <3>1. /\ d \in {0, 1} /\ m \in Nat /\ d <= m /\ Len(q) \in Nat
          /\ DOMAIN loop[p] = 1 .. m /\ i \in 1 .. m - d + Len(q) /\ i <= m - d
          /\ \A k \in 1 .. m - d : loop'[p][k] = loop[p][k + d]
      BY <1>2, <2>2 DEF Moves
    <3> HIDE DEF m, n
    <3>2. i \in 1 .. m - d /\ i + d \in 1 .. m
      BY <3>1
    <3> QED
      BY <2>2, <3>1, <3>2, Zenon
  <2> QED
    BY <2>1, <2>2
<1>3. ASSUME NEW i \in DOMAIN loop'[p], i > n
      PROVE  i - n \in DOMAIN q /\ loop'[p][i] = q[i - n]
  <2>1. loop'[p][i] = q[i - n]
    BY <1>3 DEF Moves
  <2> DEFINE m == Len(q)
  <2>2. n \in Nat /\ m \in Nat /\ i \in 1 .. n + m /\ DOMAIN q = 1 .. m
    BY DEF Moves
  <2> HIDE DEF n, m
  <2>3. QED
    BY <1>3, <2>1, <2>2
<1> HIDE DEF n
<1> SUFFICES ASSUME NEW o \in Procs, NEW u \in Procs,
                    NEW i \in DOMAIN loop'[o], NEW j \in DOMAIN loop'[u],
                    loop'[o][i].job = loop'[u][j].job,
                    NameOf(loop'[o][i]) = NameOf(loop'[u][j])
             PROVE  o = u /\ i = j
  BY DEF TasksDistinct, NameOf
<1>4. CASE (o # p \/ i <= n) /\ (u # p \/ j <= n)
  <2>1. /\ (IF o = p THEN i + d ELSE i) \in DOMAIN loop[o]
        /\ loop'[o][i] = loop[o][IF o = p THEN i + d ELSE i]
        /\ (IF u = p THEN j + d ELSE j) \in DOMAIN loop[u]
        /\ loop'[u][j] = loop[u][IF u = p THEN j + d ELSE j]
    BY <1>2, <1>4
  <2>2. o = u /\ (IF o = p THEN i + d ELSE i) = (IF u = p THEN j + d ELSE j)
    BY <2>1 DEF TasksDistinct
  <2>3. CASE o = p
    <3>1. i + d = j + d /\ o = u
      BY <2>2, <2>3
    <3>2. i \in Int /\ j \in Int
      BY <1>1, <2>3, <3>1
    <3>3. QED
      BY <1>1, <3>1, <3>2, Cancels, ZenonT(60)
  <2>4. CASE o # p
    BY <2>2, <2>4
  <2>5. QED
    BY <2>3, <2>4
<1>5. CASE o = p /\ i > n /\ u = p /\ j > n
  <2>1. i - n = j - n
    BY <1>3, <1>5
  <2>2. QED
    BY <1>1, <1>5, <2>1
<1>6. CASE o = p /\ i > n /\ (u # p \/ j <= n)
  BY <1>2, <1>3, <1>6
<1>7. CASE u = p /\ j > n /\ (o # p \/ i <= n)
  BY <1>2, <1>3, <1>7
<1>8. QED
  BY <1>1, <1>4, <1>5, <1>6, <1>7

-----------------------------------------------------------------------------
(* Names, step by step. *)

(* Every name in use is a sequence, and no pending execution has a row.    *)
LEMMA NamesTyped ==
  ASSUME TypeOK
  PROVE  /\ PendingIds \subseteq Id /\ UsedIds \subseteq Id
         /\ \A t \in Scheduled : t \in ExecuteTask /\ t.id \in PendingIds
         /\ \A p \in Running : cur[p] \in Exec /\ cur[p].id \in PendingIds
<1>1. ASSUME NEW t \in Scheduled PROVE t \in ExecuteTask /\ t.id \in Id
  <2>1. PICK p \in Procs : t \in ToSet(loop[p]) /\ t.job = "execute"
    BY DEF Scheduled
  <2>2. t \in Task
    BY <2>1 DEF ToSet, TypeOK
  <2>3. QED
    BY <2>1, <2>2 DEF Task, ExecuteTask, FireTask
<1>2. ASSUME NEW p \in Running PROVE cur[p] \in Exec /\ cur[p].id \in Id
  <2>1. cur[p] \in Exec
    BY DEF Running, TypeOK
  <2>2. QED
    BY <2>1 DEF Exec
<1>3. UsedIds \subseteq Id
  <2>1. \A g \in gone : g.id \in Id
    BY DEF TypeOK
  <2>2. \A e \in executions : e.id \in Id
    BY DEF TypeOK
  <2>3. \A r \in db : r.by \in Id
    BY DEF TypeOK, Row
  <2>4. QED
    BY <2>1, <2>2, <2>3 DEF UsedIds
<1>4. QED
  BY <1>1, <1>2, <1>3 DEF PendingIds

LEMMA PendingWroteNothing ==
  ASSUME TypeOK, NeverTwice, Descent, NEW y \in PendingIds, NEW r \in db
  PROVE  r.by # y
<1>1. y # <<>>
  BY DEF Descent
<1>2. r.by # <<>> => r.by \in UsedIds
  BY DEF UsedIds
<1>3. QED
  BY <1>1, <1>2 DEF NeverTwice

(* Each of the two in terms of the tasks, the executions and the rows.     *)
LEMMA PendingIs ==
  /\ \A y \in PendingIds : \/ \E t \in Scheduled : y = t.id
                           \/ \E p \in Running : y = cur[p].id
  /\ \A y \in UsedIds : \/ \E g \in gone : y = g.id
                        \/ \E e \in executions : y = e.id
                        \/ \E r \in db : y = r.by /\ r.by # <<>>
  BY DEF PendingIds, UsedIds

LEMMA DescentStays ==
  ASSUME Descent, RowsStay, events' \in Nat, events \in Nat, events <= events',
         NEW y \in PendingIds \cup UsedIds
  PROVE  /\ Len(y) >= 2 /\ y[1] \in 1 .. events'
         /\ Len(y) > 2 => \E r \in db' : \E w \in Workflows : y = Append(Append(r.by, r.step), w)
<1>1. /\ Len(y) >= 2 /\ y[1] \in 1 .. events
      /\ Len(y) > 2 => \E r \in db : \E w \in Workflows : y = Append(Append(r.by, r.step), w)
  BY DEF Descent
<1>2. y[1] \in 1 .. events'
  BY <1>1
<1>3. QED
  BY <1>1, <1>2 DEF RowsStay

(* A step that schedules nothing new and lets names only disappear.        *)
LEMMA NamesKept ==
  ASSUME TypeOK, NamesOK, RowsStay, loop' = loop, Running' = Running, events' = events,
         \A p \in Running : cur'[p].id = cur[p].id, gone' = gone,
         executions' \subseteq executions,
         \A s \in db' : s.by = <<>> \/ \E r \in db : r.by = s.by
  PROVE  NamesOK'
<1>1. TasksOK'
  BY ZenonT(60) DEF NamesOK, TasksOK, TaskOK, TaskShape, FromRow, RowsStay
<1>2. TasksDistinct'
  BY DEF NamesOK, TasksDistinct, NameOf
<1>3. Scheduled' = Scheduled
  BY DEF Scheduled
<1>4. PendingIds' = PendingIds
  BY <1>3 DEF PendingIds
<1>5. UsedIds' \subseteq UsedIds
  BY DEF UsedIds
<1>6. RunningDistinct'
  BY <1>3 DEF NamesOK, RunningDistinct
<1>7. \A g \in gone : g.id # <<>>
  BY DEF NamesOK, Descent, UsedIds
<1>8. NeverTwice'
  BY <1>4, <1>5, <1>7 DEF NamesOK, NeverTwice
<1>9. Descent'
  <2>1. events \in Nat
    BY DEF TypeOK
  <2>2. QED
    BY <1>4, <1>5, <2>1, DescentStays, SMTT(30) DEF NamesOK, Descent
<1>10. FireFirst'
  BY <1>4, <1>5 DEF NamesOK, FireFirst
<1>11. ExecutionsOK'
  BY DEF NamesOK, ExecutionsOK
<1>12. QED
  BY <1>1, <1>2, <1>6, <1>8, <1>9, <1>10, <1>11 DEF NamesOK

(* New tasks for the cause c, under names that nothing has had.            *)
LEMMA NamesFresh ==
  ASSUME TypeOK, NamesOK, NEW p \in Procs, NEW d, NEW q, Moves(p, d, q), NEW c \in Id,
         events' \in Nat, events <= events',
         UNCHANGED <<db, executions, cur, gone>>,
         Len(c) >= 1, c[1] \in 1 .. events', Len(c) > 1 => FromRow(c),
         \A k \in DOMAIN q : /\ q[k].job = "execute" /\ q[k].wf \in Workflows
                             /\ q[k].id = Append(c, q[k].wf) /\ q[k].ev.cause = c
                             /\ TaskShape(q[k]),
         \A j, k \in DOMAIN q : q[j].wf = q[k].wf => j = k,
         \A w \in Workflows : Append(c, w) \notin PendingIds \cup UsedIds,
         \A t : Behind(p, d, t) /\ t.job = "fire" => t.ev.cause # c
  PROVE  NamesOK'
<1> DEFINE New == {Append(c, w) : w \in Workflows}
<1>1. RowsStay
  BY DEF RowsStay
<1>2. /\ TasksOK /\ TasksDistinct /\ RunningDistinct /\ NeverTwice /\ Descent /\ FireFirst
      /\ ExecutionsOK
  BY DEF NamesOK
<1>3. \A k \in DOMAIN q : q[k].id \in New
  BY Zenon
<1>4. New \cap (PendingIds \cup UsedIds) = {}
  BY Zenon
<1>5. \A j, k \in DOMAIN q : q[j].id = q[k].id => j = k
  <2> SUFFICES ASSUME NEW j \in DOMAIN q, NEW k \in DOMAIN q, q[j].id = q[k].id
               PROVE  q[j].wf = q[k].wf
    BY Zenon
  <2>1. q[j].wf \in IdPart /\ q[k].wf \in IdPart
    BY DEF IdPart
  <2>2. Append(c, q[j].wf) = Append(c, q[k].wf)
    BY Zenon
  <2>3. QED
    BY <2>1, <2>2, NamesDiffer, ZenonT(60)
<1>6. ASSUME NEW y \in New
      PROVE  /\ Len(y) >= 2 /\ y[1] \in 1 .. events'
             /\ Len(y) > 2 =>
                  \E r \in db' : \E v \in Workflows : y = Append(Append(r.by, r.step), v)
  <2>1. PICK w \in Workflows : y = Append(c, w)
    OBVIOUS
  <2>2. w \in IdPart
    BY DEF IdPart
  <2>3. /\ Len(y) = Len(c) + 1 /\ Len(c) \in Nat
        /\ \A i \in 1 .. Len(c) : y[i] = c[i]
    BY <2>1, <2>2, IdExtended
  <2>4. y[1] = c[1] /\ Len(y) >= 2 /\ (Len(y) > 2 => Len(c) > 1)
    BY <2>3
  <2>5. Len(y) > 2 => \E r \in db' : \E v \in Workflows : y = Append(Append(r.by, r.step), v)
    BY <2>1, <2>4, Zenon DEF FromRow
  <2>6. QED
    BY <2>4, <2>5
<1>7. ASSUME NEW b \in Id, b # c, NEW w \in Workflows PROVE Append(b, w) \notin New
  <2>1. w \in IdPart /\ \A v \in Workflows : v \in IdPart
    BY DEF IdPart
  <2>2. ASSUME NEW v \in Workflows, Append(b, w) = Append(c, v) PROVE FALSE
    <3>1. w \in IdPart /\ v \in IdPart
      BY <2>1, Zenon
    <3>2. Append(b, w) # Append(c, v)
      BY <1>7, <3>1, DifferExtended
    <3>3. QED
      BY <2>2, <3>2, Zenon
  <2>3. QED
    BY <2>2, Zenon
<1> HIDE DEF New
<1>8. TasksOK'
  <2>1. \A k \in DOMAIN q : Len(q[k].ev.cause) > 1 =>
                              \E r \in db' : q[k].ev.cause = Append(r.by, r.step)
    BY DEF FromRow
  <2>2. QED
    BY <1>1, <1>2, <2>1, TasksAfter
<1>9. TasksDistinct'
  <2>1. \A k \in DOMAIN q : NameOf(q[k]) = q[k].id
    BY DEF NameOf
  <2>2. \A j, k \in DOMAIN q : NameOf(q[j]) = NameOf(q[k]) => j = k
    BY <1>5, <2>1, ZenonT(60)
  <2>3. ASSUME NEW o \in Procs, NEW i \in DOMAIN loop[o], NEW k \in DOMAIN q,
               loop[o][i].job = q[k].job
        PROVE  NameOf(loop[o][i]) # NameOf(q[k])
    <3>1. loop[o][i] \in Scheduled /\ NameOf(loop[o][i]) = loop[o][i].id
      BY <2>3 DEF Scheduled, NameOf, ToSet
    <3>2. loop[o][i].id \in PendingIds
      BY <3>1 DEF PendingIds
    <3>3. QED
      BY <1>3, <1>4, <2>1, <3>1, <3>2, Zenon
  <2>4. QED
    BY <1>2, <2>2, <2>3, DistinctAfter
<1>10. \A t \in Scheduled' : t \in Scheduled \/ t.id \in New
  <2> SUFFICES ASSUME NEW t \in Scheduled'
               PROVE  t \in Scheduled \/ t.id \in New
    OBVIOUS
  <2>1. PICK o \in Procs : \E i \in DOMAIN loop'[o] : t = loop'[o][i] /\ t.job = "execute"
    BY DEF Scheduled, ToSet
  <2>2. Behind(p, d, t) \/ \E k \in DOMAIN q : t = q[k]
    BY <2>1, LoopAfter
  <2>3. QED
    BY <1>3, <2>1, <2>2, BehindScheduled
<1>11. Running' = Running
  BY DEF Running
<1>12. PendingIds' \subseteq PendingIds \cup New
  BY <1>10, <1>11 DEF PendingIds
<1>13. UsedIds' = UsedIds
  BY DEF UsedIds
<1>14. RunningDistinct'
  <2>1. \A o \in Running : cur[o].id \notin New
    BY <1>4 DEF PendingIds
  <2>2. \A o \in Running : \A t \in Scheduled' : t.id # cur[o].id
    BY <1>2, <1>10, <2>1 DEF RunningDistinct
  <2>3. QED
    BY <1>2, <1>11, <2>2 DEF RunningDistinct
<1>15. NeverTwice'
  BY <1>2, <1>4, <1>12, <1>13, Zenon DEF NeverTwice
<1>16. Descent'
  <2>1. events \in Nat
    BY DEF TypeOK
  <2>2. \A y \in PendingIds \cup UsedIds :
          /\ Len(y) >= 2 /\ y[1] \in 1 .. events'
          /\ Len(y) > 2 =>
               \E r \in db' : \E w \in Workflows : y = Append(Append(r.by, r.step), w)
    BY <1>1, <1>2, <2>1, DescentStays
  <2>3. \A y \in PendingIds' \cup UsedIds' : y \in New \/ y \in PendingIds \cup UsedIds
    BY <1>12, <1>13, Zenon
  <2>4. \A y \in PendingIds' \cup UsedIds' :
          /\ Len(y) >= 2 /\ y[1] \in 1 .. events'
          /\ Len(y) > 2 =>
               \E r \in db' : \E w \in Workflows : y = Append(Append(r.by, r.step), w)
    BY <1>6, <2>2, <2>3, Zenon
  <2>5. QED
    BY <2>4, Zenon DEF Descent
<1>17. FireFirst'
  <2> SUFFICES ASSUME NEW o \in Procs, NEW i \in DOMAIN loop'[o], loop'[o][i].job = "fire"
               PROVE  /\ loop'[o][i].ev.cause[1] \in 1 .. events'
                      /\ \A w \in Workflows :
                           Append(loop'[o][i].ev.cause, w) \notin PendingIds' \cup UsedIds'
    BY Zenon DEF FireFirst
  <2>1. Behind(p, d, loop'[o][i])
    BY LoopAfter
  <2> DEFINE b == loop'[o][i].ev.cause
  <2>2. PICK u \in Procs : \E j \in DOMAIN loop[u] : loop'[o][i] = loop[u][j]
    BY <2>1 DEF Behind
  <2>3. PICK j \in DOMAIN loop[u] : loop'[o][i] = loop[u][j]
    BY <2>2
  <2>4. /\ b[1] \in 1 .. events
        /\ \A w \in Workflows : Append(b, w) \notin PendingIds \cup UsedIds
    BY <1>2, <2>3 DEF FireFirst
  <2>5. b # c
    BY <2>1
  <2>6. b \in Id
    <3>1. loop[u][j] \in Task
      BY DEF TypeOK
    <3>2. QED
      BY <2>3, <3>1 DEF Task, ExecuteTask, FireTask, EventRecord
  <2>7. b[1] \in 1 .. events'
    BY <2>4 DEF TypeOK
  <2> HIDE DEF b
  <2>8. \A w \in Workflows : Append(b, w) \notin PendingIds' \cup UsedIds'
    BY <1>7, <1>12, <1>13, <2>4, <2>5, <2>6, Zenon
  <2>9. QED
    BY <2>7, <2>8 DEF b
<1>18. ExecutionsOK'
  BY <1>2 DEF ExecutionsOK
<1>19. QED
  BY <1>8, <1>9, <1>14, <1>15, <1>16, <1>17, <1>18 DEF NamesOK

LEMMA EventNames ==
  ASSUME TypeOK, NamesOK, NEW p \in Procs, NEW v \in Targets, NEW x \in Statuses,
         Event(p, v, x)
  PROVE  NamesOK'
<1> DEFINE ev == EventOf(v, x)
           c == <<events + 1>>
<1>1. PICK q \in ScheduledTasks(ev, 0) : q \in Seq(Task) /\ Appends(p, q)
  BY EventTasks
<1>2. Moves(p, 0, q)
  BY <1>1, AppendsMoves
<1>3. ev \in EventRecord /\ ev.cause = c /\ c \in Id
  BY EventOfType
<1>4. events' = events + 1 /\ UNCHANGED <<db, executions, cur, gone>> /\ events \in Nat
  BY DEF Event, TypeOK
<1>5. Len(c) = 1 /\ c[1] = events + 1
  OBVIOUS
<1> HIDE DEF ev, c
<1>6. /\ \A k \in DOMAIN q : /\ q[k].job = "execute" /\ q[k].wf \in Workflows
                             /\ q[k].id = Append(c, q[k].wf) /\ q[k].ev.cause = c
                             /\ q[k].depth = 0
      /\ \A j, k \in DOMAIN q : q[j].wf = q[k].wf => j = k
  BY <1>1, <1>3, ScheduledFacts
<1>7. ASSUME NEW w \in Workflows
      PROVE  Len(Append(c, w)) = 2 /\ Append(c, w)[1] = events + 1
  <2>1. w \in IdPart
    BY DEF IdPart
  <2>2. /\ Len(Append(c, w)) = Len(c) + 1
        /\ \A i \in 1 .. Len(c) : Append(c, w)[i] = c[i]
    BY <1>3, <2>1, IdExtended
  <2>3. Len(c) + 1 = 2 /\ 1 \in 1 .. Len(c)
    BY <1>5
  <2>4. QED
    BY <1>5, <2>2, <2>3, Zenon
<1>8. \A k \in DOMAIN q : TaskShape(q[k])
  <2> SUFFICES ASSUME NEW k \in DOMAIN q PROVE TaskShape(q[k])
    OBVIOUS
  <2>1. q[k].depth \in 0 .. MAX_WORKFLOW_DEPTH - 1 /\ 2 * q[k].depth + 2 = 2
    BY <1>6 DEF MAX_WORKFLOW_DEPTH
  <2>2. Len(q[k].id) = 2 /\ q[k].job # "fire"
    BY <1>6, <1>7
  <2>3. QED
    BY <1>6, <2>1, <2>2, Zenon DEF TaskShape
<1>9. \A y \in PendingIds \cup UsedIds : y[1] \in 1 .. events
  BY DEF NamesOK, Descent
<1>10. \A w \in Workflows : Append(c, w) \notin PendingIds \cup UsedIds
  <2>1. events + 1 \notin 1 .. events
    BY <1>4
  <2>2. QED
    BY <1>7, <1>9, <2>1, Zenon
<1>11. ASSUME NEW t, Behind(p, 0, t), t.job = "fire" PROVE t.ev.cause # c
  <2>1. t.ev.cause[1] \in 1 .. events
    BY <1>11 DEF Behind, NamesOK, FireFirst
  <2>2. QED
    BY <1>4, <1>5, <2>1
<1>12. /\ events' \in Nat /\ events <= events' /\ Len(c) >= 1 /\ c[1] \in 1 .. events'
       /\ ~(Len(c) > 1)
  BY <1>4, <1>5
<1>13. QED
  BY <1>2, <1>3, <1>4, <1>6, <1>8, <1>10, <1>11, <1>12, NamesFresh

LEMMA FireNames ==
  ASSUME TypeOK, NamesOK, NEW p \in Procs, Fire(p)
  PROVE  NamesOK'
<1> DEFINE t == Head(loop[p])
           c == t.ev.cause
<1>1. TasksOK /\ TasksDistinct /\ FireFirst
  BY DEF NamesOK
<1>2. loop[p] # <<>> /\ t.job = "fire"
  BY DEF Fire
<1>3. PICK q \in ScheduledTasks(t.ev, t.depth) : q \in Seq(Task) /\ Replaces(p, q)
  BY <1>1, FireTasks
<1>4. Moves(p, 1, q)
  BY <1>3, ReplacesMoves
<1>5. /\ t = loop[p][1] /\ 1 \in DOMAIN loop[p] /\ TaskOK(t)
      /\ t.ev \in EventRecord /\ t.depth \in Nat
  BY <1>1, <1>2, HeadTask
<1>6. c \in Id
  BY <1>5 DEF EventRecord
<1>7. UNCHANGED <<db, executions, cur, gone, events>>
  BY DEF Fire
<1>8. c[1] \in 1 .. events /\ \A w \in Workflows : Append(c, w) \notin PendingIds \cup UsedIds
  BY <1>1, <1>2, <1>5 DEF FireFirst
<1>9. /\ t.depth \in 1 .. MAX_WORKFLOW_DEPTH /\ Len(c) = 2 * t.depth + 1
      /\ Len(c) > 1 => FromRow(c)
  BY <1>2, <1>5, Zenon DEF TaskOK, TaskShape
<1>10. ASSUME NEW u, Behind(p, 1, u), u.job = "fire" PROVE u.ev.cause # c
  <2>1. NameOf(u) # NameOf(t)
    BY <1>1, <1>2, <1>5, <1>10, BehindOthers
  <2>2. QED
    BY <1>2, <1>10, <2>1 DEF NameOf
<1> HIDE DEF t
<1>11. /\ \A k \in DOMAIN q : /\ q[k].job = "execute" /\ q[k].wf \in Workflows
                              /\ q[k].id = Append(c, q[k].wf) /\ q[k].ev.cause = c
                              /\ q[k].depth = t.depth /\ t.depth < MAX_WORKFLOW_DEPTH
       /\ \A j, k \in DOMAIN q : q[j].wf = q[k].wf => j = k
  BY <1>3, <1>5, ScheduledFacts, SMTT(30)
<1> HIDE DEF c
<1>12. \A k \in DOMAIN q : TaskShape(q[k])
  <2> SUFFICES ASSUME NEW k \in DOMAIN q PROVE TaskShape(q[k])
    OBVIOUS
  <2>1. q[k].wf \in IdPart
    BY <1>11 DEF IdPart
  <2>2. Len(q[k].id) = Len(c) + 1
    BY <1>6, <1>11, <2>1, IdExtended
  <2>3. /\ q[k].depth \in 0 .. MAX_WORKFLOW_DEPTH - 1 /\ Len(q[k].id) = 2 * q[k].depth + 2
        /\ q[k].job # "fire"
    BY <1>9, <1>11, <2>2 DEF MAX_WORKFLOW_DEPTH
  <2>4. QED
    BY <1>11, <2>3, Zenon DEF TaskShape
<1>13. events' \in Nat /\ events <= events' /\ Len(c) >= 1 /\ c[1] \in 1 .. events'
  BY <1>7, <1>8, <1>9 DEF TypeOK, MAX_WORKFLOW_DEPTH
<1>14. UNCHANGED <<db, executions, cur, gone>>
  BY <1>7
<1>15. /\ \A k \in DOMAIN q : /\ q[k].job = "execute" /\ q[k].wf \in Workflows
                              /\ q[k].id = Append(c, q[k].wf) /\ q[k].ev.cause = c
                              /\ TaskShape(q[k])
       /\ \A j, k \in DOMAIN q : q[j].wf = q[k].wf => j = k
  BY <1>11, <1>12, Zenon
<1>16. \A w \in Workflows : Append(c, w) \notin PendingIds \cup UsedIds
  BY <1>8
<1>17. \A u : Behind(p, 1, u) /\ u.job = "fire" => u.ev.cause # c
  BY <1>10
<1>18. Len(c) > 1 => FromRow(c)
  BY <1>9, Zenon
<1>19. QED
  BY <1>4, <1>6, <1>13, <1>14, <1>15, <1>16, <1>17, <1>18, NamesFresh

(* Executions G leave the pending ones: they are running no more, or given *)
(* up; nothing new is scheduled.                                           *)
LEMMA NamesGivenUp ==
  ASSUME TypeOK, NamesOK, NEW G \in SUBSET PendingIds, TasksOK', TasksDistinct',
         RunningDistinct',
         PendingIds' \cap G = {}, PendingIds' \subseteq PendingIds,
         \A g \in gone' : g \in gone \/ g.id \in G,
         \A o \in Procs : \A i \in DOMAIN loop'[o] : \E u \in Procs : \E j \in DOMAIN loop[u] :
           loop'[o][i] = loop[u][j],
         UNCHANGED <<db, executions, events>>
  PROVE  NamesOK'
<1>1. TasksOK /\ NeverTwice /\ Descent /\ FireFirst /\ ExecutionsOK
  BY DEF NamesOK
<1>2. UsedIds' \subseteq UsedIds \cup G
  BY DEF UsedIds
<1>3. NeverTwice'
  <2>1. PendingIds' \cap UsedIds' = {}
    BY <1>1, <1>2 DEF NeverTwice
  <2>2. \A g \in gone' : \A r \in db : r.by # g.id
    BY <1>1, PendingWroteNothing DEF NeverTwice
  <2>3. QED
    BY <2>1, <2>2 DEF NeverTwice
<1>4. PendingIds' \cup UsedIds' \subseteq PendingIds \cup UsedIds
  BY <1>2
<1>5. Descent'
  <2>1. RowsStay /\ events \in Nat /\ events' \in Nat /\ events <= events'
    BY DEF RowsStay, TypeOK
  <2>2. \A y \in PendingIds' \cup UsedIds' :
          /\ Len(y) >= 2 /\ y[1] \in 1 .. events'
          /\ Len(y) > 2 =>
               \E r \in db' : \E w \in Workflows : y = Append(Append(r.by, r.step), w)
    BY <1>1, <1>4, <2>1, DescentStays
  <2>3. QED
    BY <2>2, Zenon DEF Descent
<1>6. FireFirst'
  <2> SUFFICES ASSUME NEW o \in Procs, NEW i \in DOMAIN loop'[o], loop'[o][i].job = "fire"
               PROVE  /\ loop'[o][i].ev.cause[1] \in 1 .. events
                      /\ \A w \in Workflows :
                           Append(loop'[o][i].ev.cause, w) \notin PendingIds' \cup UsedIds'
    BY Zenon DEF FireFirst
  <2>1. /\ loop'[o][i].ev.cause[1] \in 1 .. events
        /\ \A w \in Workflows : Append(loop'[o][i].ev.cause, w) \notin PendingIds \cup UsedIds
    BY <1>1 DEF FireFirst
  <2>2. QED
    BY <1>4, <2>1, Zenon
<1>7. ExecutionsOK'
  BY <1>1 DEF ExecutionsOK
<1>8. QED
  BY <1>3, <1>5, <1>6, <1>7 DEF NamesOK

(* The head of the loop starts to run, or is found to be deleted.          *)
LEMMA StartNames ==
  ASSUME TypeOK, NamesOK, NEW p \in Procs, Start(p)
  PROVE  NamesOK'
<1> DEFINE t == Head(loop[p])
<1>1. TasksOK /\ TasksDistinct /\ RunningDistinct
  BY DEF NamesOK
<1>2. cur[p] = NoExec /\ loop[p] # <<>> /\ t \in ExecuteTask /\ t.job = "execute"
  BY <1>1, StartFacts
<1>3. t = loop[p][1] /\ 1 \in DOMAIN loop[p] /\ TaskOK(t)
  BY <1>1, <1>2, HeadTask
<1>4. Moves(p, 1, <<>>)
  <2>1. <<>> \in Seq(Task)
    OBVIOUS
  <2>2. QED
    BY <1>1, <2>1, StartTasks, ReplacesMoves
<1>5. UNCHANGED <<db, executions, events>>
  BY DEF Start
<1>6. \/ /\ \E q \in SetToSeqs(Roots(t.wf)) : cur' = [cur EXCEPT ![p] = Opened(t, q)]
         /\ gone' = gone
      \/ /\ gone' = gone \cup {[id |-> t.id, why |-> "deleted"]}
         /\ cur' = cur
  BY <1>1, StartFacts
<1>7. t \in Scheduled
  BY <1>2, <1>3 DEF Scheduled, ToSet
<1>8. t.id \in PendingIds
  BY <1>7 DEF PendingIds
<1> HIDE DEF t
<1>9. \A o \in Procs : \A i \in DOMAIN loop'[o] : Behind(p, 1, loop'[o][i])
  BY <1>4, LoopAfter
<1>10. \A o \in Procs : \A i \in DOMAIN loop'[o] : \E u \in Procs : \E j \in DOMAIN loop[u] :
         loop'[o][i] = loop[u][j]
  BY <1>9 DEF Behind
<1>11. TasksOK'
  <2>1. RowsStay
    BY <1>5 DEF RowsStay
  <2>2. QED
    BY <1>1, <1>4, <2>1, TasksAfter
<1>12. TasksDistinct'
  BY <1>1, <1>4, DistinctAfter
<1>13. \A u \in Scheduled' : u \in Scheduled /\ u.id # t.id
  <2> SUFFICES ASSUME NEW u \in Scheduled' PROVE u \in Scheduled /\ u.id # t.id
    OBVIOUS
  <2>1. u.job = "execute" /\ Behind(p, 1, u)
    BY <1>9 DEF Scheduled, ToSet
  <2>2. u \in Scheduled
    BY <2>1, BehindScheduled
  <2>3. NameOf(u) # NameOf(t)
    BY <1>1, <1>2, <1>3, <2>1, BehindOthers
  <2>4. QED
    BY <1>2, <2>1, <2>2, <2>3 DEF NameOf
<1>14. \A o \in Running : cur[o].id # t.id
  BY <1>1, <1>7 DEF RunningDistinct
<1>15. CASE cur' = cur /\ gone' = gone \cup {[id |-> t.id, why |-> "deleted"]}
  <2>1. Running' = Running
    BY <1>15 DEF Running
  <2>2. RunningDistinct'
    BY <1>1, <1>13, <1>15, <2>1 DEF RunningDistinct
  <2>3. PendingIds' \cap {t.id} = {} /\ PendingIds' \subseteq PendingIds
    BY <1>13, <1>14, <1>15, <2>1 DEF PendingIds
  <2>4. \A g \in gone' : g \in gone \/ g.id \in {t.id}
    BY <1>15
  <2>5. {t.id} \in SUBSET PendingIds
    BY <1>8
  <2>6. QED
    BY <1>5, <1>10, <1>11, <1>12, <2>2, <2>3, <2>4, <2>5, NamesGivenUp
<1>16. ASSUME NEW q \in SetToSeqs(Roots(t.wf)), cur' = [cur EXCEPT ![p] = Opened(t, q)],
              gone' = gone
       PROVE  NamesOK'
  <2>1. Opened(t, q) # NoExec /\ Opened(t, q).id = t.id
    BY <1>2, <1>3, <1>16, Started
  <2>2. cur'[p] = Opened(t, q) /\ \A o \in Procs \ {p} : cur'[o] = cur[o]
    BY <1>16 DEF TypeOK
  <2>3. Running' = Running \cup {p} /\ p \notin Running
    BY <1>2, <2>1, <2>2 DEF Running
  <2>4. cur'[p].id = t.id /\ \A o \in Running : cur'[o] = cur[o]
    BY <2>1, <2>2, <2>3 DEF Running
  <2>5. RunningDistinct'
    <3>1. \A o, u \in Running' : cur'[o].id = cur'[u].id => o = u
      BY <1>1, <1>14, <2>3, <2>4 DEF RunningDistinct
    <3>2. \A o \in Running' : \A u \in Scheduled' : u.id # cur'[o].id
      BY <1>1, <1>13, <2>3, <2>4 DEF RunningDistinct
    <3>3. QED
      BY <3>1, <3>2 DEF RunningDistinct
  <2>6. PendingIds' \subseteq PendingIds
    BY <1>8, <1>13, <2>3, <2>4 DEF PendingIds
  <2>7. {} \in SUBSET PendingIds /\ PendingIds' \cap {} = {}
        /\ \A g \in gone' : g \in gone \/ g.id \in {}
    BY <1>16
  <2>8. QED
    BY <1>5, <1>10, <1>11, <1>12, <2>5, <2>6, <2>7, NamesGivenUp
<1>17. QED
  BY <1>6, <1>15, <1>16

(* An execution that ends without a commit, alone or with its process.     *)
LEMMA LostNames ==
  ASSUME TypeOK, ExecsOK, NamesOK, NEW p \in Procs, Discard(p) \/ Crash(p)
  PROVE  NamesOK'
<1>1. TasksOK /\ TasksDistinct /\ RunningDistinct
  BY DEF NamesOK
<1>2. cur' = [cur EXCEPT ![p] = NoExec] /\ UNCHANGED <<db, executions, events>>
  BY DEF Discard, Crash
<1>3. /\ Running' = Running \ {p} /\ \A o \in Running \ {p} : cur'[o] = cur[o]
      /\ cur \in [Procs -> Exec \cup {NoExec}]
  BY <1>2 DEF TypeOK, Running
<1>4. loop' = loop \/ loop' = [loop EXCEPT ![p] = <<>>]
  BY DEF Discard, Crash
<1>5. \A o \in Procs : \A i \in DOMAIN loop'[o] :
        i \in DOMAIN loop[o] /\ loop'[o][i] = loop[o][i]
  <2>1. loop \in [Procs -> Seq(Task)]
    BY DEF TypeOK
  <2>2. \A o \in Procs : loop'[o] = loop[o] \/ loop'[o] = <<>>
    BY <1>4, <2>1
  <2>3. DOMAIN <<>> = {}
    OBVIOUS
  <2>4. QED
    BY <2>2, <2>3, Zenon
<1>6. TasksOK'
  <2> SUFFICES ASSUME NEW o \in Procs, NEW i \in DOMAIN loop'[o]
               PROVE  /\ TaskShape(loop'[o][i])
                      /\ Len(loop'[o][i].ev.cause) > 1 =>
                           \E r \in db' : loop'[o][i].ev.cause = Append(r.by, r.step)
    BY DEF TasksOK, TaskOK, FromRow, TaskShape
  <2>1. TaskOK(loop'[o][i])
    BY <1>1, <1>5 DEF TasksOK
  <2>2. QED
    BY <1>2, <2>1 DEF TaskOK, FromRow
<1>7. TasksDistinct'
  <2> SUFFICES ASSUME NEW o \in Procs, NEW u \in Procs,
                      NEW i \in DOMAIN loop'[o], NEW j \in DOMAIN loop'[u],
                      loop'[o][i].job = loop'[u][j].job,
                      NameOf(loop'[o][i]) = NameOf(loop'[u][j])
               PROVE  o = u /\ i = j
    BY DEF TasksDistinct, NameOf
  <2>1. QED
    BY <1>1, <1>5 DEF TasksDistinct
<1>8. Scheduled' \subseteq Scheduled
  BY <1>5 DEF Scheduled, ToSet
<1>9. RunningDistinct'
  BY <1>1, <1>3, <1>8 DEF RunningDistinct
<1>10. \A o \in Procs : \A i \in DOMAIN loop'[o] : \E u \in Procs : \E j \in DOMAIN loop[u] :
         loop'[o][i] = loop[u][j]
  BY <1>5
<1>11. CASE Discard(p)
  <2> DEFINE y == cur[p].id
  <2>1. p \in Running /\ \A g \in gone' : g \in gone \/ g.id = y
    BY <1>11, DiscardFacts
  <2>2. y \in PendingIds
    BY <2>1 DEF PendingIds
  <2>3. \A t \in Scheduled' : t.id # y
    BY <1>1, <1>8, <2>1 DEF RunningDistinct
  <2>4. \A o \in Running' : cur'[o].id # y
    BY <1>1, <1>3, <2>1 DEF RunningDistinct
  <2> HIDE DEF y
  <2>5. PendingIds' \cap {y} = {} /\ PendingIds' \subseteq PendingIds
    BY <1>3, <1>8, <2>3, <2>4 DEF PendingIds
  <2>6. {y} \in SUBSET PendingIds /\ \A g \in gone' : g \in gone \/ g.id \in {y}
    BY <2>1, <2>2
  <2>7. QED
    BY <1>2, <1>6, <1>7, <1>9, <1>10, <2>5, <2>6, NamesGivenUp
<1>12. CASE Crash(p)
  <2> DEFINE T == {u \in ToSet(loop[p]) : u.job = "execute"}
             G == {t.id : t \in T} \cup {cur[o].id : o \in Running \cap {p}}
  <2>1. /\ loop' = [loop EXCEPT ![p] = <<>>]
        /\ gone' = gone \cup {[id |-> t.id, why |-> "crash"] : t \in T}
             \cup (IF cur[p] = NoExec THEN {} ELSE {[id |-> cur[p].id, why |-> "crash"]})
    BY <1>12 DEF Crash
  <2>2. T \subseteq Scheduled
    BY DEF Scheduled
  <2>3. \A g \in gone' : g \in gone \/ g.id \in G
    BY <2>1 DEF Running
  <2>4. G \in SUBSET PendingIds
    BY <2>2 DEF PendingIds
  <2>5. \A u \in Scheduled' : \A t \in T : u.id # t.id
    <3> SUFFICES ASSUME NEW u \in Scheduled', NEW t \in T, u.id = t.id PROVE FALSE
      OBVIOUS
    <3>1. PICK o \in Procs : u \in ToSet(loop'[o]) /\ u.job = "execute"
      BY DEF Scheduled
    <3>2. PICK i \in DOMAIN loop'[o] : u = loop'[o][i]
      BY <3>1 DEF ToSet
    <3>3. o # p
      BY <2>1, <3>2 DEF TypeOK
    <3>4. PICK j \in DOMAIN loop[p] : t = loop[p][j] /\ t.job = "execute"
      BY DEF ToSet
    <3>5. NameOf(loop[o][i]) = NameOf(loop[p][j]) /\ loop[o][i].job = loop[p][j].job
          /\ i \in DOMAIN loop[o]
      BY <1>5, <3>1, <3>2, <3>4 DEF NameOf
    <3>6. QED
      BY <1>1, <3>3, <3>5 DEF TasksDistinct
  <2>6. \A o \in Running' : \A t \in T : cur'[o].id # t.id
    BY <1>1, <1>3, <2>2 DEF RunningDistinct
  <2>7. \A o \in Running \cap {p} : /\ \A u \in Scheduled' : u.id # cur[o].id
                                    /\ \A u \in Running' : cur'[u].id # cur[o].id
    BY <1>1, <1>3, <1>8 DEF RunningDistinct
  <2> HIDE DEF T
  <2>8. PendingIds' \cap G = {} /\ PendingIds' \subseteq PendingIds
    BY <1>3, <1>8, <2>5, <2>6, <2>7 DEF PendingIds
  <2> HIDE DEF G
  <2>9. QED
    BY <1>2, <1>6, <1>7, <1>9, <1>10, <2>3, <2>4, <2>8, NamesGivenUp
<1>13. QED
  BY <1>11, <1>12

(* A commit: the execution is used, its rows are there, and its triggers   *)
(* are those of its own rows, which no other task can be about.            *)
LEMMA CommitNames ==
  ASSUME TypeOK, ExecsOK, NamesOK, NEW p \in Procs, Commit(p)
  PROVE  NamesOK'
<1> DEFINE x == cur[p]
           q == Followups(x)
<1>1. /\ TasksOK /\ TasksDistinct /\ RunningDistinct /\ NeverTwice /\ Descent /\ FireFirst
      /\ ExecutionsOK
  BY DEF NamesOK
<1>2. /\ p \in Running /\ x \in Exec /\ ExecOK(x) /\ Vouched(x)
      /\ db' = db \cup x.writes
      /\ executions' = executions \cup
           {[id |-> x.id, wf |-> x.wf, ev |-> x.ev, status |-> FinalStatus(x), rows |-> x.rows]}
      /\ Appends(p, q) /\ cur' = [cur EXCEPT ![p] = NoExec]
  BY CommitFacts
<1>3. gone' = gone /\ events' = events
  BY DEF Commit
<1>4. x.id \in PendingIds /\ x.id \in Id /\ x.wf \in Workflows /\ x.depth \in Nat
  BY <1>2 DEF PendingIds, Exec
<1>5. /\ x.depth \in 1 .. MAX_WORKFLOW_DEPTH /\ Len(x.id) = 2 * x.depth
      /\ x.id = Append(x.ev.cause, x.wf) /\ x.ev.cause \in Id
  <2>1. Named(x) /\ x.ev \in EventRecord
    BY <1>2 DEF ExecOK, Exec
  <2>2. QED
    BY <2>1 DEF Named, EventRecord
<1>6. /\ q \in Seq(Task) /\ DOMAIN q = DOMAIN x.fire
      /\ \A i \in DOMAIN q : /\ q[i].job = "fire" /\ q[i].ev = x.fire[i] /\ q[i].depth = x.depth
  BY <1>2, FollowupsFacts
<1>7. Moves(p, 0, q)
  BY <1>2, <1>6, AppendsMoves
<1> HIDE DEF q
<1>8. \A r \in x.writes : r.by = x.id
  BY <1>2 DEF Vouched
<1>9. /\ \A i \in DOMAIN q : \E r \in x.writes : q[i].ev.cause = Append(x.id, r.step)
      /\ \A i, j \in DOMAIN q : q[i].ev.cause = q[j].ev.cause => i = j
  <2>1. \A i \in DOMAIN q : q[i].ev.cause = x.fire[i].cause
    BY <1>6
  <2>2. /\ \A i \in DOMAIN q : \E r \in x.writes : x.fire[i].cause = Append(x.id, r.step)
        /\ \A i, j \in DOMAIN q : x.fire[i].cause = x.fire[j].cause => i = j
    BY <1>2, <1>6, Zenon DEF Vouched
  <2>3. QED
    BY <2>1, <2>2, Zenon
<1>10. \A r \in x.writes : r.step \in IdPart
  BY <1>2 DEF Exec, Row, IdPart
<1>11. RowsStay
  BY <1>2 DEF RowsStay
<1>12. /\ Running' = Running \ {p} /\ \A o \in Running \ {p} : cur'[o] = cur[o]
  BY <1>2 DEF TypeOK, Running
<1>13. \A r \in db : r.by # x.id
  BY <1>1, <1>4, PendingWroteNothing
<1> HIDE DEF x
<1>14. ASSUME NEW i \in DOMAIN q
       PROVE  /\ q[i].ev.cause \in Id /\ Len(q[i].ev.cause) = 2 * x.depth + 1
              /\ q[i].ev.cause[1] = x.id[1] /\ ~FromRow(q[i].ev.cause)
              /\ \E r \in db' : q[i].ev.cause = Append(r.by, r.step)
  <2>1. PICK r \in x.writes : q[i].ev.cause = Append(x.id, r.step)
    BY <1>9
  <2>2. r.step \in IdPart
    BY <1>10
  <2> DEFINE c == q[i].ev.cause
  <2>3. /\ c \in Id /\ Len(c) = Len(x.id) + 1
        /\ \A j \in 1 .. Len(x.id) : c[j] = x.id[j]
    BY <1>4, <2>1, <2>2, IdExtended
  <2>4. Len(c) = 2 * x.depth + 1 /\ 1 \in 1 .. Len(x.id)
    BY <1>5, <2>3 DEF MAX_WORKFLOW_DEPTH
  <2>5. \E s \in db' : c = Append(s.by, s.step)
    BY <1>2, <1>8, <2>1
  <2>6. ASSUME NEW s \in db, c = Append(s.by, s.step) PROVE FALSE
    <3>1. s.by \in Id /\ s.step \in IdPart /\ s.by # x.id
      BY <1>13 DEF TypeOK, Row, IdPart
    <3>2. Append(s.by, s.step) # Append(x.id, r.step)
      BY <1>4, <2>2, <3>1, DifferExtended
    <3>3. QED
      BY <2>1, <2>6, <3>2, Zenon
  <2>7. QED
    BY <2>3, <2>4, <2>5, <2>6, Zenon DEF FromRow
<1>15. TasksOK'
  <2>1. \A k \in DOMAIN q : TaskShape(q[k])
    BY <1>5, <1>6, <1>14, Zenon DEF TaskShape
  <2>2. QED
    BY <1>1, <1>7, <1>11, <1>14, <2>1, TasksAfter
<1>16. TasksDistinct'
  <2>1. \A k \in DOMAIN q : NameOf(q[k]) = q[k].ev.cause
    BY <1>6 DEF NameOf
  <2>2. \A j, k \in DOMAIN q : NameOf(q[j]) = NameOf(q[k]) => j = k
    BY <1>9, <2>1
  <2>3. ASSUME NEW o \in Procs, NEW i \in DOMAIN loop[o], NEW k \in DOMAIN q,
               loop[o][i].job = q[k].job
        PROVE  NameOf(loop[o][i]) # NameOf(q[k])
    <3>1. loop[o][i].job = "fire" /\ NameOf(loop[o][i]) = loop[o][i].ev.cause
      BY <1>6, <2>3 DEF NameOf
    <3>2. TaskOK(loop[o][i])
      BY <1>1 DEF TasksOK
    <3>3. Len(loop[o][i].ev.cause) > 1
      BY <3>1, <3>2 DEF TaskOK, TaskShape, MAX_WORKFLOW_DEPTH
    <3>4. FromRow(loop[o][i].ev.cause)
      BY <3>2, <3>3 DEF TaskOK
    <3>5. QED
      BY <1>14, <2>1, <3>1, <3>4
  <2>4. QED
    BY <1>1, <1>7, <2>2, <2>3, DistinctAfter
<1>17. Scheduled' \subseteq Scheduled
  <2> SUFFICES ASSUME NEW t \in Scheduled' PROVE t \in Scheduled
    OBVIOUS
  <2>1. PICK o \in Procs : \E i \in DOMAIN loop'[o] : t = loop'[o][i] /\ t.job = "execute"
    BY DEF Scheduled, ToSet
  <2>2. Behind(p, 0, t) \/ \E k \in DOMAIN q : t = q[k]
    BY <1>7, <2>1, LoopAfter
  <2>3. QED
    BY <1>6, <2>1, <2>2, BehindScheduled
<1>18. RunningDistinct'
  BY <1>1, <1>12, <1>17 DEF RunningDistinct
<1>19. PendingIds' \subseteq PendingIds /\ x.id \notin PendingIds'
  <2>1. \A t \in Scheduled' : t.id # x.id
    BY <1>1, <1>2, <1>17 DEF RunningDistinct, x
  <2>2. \A o \in Running' : cur'[o].id # x.id
    BY <1>1, <1>2, <1>12 DEF RunningDistinct, x
  <2>3. QED
    BY <1>12, <1>17, <2>1, <2>2 DEF PendingIds
<1>20. UsedIds' \subseteq UsedIds \cup {x.id}
  BY <1>2, <1>3, <1>8 DEF UsedIds
<1>21. NeverTwice'
  <2>1. PendingIds' \cap UsedIds' = {}
    BY <1>1, <1>19, <1>20 DEF NeverTwice
  <2>2. \A g \in gone : g.id # x.id
    BY <1>1, <1>4 DEF NeverTwice, UsedIds
  <2>3. \A g \in gone : \A r \in db' : r.by # g.id
    BY <1>1, <1>2, <1>8, <2>2 DEF NeverTwice
  <2>4. QED
    BY <1>3, <2>1, <2>3 DEF NeverTwice
<1>22. PendingIds' \cup UsedIds' \subseteq PendingIds \cup UsedIds
  BY <1>4, <1>19, <1>20
<1>23. Descent'
  <2>1. events \in Nat /\ events' \in Nat /\ events <= events'
    BY <1>3 DEF TypeOK
  <2>2. \A y \in PendingIds' \cup UsedIds' :
          /\ Len(y) >= 2 /\ y[1] \in 1 .. events'
          /\ Len(y) > 2 =>
               \E r \in db' : \E w \in Workflows : y = Append(Append(r.by, r.step), w)
    BY <1>1, <1>11, <1>22, <2>1, DescentStays
  <2>3. QED
    BY <2>2, Zenon DEF Descent
<1>24. FireFirst'
  <2> SUFFICES ASSUME NEW o \in Procs, NEW i \in DOMAIN loop'[o], loop'[o][i].job = "fire"
               PROVE  /\ loop'[o][i].ev.cause[1] \in 1 .. events
                      /\ \A w \in Workflows :
                           Append(loop'[o][i].ev.cause, w) \notin PendingIds \cup UsedIds
    BY <1>3, <1>22, Zenon DEF FireFirst
  <2>1. CASE Behind(p, 0, loop'[o][i])
    BY <1>1, <2>1 DEF FireFirst, Behind
  <2>2. ASSUME NEW k \in DOMAIN q, loop'[o][i] = q[k]
        PROVE  /\ loop'[o][i].ev.cause[1] \in 1 .. events
               /\ \A w \in Workflows :
                    Append(loop'[o][i].ev.cause, w) \notin PendingIds \cup UsedIds
    <3> DEFINE c == q[k].ev.cause
    <3>1. /\ c \in Id /\ Len(c) = 2 * x.depth + 1 /\ c[1] = x.id[1] /\ ~FromRow(c)
      BY <1>14
    <3>2. c[1] \in 1 .. events
      BY <1>1, <1>4, <3>1 DEF Descent
    <3> HIDE DEF c
    <3>3. ASSUME NEW w \in Workflows, Append(c, w) \in PendingIds \cup UsedIds PROVE FALSE
      <4>1. w \in IdPart
        BY DEF IdPart
      <4>2. Len(Append(c, w)) = Len(c) + 1
        BY <3>1, <4>1, IdExtended
      <4>3. Len(Append(c, w)) > 2
        BY <1>5, <3>1, <4>2 DEF MAX_WORKFLOW_DEPTH
      <4>4. PICK r \in db, v \in Workflows : Append(c, w) = Append(Append(r.by, r.step), v)
        BY <1>1, <3>3, <4>3, Zenon DEF Descent
      <4>5. r.by \in Id /\ r.step \in IdPart /\ v \in IdPart
        BY DEF TypeOK, Row, IdPart
      <4>6. Append(r.by, r.step) \in Id
        BY <4>5, IdExtended
      <4>7. c = Append(r.by, r.step)
        BY <3>1, <4>1, <4>4, <4>5, <4>6, DifferExtended, Zenon
      <4>8. QED
        BY <3>1, <4>7, Zenon DEF FromRow
    <3>4. QED
      BY <2>2, <3>2, <3>3, Zenon DEF c
  <2>3. QED
    BY <1>7, <2>1, <2>2, LoopAfter
<1>25. ExecutionsOK'
  <2>1. Len(x.id) <= 2 * MAX_WORKFLOW_DEPTH
    BY <1>5 DEF MAX_WORKFLOW_DEPTH
  <2>2. x.id[Len(x.id)] = x.wf
    <3>1. x.wf \in IdPart
      BY <1>4 DEF IdPart
    <3>2. Append(x.ev.cause, x.wf)[Len(x.ev.cause) + 1] = x.wf
          /\ Len(Append(x.ev.cause, x.wf)) = Len(x.ev.cause) + 1
      BY <1>5, <3>1, IdExtended
    <3>3. QED
      BY <1>5, <3>2, Zenon
  <2>3. QED
    BY <1>1, <1>2, <2>1, <2>2 DEF ExecutionsOK
<1>26. QED
  BY <1>15, <1>16, <1>18, <1>21, <1>23, <1>24, <1>25 DEF NamesOK

LEMMA NamesStep ==
  TypeOK /\ ExecsOK /\ IndexesHold /\ NamesOK /\ [Next]_vars => NamesOK'
<1> SUFFICES ASSUME TypeOK, ExecsOK, IndexesHold, NamesOK, [Next]_vars PROVE NamesOK'
  OBVIOUS
<1>1. ASSUME NEW p \in Procs,
             ExecuteStep(p) \/ Insert(p) \/ FindWinner(p) \/ DeadlockDetected(p)
      PROVE  NamesOK'
  <2>1. PICK y : p \in Running /\ Outcome(p, y) /\ cur' = [cur EXCEPT ![p] = y]
    BY <1>1, StepOutcome
  <2>2. UNCHANGED <<db, executions, loop, gone, events>>
    BY <1>1 DEF ExecuteStep, Insert, FindWinner, DeadlockDetected, OnlyCur
  <2>3. y.id = cur[p].id /\ y # NoExec
    <3>1. y \in Exec /\ y.id = cur[p].id
      BY <2>1 DEF Outcome, Same
    <3>2. y.phase \in {"next", "insert", "lost", "failed", "poisoned"}
      BY <3>1 DEF Exec
    <3>3. QED
      BY <3>1, <3>2 DEF NoExec
  <2>4. Running' = Running /\ \A o \in Running : cur'[o].id = cur[o].id
    BY <2>1, <2>3 DEF Running, TypeOK
  <2>5. QED
    BY <2>2, <2>4, NamesKept DEF RowsStay
<1>2. ASSUME NEW v \in Services, DirectRun(v) PROVE NamesOK'
  <2>1. UNCHANGED <<executions, loop, cur, gone, events>>
    BY <1>2 DEF DirectRun
  <2> DEFINE r == [kind |-> "path", key |-> v, live |-> TRUE, by |-> <<>>, step |-> ""]
  <2>2. db' = db \cup {r}
    BY <1>2 DEF DirectRun
  <2>3. r.by = <<>>
    OBVIOUS
  <2> HIDE DEF r
  <2>4. /\ \A u \in db : u \in db'
        /\ \A s \in db' : s \in db \/ s.by = <<>>
    BY <2>2, <2>3, Zenon
  <2>5. QED
    BY <2>1, <2>4, NamesKept DEF RowsStay, Running
<1>3. ASSUME NEW r \in db, Ends(r) PROVE NamesOK'
  <2> DEFINE e == [r EXCEPT !.live = FALSE]
  <2>1. db' = (db \ {r}) \cup {e} /\ UNCHANGED <<executions, loop, cur, gone, events>>
    BY <1>3 DEF Ends
  <2>2. e.by = r.by /\ e.step = r.step
    BY DEF TypeOK, Row
  <2> HIDE DEF e
  <2>3. RowsStay /\ \A s \in db' : \E u \in db : u.by = s.by
    BY <2>1, <2>2 DEF RowsStay
  <2>4. QED
    BY <2>1, <2>3, NamesKept DEF Running
<1>4. ASSUME NEW w \in Workflows, DeleteWorkflow(w) PROVE NamesOK'
  <2>1. UNCHANGED <<db, loop, cur, gone, events>> /\ executions' \subseteq executions
    BY <1>4 DEF DeleteWorkflow
  <2>2. QED
    BY <2>1, NamesKept DEF RowsStay, Running
<1>5. CASE AtRest \/ UNCHANGED vars
  <2>1. UNCHANGED <<db, executions, loop, cur, gone, events>>
    BY <1>5 DEF AtRest, vars
  <2>2. QED
    BY <2>1, NamesKept DEF RowsStay, Running
<1>6. QED
  BY <1>1, <1>2, <1>3, <1>4, <1>5, EventNames, FireNames, StartNames, LostNames, CommitNames
  DEF Next, Work

-----------------------------------------------------------------------------
(* What is committed, and what is lost. *)

(* Only a step that breaks by itself can lose a transaction at a path.     *)
LossesExplained ==
  /\ \A p \in Running : cur[p].phase = "poisoned" => MayBeLost(cur[p])
  /\ \A g \in gone : g.why = "path" => \E s \in Breaking : KindOf[s] = "path"

LEMMA LossesStep ==
  TypeOK /\ ExecsOK /\ IndexesHold /\ NamesOK /\ LossesExplained /\ [Next]_vars
    => LossesExplained'
<1> SUFFICES ASSUME TypeOK, ExecsOK, IndexesHold, NamesOK, LossesExplained, [Next]_vars
             PROVE  LossesExplained'
  OBVIOUS
<1>1. TasksOK /\ cur \in [Procs -> Exec \cup {NoExec}]
  BY DEF NamesOK, TypeOK
<1>2. ASSUME NEW p \in Procs, NEW y, cur' = [cur EXCEPT ![p] = y],
             y = NoExec \/ (y.phase = "poisoned" => MayBeLost(y)),
             \A g \in gone' : g.why = "path" => g \in gone \/ \E s \in Breaking : KindOf[s] = "path"
      PROVE  LossesExplained'
  <2>1. \A o \in Running' : cur'[o].phase = "poisoned" => MayBeLost(cur'[o])
    BY <1>1, <1>2 DEF LossesExplained, Running
  <2>2. \A g \in gone' : g.why = "path" => \E s \in Breaking : KindOf[s] = "path"
    BY <1>2 DEF LossesExplained
  <2>3. QED
    BY <2>1, <2>2 DEF LossesExplained, MayBeLost
<1>3. ASSUME cur' = cur, \A g \in gone' : g.why = "path" => g \in gone
      PROVE  LossesExplained'
  BY <1>3 DEF LossesExplained, Running, MayBeLost
<1>4. ASSUME NEW p \in Procs, Start(p) PROVE LossesExplained'
  <2> DEFINE t == Head(loop[p])
  <2>1. loop[p] # <<>> /\ t \in ExecuteTask
    BY <1>1, <1>4, StartFacts
  <2>2. TaskOK(t)
    BY <1>1, <2>1, HeadTask
  <2>3. ASSUME NEW q \in SetToSeqs(Roots(t.wf)), cur' = [cur EXCEPT ![p] = Opened(t, q)],
               gone' = gone
        PROVE  LossesExplained'
    <3>1. Opened(t, q).phase = "next"
      BY <2>1, <2>2, <2>3, Started
    <3> HIDE DEF t
    <3>2. QED
      BY <1>2, <2>3, <3>1
  <2>4. ASSUME cur' = cur, gone' = gone \cup {[id |-> t.id, why |-> "deleted"]}
        PROVE  LossesExplained'
    BY <1>3, <2>4
  <2>5. QED
    BY <1>1, <1>4, <2>3, <2>4, StartFacts
<1>5. ASSUME NEW p \in Procs,
             ExecuteStep(p) \/ Insert(p) \/ FindWinner(p) \/ DeadlockDetected(p)
      PROVE  LossesExplained'
  <2>1. PICK y : Outcome(p, y) /\ cur' = [cur EXCEPT ![p] = y]
    BY <1>5, StepOutcome
  <2>2. gone' = gone
    BY <1>5 DEF ExecuteStep, Insert, FindWinner, DeadlockDetected, OnlyCur
  <2>3. y.phase = "poisoned" => MayBeLost(y)
    BY <2>1 DEF Outcome
  <2>4. QED
    BY <1>2, <2>1, <2>2, <2>3
<1>6. ASSUME NEW p \in Procs, Commit(p) PROVE LossesExplained'
  <2>1. cur' = [cur EXCEPT ![p] = NoExec] /\ gone' = gone
    BY <1>6 DEF Commit
  <2>2. QED
    BY <1>2, <2>1
<1>7. ASSUME NEW p \in Procs, Discard(p) PROVE LossesExplained'
  <2>1. /\ p \in Running /\ cur[p] \in Exec /\ cur[p].phase = "poisoned"
        /\ gone' = gone \cup {[id |-> cur[p].id, why |-> KindOf[cur[p].step]]}
        /\ cur' = [cur EXCEPT ![p] = NoExec]
    BY <1>7, DiscardFacts
  <2>2. MayBeLost(cur[p])
    BY <2>1 DEF LossesExplained
  <2>3. KindOf[cur[p].step] = "path" => \E s \in Breaking : KindOf[s] = "path"
    BY <2>2 DEF MayBeLost
  <2>4. \A g \in gone' : g.why = "path" => g \in gone \/ \E s \in Breaking : KindOf[s] = "path"
    BY <2>1, <2>3
  <2>5. QED
    BY <1>2, <2>1, <2>4
<1>8. ASSUME NEW p \in Procs, Crash(p) PROVE LossesExplained'
  <2>1. \A g \in gone' : g \in gone \/ g.why = "crash"
    BY <1>8 DEF Crash
  <2>2. cur' = [cur EXCEPT ![p] = NoExec]
    BY <1>8 DEF Crash
  <2>3. QED
    BY <1>2, <2>1, <2>2
<1>9. QED
  <2>1. \A p \in Procs, v \in Targets, x \in Statuses :
          Event(p, v, x) => cur' = cur /\ gone' = gone
    BY DEF Event
  <2>2. \A p \in Procs : Fire(p) => cur' = cur /\ gone' = gone
    BY DEF Fire
  <2>3. \A v \in Services : DirectRun(v) => cur' = cur /\ gone' = gone
    BY DEF DirectRun
  <2>4. \A r \in db : Ends(r) => cur' = cur /\ gone' = gone
    BY DEF Ends
  <2>5. \A w \in Workflows : DeleteWorkflow(w) => cur' = cur /\ gone' = gone
    BY DEF DeleteWorkflow
  <2>6. AtRest \/ UNCHANGED vars => cur' = cur /\ gone' = gone
    BY DEF AtRest, vars
  <2>7. QED
    BY <1>3, <1>4, <1>5, <1>6, <1>7, <1>8, <2>1, <2>2, <2>3, <2>4, <2>5, <2>6 DEF Next, Work

(* The execution that made a row is there, or its workflow is not.         *)
Accounted(by, step) ==
  \/ \E e \in executions : /\ e.id = by
                           /\ [step |-> step, status |-> "COMPLETED"] \in ToSet(e.rows)
  \/ by[Len(by)] \notin workflows

(* A row added by a commit is accounted for by the execution row added     *)
(* with it; a workflow takes its executions along when it is deleted.      *)
LEMMA AccountsStep ==
  TypeOK /\ ExecsOK /\ IndexesHold /\ NamesOK /\ RowsAreAccountedFor /\ [Next]_vars
    => RowsAreAccountedFor'
<1> SUFFICES ASSUME TypeOK, ExecsOK, IndexesHold, NamesOK, RowsAreAccountedFor, [Next]_vars
             PROVE  RowsAreAccountedFor'
  OBVIOUS
<1>1. \A g \in gone' : \A r \in db' : r.by # g.id
  <2>1. NamesOK'
    BY NamesStep
  <2>2. QED
    BY <2>1 DEF NamesOK, NeverTwice
<1>2. \A r \in db : r.by # <<>> => Accounted(r.by, r.step)
  BY DEF RowsAreAccountedFor, Accounted
<1>3. ASSUME \A r \in db' : r.by # <<>> =>
               \/ \E e \in executions' : /\ e.id = r.by
                                         /\ [step |-> r.step, status |-> "COMPLETED"] \in ToSet(e.rows)
               \/ r.by[Len(r.by)] \notin workflows'
      PROVE  RowsAreAccountedFor'
  BY <1>1, <1>3 DEF RowsAreAccountedFor, ToSet
<1>4. ASSUME executions' = executions, workflows' = workflows,
             \A s \in db' : s.by = <<>> \/ \E r \in db : r.by = s.by /\ r.step = s.step
      PROVE  RowsAreAccountedFor'
  <2> SUFFICES ASSUME NEW s \in db', s.by # <<>>
               PROVE  \/ \E e \in executions' :
                           /\ e.id = s.by
                           /\ [step |-> s.step, status |-> "COMPLETED"] \in ToSet(e.rows)
                      \/ s.by[Len(s.by)] \notin workflows'
    BY <1>3
  <2>1. Accounted(s.by, s.step)
    BY <1>2, <1>4
  <2>2. QED
    BY <1>4, <2>1 DEF Accounted
<1>5. ASSUME NEW p \in Procs, Commit(p) PROVE RowsAreAccountedFor'
  <2> DEFINE x == cur[p]
             n == [id |-> x.id, wf |-> x.wf, ev |-> x.ev, status |-> FinalStatus(x),
                   rows |-> x.rows]
  <2>1. /\ Vouched(x) /\ db' = db \cup x.writes /\ executions' = executions \cup {n}
    BY <1>5, CommitFacts
  <2>2. workflows' = workflows
    BY <1>5 DEF Commit
  <2>3. n.id = x.id /\ n.rows = x.rows
    OBVIOUS
  <2> HIDE DEF x, n
  <2> SUFFICES ASSUME NEW s \in db', s.by # <<>>
               PROVE  \/ \E e \in executions' :
                           /\ e.id = s.by
                           /\ [step |-> s.step, status |-> "COMPLETED"] \in ToSet(e.rows)
                      \/ s.by[Len(s.by)] \notin workflows'
    BY <1>3
  <2>4. CASE s \in db
    <3>1. Accounted(s.by, s.step)
      BY <1>2, <2>4
    <3>2. QED
      BY <2>1, <2>2, <3>1 DEF Accounted
  <2>5. CASE s \in x.writes
    <3>1. s.by = x.id /\ [step |-> s.step, status |-> "COMPLETED"] \in ToSet(x.rows)
      BY <2>1, <2>5 DEF Vouched
    <3>2. QED
      BY <2>1, <2>3, <3>1, Zenon
  <2>6. QED
    BY <2>1, <2>4, <2>5
<1>6. ASSUME NEW w \in Workflows, DeleteWorkflow(w) PROVE RowsAreAccountedFor'
  <2>1. /\ workflows' = workflows \ {w} /\ executions' = {e \in executions : e.wf # w}
        /\ db' = db
    BY <1>6 DEF DeleteWorkflow
  <2>2. \A e \in executions : e.id[Len(e.id)] = e.wf
    BY DEF NamesOK, ExecutionsOK
  <2> SUFFICES ASSUME NEW s \in db', s.by # <<>>
               PROVE  \/ \E e \in executions' :
                           /\ e.id = s.by
                           /\ [step |-> s.step, status |-> "COMPLETED"] \in ToSet(e.rows)
                      \/ s.by[Len(s.by)] \notin workflows'
    BY <1>3
  <2>3. Accounted(s.by, s.step)
    BY <1>2, <2>1
  <2>4. CASE s.by[Len(s.by)] \notin workflows
    BY <2>1, <2>4
  <2>5. ASSUME NEW e \in executions, e.id = s.by,
               [step |-> s.step, status |-> "COMPLETED"] \in ToSet(e.rows)
        PROVE  \/ \E f \in executions' :
                    /\ f.id = s.by
                    /\ [step |-> s.step, status |-> "COMPLETED"] \in ToSet(f.rows)
               \/ s.by[Len(s.by)] \notin workflows'
    <3>1. CASE e.wf = w
      <4>1. s.by[Len(s.by)] = w
        BY <2>2, <2>5, <3>1
      <4>2. QED
        BY <2>1, <4>1
    <3>2. CASE e.wf # w
      BY <2>1, <2>5, <3>2
    <3>3. QED
      BY <3>1, <3>2
  <2>6. QED
    BY <2>3, <2>4, <2>5 DEF Accounted
<1>7. ASSUME NEW v \in Services, DirectRun(v) PROVE RowsAreAccountedFor'
  <2> DEFINE r == [kind |-> "path", key |-> v, live |-> TRUE, by |-> <<>>, step |-> ""]
  <2>1. db' = db \cup {r} /\ UNCHANGED <<executions, workflows>>
    BY <1>7 DEF DirectRun
  <2>2. r.by = <<>>
    OBVIOUS
  <2> HIDE DEF r
  <2>3. \A s \in db' : s.by = <<>> \/ \E u \in db : u.by = s.by /\ u.step = s.step
    BY <2>1, <2>2, Zenon
  <2>4. QED
    BY <1>4, <2>1, <2>3
<1>8. ASSUME NEW r \in db, Ends(r) PROVE RowsAreAccountedFor'
  <2> DEFINE e == [r EXCEPT !.live = FALSE]
  <2>1. db' = (db \ {r}) \cup {e} /\ UNCHANGED <<executions, workflows>>
    BY <1>8 DEF Ends
  <2>2. e.by = r.by /\ e.step = r.step
    BY DEF TypeOK, Row
  <2> HIDE DEF e
  <2>3. \A s \in db' : \E u \in db : u.by = s.by /\ u.step = s.step
    BY <2>1, <2>2
  <2>4. QED
    BY <1>4, <2>1, <2>3
<1>9. CASE UNCHANGED <<executions, workflows, db>>
  BY <1>4, <1>9
<1>10. QED
  <2>1. \A p \in Procs, v \in Targets, x \in Statuses :
          Event(p, v, x) => UNCHANGED <<executions, workflows, db>>
    BY DEF Event
  <2>2. \A p \in Procs : Fire(p) \/ Start(p) \/ ExecuteStep(p) \/ Insert(p) \/ FindWinner(p)
          \/ DeadlockDetected(p) \/ Discard(p) \/ Crash(p) => UNCHANGED <<executions, workflows, db>>
    BY ZenonT(60) DEF Fire, Start, ExecuteStep, Insert, FindWinner, DeadlockDetected, Discard, Crash, OnlyCur
  <2>3. AtRest \/ UNCHANGED vars => UNCHANGED <<executions, workflows, db>>
    BY DEF AtRest, vars
  <2>4. QED
    BY <1>5, <1>6, <1>7, <1>8, <1>9, <2>1, <2>2, <2>3 DEF Next, Work

(* What Kahn's algorithm left behind is what the execution row says.       *)
LEMMA CommittedFollows ==
  ASSUME TypeOK, NEW x \in Exec, ExecOK(x), x.phase = "failed" \/ x.phase = "next"
  PROVE  /\ Ordered(StepsOf[x.wf], edges[x.wf], x.rows)
         /\ FinalStatus(x) = "COMPLETED" =>
              {r.step : r \in {q \in ToSet(x.rows) : q.status = "COMPLETED"}} = StepsOf[x.wf]
<1>1. x.wf \in Workflows /\ x.rows \in Seq(StepRow)
  BY DEF Exec
<1>2. IsFiniteSet(StepsOf[x.wf])
  BY <1>1, StepsFacts
<1>3. x.phase = "next" => Kahn(StepsOf[x.wf], edges[x.wf], x.queue, x.indeg, x.rows, {})
  BY DEF ExecOK, KahnOf
<1>4. Ordered(StepsOf[x.wf], edges[x.wf], x.rows)
  BY <1>3 DEF ExecOK, Kahn
<1>5. ASSUME FinalStatus(x) = "COMPLETED"
      PROVE  {r.step : r \in {q \in ToSet(x.rows) : q.status = "COMPLETED"}} = StepsOf[x.wf]
  <2>1. x.phase = "next" /\ ~(Len(x.rows) < Cardinality(StepsOf[x.wf]))
    BY <1>5 DEF FinalStatus
  <2>2. QED
    BY <1>1, <1>2, <1>3, <2>1, KahnAll
<1>6. QED
  BY <1>4, <1>5

LEMMA GraphStep ==
  TypeOK /\ ExecsOK /\ StepsFollowTheGraph /\ [Next]_vars => StepsFollowTheGraph'
<1> SUFFICES ASSUME TypeOK, ExecsOK, StepsFollowTheGraph, [Next]_vars
             PROVE  StepsFollowTheGraph'
  OBVIOUS
<1>1. edges' = edges
  BY DEF Next, Work, Event, Fire, Start, ExecuteStep, Insert, FindWinner, DeadlockDetected,
         Commit, Discard, Crash, DirectRun, Ends, DeleteWorkflow, AtRest, OnlyCur, vars
<1>2. CASE executions' \subseteq executions
  BY <1>1, <1>2 DEF StepsFollowTheGraph, Ordered
<1>3. ASSUME NEW p \in Procs, Commit(p) PROVE StepsFollowTheGraph'
  <2> DEFINE x == cur[p]
             n == [id |-> x.id, wf |-> x.wf, ev |-> x.ev, status |-> FinalStatus(x),
                   rows |-> x.rows]
  <2>1. x \in Exec /\ ExecOK(x) /\ executions' = executions \cup {n}
    BY <1>3, CommitFacts
  <2>2. x.phase = "failed" \/ x.phase = "next"
    BY <1>3 DEF Commit
  <2>3. n.wf = x.wf /\ n.rows = x.rows /\ n.status = FinalStatus(x)
    OBVIOUS
  <2>4. /\ Ordered(StepsOf[x.wf], edges[x.wf], x.rows)
        /\ FinalStatus(x) = "COMPLETED" =>
             {r.step : r \in {q \in ToSet(x.rows) : q.status = "COMPLETED"}} = StepsOf[x.wf]
    BY <2>1, <2>2, CommittedFollows
  <2> HIDE DEF x, n
  <2>5. \A e \in executions' :
          /\ Ordered(StepsOf[e.wf], edges[e.wf], e.rows)
          /\ e.status = "COMPLETED" =>
               {r.step : r \in {q \in ToSet(e.rows) : q.status = "COMPLETED"}} = StepsOf[e.wf]
    <3> SUFFICES ASSUME NEW e \in executions'
                 PROVE  /\ Ordered(StepsOf[e.wf], edges[e.wf], e.rows)
                        /\ e.status = "COMPLETED" =>
                             {r.step : r \in {q \in ToSet(e.rows) : q.status = "COMPLETED"}}
                               = StepsOf[e.wf]
      OBVIOUS
    <3>1. CASE e \in executions
      BY <3>1, Zenon DEF StepsFollowTheGraph
    <3>2. CASE e = n
      BY <2>3, <2>4, <3>2, Zenon
    <3>3. QED
      BY <2>1, <3>1, <3>2
  <2>6. QED
    BY <1>1, <2>5 DEF StepsFollowTheGraph, Ordered
<1>4. QED
  <2>1. \A p \in Procs, v \in Targets, x \in Statuses : Event(p, v, x) => executions' = executions
    BY DEF Event
  <2>2. \A p \in Procs : Fire(p) \/ Start(p) \/ ExecuteStep(p) \/ Insert(p) \/ FindWinner(p)
          \/ DeadlockDetected(p) \/ Discard(p) \/ Crash(p) => executions' = executions
    BY ZenonT(60) DEF Fire, Start, ExecuteStep, Insert, FindWinner, DeadlockDetected, Discard, Crash, OnlyCur
  <2>3. \A v \in Services : DirectRun(v) => executions' = executions
    BY DEF DirectRun
  <2>4. \A r \in db : Ends(r) => executions' = executions
    BY DEF Ends
  <2>5. \A w \in Workflows : DeleteWorkflow(w) => executions' \subseteq executions
    BY DEF DeleteWorkflow
  <2>6. AtRest \/ UNCHANGED vars => executions' = executions
    BY DEF AtRest, vars
  <2>7. QED
    BY <1>2, <1>3, <2>1, <2>2, <2>3, <2>4, <2>5, <2>6 DEF Next, Work

-----------------------------------------------------------------------------
(* The inductive invariant, and what it implies. *)

IInv == /\ TypeOK /\ ExecsOK /\ IndexesHold /\ NamesOK
        /\ LossesExplained /\ RowsAreAccountedFor /\ StepsFollowTheGraph

LEMMA InitIInv == Init => IInv
<1> SUFFICES ASSUME Init PROVE IInv
  OBVIOUS
<1>1. /\ db = {} /\ executions = {} /\ gone = {} /\ events = 0
      /\ loop = [p \in Procs |-> <<>>] /\ cur = [p \in Procs |-> NoExec]
      /\ workflows = Workflows /\ status \in [Services -> Statuses]
  BY DEF Init
<1>2. edges \in [Workflows -> SUBSET (AllSteps \X AllSteps)]
  <2>1. /\ edges \in [Workflows -> UNION {EdgeChoices[w] : w \in Workflows}]
        /\ \A w \in Workflows : edges[w] \in EdgeChoices[w]
    BY DEF Init
  <2>2. \A w \in Workflows : edges[w] \in SUBSET (AllSteps \X AllSteps)
    BY <2>1, GraphAssumption
  <2>3. QED
    BY <2>1, <2>2
<1>3. loop \in [Procs -> Seq(Task)] /\ \A p \in Procs : DOMAIN loop[p] = {}
  BY <1>1
<1>4. cur \in [Procs -> Exec \cup {NoExec}] /\ Running = {}
  BY <1>1 DEF Running
<1>5. TypeOK
  BY <1>1, <1>2, <1>3, <1>4 DEF TypeOK
<1>6. ExecsOK /\ IndexesHold
  BY <1>1, <1>4 DEF ExecsOK, IndexesHold, OneLiveRowPerKey, Running
<1>7. Scheduled = {}
  BY <1>3 DEF Scheduled, ToSet
<1>8. PendingIds = {} /\ UsedIds = {}
  BY <1>1, <1>4, <1>7 DEF PendingIds, UsedIds
<1>9. TasksOK /\ TasksDistinct /\ FireFirst
  BY <1>3 DEF TasksOK, TasksDistinct, FireFirst
<1>10. RunningDistinct /\ NeverTwice /\ Descent /\ ExecutionsOK
  BY <1>1, <1>4, <1>8 DEF RunningDistinct, NeverTwice, Descent, ExecutionsOK
<1>11. LossesExplained /\ RowsAreAccountedFor /\ StepsFollowTheGraph
  BY <1>1, <1>4 DEF LossesExplained, RowsAreAccountedFor, StepsFollowTheGraph
<1>12. QED
  BY <1>5, <1>6, <1>9, <1>10, <1>11 DEF IInv, NamesOK

LEMMA NextIInv == IInv /\ [Next]_vars => IInv'
<1> SUFFICES ASSUME IInv, [Next]_vars PROVE IInv'
  OBVIOUS
<1>1. TasksOK
  BY DEF IInv, NamesOK
<1>2. TypeOK' /\ ExecsOK'
  BY <1>1, TypeStep DEF IInv
<1>3. IndexesHold'
  BY <1>1, IndexesStep DEF IInv
<1>4. NamesOK' /\ LossesExplained'
  BY NamesStep, LossesStep DEF IInv
<1>5. RowsAreAccountedFor' /\ StepsFollowTheGraph'
  BY AccountsStep, GraphStep DEF IInv
<1>6. QED
  BY <1>2, <1>3, <1>4, <1>5 DEF IInv

LEMMA AlwaysIInv == Spec => []IInv
  BY InitIInv, NextIInv, PTL DEF Spec

(* Every table, loop and execution keeps its type; the state the engine    *)
(* keeps between awaits is never one the code cannot read.                 *)
THEOREM TypeCorrect == Spec => []TypeOK
<1>1. IInv => TypeOK
  BY DEF IInv
<1>2. QED
  BY <1>1, AlwaysIInv, PTL

(* For any number of processes, requests and crashes, a key has one live   *)
(* order, job or run: a pre-check, then an insert that waits for the other *)
(* transactions under the index, leaves no way to a second one.            *)
THEOREM IndexesAreKept == Spec => []OneLiveRowPerKey
<1>1. IInv => OneLiveRowPerKey
  BY DEF IInv, IndexesHold
<1>2. QED
  BY <1>1, AlwaysIInv, PTL

(* A CREATED trigger is on a loop only when its row is committed, whatever *)
(* crashed or was rolled back (_queue_created_trigger fires after commit). *)
THEOREM FollowOnsSeeTheirRow == Spec => []FollowOnSeesEntity
<1>1. IInv => FollowOnSeesEntity
  BY DEF IInv, NamesOK, TasksOK, TaskOK, FromRow, FollowOnSeesEntity
<1>2. QED
  BY <1>1, AlwaysIInv, PTL

(* A committed row has its execution and its COMPLETED step, as long as    *)
(* its workflow exists, and a lost execution has no row at all.            *)
THEOREM RowsHaveTheirExecution == Spec => []RowsAreAccountedFor
<1>1. IInv => RowsAreAccountedFor
  BY DEF IInv
<1>2. QED
  BY <1>1, AlwaysIInv, PTL

(* Whatever finite graph a tenant draws, cyclic or reaching into another   *)
(* workflow: an execution takes a step after its predecessors only, and    *)
(* COMPLETED means every step ran (the in-degrees of execute_workflow).    *)
THEOREM GraphIsFollowed == Spec => []StepsFollowTheGraph
<1>1. IInv => StepsFollowTheGraph
  BY DEF IInv
<1>2. QED
  BY <1>1, AlwaysIInv, PTL

(* No chain of follow-ons is longer than MAX_WORKFLOW_DEPTH, however the   *)
(* tenant's workflows trigger one another.                                 *)
THEOREM ChainsEnd == Spec => []ChainsAreBounded
<1>1. ASSUME IInv PROVE ChainsAreBounded
  <2>1. ASSUME NEW t \in Scheduled PROVE Len(t.id) <= 2 * MAX_WORKFLOW_DEPTH
    <3>1. TaskOK(t) /\ t.job = "execute"
      BY <1>1 DEF IInv, NamesOK, TasksOK, Scheduled, ToSet
    <3>2. t.depth \in 0 .. MAX_WORKFLOW_DEPTH - 1 /\ Len(t.id) = 2 * t.depth + 2
      BY <3>1, Zenon DEF TaskOK, TaskShape
    <3>3. QED
      BY <3>2 DEF MAX_WORKFLOW_DEPTH
  <2>2. \A e \in executions : Len(e.id) <= 2 * MAX_WORKFLOW_DEPTH
    BY <1>1 DEF IInv, NamesOK, ExecutionsOK
  <2>3. QED
    BY <2>1, <2>2 DEF ChainsAreBounded
<1>2. QED
  BY <1>1, AlwaysIInv, PTL

(* One event, or one created row, starts a workflow once: no two tasks and *)
(* no task and committed execution have one name (WF-2).                   *)
THEOREM StartedOncePerEvent == Spec => []OncePerEvent
<1>1. ASSUME IInv PROVE OncePerEvent
  <2>1. TasksDistinct /\ PendingIds \cap UsedIds = {}
    BY <1>1 DEF IInv, NamesOK, NeverTwice
  <2>2. ASSUME NEW p \in Procs, NEW i \in DOMAIN loop[p], NEW j \in DOMAIN loop[p],
               loop[p][i].job = "execute", loop[p][j].job = "execute",
               loop[p][i].id = loop[p][j].id
        PROVE  i = j
    <3>1. NameOf(loop[p][i]) = NameOf(loop[p][j]) /\ loop[p][i].job = loop[p][j].job
      BY <2>2 DEF NameOf
    <3>2. QED
      BY <2>1, <3>1 DEF TasksDistinct
  <2>3. \A t \in Scheduled : \A e \in executions : e.id # t.id
    BY <2>1 DEF PendingIds, UsedIds
  <2>4. \A p \in Running : \A e \in executions : e.id # cur[p].id
    BY <2>1 DEF PendingIds, UsedIds
  <2>5. QED
    BY <2>2, <2>3, <2>4 DEF OncePerEvent, Running
<1>2. QED
  BY <1>1, AlwaysIInv, PTL

(* Where the database rejects no statement of a path step by itself, no    *)
(* race and no deadlock over a provisioning run ever loses an execution    *)
(* (the savepoint of create_or_get_run).                                   *)
THEOREM RunRacesAreHarmless ==
  ASSUME \A s \in Breaking : KindOf[s] # "path"
  PROVE  Spec => []LostRunRaceIsHarmless
<1>1. IInv => LostRunRaceIsHarmless
  BY DEF IInv, LossesExplained, LostRunRaceIsHarmless
<1>2. QED
  BY <1>1, AlwaysIInv, PTL
=============================================================================
