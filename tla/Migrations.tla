----------------------------- MODULE Migrations -----------------------------
(***************************************************************************)
(* `alembic upgrade` and `alembic downgrade` over the repository's chain   *)
(* of revisions (alembic/env.py): every revision in a transaction of its   *)
(* own, crashes between and inside revisions, retries, downgrades of the   *)
(* newest revision of either side of the one branch, and the seeds that    *)
(* env.py runs after the command.                                          *)
(***************************************************************************)
EXTENDS RevisionsOffice, RevisionsBilling, RevisionsNetwork, RevisionsField, RevisionsService,
        ModelTables, Seeds

LOCAL INSTANCE SequencesExt

VARIABLES
  db,       \* the committed catalogue
  applied,  \* alembic_version and its ancestors: the revisions that are up
  ever,     \* the revisions that have been up in this database
  dirty,    \* the revision whose upgrade() died after a commit of its own, or "none"
  refused   \* the statement the server refused in the last command, or None

vars == <<db, applied, ever, dirty, refused>>

\* The scripts in the order `alembic upgrade head` runs them.
Chain == OfficeRevisions \o BillingRevisions \o NetworkRevisions \o FieldRevisions
           \o ServiceRevisions
Revisions == {Chain[i] : i \in DOMAIN Chain}
Ids == {r.id : r \in Revisions}

Init ==
  /\ db = EmptyCatalogue
  /\ applied = {} /\ ever = {}
  /\ dirty = "none"
  /\ refused = None

-----------------------------------------------------------------------------
(* run_migrations_online: transaction_per_migration, so a revision commits *)
(* with its alembic_version row, or its transaction rolls back.            *)

Pending(r) == /\ r.id \notin applied
              /\ r.after \subseteq applied
              /\ dirty \in {"none", r.id}

Upgrade(r) ==
  /\ Pending(r)
  /\ LET run == Run(r.up, db) IN
       IF run.refused = None
       THEN /\ db' = Committed(run.db)
            /\ applied' = applied \cup {r.id}
            /\ ever' = ever \cup {r.id}
            /\ dirty' = "none"
            /\ refused' = None
       ELSE /\ db' = RolledBack(r.up, run.at, db)
            /\ dirty' = IF LastCommit(r.up, run.at) = {} THEN dirty ELSE r.id
            /\ refused' = run.refused
            /\ UNCHANGED <<applied, ever>>

\* The process, or the connection, dies inside upgrade() after a commit of the
\* revision's own: what an autocommit_block committed stays, the version row
\* does not move, and the operator runs the command again.
CrashInUpgrade(r) ==
  /\ Pending(r)
  /\ \E n \in CommitPoints(r.up) :
       /\ Run(SubSeq(r.up, 1, n), db).refused = None
       /\ db' = RolledBack(r.up, n, db)
  /\ dirty' = r.id
  /\ refused' = None
  /\ UNCHANGED <<applied, ever>>

\* Only the newest revision of a branch can be taken down.
Newest(r) == /\ r.id \in applied
             /\ \A s \in Revisions : r.id \in s.after => s.id \notin applied

Downgrade(r) ==
  /\ Newest(r)
  /\ dirty = "none"
  /\ LET run == Run(r.down, db) IN
       IF run.refused = None
       THEN /\ db' = Committed(run.db)
            /\ applied' = applied \ {r.id}
            /\ refused' = None
       ELSE /\ refused' = run.refused
            /\ UNCHANGED <<db, applied>>
  /\ UNCHANGED <<ever, dirty>>

Next == \E r \in Revisions : Upgrade(r) \/ CrashInUpgrade(r) \/ Downgrade(r)

Spec == Init /\ [][Next]_vars

-----------------------------------------------------------------------------
\* The catalogue a straight upgrade has after each revision of the chain.
UpTo(from, revisions) ==
  FoldLeft(LAMBDA at, r : IF at[Len(at)].fresh = {}
                          THEN Append(at, Committed(Run(r.up, at[Len(at)]).db))
                          ELSE at,
           <<from>>, revisions)
OfficePositions   == UpTo(EmptyCatalogue, OfficeRevisions)
BillingPositions  == UpTo(Last(OfficePositions), BillingRevisions)
NetworkPositions  == UpTo(Last(BillingPositions), NetworkRevisions)
FieldPositions    == UpTo(Last(NetworkPositions), FieldRevisions)
ServicePositions  == UpTo(Last(FieldPositions), ServiceRevisions)
Positions == OfficePositions \o Tail(BillingPositions) \o Tail(NetworkPositions)
               \o Tail(FieldPositions) \o Tail(ServicePositions)

\* ... and after exactly the revisions in ids: those of the one branch commute.
StraightTo(ids) ==
  LET whole(n) == \A i \in 1..n : Chain[i].id \in ids
      n == CHOOSE n \in 0..Len(Chain) : whole(n) /\ (n = Len(Chain) \/ ~whole(n + 1))
      rest == SelectSeq(SubSeq(Chain, n + 1, Len(Chain)), LAMBDA r : r.id \in ids)
  IN  Last(UpTo(Positions[n + 1], rest))

\* No statement of the chain is refused, whatever was upgraded, taken down,
\* or left half done by a crash before it: every table, column, index, type
\* and label is there when a statement needs it, every backfill precedes its
\* NOT NULL, no index names a label of its own transaction, and a revision
\* with an autocommit_block can be run again.  The exceptions: downgrades
\* that refuse on purpose; 2f76adc5966b's, which adds a NOT NULL column to
\* the orders there are; and the re-run of four early revisions whose
\* downgrade leaves the enum types that op.create_table made behind.
LeftByCreateTable == {"recurrenceenum", "recurringorderstatus", "customfieldtype",
  "taskstatecolor", "executionstatus", "stepactiontype", "triggereventtype"}

StatementsFit ==
  \/ refused = None
  \/ refused[1].kind = "refusal"
  \/ refused[1] = r_2f76adc5966b.down[1]
  \/ refused[1].kind = "newtype" /\ refused[1].table \in LeftByCreateTable /\ ever # applied

\* Between commands the version table tells the schema: however the database
\* got to a set of revisions - retries after crashes, downgrades - its tables,
\* columns, foreign keys, indexes, constraints, triggers and functions are
\* those of a straight upgrade, and its enum types have at least its labels.
VersionTellsSchema ==
  dirty = "none" =>
    LET straight == StraightTo(applied) IN
      /\ db.tables = straight.tables
      /\ db.funcs = straight.funcs
      /\ \A ty \in DOMAIN straight.types :
           ty \in DOMAIN db.types /\ straight.types[ty] \subseteq db.types[ty]

\* _run_seeds: every column the seeds name and every unique key their ON
\* CONFLICT needs is there, whether they find rows or not.
SeedsRun == \A empty \in BOOLEAN : Run(RunSeeds(db, empty), db).refused = None

\* "Idempotent; called after every upgrade" (_run_seeds): whatever position a
\* command stops at or goes back to, the seeds that follow it do not raise.
SeedsFit == dirty = "none" => SeedsRun

\* Where they do: the seeds run at exactly the positions from 37bcd9539daa on,
\* which adds the tier.modules that seed_tier_data writes, and at an empty
\* database, whatever upgrades, crashes and downgrades led there.
SeedsNeedTierModules ==
  dirty = "none" => (SeedsRun <=> applied = {} \/ "37bcd9539daa" \in applied)

\* At head the database is what the models describe: the same tables, columns
\* and foreign keys, a unique key for every unique column, every index and
\* constraint a model names, and a label for every value an enum column can
\* be given.  What is known to differ: a dropped model's table, the two
\* columns models/isp.py keeps "in the database, unused by code", and an
\* index that DeviceActionLog declares and no revision creates.
LeftTables == {"tier_change_request"}
LeftColumns == [inventory_item |-> {"parent_port", "uplink_port"}]
LeftIndexes == {"ix_device_action_log_company_id"}

HeadMatchesModels ==
  dirty = "none" /\ applied = Ids =>
    /\ Tables(db) = {m.table : m \in Models} \cup LeftTables
    /\ \A m \in Models :
         LET table == db.tables[m.table] IN
           /\ table.cols = m.cols \cup (IF m.table \in DOMAIN LeftColumns
                                         THEN LeftColumns[m.table] ELSE {})
           /\ table.refs = m.refs
           /\ \A c \in m.unique : \E n \in DOMAIN table.on : table.on[n] = {c}
           /\ m.on \ LeftIndexes \subseteq DOMAIN table.on
    /\ \A e \in Enums : e.type \in DOMAIN db.types /\ e.labels \subseteq db.types[e.type]
=============================================================================
