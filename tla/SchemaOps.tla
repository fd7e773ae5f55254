----------------------------- MODULE SchemaOps -----------------------------
(***************************************************************************)
(* The statements Alembic revisions are made of, over an abstract          *)
(* PostgreSQL catalogue.  A revision is a sequence of statements; running  *)
(* one either changes the catalogue or is refused by the server, and a     *)
(* refused statement ends the revision.                                    *)
(*                                                                         *)
(* Kept of a catalogue:                                                    *)
(*   tables  name -> [cols, refs: column -> table, on: the named indexes,  *)
(*           unique and check constraints and triggers -> their columns]   *)
(*   types   the native enum types -> their labels                         *)
(*   funcs   the stored functions                                          *)
(*   gaps    <<table, column>> pairs existing rows may leave NULL: columns *)
(*           added without a default, or made nullable, and not filled yet *)
(*   fresh   <<type, label>> pairs added by the transaction in progress,   *)
(*           which PostgreSQL refuses to name until it commits             *)
(* A foreign key is known by its (first) column, its name and its ON       *)
(* DELETE rule are left out, as are column types and defaults.             *)
(***************************************************************************)
EXTENDS Naturals, Sequences, TLC

None == <<>>
Stamped == {"id", "created_at", "updated_at"}

EmptyCatalogue ==
  [tables |-> None, types |-> None, funcs |-> {}, gaps |-> {}, fresh |-> {}]

-----------------------------------------------------------------------------
(* Statements.  A strict one is refused when what it creates is there, or  *)
(* what it drops is not; the Missing (IF NOT EXISTS, or a catalogue query  *)
(* first) and Present (IF EXISTS) forms then do nothing.                   *)

Statement(kind, strict, table, arg) ==
  [kind |-> kind, strict |-> strict, table |-> table, arg |-> arg]

Create(t, cols, refs)        == Statement("create", TRUE, t, [cols |-> cols, refs |-> refs])
CreateMissing(t, cols, refs) == Statement("create", FALSE, t, [cols |-> cols, refs |-> refs])
Drop(t)                      == Statement("drop", TRUE, t, None)
DropPresent(t)               == Statement("drop", FALSE, t, None)
Add(t, cols)                 == Statement("add", TRUE, t, cols)
AddMissing(t, cols)          == Statement("add", FALSE, t, cols)
AddFilled(t, cols)           == Statement("addfilled", TRUE, t, cols)    \* with a default
AddFilledMissing(t, cols)    == Statement("addfilled", FALSE, t, cols)
AddRequired(t, cols)         == Statement("addrequired", TRUE, t, cols)  \* NOT NULL, no default
DropCols(t, cols)            == Statement("remove", TRUE, t, cols)
DropColsPresent(t, cols)     == Statement("remove", FALSE, t, cols)
Reference(t, refs)           == Statement("reference", TRUE, t, refs)
ReferenceMissing(t, refs)    == Statement("reference", FALSE, t, refs)
Unreference(t, cols)         == Statement("unreference", TRUE, t, cols)
UnreferencePresent(t, cols)  == Statement("unreference", FALSE, t, cols)
Attach(t, objects)           == Statement("attach", TRUE, t, objects)
AttachMissing(t, objects)    == Statement("attach", FALSE, t, objects)
Detach(t, names)             == Statement("detach", TRUE, t, names)
DetachPresent(t, names)      == Statement("detach", FALSE, t, names)
Alter(t, cols)               == Statement("alter", TRUE, t, cols)        \* type or default only
Nullable(t, cols)            == Statement("nullable", TRUE, t, cols)
NotNull(t, cols)             == Statement("notnull", TRUE, t, cols)
Expect(t, names)             == Statement("expect", TRUE, t, names)      \* post-upgrade check
OnConflict(t, cols)          == Statement("onconflict", TRUE, t, cols)   \* needs a unique key
NewType(ty, labels)          == Statement("newtype", TRUE, ty, labels)
NewTypeMissing(ty, labels)   == Statement("newtype", FALSE, ty, labels)
DropType(tys)                == Statement("droptype", TRUE, "", tys)
DropTypePresent(tys)         == Statement("droptype", FALSE, "", tys)
NeedsType(tys)               == Statement("needstype", TRUE, "", tys)
Labels(ty, labels)           == Statement("labels", FALSE, ty, labels)   \* ADD VALUE IF NOT EXISTS
UsesLabels(ty, labels)       == Statement("useslabels", TRUE, ty, labels)
Functions(names)             == Statement("functions", FALSE, "", names)
DropFunctions(names)         == Statement("dropfunctions", FALSE, "", names)

\* Reads and writes of rows: the tables and the columns the statement names.
Rows(columns)                == Statement("rows", TRUE, "", columns)
\* An UPDATE that leaves no NULL in the columns.
Fill(t, cols)                == Statement("fill", TRUE, t, cols)
\* NULLs an operator has to resolve first: the revision refuses otherwise.
Settled(t, cols)             == Statement("fill", TRUE, t, cols)

\* The bounds of an autocommit_block: entering it commits what the revision
\* did so far, and every statement inside it commits on its own.
Autocommit                   == Statement("autocommit", TRUE, "", None)
Transaction                  == Statement("transaction", TRUE, "", None)

\* A downgrade() that only raises.
Irreversible                 == << Statement("refusal", TRUE, "", None) >>

Revision(id, after, up, down) == [id |-> id, after |-> after, up |-> up, down |-> down]

-----------------------------------------------------------------------------
(* What the server accepts.                                                *)

Tables(db) == DOMAIN db.tables
Cols(db, t) == db.tables[t].cols
Objects(db, t) == DOMAIN db.tables[t].on

OnTable(kind) == kind \in {"add", "addfilled", "addrequired", "remove", "reference",
  "unreference", "attach", "detach", "alter", "nullable", "notnull", "expect", "onconflict", "fill"}

FitsColumns(o, db) ==
  CASE o.kind \in {"add", "addfilled"} -> o.strict => o.arg \cap Cols(db, o.table) = {}
    [] o.kind = "addrequired"  -> FALSE   \* the rows already there would hold NULL
    [] o.kind = "remove"       -> o.strict => o.arg \subseteq Cols(db, o.table)
    [] o.kind \in {"alter", "nullable", "fill"} -> o.arg \subseteq Cols(db, o.table)
    [] o.kind = "notnull"      -> /\ o.arg \subseteq Cols(db, o.table)
                                  /\ \A c \in o.arg : <<o.table, c>> \notin db.gaps
    [] o.kind = "reference"    ->
         /\ DOMAIN o.arg \subseteq Cols(db, o.table)
         /\ \A c \in DOMAIN o.arg : o.arg[c] \in Tables(db)
         /\ o.strict => DOMAIN o.arg \cap DOMAIN db.tables[o.table].refs = {}
    [] o.kind = "unreference"  -> o.strict => o.arg \subseteq DOMAIN db.tables[o.table].refs
    [] o.kind = "attach"       ->
         \A n \in DOMAIN o.arg :
            /\ o.strict => \A t \in Tables(db) : n \notin Objects(db, t)
            /\ o.arg[n] \subseteq Cols(db, o.table)
    [] o.kind = "detach"       -> o.strict => o.arg \subseteq Objects(db, o.table)
    [] o.kind = "expect"       -> o.arg \subseteq Objects(db, o.table)
    [] o.kind = "onconflict"   -> \E n \in Objects(db, o.table) : db.tables[o.table].on[n] = o.arg

Fits(o, db) ==
  CASE OnTable(o.kind)       -> o.table \in Tables(db) /\ FitsColumns(o, db)
    [] o.kind = "create"     -> /\ o.strict => o.table \notin Tables(db)
                                /\ \A c \in DOMAIN o.arg.refs :
                                     o.arg.refs[c] \in Tables(db) \cup {o.table}
    [] o.kind = "drop"       -> /\ o.strict => o.table \in Tables(db)
                                /\ \A t \in Tables(db) \ {o.table} :
                                     \A c \in DOMAIN db.tables[t].refs :
                                        db.tables[t].refs[c] # o.table
    [] o.kind = "newtype"    -> o.strict => o.table \notin DOMAIN db.types
    [] o.kind = "droptype"   -> o.strict => o.arg \subseteq DOMAIN db.types
    [] o.kind = "needstype"  -> o.arg \subseteq DOMAIN db.types
    [] o.kind = "labels"     -> o.table \in DOMAIN db.types
    [] o.kind = "useslabels" -> /\ o.table \in DOMAIN db.types
                                /\ o.arg \subseteq db.types[o.table]
                                /\ \A l \in o.arg : <<o.table, l>> \notin db.fresh
    [] o.kind = "rows"       -> \A t \in DOMAIN o.arg :
                                  t \in Tables(db) /\ o.arg[t] \subseteq Cols(db, t)
    [] o.kind = "refusal"    -> FALSE
    [] OTHER                 -> TRUE

-----------------------------------------------------------------------------
(* What a statement the server accepts does.                               *)

\* (The @@ None makes TLC build the function instead of keeping the expression.)
Without(f, keys) == [k \in DOMAIN f \ keys |-> f[k]] @@ None

\* Dropping a column drops the indexes and constraints that involve it.
Removed(table, cols) ==
  [cols |-> table.cols \ cols,
   refs |-> Without(table.refs, cols),
   on   |-> Without(table.on, {n \in DOMAIN table.on : table.on[n] \cap cols # {}})]

Gaps(t, cols) == {t} \X cols

Apply(o, db) ==
  LET t == o.table IN
  CASE o.kind = "create" /\ t \notin Tables(db) ->
         [db EXCEPT !.tables = @ @@ (t :> [cols |-> o.arg.cols, refs |-> o.arg.refs @@ None, on |-> None])]
    [] o.kind = "drop"        -> [db EXCEPT !.tables = Without(@, {t}),
                                            !.gaps = {g \in @ : g[1] # t}]
    [] o.kind = "add"         -> [db EXCEPT !.tables[t].cols = @ \cup o.arg,
                                            !.gaps = @ \cup Gaps(t, o.arg \ Cols(db, t))]
    [] o.kind = "addfilled"   -> [db EXCEPT !.tables[t].cols = @ \cup o.arg]
    [] o.kind = "remove"      -> [db EXCEPT !.tables[t] = Removed(@, o.arg),
                                            !.gaps = @ \ Gaps(t, o.arg)]
    [] o.kind = "reference"   -> [db EXCEPT !.tables[t].refs = @ @@ o.arg]
    [] o.kind = "unreference" -> [db EXCEPT !.tables[t].refs = Without(@, o.arg)]
    [] o.kind = "attach"      -> [db EXCEPT !.tables[t].on = @ @@ o.arg]
    [] o.kind = "detach"      -> [db EXCEPT !.tables[t].on = Without(@, o.arg)]
    [] o.kind = "nullable"    -> [db EXCEPT !.gaps = @ \cup Gaps(t, o.arg)]
    [] o.kind = "fill"        -> [db EXCEPT !.gaps = @ \ Gaps(t, o.arg)]
    [] o.kind = "newtype"     -> [db EXCEPT !.types = @ @@ (t :> o.arg)]
    [] o.kind = "droptype"    -> [db EXCEPT !.types = Without(@, o.arg)]
    [] o.kind = "labels"      -> [db EXCEPT !.types[t] = @ \cup o.arg,
                                            !.fresh = @ \cup Gaps(t, o.arg \ db.types[t])]
    [] o.kind \in {"autocommit", "transaction"} -> [db EXCEPT !.fresh = {}]
    [] o.kind = "functions"     -> [db EXCEPT !.funcs = @ \cup o.arg]
    [] o.kind = "dropfunctions" -> [db EXCEPT !.funcs = @ \ o.arg]
    [] OTHER                    -> db

\* Runs statements in order from db.  "at" counts the ones the server took;
\* "refused" is the first one it did not, or None.
Run(statements, db) ==
  LET step(o, so) ==
        IF so.refused # None THEN so
        ELSE IF ~Fits(o, so.db) THEN [so EXCEPT !.refused = <<o>>]
        ELSE [so EXCEPT !.db = Apply(o, so.db), !.at = @ + 1]
      run[n \in 0..Len(statements)] ==
        IF n = 0 THEN [db |-> db, refused |-> None, at |-> 0]
        ELSE step(statements[n], run[n - 1])
  IN  run[Len(statements)]

\* What a COMMIT leaves.
Committed(db) == [db EXCEPT !.fresh = {}]

\* The prefixes a crash can leave in the database: a revision runs in one
\* transaction, except that entering an autocommit_block commits what came
\* before it and each statement inside commits on its own.
Open(statements, n) ==
  \E i \in 1..n : /\ statements[i] = Autocommit
                  /\ \A j \in (i + 1)..n : statements[j] # Transaction
CommitPoints(statements) == {n \in 1..Len(statements) : Open(statements, n)}

\* Where a revision that stops at statement n leaves the database: at its last
\* commit, or untouched when it never committed.
LastCommit(statements, n) ==
  {m \in CommitPoints(statements) : m <= n /\ \A k \in CommitPoints(statements) : k <= n => k <= m}
RolledBack(statements, n, db) ==
  IF LastCommit(statements, n) = {} THEN db
  ELSE LET m == CHOOSE m \in LastCommit(statements, n) : TRUE
       IN  Committed(Run(SubSeq(statements, 1, m), db).db)
=============================================================================
