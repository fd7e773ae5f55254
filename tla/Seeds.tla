------------------------------- MODULE Seeds -------------------------------
(***************************************************************************)
(* What the seeds that env.py runs after every command ask of the schema   *)
(* (alembic/seeds): the statements of each seed at a catalogue, behind the *)
(* table and column checks it makes first.  "empty" tells the two ways a   *)
(* seed can go: the table it seeds has no rows yet, or it has.             *)
(***************************************************************************)
EXTENDS SchemaOps

Has(db, t, c) == t \in Tables(db) /\ c \in Cols(db, t)

InsertPermissions ==
  << Rows([permission |-> {"id", "created_at", "name", "resource", "action", "description"}]),
     OnConflict("permission", {"name"}) >>

\* _ensure_convergent_rbac
Convergent ==
  InsertPermissions \o
  << Rows([role |-> {"id", "name", "company_id"}, permission |-> {"id", "name", "action"},
           role_permission |-> {"role_id", "permission_id"}]) >>

seed_rbac_data(db, empty) ==
  IF ~({"permission", "role", "role_permission", "user_role"} \subseteq Tables(db)) THEN None
  ELSE (IF empty
        THEN InsertPermissions \o
             << Rows([role |-> {"id", "created_at", "name", "description", "is_system"},
                      permission |-> {"id"},
                      role_permission |-> {"role_id", "permission_id"}]) >>
        ELSE None) \o Convergent

\* With rows: the bootstrap of rows without billing data, or the two
\* convergent policies; both need these columns.
seed_tier_data(db, empty) ==
  IF "tier" \notin Tables(db) THEN None
  ELSE << Rows([tier |-> {"price", "stripe_price_id"}]),
          IF empty
          THEN Rows([tier |-> {"id", "created_at", "name", "price", "billing_cycle", "features",
                               "modules", "stripe_price_id", "is_active"}])
          ELSE Rows([tier |-> {"id", "name", "price", "billing_cycle", "features", "modules",
                               "stripe_price_id", "is_active"}]) >>

\* Mutant: the tier column is written at every position.
SeedDeviceCategoriesWithTier(db) ==
  IF "device_category" \notin Tables(db) THEN None
  ELSE << Rows([device_category |-> Stamped \cup {"key", "name", "sort_order", "icon",
                  "is_active", "is_system", "tier"}]),
          OnConflict("device_category", {"key"}) >>

SeedDeviceCategories(db) ==
  IF "device_category" \notin Tables(db) THEN None
  ELSE << Rows([device_category |-> Stamped \cup {"key", "name", "sort_order", "icon",
                  "is_active", "is_system"}
                  \cup (IF Has(db, "device_category", "tier") THEN {"tier"} ELSE {})
                  \cup (IF Has(db, "device_category", "is_passive") THEN {"is_passive"}
                        ELSE {})]),
          OnConflict("device_category", {"key"}) >>

seed_isp_data(db) ==
  InsertPermissions \o
  << Rows([role |-> {"id", "created_at", "name", "description", "is_system", "company_id"},
           permission |-> {"id", "name"}, role_permission |-> {"role_id", "permission_id"},
           tier |-> {"id", "modules"}]) >> \o
  SeedDeviceCategories(db)

RunSeeds(db, empty) ==
  seed_rbac_data(db, empty) \o seed_tier_data(db, empty) \o
  (IF "client_service" \in Tables(db) THEN seed_isp_data(db) \o Convergent ELSE None)
=============================================================================
