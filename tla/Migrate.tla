------------------------------ MODULE Migrate ------------------------------
(***************************************************************************)
(* internal/store/migrate.go: the database is brought to the current       *)
(* schema each time the process starts, from whatever state an older       *)
(* version, or a crash of this one, left it in.                            *)
(*                                                                         *)
(* db is what is committed, tx the view of the one transaction that may be *)
(* open.  A key is named by its tenant: plain holds the tenants whose row  *)
(* carries a plaintext key, hashed those that have it in api_keys, and     *)
(* kids those with other rows that refer to them; columns says that        *)
(* tenants has all the rate-limit columns.  A statement may fail,          *)
(* and the process may die between any two; then the transaction is rolled *)
(* back and the foreign_keys pragma, which belongs to the connection, is   *)
(* on again.                                                               *)
(***************************************************************************)
EXTENDS Integers, Sequences, FiniteSets

CONSTANTS Tenant,       \* tenants of a legacy database
          Databases     \* the databases the process may find

\* The numbered migrations.
Version == {1, 2}

VARIABLES
    had,        \* the tenants the database began with
    db,         \* the committed database
    tx,         \* the open transaction's view of it, as a set
    fk,         \* PRAGMA foreign_keys of the only connection
    mpc,        \* where migrate is, or "down", "open" or "closed"
    todo,       \* toMigrate
    cur,        \* the tenant of the loop over toMigrate, as a set
    ignored     \* errors that migrate went on after

mvars == <<had, db, tx, fk, mpc, todo, cur, ignored>>

\* Places where an error makes Open fail, and the process with it.
Fatal == {"ledger", "versions", "baseline", "inspect", "fkoff", "begin", "commit",
          "select", "insert", "blank", "record", "reload", "apply", "note"}
Migrating == Fatal \cup {"exists", "alter", "rebuild", "restore", "hung"}

Blank == [tables |-> FALSE, unique |-> FALSE, columns |-> FALSE, objects |-> {},
          versions |-> {}, rows |-> {}, plain |-> {}, hashed |-> {}, kids |-> {}]

\* A legacy database: users and tenants without schema_migrations.  Its
\* UNIQUE api_key, if it still has it, left room for one blank key.
Legacy(d) ==
    /\ d \in [tables : {TRUE}, unique : BOOLEAN, columns : BOOLEAN, objects : {{}},
              versions : {{}}, rows : {Tenant}, plain : SUBSET Tenant,
              hashed : SUBSET Tenant, kids : {Tenant}]
    /\ d.plain \cup d.hashed = Tenant
    /\ d.unique => Cardinality(Tenant \ d.plain) <= 1

ASSUME DatabasesAssumption == \A d \in Databases : d = Blank \/ Legacy(d)

MigrateInit ==
    /\ db \in Databases /\ had = db.rows
    /\ tx = {} /\ fk = TRUE /\ mpc = "down" /\ todo = {} /\ cur = {} /\ ignored = {}

MGoto(p) == mpc' = p

\* sql.Open: a new connection, with foreign_keys(1), and CREATE TABLE IF NOT
\* EXISTS schema_migrations as the first statement.
OpenDatabase ==
    /\ mpc = "down"
    /\ MGoto("ledger")
    /\ UNCHANGED <<had, db, tx, fk, todo, cur, ignored>>

CreateLedger ==
    /\ mpc = "ledger"
    /\ MGoto("versions")
    /\ UNCHANGED <<had, db, tx, fk, todo, cur, ignored>>

LoadAppliedVersions ==
    /\ mpc = "versions"
    /\ MGoto(IF db.versions = {} THEN "exists" ELSE "reload")
    /\ UNCHANGED <<had, db, tx, fk, todo, cur, ignored>>

\* tableExists, twice: an error counts as "no".
TablesExist ==
    /\ mpc = "exists"
    /\ \/ /\ MGoto(IF db.tables THEN "baseline" ELSE "reload")
          /\ UNCHANGED ignored
       \/ /\ MGoto("reload")
          /\ ignored' = ignored \cup (IF db.tables THEN {"exists"} ELSE {})
    /\ UNCHANGED <<had, db, tx, fk, todo, cur>>

\* A migration's statements, all IF NOT EXISTS, in one transaction.
Apply(d, v) ==
    [d EXCEPT !.objects = @ \cup {v},
              !.tables = @ \/ v = 1,
              !.columns = @ \/ (v = 1 /\ ~d.tables)]

\* Fault: the baseline is recorded before the tenants are normalised.
ApplyBaselineRecords ==
    /\ mpc = "baseline"
    /\ db' = [Apply(db, 1) EXCEPT !.versions = {1}]
    /\ MGoto("alter")
    /\ UNCHANGED <<had, tx, fk, todo, cur, ignored>>

ApplyBaseline ==
    /\ mpc = "baseline"
    /\ db' = Apply(db, 1)
    /\ MGoto("alter")
    /\ UNCHANGED <<had, tx, fk, todo, cur, ignored>>

\* The three ALTER TABLE, whose errors are not looked at.  A column that is
\* there makes its statement fail, harmlessly; so does any other error, which
\* leaves the columns incomplete.
AddColumns ==
    /\ mpc = "alter"
    /\ \/ /\ db' = [db EXCEPT !.columns = TRUE]
          /\ ignored' = ignored \ {"alter"}
       \/ /\ ~db.columns
          /\ ignored' = ignored \cup {"alter"}
          /\ UNCHANGED db
    /\ MGoto("inspect")
    /\ UNCHANGED <<had, tx, fk, todo, cur>>

\* ensureTenantSchema reads the table's definition.
InspectTenants ==
    /\ mpc = "inspect"
    /\ MGoto(IF db.unique THEN "fkoff" ELSE "select")
    /\ UNCHANGED <<had, db, tx, fk, todo, cur, ignored>>

\* Fault: the pragma is issued inside the transaction, where it does nothing.
DisableForeignKeysInTx ==
    /\ mpc = "fkoff"
    /\ MGoto("begin")
    /\ UNCHANGED <<had, db, tx, fk, todo, cur, ignored>>

DisableForeignKeys ==
    /\ mpc = "fkoff"
    /\ fk' = FALSE
    /\ MGoto("begin")
    /\ UNCHANGED <<had, db, tx, todo, cur, ignored>>

BeginRebuild ==
    /\ mpc = "begin"
    /\ tx' = {db}
    /\ MGoto("rebuild")
    /\ UNCHANGED <<had, db, fk, todo, cur, ignored>>

\* CREATE, INSERT ... SELECT, DROP, RENAME and CREATE INDEX: nobody can see
\* between them, for the transaction holds the only connection.  DROP TABLE
\* deletes the rows first, with what cascades from them if foreign keys are on.
RebuildTenants ==
    /\ mpc = "rebuild" /\ db.columns
    /\ tx' = {[d EXCEPT !.unique = FALSE,
                        !.hashed = IF fk THEN {} ELSE @,
                        !.kids = IF fk THEN {} ELSE @] : d \in tx}
    /\ MGoto("commit")
    /\ UNCHANGED <<had, db, fk, todo, cur, ignored>>

\* One of the statements fails: restore() asks the pool for a connection
\* before the deferred Rollback gives back the only one, and waits for ever.
RebuildFails ==
    /\ mpc = "rebuild"
    /\ MGoto("hung")
    /\ UNCHANGED <<had, db, tx, fk, todo, cur, ignored>>

CommitRebuild ==
    /\ mpc = "commit"
    /\ \A d \in tx : db' = d
    /\ tx' = {}
    /\ MGoto("restore")
    /\ UNCHANGED <<had, fk, todo, cur, ignored>>

\* restore(), whose error is not looked at.
RestoreForeignKeys ==
    /\ mpc = "restore"
    /\ \/ fk' = TRUE /\ UNCHANGED ignored
       \/ fk' = FALSE /\ ignored' = ignored \cup {"restore"}
    /\ MGoto("select")
    /\ UNCHANGED <<had, db, tx, todo, cur>>

\* migratePlaintextKeys.
SelectPlaintextKeys ==
    /\ mpc = "select"
    /\ todo' = db.plain
    /\ MGoto(IF db.plain = {} THEN "record" ELSE "insert")
    /\ UNCHANGED <<had, db, tx, fk, cur, ignored>>

\* INSERT OR IGNORE INTO api_keys.
InsertHashedKey ==
    /\ mpc = "insert"
    /\ \E t \in todo :
         /\ db' = [db EXCEPT !.hashed = @ \cup {t}]
         /\ cur' = {t} /\ todo' = todo \ {t}
    /\ MGoto("blank")
    /\ UNCHANGED <<had, tx, fk, ignored>>

\* UPDATE tenants SET api_key = '', which a UNIQUE api_key admits once.
BlankPlaintextKey ==
    /\ mpc = "blank"
    /\ db.unique => db.rows = db.plain
    /\ db' = [db EXCEPT !.plain = @ \ cur]
    /\ cur' = {}
    /\ MGoto(IF todo = {} THEN "record" ELSE "insert")
    /\ UNCHANGED <<had, tx, fk, todo, ignored>>

RecordBaseline ==
    /\ mpc = "record"
    /\ db' = [db EXCEPT !.versions = @ \cup {1}]
    /\ MGoto("reload")
    /\ UNCHANGED <<had, tx, fk, todo, cur, ignored>>

\* The loop over the migrations, in the order of their versions.
Missing == Version \ db.versions
NextVersion == CHOOSE v \in Missing : \A w \in Missing : v <= w

ReloadVersions ==
    /\ mpc = "reload"
    /\ MGoto(IF Missing = {} THEN "open" ELSE "apply")
    /\ UNCHANGED <<had, db, tx, fk, todo, cur, ignored>>

ApplyMigration ==
    /\ mpc = "apply"
    /\ db' = Apply(db, NextVersion)
    /\ MGoto("note")
    /\ UNCHANGED <<had, tx, fk, todo, cur, ignored>>

RecordVersion ==
    /\ mpc = "note"
    /\ db' = [db EXCEPT !.versions = @ \cup {NextVersion}]
    /\ MGoto(IF Missing = {NextVersion} THEN "open" ELSE "apply")
    /\ UNCHANGED <<had, tx, fk, todo, cur, ignored>>

\* The connection is gone, with its transaction and its pragma.
Disconnect ==
    /\ tx' = {} /\ fk' = TRUE /\ todo' = {} /\ cur' = {}
    /\ ignored' = ignored \ {"restore"}
    /\ MGoto("down")
    /\ UNCHANGED <<had, db>>

\* A statement fails and migrate returns its error: Open closes the database
\* and the process exits.
MigrateFails == mpc \in Fatal /\ Disconnect

MigrateStep ==
    \/ CreateLedger \/ LoadAppliedVersions \/ TablesExist \/ ApplyBaseline
    \/ AddColumns \/ InspectTenants \/ DisableForeignKeys \/ BeginRebuild
    \/ RebuildTenants \/ RebuildFails \/ CommitRebuild \/ RestoreForeignKeys
    \/ SelectPlaintextKeys \/ InsertHashedKey \/ BlankPlaintextKey
    \/ RecordBaseline \/ ReloadVersions \/ ApplyMigration \/ RecordVersion
    \/ MigrateFails

Database == [tables : BOOLEAN, unique : BOOLEAN, columns : BOOLEAN,
             objects : SUBSET Version, versions : SUBSET Version,
             rows : SUBSET Tenant, plain : SUBSET Tenant,
             hashed : SUBSET Tenant, kids : SUBSET Tenant]

MigrateTypeOK ==
    /\ had \in SUBSET Tenant /\ db \in Database /\ tx \in SUBSET Database
    /\ fk \in BOOLEAN /\ mpc \in Migrating \cup {"down", "open", "closed"}
    /\ todo \in SUBSET Tenant /\ cur \in SUBSET Tenant
    /\ ignored \in SUBSET {"exists", "alter", "restore"}

(***************************************************************************)
(* Every tenant the database began with keeps its row, its dependent rows  *)
(* and its key, in plaintext or hashed, in whatever state a failure or a   *)
(* crash leaves the database: "a crash cannot drop the original table      *)
(* without committing the replacement".                                    *)
(***************************************************************************)
KeysSurvive ==
    /\ db.rows = had /\ db.kids = had
    /\ db.plain \cup db.hashed = had

(***************************************************************************)
(* When Open succeeds the schema is complete, foreign keys are enforced,   *)
(* and no plaintext key is left, even if earlier attempts died half-way    *)
(* and a fresh database was taken for a legacy one; except for the errors  *)
(* that the code does not look at.                                         *)
(***************************************************************************)
Adopted ==
    mpc = "open" =>
        /\ db.versions = Version /\ db.objects = Version
        /\ "exists" \in ignored \/ (~db.unique /\ db.plain = {} /\ db.hashed = had)
        /\ ignored \cap {"exists", "alter"} # {} \/ db.columns
        /\ "restore" \in ignored \/ fk
=============================================================================
