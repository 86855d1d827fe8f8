--------------------------- MODULE ProcessProofs ---------------------------
(***************************************************************************)
(* The life of the process, for any tenants, requests and databases: what  *)
(* migrate keeps and completes over failures and crashes, and what an      *)
(* orderly shutdown leaves behind.                                         *)
(***************************************************************************)
EXTENDS Process, WellFoundedInduction, TLAPS

-----------------------------------------------------------------------------
(***************************************************************************)
(* The inductive invariant of migrate.                                     *)
(***************************************************************************)
\* The places between the baseline's statements and its record.
Adopting == {"alter", "inspect", "fkoff", "begin", "rebuild", "commit", "restore",
             "select", "insert", "blank", "record"}

\* A version is recorded after its objects were made.
VersionsAreApplied ==
    /\ db.versions \subseteq db.objects
    /\ mpc \in Adopting => 1 \in db.objects
    /\ mpc \in {"apply", "note"} => Missing # {}
    /\ mpc = "note" => NextVersion \in db.objects
    /\ mpc = "open" => Missing = {}

\* The transaction sees the database as it is, but for what it did itself, with
\* foreign keys off.
RebuildIsExact ==
    /\ mpc \in {"begin", "rebuild", "commit"} => fk = FALSE
    /\ mpc = "rebuild" => tx = {db}
    /\ mpc = "commit" => tx = {[db EXCEPT !.unique = FALSE]}
    /\ mpc \notin {"begin", "rebuild", "commit", "restore", "hung"} => fk \/ "restore" \in ignored

\* The loop over toMigrate has what is still in plaintext before it.
LoopIsExact ==
    /\ mpc \in {"restore", "select", "insert", "blank"} => db.unique = FALSE
    /\ mpc = "insert" => todo = db.plain /\ todo # {}
    /\ mpc # "blank" => cur = {}
    /\ mpc = "blank" => db.plain = todo \cup cur /\ cur \subseteq db.hashed
                        /\ cur \cap todo = {}

\* Nothing is recorded, nor a table made, before the tenants are normalised.
Normal == db.unique = FALSE /\ db.plain = {}

NormalFirst ==
    \/ "exists" \in ignored
    \/ Normal
    \/ db.versions = {} /\ db.tables /\ mpc \notin {"record", "reload", "apply", "note", "open"}

\* ... nor before it has its columns.
ColumnsFirst ==
    \/ ignored \cap {"exists", "alter"} # {}
    \/ db.columns
    \/ /\ db.versions = {}
       /\ mpc \notin (Adopting \ {"alter"}) \cup {"note", "open"}
       /\ mpc \in {"reload", "apply"} => ~db.tables

MigrateInv == /\ MigrateTypeOK /\ KeysSurvive
              /\ VersionsAreApplied /\ RebuildIsExact /\ LoopIsExact
              /\ NormalFirst /\ ColumnsFirst

-----------------------------------------------------------------------------
(***************************************************************************)
(* The inductive invariant of run() and its parts.                         *)
(***************************************************************************)
StagesAgree ==
    /\ stage # "idle" => mpc \in {"open", "closed"}
    /\ mpc = "closed" <=> stage = "exit"
    /\ stage = "idle" => launched = {} /\ Running = {}

\* A part that listens, or a syslog handler, keeps its goroutine in the wait group;
\* other handlers start from a listener.
PartsAreLaunched ==
    /\ listening \subseteq launched
    /\ "syslog" \in busy => "syslog" \in launched /\ ("syslog" \in listening \/ cancelled)
    /\ stage = "idle" => busy = {}

\* What an orderly shutdown has behind it in each of its stages.
DownInOrder ==
    \/ failed
    \/ /\ ShutDown("proxy") => "proxy" \notin listening
       /\ ShutDown("admin") => "admin" \notin listening
       /\ stage \in {"admin", "drainAdmin", "join", "close", "exit"} => Running = {} \/ expired
       /\ stage \in {"join", "close", "exit"} => "admin" \notin busy \/ expired
       /\ stage \in {"close", "exit"} => launched = {}

\* Where a request is tells what was sent and what became of its sample.
RequestsAreRecorded ==
    /\ \A r \in Request :
         /\ ipc[r] \notin {"proxy", "record", "done"} => sent[r] = {}
         /\ ipc[r] = "done" /\ sent[r] # {} =>
              \/ status[r] \in {"pending", "counted", "dropped", "lost"}
              \/ out[r] \in {"aborted", "killed"}
    /\ stage = "exit" /\ ~failed /\ ~expired /\ ~unsaved => \A r \in Request : status[r] # "pending"

ProcessInv == /\ MigrateInv /\ TypeOK
              /\ StagesAgree /\ PartsAreLaunched /\ DownInOrder
              /\ RequestsAreRecorded

-----------------------------------------------------------------------------
(***************************************************************************)
(* migrate.                                                                *)
(***************************************************************************)
\* The loop over the migrations takes the lowest version that is missing.
LEMMA LowestFirst ==
    ASSUME Missing # {}
    PROVE  NextVersion \in Missing /\ (1 \in Missing => NextVersion = 1)
<1>1. Missing \subseteq {1, 2}
  BY DEF Missing, Version
<1>2. \E v \in Missing : \A w \in Missing : v <= w
  <2>1. CASE 1 \in Missing
    BY <1>1, <2>1
  <2>2. CASE 1 \notin Missing
    <3>1. Missing = {2}
      BY <1>1, <2>2
    <3> QED
      BY <3>1
  <2> QED
    BY <2>1, <2>2
<1>3. NextVersion \in Missing /\ \A w \in Missing : NextVersion <= w
  BY <1>2 DEF NextVersion
<1> QED
  BY <1>1, <1>3

LEMMA MigrateInitInv == MigrateInit => MigrateInv
<1> SUFFICES ASSUME MigrateInit PROVE MigrateInv
    OBVIOUS
<1>1. db \in Database /\ KeysSurvive /\ db.versions = {} /\ db.objects = {}
      /\ (db.tables = FALSE => db.unique = FALSE /\ db.plain = {})
  <2>1. CASE db = Blank
    BY <2>1 DEF MigrateInit, Blank, Database, KeysSurvive
  <2>2. CASE Legacy(db)
    BY <2>2 DEF MigrateInit, Legacy, Database, KeysSurvive
  <2> QED
    BY <2>1, <2>2, DatabasesAssumption DEF MigrateInit
<1>2. /\ had = db.rows /\ tx = {} /\ fk = TRUE /\ mpc = "down" /\ todo = {} /\ cur = {}
      /\ ignored = {}
  BY DEF MigrateInit
<1>3. MigrateTypeOK
  BY <1>1, <1>2 DEF MigrateTypeOK, Database
<1>4. VersionsAreApplied /\ RebuildIsExact /\ LoopIsExact
  BY <1>1, <1>2 DEF VersionsAreApplied, RebuildIsExact, LoopIsExact, Adopting
<1>5. NormalFirst
  BY <1>1, <1>2 DEF NormalFirst, Normal, Database
<1>6. ColumnsFirst
  BY <1>1, <1>2 DEF ColumnsFirst, Adopting
<1> QED
  BY <1>1, <1>3, <1>4, <1>5, <1>6 DEF MigrateInv

\* The connection may go at any time; the database stays.
LEMMA DisconnectInv == MigrateInv /\ Disconnect => MigrateInv'
<1> SUFFICES ASSUME MigrateInv, Disconnect PROVE MigrateInv'
    OBVIOUS
<1>1. /\ MigrateTypeOK /\ KeysSurvive /\ VersionsAreApplied /\ NormalFirst /\ ColumnsFirst
      /\ tx' = {} /\ fk' = TRUE /\ todo' = {} /\ cur' = {} /\ mpc' = "down"
      /\ ignored' = ignored \ {"restore"} /\ UNCHANGED <<had, db>>
  BY DEF MigrateInv, Disconnect, MGoto
<1>2. MigrateTypeOK' /\ KeysSurvive'
  BY <1>1 DEF MigrateTypeOK, KeysSurvive
<1>3. VersionsAreApplied' /\ RebuildIsExact' /\ LoopIsExact'
  BY <1>1 DEF VersionsAreApplied, RebuildIsExact, LoopIsExact, Adopting
<1>4. NormalFirst' /\ ColumnsFirst'
  BY <1>1 DEF NormalFirst, Normal, ColumnsFirst, Adopting
<1> QED
  BY <1>2, <1>3, <1>4 DEF MigrateInv

\* Steps that read the database and go on.
LEMMA ReadingInv ==
    ASSUME MigrateInv,
           \/ OpenDatabase \/ CreateLedger \/ LoadAppliedVersions \/ TablesExist
           \/ InspectTenants \/ DisableForeignKeys \/ BeginRebuild \/ RebuildFails
           \/ RestoreForeignKeys \/ SelectPlaintextKeys \/ ReloadVersions
    PROVE  MigrateInv'
<1> USE DEF MGoto
<1>0. /\ MigrateTypeOK /\ KeysSurvive /\ VersionsAreApplied /\ RebuildIsExact /\ LoopIsExact
      /\ NormalFirst /\ ColumnsFirst /\ UNCHANGED <<had, db, cur>>
  BY DEF MigrateInv, OpenDatabase, CreateLedger, LoadAppliedVersions, TablesExist,
     InspectTenants, DisableForeignKeys, BeginRebuild, RebuildFails, RestoreForeignKeys,
     SelectPlaintextKeys, ReloadVersions
<1>1. KeysSurvive'
  BY <1>0 DEF KeysSurvive
<1>2. MigrateTypeOK'
  <2>1. todo' \in SUBSET Tenant
    BY <1>0 DEF MigrateTypeOK, Database, OpenDatabase, CreateLedger, LoadAppliedVersions,
       TablesExist, InspectTenants, DisableForeignKeys, BeginRebuild, RebuildFails,
       RestoreForeignKeys, SelectPlaintextKeys, ReloadVersions
  <2>2. tx' \in SUBSET Database /\ fk' \in BOOLEAN
    BY <1>0 DEF MigrateTypeOK, OpenDatabase, CreateLedger, LoadAppliedVersions,
       TablesExist, InspectTenants, DisableForeignKeys, BeginRebuild, RebuildFails,
       RestoreForeignKeys, SelectPlaintextKeys, ReloadVersions
  <2>3. mpc' \in Migrating \cup {"open"} /\ ignored' \in SUBSET {"exists", "alter", "restore"}
    BY <1>0 DEF MigrateTypeOK, Migrating, Fatal, OpenDatabase, CreateLedger, LoadAppliedVersions,
       TablesExist, InspectTenants, DisableForeignKeys, BeginRebuild, RebuildFails,
       RestoreForeignKeys, SelectPlaintextKeys, ReloadVersions
  <2> QED
    BY <1>0, <2>1, <2>2, <2>3 DEF MigrateTypeOK
<1>3. VersionsAreApplied'
  <2>1. /\ mpc' \in Adopting => mpc \in Adopting
        /\ mpc' # "note" /\ (mpc' = "apply" => Missing # {}) /\ (mpc' = "open" => Missing = {})
    BY DEF Adopting, OpenDatabase, CreateLedger, LoadAppliedVersions,
       TablesExist, InspectTenants, DisableForeignKeys, BeginRebuild, RebuildFails,
       RestoreForeignKeys, SelectPlaintextKeys, ReloadVersions
  <2>2. Missing' = Missing
    BY <1>0 DEF Missing
  <2> QED
    BY <1>0, <2>1, <2>2 DEF VersionsAreApplied
<1>4. RebuildIsExact'
  BY <1>0 DEF RebuildIsExact, OpenDatabase, CreateLedger, LoadAppliedVersions,
     TablesExist, InspectTenants, DisableForeignKeys, BeginRebuild, RebuildFails,
     RestoreForeignKeys, SelectPlaintextKeys, ReloadVersions
<1>5. db.unique \in BOOLEAN /\ db.tables \in BOOLEAN /\ db.columns \in BOOLEAN
  BY <1>0 DEF MigrateTypeOK, Database
<1>6. LoopIsExact'
  <2>1. /\ mpc' \notin {"restore", "blank"} /\ mpc # "blank"
        /\ mpc' = "select" => mpc = "restore" \/ (mpc = "inspect" /\ db.unique = FALSE)
        /\ mpc' = "insert" => mpc = "select" /\ todo' = db.plain /\ db.plain # {}
    BY <1>5 DEF OpenDatabase, CreateLedger, LoadAppliedVersions,
       TablesExist, InspectTenants, DisableForeignKeys, BeginRebuild, RebuildFails,
       RestoreForeignKeys, SelectPlaintextKeys, ReloadVersions
  <2> QED
    BY <1>0, <2>1 DEF LoopIsExact
<1>7. NormalFirst'
  <2>1. /\ mpc' \notin {"note"} /\ ignored \subseteq ignored'
        /\ mpc' = "record" => mpc = "select" /\ db.plain = {}
        /\ mpc' = "reload" => \/ mpc = "versions" /\ db.versions # {}
                              \/ mpc = "exists" /\ (db.tables => "exists" \in ignored')
        /\ mpc' \in {"apply", "open"} => mpc = "reload"
    BY DEF OpenDatabase, CreateLedger, LoadAppliedVersions,
       TablesExist, InspectTenants, DisableForeignKeys, BeginRebuild, RebuildFails,
       RestoreForeignKeys, SelectPlaintextKeys, ReloadVersions
  <2> QED
    BY <1>0, <1>5, <2>1 DEF NormalFirst, Normal, LoopIsExact
<1>8. ColumnsFirst'
  <2>1. /\ mpc' # "note" /\ ignored \subseteq ignored'
        /\ mpc' \in Adopting \ {"alter"} => mpc \in Adopting \ {"alter"}
        /\ mpc' = "reload" => \/ mpc = "versions" /\ db.versions # {}
                              \/ mpc = "exists" /\ (db.tables => "exists" \in ignored')
        /\ mpc' \in {"apply", "open"} => mpc = "reload"
        /\ mpc' = "open" => Missing = {}
    BY DEF Adopting, OpenDatabase, CreateLedger, LoadAppliedVersions,
       TablesExist, InspectTenants, DisableForeignKeys, BeginRebuild, RebuildFails,
       RestoreForeignKeys, SelectPlaintextKeys, ReloadVersions
  <2>2. Missing = {} => db.versions # {}
    BY DEF Missing, Version
  <2> QED
    BY <1>0, <1>5, <2>1, <2>2 DEF ColumnsFirst
<1> QED
  BY <1>1, <1>2, <1>3, <1>4, <1>6, <1>7, <1>8 DEF MigrateInv

\* Database d differs from e in the fields that are in F only.
Same(d, e, F) ==
    /\ "tables" \notin F => d.tables = e.tables
    /\ "unique" \notin F => d.unique = e.unique
    /\ "columns" \notin F => d.columns = e.columns
    /\ "objects" \notin F => d.objects = e.objects
    /\ "versions" \notin F => d.versions = e.versions
    /\ "plain" \notin F => d.plain = e.plain
    /\ "hashed" \notin F => d.hashed = e.hashed
    /\ d.rows = e.rows /\ d.kids = e.kids

LEMMA ApplyFacts ==
    ASSUME NEW d \in Database, NEW v \in Version
    PROVE  /\ Apply(d, v) \in Database /\ Same(Apply(d, v), d, {"objects", "tables", "columns"})
           /\ Apply(d, v).objects = d.objects \cup {v}
           /\ d.tables => Apply(d, v).tables
           /\ d.columns => Apply(d, v).columns
           /\ v = 1 => Apply(d, v).tables /\ (~d.tables => Apply(d, v).columns)
<1> DEFINE o == d.objects \cup {v}
           x == d.tables \/ v = 1
           c == d.columns \/ (v = 1 /\ ~d.tables)
<1>1. o \in SUBSET Version /\ x \in BOOLEAN /\ c \in BOOLEAN
  BY DEF Database
<1>2. Apply(d, v) = [d EXCEPT !.objects = o, !.tables = x, !.columns = c]
  BY DEF Apply, Database
<1>3. /\ d.tables => x
      /\ d.columns => c
      /\ v = 1 => x /\ (~d.tables => c)
  OBVIOUS
<1> HIDE DEF o, x, c
<1>4. /\ Apply(d, v) \in Database /\ Same(Apply(d, v), d, {"objects", "tables", "columns"})
      /\ Apply(d, v).objects = o /\ Apply(d, v).tables = x /\ Apply(d, v).columns = c
  BY <1>1, <1>2 DEF Database, Same
<1> QED
  BY <1>3, <1>4 DEF o

\* The legacy database's way to the baseline.
LEMMA AdoptingInv ==
    ASSUME MigrateInv, ApplyBaseline \/ AddColumns \/ RebuildTenants \/ CommitRebuild
    PROVE  MigrateInv'
<1> USE DEF MGoto
<1>0. /\ MigrateTypeOK /\ KeysSurvive /\ VersionsAreApplied /\ RebuildIsExact /\ LoopIsExact
      /\ NormalFirst /\ ColumnsFirst /\ db \in Database
      /\ db.unique \in BOOLEAN /\ db.tables \in BOOLEAN /\ db.columns \in BOOLEAN
  BY DEF MigrateInv, MigrateTypeOK, Database
<1>1. CASE ApplyBaseline
  <2>1. /\ mpc = "baseline" /\ mpc' = "alter" /\ UNCHANGED <<had, tx, fk, todo, cur, ignored>>
        /\ db' = Apply(db, 1)
    BY <1>1 DEF ApplyBaseline
  <2>2. /\ db' \in Database /\ Same(db', db, {"objects", "tables", "columns"})
        /\ db'.objects = db.objects \cup {1} /\ db'.tables /\ (db.columns => db'.columns)
    BY <1>0, <2>1, ApplyFacts DEF Version
  <2>3. MigrateTypeOK' /\ KeysSurvive'
    BY <1>0, <2>1, <2>2 DEF MigrateTypeOK, KeysSurvive, Same, Migrating, Fatal
  <2>4. VersionsAreApplied' /\ RebuildIsExact' /\ LoopIsExact'
    BY <1>0, <2>1, <2>2 DEF VersionsAreApplied, RebuildIsExact, LoopIsExact, Same
  <2>5. NormalFirst' /\ ColumnsFirst'
    BY <1>0, <2>1, <2>2 DEF NormalFirst, Normal, ColumnsFirst, Same, Adopting
  <2> QED
    BY <2>3, <2>4, <2>5 DEF MigrateInv
<1>2. CASE AddColumns
  <2>1. /\ mpc = "alter" /\ mpc' = "inspect" /\ UNCHANGED <<had, tx, fk, todo, cur>>
        /\ \/ db' = [db EXCEPT !.columns = TRUE] /\ ignored' = ignored \ {"alter"}
           \/ db' = db /\ ignored' = ignored \cup {"alter"}
    BY <1>2 DEF AddColumns
  <2>2. /\ db' \in Database /\ Same(db', db, {"columns"})
        /\ \/ db'.columns = TRUE /\ ignored' = ignored \ {"alter"}
           \/ ignored' = ignored \cup {"alter"}
    BY <1>0, <2>1 DEF Database, Same
  <2>3. MigrateTypeOK' /\ KeysSurvive'
    BY <1>0, <2>1, <2>2 DEF MigrateTypeOK, KeysSurvive, Same, Migrating, Fatal
  <2>4. VersionsAreApplied' /\ RebuildIsExact' /\ LoopIsExact'
    BY <1>0, <2>1, <2>2 DEF VersionsAreApplied, RebuildIsExact, LoopIsExact, Same, Adopting
  <2>5. NormalFirst' /\ ColumnsFirst'
    BY <1>0, <2>1, <2>2 DEF NormalFirst, Normal, ColumnsFirst, Same
  <2> QED
    BY <2>3, <2>4, <2>5 DEF MigrateInv
<1>3. CASE RebuildTenants
  <2> DEFINE e == [db EXCEPT !.unique = FALSE]
  <2>1. /\ mpc = "rebuild" /\ mpc' = "commit" /\ UNCHANGED <<had, db, fk, todo, cur, ignored>>
        /\ fk = FALSE /\ tx = {db}
        /\ tx' = {[d EXCEPT !.unique = FALSE, !.hashed = IF fk THEN {} ELSE @,
                            !.kids = IF fk THEN {} ELSE @] : d \in tx}
    BY <1>0, <1>3 DEF RebuildTenants, RebuildIsExact
  <2>2. e \in Database /\ tx' = {e}
    <3>1. [db EXCEPT !.unique = FALSE, !.hashed = IF fk THEN {} ELSE @,
                     !.kids = IF fk THEN {} ELSE @] = e
      BY <1>0, <2>1 DEF Database
    <3> QED
      BY <1>0, <2>1, <3>1 DEF Database
  <2>3. e' = e
    BY <2>1
  <2> HIDE DEF e
  <2>4. MigrateTypeOK' /\ KeysSurvive'
    BY <1>0, <2>1, <2>2 DEF MigrateTypeOK, KeysSurvive, Migrating, Fatal
  <2>5. VersionsAreApplied' /\ LoopIsExact'
    BY <1>0, <2>1 DEF VersionsAreApplied, LoopIsExact, Adopting
  <2>6. RebuildIsExact'
    BY <2>1, <2>2, <2>3 DEF RebuildIsExact, e
  <2>7. NormalFirst' /\ ColumnsFirst'
    BY <1>0, <2>1 DEF NormalFirst, Normal, ColumnsFirst, Adopting
  <2> QED
    BY <2>4, <2>5, <2>6, <2>7 DEF MigrateInv
<1>4. CASE CommitRebuild
  <2>1. /\ mpc = "commit" /\ mpc' = "restore" /\ UNCHANGED <<had, fk, todo, cur, ignored>>
        /\ tx' = {} /\ db' = [db EXCEPT !.unique = FALSE]
    BY <1>0, <1>4 DEF CommitRebuild, RebuildIsExact
  <2>2. db' \in Database /\ Same(db', db, {"unique"}) /\ db'.unique = FALSE
    BY <1>0, <2>1 DEF Database, Same
  <2>3. MigrateTypeOK' /\ KeysSurvive'
    BY <1>0, <2>1, <2>2 DEF MigrateTypeOK, KeysSurvive, Same, Migrating, Fatal
  <2>4. VersionsAreApplied' /\ RebuildIsExact' /\ LoopIsExact'
    BY <1>0, <2>1, <2>2 DEF VersionsAreApplied, RebuildIsExact, LoopIsExact, Same, Adopting
  <2>5. NormalFirst' /\ ColumnsFirst'
    BY <1>0, <2>1, <2>2 DEF NormalFirst, Normal, ColumnsFirst, Same, Adopting
  <2> QED
    BY <2>3, <2>4, <2>5 DEF MigrateInv
<1> QED
  BY <1>1, <1>2, <1>3, <1>4

\* The loop over the plaintext keys, and the record of the baseline.
LEMMA HashingInv ==
    ASSUME MigrateInv, InsertHashedKey \/ BlankPlaintextKey \/ RecordBaseline
    PROVE  MigrateInv'
<1> USE DEF MGoto
<1>0. /\ MigrateTypeOK /\ KeysSurvive /\ VersionsAreApplied /\ RebuildIsExact /\ LoopIsExact
      /\ NormalFirst /\ ColumnsFirst /\ db \in Database
      /\ db.unique \in BOOLEAN /\ db.tables \in BOOLEAN /\ db.columns \in BOOLEAN
  BY DEF MigrateInv, MigrateTypeOK, Database
<1>1. CASE InsertHashedKey
  <2>1. PICK t \in todo : /\ db' = [db EXCEPT !.hashed = @ \cup {t}]
                          /\ cur' = {t} /\ todo' = todo \ {t}
    BY <1>1 DEF InsertHashedKey
  <2>2. /\ mpc = "insert" /\ mpc' = "blank" /\ UNCHANGED <<had, tx, fk, ignored>>
        /\ todo = db.plain /\ db.unique = FALSE /\ t \in Tenant
    BY <1>0, <1>1 DEF InsertHashedKey, LoopIsExact, MigrateTypeOK
  <2>3. db' \in Database /\ Same(db', db, {"hashed"}) /\ db'.hashed = db.hashed \cup {t}
    BY <1>0, <2>1, <2>2 DEF Database, Same
  <2>4. MigrateTypeOK'
    BY <1>0, <2>1, <2>2, <2>3 DEF MigrateTypeOK, Migrating, Fatal
  <2>5. KeysSurvive'
    BY <1>0, <2>2, <2>3 DEF KeysSurvive, Same
  <2>6. VersionsAreApplied' /\ RebuildIsExact'
    BY <1>0, <2>2, <2>3 DEF VersionsAreApplied, RebuildIsExact, Same, Adopting
  <2>7. LoopIsExact'
    BY <2>1, <2>2, <2>3 DEF LoopIsExact, Same
  <2>8. NormalFirst' /\ ColumnsFirst'
    BY <1>0, <2>2, <2>3 DEF NormalFirst, Normal, ColumnsFirst, Same, Adopting
  <2> QED
    BY <2>4, <2>5, <2>6, <2>7, <2>8 DEF MigrateInv
<1>2. CASE BlankPlaintextKey
  <2>1. /\ mpc = "blank" /\ db' = [db EXCEPT !.plain = @ \ cur] /\ cur' = {}
        /\ mpc' = (IF todo = {} THEN "record" ELSE "insert")
        /\ UNCHANGED <<had, tx, fk, todo, ignored>>
    BY <1>2 DEF BlankPlaintextKey
  <2>2. /\ db.unique = FALSE /\ db.plain = todo \cup cur /\ cur \subseteq db.hashed
        /\ cur \cap todo = {}
    BY <1>0, <2>1 DEF LoopIsExact
  <2>3. db' \in Database /\ Same(db', db, {"plain"}) /\ db'.plain = todo
    BY <1>0, <2>1, <2>2 DEF Database, Same
  <2>4. MigrateTypeOK'
    BY <1>0, <2>1, <2>3 DEF MigrateTypeOK, Migrating, Fatal
  <2>5. KeysSurvive'
    BY <1>0, <2>1, <2>2, <2>3 DEF KeysSurvive, Same
  <2>6. VersionsAreApplied' /\ RebuildIsExact'
    BY <1>0, <2>1, <2>3 DEF VersionsAreApplied, RebuildIsExact, Same, Adopting
  <2>7. LoopIsExact'
    BY <2>1, <2>2, <2>3 DEF LoopIsExact, Same
  <2>8. NormalFirst' /\ ColumnsFirst'
    BY <1>0, <2>1, <2>2, <2>3 DEF NormalFirst, Normal, ColumnsFirst, Same, Adopting
  <2> QED
    BY <2>4, <2>5, <2>6, <2>7, <2>8 DEF MigrateInv
<1>3. CASE RecordBaseline
  <2>1. /\ mpc = "record" /\ mpc' = "reload" /\ UNCHANGED <<had, tx, fk, todo, cur, ignored>>
        /\ db' = [db EXCEPT !.versions = @ \cup {1}]
    BY <1>3 DEF RecordBaseline
  <2>2. db' \in Database /\ Same(db', db, {"versions"}) /\ db'.versions = db.versions \cup {1}
    BY <1>0, <2>1 DEF Database, Same, Version
  <2>3. MigrateTypeOK' /\ KeysSurvive'
    BY <1>0, <2>1, <2>2 DEF MigrateTypeOK, KeysSurvive, Same, Migrating, Fatal
  <2>4. VersionsAreApplied' /\ RebuildIsExact' /\ LoopIsExact'
    BY <1>0, <2>1, <2>2 DEF VersionsAreApplied, RebuildIsExact, LoopIsExact, Same, Adopting
  <2>5. NormalFirst' /\ ColumnsFirst'
    BY <1>0, <2>1, <2>2 DEF NormalFirst, Normal, ColumnsFirst, Same, Adopting
  <2> QED
    BY <2>3, <2>4, <2>5 DEF MigrateInv
<1> QED
  BY <1>1, <1>2, <1>3

\* The loop over the migrations.
LEMMA VersionsInv ==
    ASSUME MigrateInv, ApplyMigration \/ RecordVersion
    PROVE  MigrateInv'
<1> USE DEF MGoto
<1>0. /\ MigrateTypeOK /\ KeysSurvive /\ VersionsAreApplied /\ RebuildIsExact /\ LoopIsExact
      /\ NormalFirst /\ ColumnsFirst /\ db \in Database
      /\ db.unique \in BOOLEAN /\ db.tables \in BOOLEAN /\ db.columns \in BOOLEAN
  BY DEF MigrateInv, MigrateTypeOK, Database
<1>1. Missing # {} /\ UNCHANGED <<had, tx, fk, todo, cur, ignored>>
  BY <1>0 DEF VersionsAreApplied, ApplyMigration, RecordVersion
<1> DEFINE v == NextVersion
<1>2. v \in Missing /\ v \in Version /\ (1 \in Missing => v = 1)
  BY <1>1, LowestFirst DEF Missing
<1>3. db.versions = {} => v = 1
  BY <1>2 DEF Missing, Version
<1>4. CASE ApplyMigration
  <2>1. mpc = "apply" /\ mpc' = "note" /\ db' = Apply(db, v)
    BY <1>4 DEF ApplyMigration
  <2>2. /\ db' \in Database /\ Same(db', db, {"objects", "tables", "columns"})
        /\ db'.objects = db.objects \cup {v} /\ (db.columns => db'.columns)
        /\ v = 1 /\ ~db.tables => db'.columns
    BY <1>0, <1>2, <2>1, ApplyFacts
  <2>3. Missing' = Missing
    BY <2>2 DEF Missing, Same
  <2>4. v' = v
    BY <2>3 DEF NextVersion
  <2> HIDE DEF v
  <2>5. MigrateTypeOK' /\ KeysSurvive'
    BY <1>0, <1>1, <2>1, <2>2 DEF MigrateTypeOK, KeysSurvive, Same, Migrating, Fatal
  <2>6. VersionsAreApplied'
    <3>1. NextVersion' = v
      BY <2>4 DEF v
    <3> QED
      BY <1>0, <1>1, <2>1, <2>2, <2>3, <3>1 DEF VersionsAreApplied, Same, Adopting
  <2>7. RebuildIsExact' /\ LoopIsExact'
    BY <1>0, <1>1, <2>1, <2>2 DEF RebuildIsExact, LoopIsExact
  <2>8. NormalFirst' /\ ColumnsFirst'
    BY <1>0, <1>1, <1>3, <2>1, <2>2 DEF NormalFirst, Normal, ColumnsFirst, Same, Adopting
  <2> QED
    BY <2>5, <2>6, <2>7, <2>8 DEF MigrateInv
<1>5. CASE RecordVersion
  <2>1. /\ mpc = "note" /\ mpc' = (IF Missing = {v} THEN "open" ELSE "apply")
        /\ db' = [db EXCEPT !.versions = @ \cup {v}] /\ v \in db.objects
    BY <1>0, <1>5 DEF RecordVersion, VersionsAreApplied
  <2>2. db' \in Database /\ Same(db', db, {"versions"}) /\ db'.versions = db.versions \cup {v}
    BY <1>0, <1>2, <2>1 DEF Database, Same
  <2>3. Missing' = Missing \ {v}
    BY <2>2 DEF Missing
  <2> HIDE DEF v
  <2>4. MigrateTypeOK' /\ KeysSurvive'
    BY <1>0, <1>1, <2>1, <2>2 DEF MigrateTypeOK, KeysSurvive, Same, Migrating, Fatal
  <2>5. VersionsAreApplied'
    BY <1>0, <1>1, <1>2, <2>1, <2>2, <2>3 DEF VersionsAreApplied, Same, Adopting
  <2>6. RebuildIsExact' /\ LoopIsExact'
    BY <1>0, <1>1, <2>1, <2>2 DEF RebuildIsExact, LoopIsExact
  <2>7. NormalFirst' /\ ColumnsFirst'
    BY <1>0, <1>1, <2>1, <2>2 DEF NormalFirst, Normal, ColumnsFirst, Same
  <2> QED
    BY <2>4, <2>5, <2>6, <2>7 DEF MigrateInv
<1> QED
  BY <1>4, <1>5

\* Every step of migrate keeps its invariant.
LEMMA MigrateStepInv == MigrateInv /\ MigrateStep => MigrateInv'
  BY ReadingInv, AdoptingInv, HashingInv, VersionsInv, DisconnectInv DEF MigrateStep, MigrateFails

\* At "open" the invariant says what Adopted promises.
LEMMA AdoptedFromInv == MigrateInv => Adopted
<1> SUFFICES ASSUME MigrateInv, mpc = "open"
             PROVE  /\ db.versions = Version /\ db.objects = Version
                    /\ "exists" \in ignored \/ (~db.unique /\ db.plain = {} /\ db.hashed = had)
                    /\ ignored \cap {"exists", "alter"} # {} \/ db.columns
                    /\ "restore" \in ignored \/ fk
    BY DEF Adopted
<1>0. /\ MigrateTypeOK /\ KeysSurvive /\ VersionsAreApplied /\ RebuildIsExact
      /\ NormalFirst /\ ColumnsFirst
  BY DEF MigrateInv
<1>1. db.versions \subseteq Version /\ db.objects \subseteq Version
  BY <1>0 DEF MigrateTypeOK, Database
<1>2. db.versions = Version /\ db.objects = Version
  BY <1>0, <1>1 DEF VersionsAreApplied, Missing
<1>3. "exists" \in ignored \/ (~db.unique /\ db.plain = {} /\ db.hashed = had)
  BY <1>0, <1>2 DEF NormalFirst, Normal, KeysSurvive
<1>4. ignored \cap {"exists", "alter"} # {} \/ db.columns
  BY <1>0 DEF ColumnsFirst
<1>5. "restore" \in ignored \/ fk
  BY <1>0 DEF RebuildIsExact
<1> QED
  BY <1>2, <1>3, <1>4, <1>5

-----------------------------------------------------------------------------
(***************************************************************************)
(* run() and its parts.                                                    *)
(***************************************************************************)
IPC == {"idle", "resolve", "rps", "read", "bytes", "stamp", "proxy", "record", "done"}

RequestTypes == /\ ipc \in [Request -> IPC] /\ out \in [Request -> Outcome]
                /\ status \in [Request -> Usage!Status]

PartTypes == /\ stage \in Stage /\ launched \in SUBSET Part /\ listening \in SUBSET Listener
             /\ busy \in SUBSET (Listener \ {"proxy"})
             /\ cancelled \in BOOLEAN /\ expired \in BOOLEAN /\ failed \in BOOLEAN
             /\ unsaved \in BOOLEAN

LEMMA TypeParts == TypeOK <=> MigrateTypeOK /\ RequestTypes /\ PartTypes
  BY DEF TypeOK, RequestTypes, PartTypes, IPC

\* The parts of the invariant, put together again after a step.
LEMMA Recompose ==
    ASSUME MigrateInv', RequestTypes', PartTypes', StagesAgree', PartsAreLaunched', DownInOrder',
           RequestsAreRecorded'
    PROVE  ProcessInv'
<1>1. MigrateTypeOK'
  BY DEF MigrateInv
<1>2. TypeOK'
  BY <1>1 DEF TypeOK, RequestTypes, PartTypes, IPC
<1> QED
  BY <1>2 DEF ProcessInv

LEMMA MigrateKept == MigrateInv /\ UNCHANGED mvars => MigrateInv'
<1> SUFFICES ASSUME MigrateInv, UNCHANGED mvars PROVE MigrateInv'
    OBVIOUS
<1>1. UNCHANGED <<had, db, tx, fk, mpc, todo, cur, ignored>>
  BY DEF mvars
<1>2. MigrateTypeOK' /\ KeysSurvive' /\ RebuildIsExact' /\ LoopIsExact'
  BY <1>1 DEF MigrateInv, MigrateTypeOK, KeysSurvive, RebuildIsExact, LoopIsExact
<1>3. NormalFirst' /\ ColumnsFirst'
  BY <1>1 DEF MigrateInv, NormalFirst, Normal, ColumnsFirst
<1>4. VersionsAreApplied'
  BY <1>1 DEF MigrateInv, VersionsAreApplied, Missing, NextVersion
<1> QED
  BY <1>2, <1>3, <1>4 DEF MigrateInv

LEMMA RequestsKept ==
    ASSUME RequestTypes, UNCHANGED ivars PROVE RequestTypes' /\ Running' = Running
  BY DEF RequestTypes, ivars, Running

\* Start and shutdown: the steps of run() that touch neither store nor requests.
LEMMA RunInv ==
    ASSUME ProcessInv, UNCHANGED <<mvars, ivars>>,
           \/ Launch \/ LaunchFails \/ StartSyslog \/ StartRenewal \/ StartFails
           \/ Signal \/ CloseProxy \/ DrainProxy \/ CloseAdmin \/ DrainAdmin
           \/ Deadline \/ Join
    PROVE  ProcessInv'
<1>0. /\ MigrateInv /\ RequestTypes /\ PartTypes /\ StagesAgree /\ PartsAreLaunched
      /\ DownInOrder /\ RequestsAreRecorded
  BY TypeParts DEF ProcessInv
<1>1. MigrateInv' /\ RequestTypes' /\ Running' = Running /\ UNCHANGED <<mpc, ipc, sent, out, status>>
  BY <1>0, MigrateKept, RequestsKept DEF mvars, ivars
<1>2. RequestsAreRecorded'
  <2>1. stage' # "exit"
    BY DEF Launch, LaunchFails, StartSyslog, StartRenewal, StartOptional, StartFails, Signal,
       CloseProxy, CloseAdmin, CloseServer, DrainProxy, DrainAdmin, Deadline, Join, At
  <2> QED
    BY <1>0, <1>1, <2>1 DEF RequestsAreRecorded
<1>3. CASE Launch \/ LaunchFails
  <2>1. /\ mpc = "open" /\ stage = "idle"
        /\ UNCHANGED <<listening, busy, cancelled, expired, failed, unsaved>>
        /\ \/ stage' = "syslog" /\ launched' = {"cleanup", "proxy", "admin"}
           \/ stage' = "close" /\ launched' = launched
    BY <1>3 DEF Launch, LaunchFails, At
  <2>2. PartTypes'
    BY <1>0, <2>1 DEF PartTypes, Stage, Part
  <2>3. StagesAgree' /\ PartsAreLaunched'
    BY <1>0, <1>1, <2>1 DEF StagesAgree, PartsAreLaunched
  <2>4. DownInOrder'
    BY <1>0, <1>1, <2>1 DEF DownInOrder, StagesAgree, PartsAreLaunched, ShutDown
  <2> QED
    BY <1>1, <1>2, <2>2, <2>3, <2>4, Recompose
<1>4. CASE StartSyslog \/ StartRenewal \/ StartFails
  <2>1. /\ stage \in {"syslog", "renewal"} /\ stage' \in {"renewal", "serving", "close"}
        /\ UNCHANGED <<listening, busy, expired, unsaved>> /\ launched \subseteq launched'
        /\ launched' \subseteq launched \cup {"syslog", "renewal"}
        /\ cancelled' \in BOOLEAN /\ failed' \in BOOLEAN
        /\ (cancelled => cancelled') /\ (failed => failed')
        /\ stage' = "close" => failed'
    BY <1>0, <1>4 DEF PartTypes, StartSyslog, StartRenewal, StartOptional, StartFails, At
  <2>2. PartTypes'
    BY <1>0, <2>1 DEF PartTypes, Stage, Part, Listener
  <2>3. StagesAgree' /\ PartsAreLaunched'
    BY <1>0, <1>1, <2>1 DEF StagesAgree, PartsAreLaunched
  <2>4. DownInOrder'
    BY <1>0, <2>1 DEF DownInOrder, ShutDown
  <2> QED
    BY <1>1, <1>2, <2>2, <2>3, <2>4, Recompose
<1>5. CASE Signal \/ CloseProxy \/ CloseAdmin
  <2>1. /\ \/ stage = "serving" /\ stage' = "proxy" /\ listening' = listening
           \/ stage = "proxy" /\ stage' = "drainProxy" /\ listening' = listening \ {"proxy"}
           \/ stage = "admin" /\ stage' = "drainAdmin" /\ listening' = listening \ {"admin"}
        /\ UNCHANGED <<launched, busy, expired, failed, unsaved>>
        /\ cancelled' \in BOOLEAN /\ (cancelled => cancelled')
    BY <1>0, <1>5 DEF PartTypes, Signal, CloseProxy, CloseAdmin, CloseServer, At
  <2>2. PartTypes'
    BY <1>0, <2>1 DEF PartTypes, Stage
  <2>3. StagesAgree' /\ PartsAreLaunched'
    BY <1>0, <1>1, <2>1 DEF StagesAgree, PartsAreLaunched
  <2>4. DownInOrder'
    BY <1>0, <1>1, <2>1 DEF DownInOrder, ShutDown
  <2> QED
    BY <1>1, <1>2, <2>2, <2>3, <2>4, Recompose
<1>6. CASE DrainProxy \/ DrainAdmin \/ Join
  <2>1. /\ \/ stage = "drainProxy" /\ stage' = "admin" /\ (expired \/ Running = {})
           \/ stage = "drainAdmin" /\ stage' = "join" /\ (expired \/ "admin" \notin busy)
           \/ stage = "join" /\ stage' = "close" /\ launched = {}
        /\ UNCHANGED <<launched, listening, busy, cancelled, expired, failed, unsaved>>
    BY <1>6 DEF DrainProxy, DrainAdmin, Join, Drained, At
  <2>2. PartTypes'
    BY <1>0, <2>1 DEF PartTypes, Stage
  <2>3. StagesAgree' /\ PartsAreLaunched'
    BY <1>0, <1>1, <2>1 DEF StagesAgree, PartsAreLaunched
  <2>4. DownInOrder'
    BY <1>0, <1>1, <2>1 DEF DownInOrder, ShutDown
  <2> QED
    BY <1>1, <1>2, <2>2, <2>3, <2>4, Recompose
<1>7. CASE Deadline
  <2>1. /\ expired' = TRUE
        /\ UNCHANGED <<stage, launched, listening, busy, cancelled, failed, unsaved>>
    BY <1>7 DEF Deadline
  <2>2. PartTypes' /\ StagesAgree' /\ PartsAreLaunched'
    BY <1>0, <1>1, <2>1 DEF PartTypes, StagesAgree, PartsAreLaunched
  <2>3. DownInOrder'
    BY <1>0, <1>1, <2>1 DEF DownInOrder, ShutDown
  <2> QED
    BY <1>1, <1>2, <2>2, <2>3, Recompose
<1> QED
  BY <1>3, <1>4, <1>5, <1>6, <1>7

\* The parts' goroutines and the handlers of all but the proxy.
LEMMA PartInv ==
    ASSUME ProcessInv, NEW p \in Part,
           \/ Bind(p) \/ BindFails(p) \/ CloseListener(p) \/ EndPart(p)
           \/ AcceptOther(p) \/ FinishOther(p)
    PROVE  ProcessInv'
<1>0. /\ MigrateInv /\ RequestTypes /\ PartTypes /\ StagesAgree /\ PartsAreLaunched
      /\ DownInOrder /\ RequestsAreRecorded
  BY TypeParts DEF ProcessInv
<1>1. UNCHANGED <<mvars, ivars, stage, cancelled, expired, failed, unsaved>>
  BY DEF Bind, BindFails, CloseListener, EndPart, AcceptOther, FinishOther
<1>2. /\ MigrateInv' /\ RequestTypes' /\ Running' = Running
      /\ UNCHANGED <<mpc, ipc, sent, out, status>>
  BY <1>0, <1>1, MigrateKept, RequestsKept DEF mvars, ivars
<1>3. RequestsAreRecorded'
  BY <1>0, <1>1, <1>2 DEF RequestsAreRecorded
<1>4. CASE Bind(p)
  <2>1. /\ p \in launched \cap Listener /\ (p \in {"proxy", "admin"} => ~ShutDown(p))
        /\ listening' = listening \cup {p} /\ UNCHANGED <<launched, busy>>
    BY <1>4 DEF Bind, Closed
  <2>2. PartTypes' /\ StagesAgree' /\ PartsAreLaunched'
    BY <1>0, <1>1, <1>2, <2>1 DEF PartTypes, StagesAgree, PartsAreLaunched
  <2>3. DownInOrder'
    BY <1>0, <1>1, <1>2, <2>1 DEF DownInOrder, ShutDown
  <2> QED
    BY <1>2, <1>3, <2>2, <2>3, Recompose
<1>5. CASE BindFails(p) \/ EndPart(p)
  <2>1. /\ p \notin listening /\ (p = "syslog" => ~cancelled \/ "syslog" \notin busy)
        /\ launched' = launched \ {p} /\ UNCHANGED <<listening, busy>>
    BY <1>5 DEF BindFails, EndPart, Closed, Joins
  <2>2. PartTypes' /\ StagesAgree' /\ PartsAreLaunched'
    BY <1>0, <1>1, <1>2, <2>1 DEF PartTypes, StagesAgree, PartsAreLaunched
  <2>3. DownInOrder'
    BY <1>0, <1>1, <1>2, <2>1 DEF DownInOrder, ShutDown
  <2> QED
    BY <1>2, <1>3, <2>2, <2>3, Recompose
<1>6. CASE CloseListener(p)
  <2>1. cancelled /\ listening' = listening \ {p} /\ UNCHANGED <<launched, busy>>
    BY <1>6 DEF CloseListener
  <2>2. PartTypes' /\ StagesAgree' /\ PartsAreLaunched'
    BY <1>0, <1>1, <1>2, <2>1 DEF PartTypes, StagesAgree, PartsAreLaunched
  <2>3. DownInOrder'
    BY <1>0, <1>1, <1>2, <2>1 DEF DownInOrder, ShutDown
  <2> QED
    BY <1>2, <1>3, <2>2, <2>3, Recompose
<1>7. CASE AcceptOther(p)
  <2>1. p \in listening \ {"proxy"} /\ busy' = busy \cup {p} /\ UNCHANGED <<launched, listening>>
    BY <1>7 DEF AcceptOther
  <2>2. p \in launched
    BY <1>0, <2>1 DEF PartsAreLaunched
  <2>3. PartTypes' /\ StagesAgree' /\ PartsAreLaunched'
    BY <1>0, <1>1, <1>2, <2>1, <2>2 DEF PartTypes, StagesAgree, PartsAreLaunched
  <2>4. DownInOrder'
    BY <1>0, <1>1, <1>2, <2>1, <2>2 DEF DownInOrder, ShutDown
  <2> QED
    BY <1>2, <1>3, <2>3, <2>4, Recompose
<1>8. CASE FinishOther(p)
  <2>1. busy' = busy \ {p} /\ UNCHANGED <<launched, listening>>
    BY <1>8 DEF FinishOther
  <2>2. PartTypes' /\ StagesAgree' /\ PartsAreLaunched'
    BY <1>0, <1>1, <1>2, <2>1 DEF PartTypes, StagesAgree, PartsAreLaunched
  <2>3. DownInOrder'
    BY <1>0, <1>1, <1>2, <2>1 DEF DownInOrder, ShutDown
  <2> QED
    BY <1>2, <1>3, <2>2, <2>3, Recompose
<1> QED
  BY <1>4, <1>5, <1>6, <1>7, <1>8

\* A step of request r leaves the others alone; it lets r in, or takes it on.
Quiet(r) == \A q \in Request \ {r} : /\ ipc'[q] = ipc[q] /\ sent'[q] = sent[q]
                                     /\ out'[q] = out[q] /\ status'[q] = status[q]
Enters(r) == ipc[r] = "idle" /\ ipc'[r] = "resolve" /\ UNCHANGED <<sent, out, status>>
Proceeds(r) ==
    /\ r \in Running
    /\ \/ ipc[r] \notin {"proxy", "record"} /\ sent'[r] = sent[r]
       \/ ipc'[r] \in {"proxy", "record"}
       \/ ipc'[r] = "done" /\ (out'[r] = "aborted" \/ status'[r] \in {"pending", "dropped"})

LEMMA ReceiveStep ==
    ASSUME RequestTypes, NEW r \in Request, Receive(r)
    PROVE  RequestTypes' /\ Quiet(r) /\ Enters(r)
<1>1. ipc[r] = "idle" /\ ipc' = [ipc EXCEPT ![r] = "resolve"] /\ UNCHANGED <<sent, out, status>>
  BY DEF Receive, IGoto
<1> QED
  BY <1>1 DEF RequestTypes, IPC, Quiet, Enters

LEMMA RequestStep ==
    ASSUME RequestTypes, NEW r \in Request, IngestStep(r)
    PROVE  RequestTypes' /\ Quiet(r) /\ Proceeds(r)
<1> USE DEF IGoto
<1>0. /\ ipc \in [Request -> IPC] /\ out \in [Request -> Outcome]
      /\ status \in [Request -> Usage!Status]
  BY DEF RequestTypes
<1>1. CASE ResolveTenant(r) \/ AllowRPS(r) \/ ReadBody(r) \/ AllowBytes(r)
  <2>1. PICK x \in {"rps", "read", "bytes", "stamp"} : ipc' = [ipc EXCEPT ![r] = x]
    BY <1>1 DEF ResolveTenant, AllowRPS, ReadBody, AllowBytes, Pass
  <2>2. /\ ipc[r] \in {"resolve", "rps", "read", "bytes"} /\ UNCHANGED <<sent, out, status>>
    BY <1>1 DEF ResolveTenant, AllowRPS, ReadBody, AllowBytes, Pass
  <2> QED
    BY <1>0, <2>1, <2>2 DEF RequestTypes, IPC, Quiet, Proceeds, Running
<1>2. CASE Refuse(r)
  <2>1. /\ ipc[r] \in {"resolve", "rps", "read", "bytes", "stamp"} /\ UNCHANGED <<sent, status>>
        /\ ipc' = [ipc EXCEPT ![r] = "done"] /\ out' = [out EXCEPT ![r] = "refused"]
    BY <1>2 DEF Refuse
  <2> QED
    BY <1>0, <2>1 DEF RequestTypes, IPC, Outcome, Quiet, Proceeds, Running
<1>3. CASE StampTenantIdentity(r)
  <2>1. PICK x : sent' = [sent EXCEPT ![r] = x]
    BY <1>3 DEF StampTenantIdentity
  <2>2. /\ ipc[r] = "stamp" /\ UNCHANGED <<out, status>> /\ ipc' = [ipc EXCEPT ![r] = "proxy"]
    BY <1>3 DEF StampTenantIdentity
  <2> QED
    BY <1>0, <2>1, <2>2 DEF RequestTypes, IPC, Quiet, Proceeds, Running
<1>4. CASE Forward(r) \/ AbortResponse(r)
  <2>1. /\ ipc[r] = "proxy" /\ UNCHANGED <<sent, status>>
        /\ \/ /\ ipc' = [ipc EXCEPT ![r] = "record"]
              /\ out' = [out EXCEPT ![r] = "answered"]
           \/ /\ ipc' = [ipc EXCEPT ![r] = "done"]
              /\ out' = [out EXCEPT ![r] = "aborted"]
    BY <1>4 DEF Forward, AbortResponse
  <2> QED
    BY <1>0, <2>1 DEF RequestTypes, IPC, Outcome, Quiet, Proceeds, Running
<1>5. CASE RecordUsage(r)
  <2>1. PICK x \in {"pending", "dropped"} :
          status' = [q \in Request |-> IF q \in {r} THEN x ELSE status[q]]
    BY <1>5 DEF RecordUsage, Usage!Accept, Usage!Drop, Usage!Move
  <2>2. ipc[r] = "record" /\ UNCHANGED <<sent, out>> /\ ipc' = [ipc EXCEPT ![r] = "done"]
    BY <1>5 DEF RecordUsage
  <2> QED
    BY <1>0, <2>1, <2>2 DEF RequestTypes, IPC, Usage!Status, Quiet, Proceeds, Running
<1> QED
  BY <1>1, <1>2, <1>3, <1>4, <1>5 DEF IngestStep

\* The requests of the proxy: they come in while it listens, and go on without it.
LEMMA ProxyInv ==
    ASSUME ProcessInv, NEW r \in Request, AcceptRequest(r) \/ HandleRequest(r)
    PROVE  ProcessInv'
<1>0. /\ MigrateInv /\ RequestTypes /\ PartTypes /\ StagesAgree /\ PartsAreLaunched
      /\ DownInOrder /\ RequestsAreRecorded
  BY TypeParts DEF ProcessInv
<1>1. /\ UNCHANGED <<mvars, mpc, stage, launched, listening, busy, cancelled, expired, failed>>
      /\ UNCHANGED unsaved
      /\ MigrateInv'
  BY <1>0, MigrateKept DEF AcceptRequest, HandleRequest, pvars, mvars
<1>2. PartTypes' /\ PartsAreLaunched'
  BY <1>0, <1>1 DEF PartTypes, PartsAreLaunched
<1>3. CASE AcceptRequest(r)
  <2>1. RequestTypes' /\ Quiet(r) /\ Enters(r) /\ "proxy" \in listening
    BY <1>0, <1>3, ReceiveStep DEF AcceptRequest
  <2>2. stage # "idle" /\ (failed \/ stage \notin {"admin", "drainAdmin", "join", "close", "exit"})
    BY <1>0, <2>1 DEF StagesAgree, PartsAreLaunched, DownInOrder, ShutDown
  <2>3. StagesAgree'
    BY <1>0, <1>1, <2>2 DEF StagesAgree
  <2>4. DownInOrder'
    BY <1>0, <1>1, <2>2 DEF DownInOrder, ShutDown
  <2>5. RequestsAreRecorded'
    BY <1>0, <1>1, <2>1 DEF RequestsAreRecorded, Quiet, Enters
  <2> QED
    BY <1>1, <1>2, <2>1, <2>3, <2>4, <2>5, Recompose
<1>4. CASE HandleRequest(r)
  <2>1. RequestTypes' /\ Quiet(r) /\ Proceeds(r)
    BY <1>0, <1>4, RequestStep DEF HandleRequest
  <2>2. Running # {} /\ Running' \subseteq Running
    BY <2>1 DEF Quiet, Proceeds, Running
  <2>3. StagesAgree'
    BY <1>0, <1>1, <2>2 DEF StagesAgree
  <2>4. DownInOrder'
    BY <1>0, <1>1, <2>2 DEF DownInOrder, ShutDown
  <2>5. ~(stage = "exit" /\ ~failed /\ ~expired)
    BY <1>0, <2>2 DEF DownInOrder
  <2>6. RequestsAreRecorded'
    <3> SUFFICES ASSUME NEW q \in Request
                 PROVE  /\ ipc'[q] \notin {"proxy", "record", "done"} => sent'[q] = {}
                        /\ ipc'[q] = "done" /\ sent'[q] # {} =>
                             \/ status'[q] \in {"pending", "counted", "dropped", "lost"}
                             \/ out'[q] \in {"aborted", "killed"}
      BY <1>1, <2>5 DEF RequestsAreRecorded
    <3>1. CASE q # r
      BY <1>0, <2>1, <3>1 DEF RequestsAreRecorded, Quiet
    <3>2. CASE q = r
      BY <1>0, <2>1, <3>2 DEF RequestsAreRecorded, Proceeds, Running
    <3> QED
      BY <3>1, <3>2
  <2> QED
    BY <1>1, <1>2, <2>1, <2>3, <2>4, <2>6, Recompose
<1> QED
  BY <1>3, <1>4

\* What the writer does to the samples: counted all, or lost.
LEMMA MovePending ==
    ASSUME RequestTypes, NEW x \in {"counted", "lost"}, Usage!Move(Usage!Having("pending"), x)
    PROVE  /\ status' \in [Request -> Usage!Status]
           /\ \A q \in Request : status'[q] # "pending" /\ status'[q] \in {status[q], x}
  BY DEF RequestTypes, Usage!Move, Usage!Having, Usage!Status

\* The writer's flush while the process runs.
LEMMA FlushInv == ProcessInv /\ Flush => ProcessInv'
<1> SUFFICES ASSUME ProcessInv, Flush PROVE ProcessInv'
    OBVIOUS
<1>0. /\ MigrateInv /\ RequestTypes /\ PartTypes /\ StagesAgree /\ PartsAreLaunched
      /\ DownInOrder /\ RequestsAreRecorded
  BY TypeParts DEF ProcessInv
<1>1. /\ UNCHANGED <<mvars, mpc, ipc, sent, out>>
      /\ UNCHANGED <<stage, launched, listening, busy, cancelled, expired, failed, unsaved>>
      /\ Usage!Move(Usage!Having("pending"), "counted")
  BY DEF Flush, mvars, pvars, Usage!Post
<1>2. /\ status' \in [Request -> Usage!Status]
      /\ \A q \in Request : status'[q] # "pending" /\ status'[q] \in {status[q], "counted"}
  BY <1>0, <1>1, MovePending
<1>3. MigrateInv' /\ RequestTypes' /\ Running' = Running
  BY <1>0, <1>1, <1>2, MigrateKept DEF RequestTypes, Running
<1>4. PartTypes' /\ PartsAreLaunched' /\ StagesAgree'
  BY <1>0, <1>1, <1>3 DEF PartTypes, PartsAreLaunched, StagesAgree
<1>5. DownInOrder'
  BY <1>0, <1>1, <1>3 DEF DownInOrder, ShutDown
<1>6. RequestsAreRecorded'
  BY <1>0, <1>1, <1>2 DEF RequestsAreRecorded
<1> QED
  BY <1>3, <1>4, <1>5, <1>6, Recompose

\* The store closes: what was pending is counted, or its loss is on record.
LEMMA CloseInv == ProcessInv /\ CloseStore => ProcessInv'
<1> SUFFICES ASSUME ProcessInv, CloseStore PROVE ProcessInv'
    OBVIOUS
<1>0. /\ MigrateInv /\ RequestTypes /\ PartTypes /\ StagesAgree /\ PartsAreLaunched
      /\ DownInOrder /\ RequestsAreRecorded
  BY TypeParts DEF ProcessInv
<1>1. /\ stage = "close" /\ stage' = "exit" /\ mpc' = "closed"
      /\ UNCHANGED <<had, db, tx, fk, todo, cur, ignored, ipc, sent, out>>
      /\ UNCHANGED <<launched, listening, busy, cancelled, expired, failed>>
      /\ \/ Usage!Move(Usage!Having("pending"), "counted") /\ unsaved' = unsaved
         \/ status' = status /\ unsaved' = TRUE
  BY DEF CloseStore, At, MGoto, Usage!Post
<1>2. mpc = "open"
  BY <1>0, <1>1 DEF StagesAgree
<1>3. MigrateInv'
  <2>1. MigrateTypeOK' /\ KeysSurvive'
    BY <1>0, <1>1 DEF MigrateInv, MigrateTypeOK, KeysSurvive
  <2>2. VersionsAreApplied' /\ RebuildIsExact' /\ LoopIsExact'
    BY <1>0, <1>1, <1>2 DEF MigrateInv, VersionsAreApplied, RebuildIsExact, LoopIsExact, Adopting
  <2>3. NormalFirst' /\ ColumnsFirst'
    BY <1>0, <1>1, <1>2 DEF MigrateInv, NormalFirst, Normal, ColumnsFirst, Adopting
  <2> QED
    BY <2>1, <2>2, <2>3 DEF MigrateInv
<1>4. /\ status' \in [Request -> Usage!Status] /\ unsaved' \in BOOLEAN
      /\ \A q \in Request : status'[q] \in {status[q], "counted"}
      /\ unsaved' \/ \A q \in Request : status'[q] # "pending"
  <2>1. CASE Usage!Move(Usage!Having("pending"), "counted") /\ unsaved' = unsaved
    BY <1>0, <2>1, MovePending DEF PartTypes
  <2>2. CASE status' = status /\ unsaved' = TRUE
    BY <1>0, <2>2 DEF RequestTypes
  <2> QED
    BY <1>1, <2>1, <2>2
<1>5. RequestTypes' /\ Running' = Running
  BY <1>0, <1>1, <1>4 DEF RequestTypes, Running
<1>6. PartTypes' /\ PartsAreLaunched' /\ StagesAgree'
  BY <1>0, <1>1, <1>4, <1>5 DEF PartTypes, PartsAreLaunched, StagesAgree, Stage
<1>7. DownInOrder'
  BY <1>0, <1>1, <1>5 DEF DownInOrder, ShutDown
<1>8. RequestsAreRecorded'
  BY <1>0, <1>1, <1>4 DEF RequestsAreRecorded
<1> QED
  BY <1>3, <1>5, <1>6, <1>7, <1>8, Recompose

\* The process dies, in order or not.
LEMMA DieInv == ProcessInv /\ Die => ProcessInv'
<1> SUFFICES ASSUME ProcessInv, Die PROVE ProcessInv'
    OBVIOUS
<1>0. MigrateInv /\ RequestTypes /\ RequestsAreRecorded
  BY TypeParts DEF ProcessInv
<1>1. /\ stage' = "idle" /\ launched' = {} /\ listening' = {} /\ busy' = {}
      /\ cancelled' = FALSE /\ expired' = FALSE /\ failed' = FALSE /\ unsaved' = FALSE
      /\ mpc' = "down" /\ MigrateInv' /\ sent' = sent
      /\ ipc' = [r \in Request |-> IF r \in Running THEN "done" ELSE ipc[r]]
      /\ out' = [r \in Request |-> IF r \in Running THEN "killed" ELSE out[r]]
      /\ Usage!Move(Usage!Having("pending"), "lost")
  BY <1>0, DisconnectInv DEF Die, Disconnect, MGoto, Usage!Lose
<1>2. /\ status' \in [Request -> Usage!Status]
      /\ \A q \in Request : status'[q] # "pending" /\ status'[q] \in {status[q], "lost"}
  BY <1>0, <1>1, MovePending
<1>3. RequestTypes'
  BY <1>0, <1>1, <1>2 DEF RequestTypes, IPC, Outcome
<1>4. Running' = {}
  BY <1>0, <1>1 DEF Running, RequestTypes
<1>5. PartTypes' /\ PartsAreLaunched' /\ StagesAgree'
  BY <1>1, <1>4 DEF PartTypes, PartsAreLaunched, StagesAgree, Stage
<1>6. DownInOrder'
  BY <1>1 DEF DownInOrder, ShutDown
<1>7. RequestsAreRecorded'
  <2> SUFFICES ASSUME NEW q \in Request
               PROVE  /\ ipc'[q] \notin {"proxy", "record", "done"} => sent'[q] = {}
                      /\ ipc'[q] = "done" /\ sent'[q] # {} =>
                           \/ status'[q] \in {"pending", "counted", "dropped", "lost"}
                           \/ out'[q] \in {"aborted", "killed"}
    BY <1>1 DEF RequestsAreRecorded
  <2>1. CASE q \in Running
    BY <1>1, <2>1
  <2>2. CASE q \notin Running
    BY <1>0, <1>1, <1>2, <2>2 DEF RequestsAreRecorded
  <2> QED
    BY <2>1, <2>2
<1> QED
  BY <1>1, <1>3, <1>5, <1>6, <1>7, Recompose

\* The store opens: nothing else is there yet.
LEMMA BootInv == ProcessInv /\ (Boot \/ Migration) => ProcessInv'
<1> SUFFICES ASSUME ProcessInv, Boot \/ Migration PROVE ProcessInv'
    OBVIOUS
<1>0. /\ MigrateInv /\ RequestTypes /\ PartTypes /\ StagesAgree /\ PartsAreLaunched
      /\ DownInOrder /\ RequestsAreRecorded
  BY TypeParts DEF ProcessInv
<1>1. MigrateInv' /\ UNCHANGED ivars
      /\ UNCHANGED <<stage, launched, listening, busy, cancelled, expired, failed, unsaved>>
  BY <1>0, ReadingInv, MigrateStepInv DEF Boot, Migration, pvars
<1>2. RequestTypes' /\ Running' = Running /\ UNCHANGED <<ipc, sent, out, status>>
  BY <1>0, <1>1, RequestsKept DEF ivars
<1>3. mpc \notin {"open", "closed"} /\ mpc' # "closed"
  BY DEF Boot, Migration, OpenDatabase, MigrateStep, MigrateFails, Disconnect, MGoto, Fatal,
     CreateLedger, LoadAppliedVersions, TablesExist, ApplyBaseline, AddColumns, InspectTenants,
     DisableForeignKeys, BeginRebuild, RebuildTenants, RebuildFails, CommitRebuild,
     RestoreForeignKeys, SelectPlaintextKeys, InsertHashedKey, BlankPlaintextKey, RecordBaseline,
     ReloadVersions, ApplyMigration, RecordVersion
<1>4. PartTypes' /\ PartsAreLaunched' /\ StagesAgree'
  BY <1>0, <1>1, <1>2, <1>3 DEF PartTypes, PartsAreLaunched, StagesAgree
<1>5. DownInOrder'
  BY <1>0, <1>1, <1>2 DEF DownInOrder, ShutDown
<1>6. RequestsAreRecorded'
  BY <1>0, <1>1, <1>2 DEF RequestsAreRecorded
<1> QED
  BY <1>1, <1>2, <1>4, <1>5, <1>6, Recompose

-----------------------------------------------------------------------------
(***************************************************************************)
(* Stamping.  What the loop of stampSingleResource leaves is found by      *)
(* induction over the attributes: Climb states it for a set of positions,  *)
(* since the library's induction takes a set where the others take an      *)
(* operator.                                                               *)
(***************************************************************************)
\* The order of the numbers, as a relation.
Less == {ss \in Nat \X Nat : ss[1] < ss[2]}

\* A set of numbers has a least one.
LEMMA LeastNumber ==
    ASSUME NEW T, T \subseteq Nat, T # {}
    PROVE  \E x \in T : \A y \in T : x <= y
<1>1. IsWellFoundedOn(Less, Nat)
  BY NatLessThanWellFounded DEF OpToRel, Less
<1>2. PICK x \in T : \A y \in T : ~(<<y, x>> \in Less)
  BY <1>1, WFMin
<1>3. \A y \in T : y \in Nat /\ x \in Nat /\ ~(y < x)
  BY <1>2 DEF Less
<1>4. \A y \in T : x <= y
  BY <1>3
<1> QED
  BY <1>4

\* Induction over an interval, for a set.
LEMMA Climb ==
    ASSUME NEW n \in Nat, NEW T, 0 \in T, \A i \in 1 .. n : i - 1 \in T => i \in T
    PROVE  \A i \in 0 .. n : i \in T
<1> DEFINE U == {i \in 0 .. n : i \notin T}
<1> SUFFICES ASSUME U # {} PROVE FALSE
  OBVIOUS
<1>0. U \subseteq Nat
  OBVIOUS
<1>1. \E x \in U : \A y \in U : x <= y
  <2> HIDE DEF U
  <2> QED
    BY <1>0, LeastNumber
<1>2. PICK x \in U : \A y \in U : x <= y
  BY <1>1
<1>3. x \in 1 .. n /\ x - 1 \in 0 .. n
  BY <1>2
<1>4. x - 1 \notin U
  BY <1>2, <1>3
<1> QED
  BY <1>2, <1>3, <1>4

\* filtered, after each of the first k attributes.
FilteredUpto(f, attrs, k) ==
    /\ f[0] = <<>>
    /\ \A i \in 1 .. k : f[i] = IF attrs[i].key \in Reserved THEN f[i - 1]
                                ELSE Append(f[i - 1], attrs[i])

\* The loop of stampSingleResource runs to its end.
LEMMA LoopRuns ==
    ASSUME NEW X, NEW attrs \in Seq(X)
    PROVE  \E f \in [0 .. Len(attrs) -> Seq(X)] : FilteredUpto(f, attrs, Len(attrs))
<1> DEFINE n == Len(attrs)
           T == {k \in 0 .. n : \E f \in [0 .. n -> Seq(X)] : FilteredUpto(f, attrs, k)}
<1>0. n \in Nat
  OBVIOUS
<1>1. 0 \in T
  <2> DEFINE f == [i \in 0 .. n |-> <<>>]
  <2>0. <<>> \in Seq(X) /\ 0 \in 0 .. n /\ 1 .. 0 = {}
    <3>1. <<>> \in Seq(X)
      OBVIOUS
    <3>2. 0 \in 0 .. n
      BY <1>0
    <3>3. 1 .. 0 = {}
      OBVIOUS
    <3> QED
      BY <3>1, <3>2, <3>3
  <2>1. f \in [0 .. n -> Seq(X)] /\ f[0] = <<>>
    <3> HIDE DEF n
    <3> QED
      BY <2>0
  <2> HIDE DEF f, n
  <2>2. FilteredUpto(f, attrs, 0)
    BY <2>0, <2>1 DEF FilteredUpto
  <2> QED
    BY <2>0, <2>1, <2>2
<1>2. ASSUME NEW k \in 1 .. n, k - 1 \in T PROVE k \in T
  <2>1. PICK f \in [0 .. n -> Seq(X)] : FilteredUpto(f, attrs, k - 1)
    BY <1>2
  <2> DEFINE v == IF attrs[k].key \in Reserved THEN f[k - 1] ELSE Append(f[k - 1], attrs[k])
             h == [f EXCEPT ![k] = v]
  <2>2. k \in 0 .. n /\ k - 1 \in 0 .. n /\ f[k - 1] \in Seq(X) /\ attrs[k] \in X
    <3>1. attrs[k] \in X
      OBVIOUS
    <3> HIDE DEF n
    <3>2. k \in 0 .. n /\ k - 1 \in 0 .. n
      BY <1>0
    <3>3. f[k - 1] \in Seq(X)
      BY <3>2
    <3> QED
      BY <3>1, <3>2, <3>3
  <2>3. v \in Seq(X)
    BY <2>2
  <2> HIDE DEF v, n
  <2>4. h \in [0 .. n -> Seq(X)] /\ h[k] = v /\ \A i \in 0 .. n : i # k => h[i] = f[i]
    BY <2>2, <2>3
  <2> HIDE DEF h
  <2>5. h[0] = <<>> /\ h[k - 1] = f[k - 1]
    BY <1>0, <2>1, <2>2, <2>4 DEF FilteredUpto
  <2>6. ASSUME NEW i \in 1 .. k
        PROVE  h[i] = IF attrs[i].key \in Reserved THEN h[i - 1] ELSE Append(h[i - 1], attrs[i])
    <3>1. CASE i = k
      BY <2>4, <2>5, <3>1 DEF v
    <3>2. CASE i # k
      <4>1. i \in 1 .. k - 1 /\ i - 1 # k /\ i - 1 \in 0 .. n /\ i \in 0 .. n
        BY <1>0, <2>2, <3>2
      <4>2. h[i] = f[i] /\ h[i - 1] = f[i - 1]
        BY <2>4, <3>2, <4>1
      <4> QED
        BY <2>1, <4>1, <4>2 DEF FilteredUpto
    <3> QED
      BY <3>1, <3>2
  <2>7. FilteredUpto(h, attrs, k)
    BY <2>5, <2>6 DEF FilteredUpto
  <2> QED
    BY <2>2, <2>4, <2>7
<1>3. \A i \in 0 .. n : i \in T
  <2> HIDE DEF T, n
  <2> QED
    BY <1>0, <1>1, <1>2, Climb
<1>4. n \in T
  BY <1>0, <1>3
<1> QED
  BY <1>4

\* What is filtered is what the loop leaves.
LEMMA FilteredIsLoop ==
    ASSUME NEW X, NEW attrs \in Seq(X), NEW t
    PROVE  \E f \in [0 .. Len(attrs) -> Seq(X)] :
             /\ FilteredUpto(f, attrs, Len(attrs))
             /\ StampSingleResource(attrs, t) =
                  f[Len(attrs)]
                    \o <<[key |-> "tenant.id", val |-> t], [key |-> "tenant.name", val |-> t]>>
<1> DEFINE n == Len(attrs)
           Def(g) == [i \in 0 .. Len(attrs) |->
                        IF i = 0 THEN <<>>
                        ELSE IF attrs[i].key \in Reserved THEN g[i - 1]
                        ELSE Append(g[i - 1], attrs[i])]
           F == CHOOSE g : g = Def(g)
<1>1. n \in Nat
  OBVIOUS
<1>2. PICK g \in [0 .. n -> Seq(X)] : FilteredUpto(g, attrs, n)
  BY LoopRuns
<1>3. g = Def(g)
  <2>1. \A i \in 0 .. n : g[i] = Def(g)[i]
    <3> SUFFICES ASSUME NEW i \in 0 .. n PROVE g[i] = Def(g)[i]
      OBVIOUS
    <3>1. CASE i = 0
      BY <1>1, <1>2, <3>1 DEF FilteredUpto
    <3>2. CASE i # 0
      <4>1. i \in 1 .. n
        BY <1>1, <3>2
      <4> QED
        BY <1>1, <1>2, <4>1 DEF FilteredUpto
    <3> QED
      BY <3>1, <3>2
  <2>2. g = [i \in 0 .. n |-> g[i]] /\ Def(g) = [i \in 0 .. n |-> Def(g)[i]]
    OBVIOUS
  <2> HIDE DEF Def
  <2> QED
    BY <2>1, <2>2
<1>4. F = Def(F)
  <2> HIDE DEF Def
  <2> QED
    BY <1>3
<1>5. StampSingleResource(attrs, t) =
        F[n] \o <<[key |-> "tenant.id", val |-> t], [key |-> "tenant.name", val |-> t]>>
  BY DEF StampSingleResource
<1> HIDE DEF F
<1>6. FilteredUpto(F, attrs, n)
  <2>1. \A i \in 0 .. n : F[i] = Def(F)[i]
    <3> HIDE DEF Def
    <3> QED
      BY <1>4
  <2>2. F[0] = <<>>
    BY <2>1, <1>1
  <2>3. ASSUME NEW i \in 1 .. n
        PROVE  F[i] = IF attrs[i].key \in Reserved THEN F[i - 1] ELSE Append(F[i - 1], attrs[i])
    BY <2>1, <1>1, <2>3
  <2> QED
    BY <2>2, <2>3 DEF FilteredUpto
<1>7. F \in [0 .. n -> Seq(X)]
  <2> DEFINE T == {i \in 0 .. n : F[i] \in Seq(X)}
  <2>1. 0 \in T
    <3>1. F[0] = <<>> /\ 0 \in 0 .. n
      BY <1>1, <1>6 DEF FilteredUpto
    <3> QED
      BY <3>1
  <2>2. ASSUME NEW i \in 1 .. n, i - 1 \in T PROVE i \in T
    <3>1. F[i] = IF attrs[i].key \in Reserved THEN F[i - 1] ELSE Append(F[i - 1], attrs[i])
      BY <1>6, <2>2 DEF FilteredUpto
    <3>2. F[i - 1] \in Seq(X) /\ attrs[i] \in X /\ i \in 0 .. n
      BY <1>1, <2>2
    <3>3. F[i] \in Seq(X)
      BY <3>1, <3>2
    <3> QED
      BY <3>2, <3>3
  <2>3. \A i \in 0 .. n : i \in T
    <3> HIDE DEF T, n
    <3> QED
      BY <1>1, <2>1, <2>2, Climb
  <2>4. F = [i \in 0 .. n |-> F[i]]
    BY <1>4
  <2> QED
    BY <2>3, <2>4
<1> QED
  BY <1>5, <1>6, <1>7

\* The attributes that are kept, each at its place.
KeepsOrder(attrs, kept) ==
    LET Foreign == {j \in 1 .. Len(attrs) : attrs[j].key \notin Reserved}
    IN  \E place \in [Foreign -> 1 .. Len(kept)] :
          /\ \A j, k \in Foreign : j < k => place[j] < place[k]
          /\ \A m \in 1 .. Len(kept) : \E j \in Foreign : place[j] = m
          /\ \A j \in Foreign : kept[place[j]] = attrs[j]

\* The loop keeps the client's other attributes, and these in their order.
LEMMA LoopKeepsOrder ==
    ASSUME NEW X, NEW attrs \in Seq(X), NEW f \in [0 .. Len(attrs) -> Seq(X)],
           FilteredUpto(f, attrs, Len(attrs))
    PROVE  KeepsOrder(attrs, f[Len(attrs)])
<1> DEFINE n == Len(attrs)
           Upto(i) == {j \in 1 .. i : attrs[j].key \notin Reserved}
           Good(i, h) == /\ \A j, k \in Upto(i) : j < k => h[j] < h[k]
                         /\ \A m \in 1 .. Len(f[i]) : \E j \in Upto(i) : h[j] = m
                         /\ \A j \in Upto(i) : f[i][h[j]] = attrs[j]
           T == {i \in 0 .. n : \E h \in [Upto(i) -> 1 .. Len(f[i])] : Good(i, h)}
<1>1. n \in Nat
  OBVIOUS
<1>2. 0 \in T
  <2>1. Upto(0) = {} /\ Len(f[0]) = 0 /\ 1 .. Len(f[0]) = {}
    BY DEF FilteredUpto
  <2> DEFINE h == [j \in Upto(0) |-> 0]
  <2>2. h \in [Upto(0) -> 1 .. Len(f[0])] /\ Good(0, h)
    BY <2>1
  <2> QED
    BY <1>1, <2>2
<1>3. ASSUME NEW i \in 1 .. n, i - 1 \in T PROVE i \in T
  <2>1. PICK h \in [Upto(i - 1) -> 1 .. Len(f[i - 1])] : Good(i - 1, h)
    BY <1>3
  <2>0. i - 1 \in 0 .. n /\ i \in 0 .. n /\ i \in Nat
    <3> HIDE DEF n
    <3> QED
      BY <1>1
  <2>2. f[i - 1] \in Seq(X) /\ f[i] \in Seq(X) /\ attrs[i] \in X /\ Len(f[i - 1]) \in Nat
    BY <2>0
  <2>3. CASE attrs[i].key \in Reserved
    <3>1. Upto(i) = Upto(i - 1) /\ f[i] = f[i - 1]
      BY <2>0, <2>3 DEF FilteredUpto
    <3>2. h \in [Upto(i) -> 1 .. Len(f[i])] /\ Good(i, h)
      BY <2>1, <3>1
    <3> HIDE DEF Good, Upto
    <3> QED
      BY <2>0, <3>2
  <2>4. CASE attrs[i].key \notin Reserved
    <3> DEFINE l == Len(f[i - 1])
               g == [j \in Upto(i) |-> IF j = i THEN l + 1 ELSE h[j]]
    <3>1. /\ Upto(i) = Upto(i - 1) \cup {i} /\ i \notin Upto(i - 1)
          /\ \A j \in Upto(i - 1) : j < i /\ j \in Nat
      BY <2>0, <2>4
    <3>2. /\ Len(f[i]) = l + 1 /\ f[i][l + 1] = attrs[i]
          /\ \A m \in 1 .. l : f[i][m] = f[i - 1][m]
      <4>1. f[i] = Append(f[i - 1], attrs[i])
        BY <2>4 DEF FilteredUpto
      <4> QED
        BY <2>2, <4>1
    <3>3. \A j \in Upto(i - 1) : h[j] \in 1 .. l /\ g[j] = h[j]
      BY <3>1
    <3>4. g[i] = l + 1
      BY <3>1
    <3>5. g \in [Upto(i) -> 1 .. Len(f[i])]
      BY <2>2, <3>1, <3>2, <3>3
    <3> HIDE DEF g
    <3>6. ASSUME NEW j \in Upto(i), NEW k \in Upto(i), j < k PROVE g[j] < g[k]
      <4>1. j \in Upto(i - 1)
        BY <3>1, <3>6, <2>0
      <4>2. CASE k = i
        BY <2>2, <3>3, <3>4, <4>1, <4>2
      <4>3. CASE k # i
        <5>1. k \in Upto(i - 1)
          BY <3>1, <4>3
        <5> QED
          BY <2>1, <3>3, <3>6, <4>1, <5>1
      <4> QED
        BY <4>2, <4>3
    <3>7. ASSUME NEW m \in 1 .. Len(f[i]) PROVE \E j \in Upto(i) : g[j] = m
      <4>1. CASE m = l + 1
        BY <3>1, <3>4, <4>1
      <4>2. CASE m # l + 1
        <5>1. m \in 1 .. l
          BY <2>2, <3>2, <4>2
        <5>2. PICK j \in Upto(i - 1) : h[j] = m
          BY <2>1, <5>1
        <5> QED
          BY <3>1, <3>3, <5>2
      <4> QED
        BY <4>1, <4>2
    <3>8. ASSUME NEW j \in Upto(i) PROVE f[i][g[j]] = attrs[j]
      <4>1. CASE j = i
        BY <3>2, <3>4, <4>1
      <4>2. CASE j # i
        <5>1. j \in Upto(i - 1)
          BY <3>1, <4>2
        <5> QED
          BY <2>1, <3>2, <3>3, <5>1
      <4> QED
        BY <4>1, <4>2
    <3>9. Good(i, g)
      BY <3>6, <3>7, <3>8
    <3> HIDE DEF Good, Upto
    <3> QED
      BY <2>0, <3>5, <3>9
  <2> QED
    BY <2>3, <2>4
<1>4. \A i \in 0 .. n : i \in T
  <2> HIDE DEF T, n
  <2> QED
    BY <1>1, <1>2, <1>3, Climb
<1>5. n \in T
  <2> HIDE DEF T, n
  <2> QED
    BY <1>1, <1>4
<1> QED
  BY <1>5 DEF KeepsOrder

\* stampSingleResource does what it is for, whatever the attributes.
LEMMA StampIsExact ==
    ASSUME NEW X, NEW attrs \in Seq(X), NEW t
    PROVE  Stamped(attrs, StampSingleResource(attrs, t), t)
<1> DEFINE id == [key |-> "tenant.id", val |-> t]
           name == [key |-> "tenant.name", val |-> t]
           after == StampSingleResource(attrs, t)
           Foreign == {j \in 1 .. Len(attrs) : attrs[j].key \notin Reserved}
<1> HIDE DEF id, name, after
<1>1. PICK f \in [0 .. Len(attrs) -> Seq(X)] :
         /\ FilteredUpto(f, attrs, Len(attrs))
         /\ after = f[Len(attrs)] \o <<id, name>>
  BY FilteredIsLoop DEF id, name, after
<1> DEFINE kept == f[Len(attrs)]
<1>2. KeepsOrder(attrs, kept)
  BY <1>1, LoopKeepsOrder
<1>3. kept \in Seq(X) /\ Len(kept) \in Nat /\ after = kept \o <<id, name>>
  <2>1. Len(attrs) \in 0 .. Len(attrs)
    OBVIOUS
  <2>2. kept \in Seq(X)
    BY <2>1
  <2> QED
    BY <1>1, <2>2
<1> HIDE DEF kept
<1>4. /\ Len(after) = Len(kept) + 2
      /\ \A m \in 1 .. Len(kept) : after[m] = kept[m]
      /\ after[Len(kept) + 1] = id /\ after[Len(kept) + 2] = name
  <2>0. kept \in Seq(X \cup {id, name}) /\ <<id, name>> \in Seq(X \cup {id, name})
        /\ Len(<<id, name>>) = 2
    BY <1>3
  <2> DEFINE two == <<id, name>>
  <2>1. two[1] = id /\ two[2] = name /\ Len(two) = 2 /\ two \in Seq(X \cup {id, name})
    BY <2>0
  <2>2. after = kept \o two
    BY <1>3
  <2> HIDE DEF two
  <2> QED
    BY <1>3, <2>0, <2>1, <2>2
<1>5. PICK place \in [Foreign -> 1 .. Len(kept)] :
        /\ \A j, k \in Foreign : j < k => place[j] < place[k]
        /\ \A m \in 1 .. Len(kept) : \E j \in Foreign : place[j] = m
        /\ \A j \in Foreign : kept[place[j]] = attrs[j]
  BY <1>2 DEF KeepsOrder
<1>6. /\ Len(after) - 2 = Len(kept) /\ Len(after) >= 2
      /\ Len(after) - 1 = Len(kept) + 1
  BY <1>3, <1>4
<1>7. \A j \in Foreign : after[place[j]] = attrs[j]
  BY <1>4, <1>5
<1>8. after[Len(after) - 1] = id /\ after[Len(after)] = name
  BY <1>4, <1>6
<1>9. \E pl \in [Foreign -> 1 .. Len(after) - 2] :
        /\ \A j, k \in Foreign : j < k => pl[j] < pl[k]
        /\ \A m \in 1 .. Len(after) - 2 : \E j \in Foreign : pl[j] = m
        /\ \A j \in Foreign : after[pl[j]] = attrs[j]
  BY <1>5, <1>6, <1>7
<1>10. {j \in DOMAIN attrs : attrs[j].key \notin Reserved} = Foreign
  OBVIOUS
<1>11. Stamped(attrs, after, t)
  <2> HIDE DEF Foreign
  <2> QED
    BY <1>6, <1>8, <1>9, <1>10 DEF Stamped, id, name
<1> QED
  BY <1>11 DEF after

\* A payload is stamped resource by resource, and its texts are prefixed.
LEMMA PayloadIsStamped ==
    ASSUME NEW p \in Payload, NEW t
    PROVE  Identified(p, StampResources(p, t), t)
<1> DEFINE q == StampResources(p, t)
<1>1. /\ q = [i \in DOMAIN p |->
               [attrs |-> StampSingleResource(p[i].attrs, t),
                logs |-> [j \in DOMAIN p[i].logs |-> StampLogBody(p[i].logs[j], t)]]]
      /\ DOMAIN p = 1 .. Len(p) /\ Len(p) \in Nat
  BY DEF StampResources, Payload
<1> HIDE DEF q
<1>2. Len(q) = Len(p)
  BY <1>1
<1>3. ASSUME NEW i \in DOMAIN p
      PROVE  /\ Stamped(p[i].attrs, q[i].attrs, t)
             /\ Len(q[i].logs) = Len(p[i].logs)
             /\ \A j \in DOMAIN p[i].logs :
                  q[i].logs[j] = [kind |-> p[i].logs[j].kind,
                                  by |-> IF p[i].logs[j].kind = "text"
                                         THEN <<t>> \o p[i].logs[j].by
                                         ELSE p[i].logs[j].by]
  <2> DEFINE attrs == p[i].attrs
             logs == p[i].logs
  <2>1. attrs \in Seq(Attribute) /\ logs \in Seq(LogBody)
    <3> DEFINE R == [attrs : Seq(Attribute), logs : Seq(LogBody)]
    <3>1. p \in Seq(R)
      BY DEF Payload
    <3>2. p[i] \in R
      <4> HIDE DEF R
      <4> QED
        BY <1>1, <1>3, <3>1
    <3> QED
      BY <3>2
  <2>2. /\ q[i].attrs = StampSingleResource(attrs, t)
        /\ q[i].logs = [j \in DOMAIN logs |-> StampLogBody(logs[j], t)]
    BY <1>1
  <2> HIDE DEF attrs, logs
  <2>3. Stamped(attrs, q[i].attrs, t)
    BY <2>1, <2>2, StampIsExact
  <2>4. DOMAIN logs = 1 .. Len(logs) /\ Len(logs) \in Nat
    BY <2>1
  <2>5. Len(q[i].logs) = Len(logs)
    BY <2>2, <2>4
  <2>6. ASSUME NEW j \in DOMAIN logs
        PROVE  q[i].logs[j] = [kind |-> logs[j].kind,
                               by |-> IF logs[j].kind = "text" THEN <<t>> \o logs[j].by
                                      ELSE logs[j].by]
    <3>1. logs[j] \in LogBody /\ q[i].logs[j] = StampLogBody(logs[j], t)
      BY <2>1, <2>2, <2>4
    <3> QED
      BY <3>1 DEF StampLogBody, LogBody
  <2> QED
    BY <2>3, <2>5, <2>6 DEF attrs, logs
<1> QED
  BY <1>2, <1>3 DEF Identified, q

\* What a request carries and what was sent of it.
PayloadsAreStamped ==
    /\ body \in [Request -> SUBSET Payloads] /\ DOMAIN sent = Request
    /\ \A r \in Request : /\ \A p, q \in body[r] : p = q
                          /\ sent[r] \subseteq {StampResources(p, TenantOf[r]) : p \in body[r]}

LEMMA PayloadsStep ==
    ASSUME PayloadsAreStamped, ProcessInv, [Next]_vars
    PROVE  PayloadsAreStamped'
<1> USE DEF PayloadsAreStamped
<1>1. CASE UNCHANGED <<body, sent>>
  BY <1>1
<1>2. ASSUME NEW r \in Request, Receive(r) PROVE PayloadsAreStamped'
  <2>1. PICK p \in Payloads : body' = [body EXCEPT ![r] = {p}]
    BY <1>2 DEF Receive
  <2>2. ipc[r] = "idle" /\ sent' = sent
    BY <1>2 DEF Receive
  <2>3. sent[r] = {}
    BY <2>2 DEF ProcessInv, RequestsAreRecorded
  <2>4. body' \in [Request -> SUBSET Payloads] /\ body'[r] = {p}
        /\ \A q \in Request : q # r => body'[q] = body[q]
    BY <2>1
  <2> QED
    BY <2>2, <2>3, <2>4
<1>3. ASSUME NEW r \in Request, StampTenantIdentity(r) PROVE PayloadsAreStamped'
  <2>1. /\ sent' = [sent EXCEPT ![r] = {StampResources(p, TenantOf[r]) : p \in body[r]}]
        /\ body' = body
    BY <1>3 DEF StampTenantIdentity
  <2>2. DOMAIN sent' = Request
        /\ sent'[r] = {StampResources(p, TenantOf[r]) : p \in body[r]}
        /\ \A q \in Request : q # r => sent'[q] = sent[q]
    BY <2>1
  <2> QED
    BY <2>1, <2>2
<1>4. ASSUME NEW r \in Request, IngestStep(r) PROVE PayloadsAreStamped'
  BY <1>1, <1>3, <1>4 DEF IngestStep, ResolveTenant, AllowRPS, ReadBody, AllowBytes, Pass, Refuse,
     Forward, AbortResponse, RecordUsage
<1>5. CASE \/ Boot \/ Migration \/ Run \/ LaunchFails \/ StartFails \/ Signal \/ Flush \/ Crash
  BY <1>1, <1>5 DEF Boot, Migration, ivars, Run, Launch, StartSyslog, StartRenewal, StartOptional,
     CloseProxy, DrainProxy, CloseAdmin, DrainAdmin, CloseServer, Deadline, Join, CloseStore, Exit,
     Crash, Die, LaunchFails, StartFails, Signal, Flush
<1>6. ASSUME NEW p \in Part,
             \/ Bind(p) \/ BindFails(p) \/ CloseListener(p) \/ EndPart(p)
             \/ AcceptOther(p) \/ FinishOther(p)
      PROVE  PayloadsAreStamped'
  BY <1>1, <1>6 DEF ivars, Bind, BindFails, CloseListener, EndPart, AcceptOther, FinishOther
<1>7. CASE UNCHANGED vars
  BY <1>1, <1>7 DEF vars, ivars
<1> HIDE DEF PayloadsAreStamped
<1> QED
  BY <1>2, <1>4, <1>5, <1>6, <1>7 DEF Next, AcceptRequest, HandleRequest

-----------------------------------------------------------------------------
(***************************************************************************)
(* The theorems.                                                           *)
(***************************************************************************)
LEMMA ProcessInit == Init => ProcessInv
<1> SUFFICES ASSUME Init PROVE ProcessInv
    OBVIOUS
<1>1. MigrateInv /\ mpc = "down"
  BY MigrateInitInv DEF Init, MigrateInit
<1>2. RequestTypes /\ Running = {}
  BY DEF Init, IngestInit, RequestTypes, IPC, Outcome, Usage!Status, Running
<1>3. /\ stage = "idle" /\ launched = {} /\ listening = {} /\ busy = {}
      /\ cancelled = FALSE /\ expired = FALSE /\ failed = FALSE /\ unsaved = FALSE
  BY DEF Init
<1>4. PartTypes /\ StagesAgree /\ PartsAreLaunched /\ DownInOrder
  BY <1>1, <1>2, <1>3 DEF PartTypes, Stage, StagesAgree, PartsAreLaunched, DownInOrder, ShutDown
<1>5. RequestsAreRecorded
  BY <1>3 DEF RequestsAreRecorded, Init, IngestInit
<1>6. TypeOK
  BY <1>1, <1>2, <1>4, TypeParts DEF MigrateInv
<1> QED
  BY <1>1, <1>4, <1>5, <1>6 DEF ProcessInv

LEMMA ProcessStep == ProcessInv /\ [Next]_vars => ProcessInv'
<1> SUFFICES ASSUME ProcessInv, [Next]_vars PROVE ProcessInv'
    OBVIOUS
<1>1. CASE \/ Launch \/ LaunchFails \/ StartSyslog \/ StartRenewal \/ StartFails
           \/ Signal \/ CloseProxy \/ DrainProxy \/ CloseAdmin \/ DrainAdmin
           \/ Deadline \/ Join
  <2>1. UNCHANGED <<mvars, ivars>>
    BY <1>1 DEF Launch, LaunchFails, StartSyslog, StartRenewal, StartOptional, StartFails, Signal,
       CloseProxy, CloseAdmin, CloseServer, DrainProxy, DrainAdmin, Deadline, Join
  <2> QED
    BY <1>1, <2>1, RunInv
<1>2. CASE CloseStore \/ Exit \/ Crash \/ Flush \/ Boot \/ Migration
  BY <1>2, CloseInv, DieInv, FlushInv, BootInv DEF Exit, Crash
<1>3. CASE UNCHANGED vars
  <2>1. UNCHANGED <<mvars, ivars>> /\ UNCHANGED <<stage, launched, listening, busy>>
        /\ UNCHANGED <<cancelled, expired, failed, unsaved>>
    BY <1>3 DEF vars, pvars
  <2>2. /\ MigrateInv /\ RequestTypes /\ PartTypes /\ StagesAgree /\ PartsAreLaunched
        /\ DownInOrder /\ RequestsAreRecorded
    BY TypeParts DEF ProcessInv
  <2>3. /\ MigrateInv' /\ RequestTypes' /\ Running' = Running
        /\ UNCHANGED <<mpc, ipc, sent, out, status>>
    BY <2>1, <2>2, MigrateKept, RequestsKept DEF mvars, ivars
  <2>4. PartTypes' /\ PartsAreLaunched' /\ StagesAgree'
    BY <2>1, <2>2, <2>3 DEF PartTypes, PartsAreLaunched, StagesAgree
  <2>5. DownInOrder' /\ RequestsAreRecorded'
    BY <2>1, <2>2, <2>3 DEF DownInOrder, ShutDown, RequestsAreRecorded
  <2> QED
    BY <2>3, <2>4, <2>5, Recompose
<1> QED
  BY <1>1, <1>2, <1>3, PartInv, ProxyInv DEF Next, Run

\* Whatever the process does, and wherever it dies, the invariant holds.
THEOREM ProcessInvariant == Spec => []ProcessInv
  BY ProcessInit, ProcessStep, PTL DEF Spec

\* Every variable keeps its type over migrations, requests and restarts.
THEOREM ProcessTypeCorrect == Spec => []TypeOK
<1>1. ProcessInv => TypeOK
  BY DEF ProcessInv
<1> QED
  BY <1>1, ProcessInvariant, PTL

\* No failure, and no crash between any two statements of migrate, over any number
\* of restarts, costs a tenant its row, its dependent rows or its key.
THEOREM NoKeyIsLost == Spec => []KeysSurvive
<1>1. ProcessInv => KeysSurvive
  BY DEF ProcessInv, MigrateInv
<1> QED
  BY <1>1, ProcessInvariant, PTL

\* Open succeeds only on a complete schema without plaintext keys, whatever database
\* it found and however often it was interrupted, but for the errors that migrate
\* does not look at.
THEOREM AdoptionIsComplete == Spec => []Adopted
<1>1. ProcessInv => Adopted
  BY AdoptedFromInv DEF ProcessInv
<1> QED
  BY <1>1, ProcessInvariant, PTL

\* An orderly shutdown closes the store under no handler but those of the renewal
\* server and those that outlast the deadline, for any number of requests.
THEOREM StoreClosesLast == Spec => []StoreOutlivesHandlers
<1>1. ProcessInv => StoreOutlivesHandlers
  <2> SUFFICES ASSUME ProcessInv, mpc = "closed", ~failed
               PROVE  /\ launched = {} /\ listening = {}
                      /\ busy \subseteq {"renewal"} \cup (IF expired THEN {"admin"} ELSE {})
                      /\ Running = {} \/ expired
    BY DEF StoreOutlivesHandlers
  <2>0. PartTypes /\ StagesAgree /\ PartsAreLaunched /\ DownInOrder
    BY TypeParts DEF ProcessInv
  <2>1. stage = "exit"
    BY <2>0 DEF StagesAgree
  <2>2. launched = {} /\ (Running = {} \/ expired) /\ ("admin" \notin busy \/ expired)
    BY <2>0, <2>1 DEF DownInOrder
  <2>3. listening = {} /\ "syslog" \notin busy
    BY <2>0, <2>2 DEF PartsAreLaunched
  <2>4. busy \subseteq {"admin", "syslog", "renewal"}
    BY <2>0 DEF PartTypes, Listener, Part
  <2> QED
    BY <2>2, <2>3, <2>4
<1> QED
  BY <1>1, ProcessInvariant, PTL

\* When the process exits in order, every request it forwarded is in usage_counters,
\* but for the samples it dropped, the answers that broke off, what an earlier death
\* or the deadline took, and what its last flush failed to save.
THEOREM ForwardedRequestsCount == Spec => []ForwardedIsCounted
<1>1. ProcessInv => ForwardedIsCounted
  <2> SUFFICES ASSUME ProcessInv, stage = "exit", ~failed, ~expired,
                      NEW r \in Request, sent[r] # {}
               PROVE  \/ status[r] \in {"counted", "dropped", "lost"}
                      \/ status[r] = "pending" /\ unsaved
                      \/ out[r] \in {"aborted", "killed"}
    BY DEF ForwardedIsCounted
  <2>1. DownInOrder /\ RequestsAreRecorded
    BY DEF ProcessInv
  <2>2. Running = {}
    BY <2>1 DEF DownInOrder
  <2>3. ipc[r] \in {"idle", "done"}
    BY <2>2 DEF Running
  <2> QED
    BY <2>1, <2>3 DEF RequestsAreRecorded
<1> QED
  BY <1>1, ProcessInvariant, PTL

\* Whatever a client puts into its payload, and however the process stops and starts,
\* what is forwarded carries the identity that belongs to its key and no other, and
\* the client's own attributes and texts unharmed and in order.
THEOREM IdentityIsTheKeys == Spec => []IdentityIsServers
<1>1. Init => PayloadsAreStamped
  BY DEF Init, IngestInit, PayloadsAreStamped
<1>2. PayloadsAreStamped => IdentityIsServers
  <2> SUFFICES ASSUME PayloadsAreStamped, NEW r \in Request, NEW q \in sent[r],
                      NEW p \in body[r]
               PROVE  Identified(p, q, TenantOf[r])
    BY DEF IdentityIsServers
  <2>1. p \in Payload
    BY PayloadsAssumption DEF PayloadsAreStamped
  <2>2. q = StampResources(p, TenantOf[r])
    BY DEF PayloadsAreStamped
  <2> QED
    BY <2>1, <2>2, PayloadIsStamped
<1> QED
  BY <1>1, <1>2, PayloadsStep, ProcessInvariant, PTL DEF Spec
=============================================================================
