---------------------------- MODULE UsageWriter ----------------------------
(***************************************************************************)
(* internal/store/usage.go: request handlers hand usage samples to one     *)
(* writer goroutine through a bounded channel; the goroutine aggregates    *)
(* them per (tenant, signal, hour) and flushes the aggregates to the table *)
(* usage_counters in one transaction.  The database has ONE connection     *)
(* (store.go: SetMaxOpenConns(1)) and enforces foreign keys.               *)
(*                                                                         *)
(* An aggregate (requests, bytes, errors) is a sum over samples.  It is    *)
(* modelled by how many times each sample is in it, a function             *)
(* [Sample -> Nat]: a sample lost, or added twice, by the snapshot, the    *)
(* merge back or the upsert shows in every one of the three sums.          *)
(***************************************************************************)
EXTENDS Integers, FiniteSets

CONSTANTS Sample,        \* the RecordUsage calls the environment makes
          Tenant,        \* tenant ids
          Signal,        \* signal types: traces, metrics, logs, syslog
          TenantOf,      \* the tenant of each sample
          SignalOf,      \* the signal type of each sample
          Flusher,       \* goroutines that call FlushCounters
          Deletable,     \* tenants an administrator may delete
          BufferSize,    \* usageWriterBufferSize
          Retention,     \* retention period, in hours
          MaxHour,       \* bound: the last hour of the clock
          MaxDbErrors,   \* bound: transient database errors
          MaxRestarts,   \* bound: process restarts
          MayStop        \* whether Close is called in this instance

ASSUME UsageAssumption ==
    /\ TenantOf \in [Sample -> Tenant]
    /\ SignalOf \in [Sample -> Signal]
    /\ Deletable \subseteq Tenant
    /\ BufferSize \in Nat
    /\ Retention \in Nat
    /\ MaxHour \in Nat
    /\ MaxDbErrors \in Nat
    /\ MaxRestarts \in Nat
    /\ MayStop \in BOOLEAN

\* For the bound on the channel: a finite environment.
ASSUME SampleFinite == IsFiniteSet(Sample)

CONSTANT NoFlusher
ASSUME NoFlusherAssumption == NoFlusher \notin Flusher

VARIABLES
    tenants,     \* rows of table tenants
    hour,        \* the wall clock, in hours
    bucket,      \* hourBucket of each recorded sample
    recorded,    \* samples RecordUsage was called for
    dropped,     \* samples counted in w.dropped
    ch,          \* w.ch; its order is immaterial to sums, so it is a set
    accum,       \* w.accum
    snapshot,    \* flush's snapshot, zero outside flush
    todo,        \* keys of the snapshot the exec loop has not reached
    tx,          \* what the open transaction has added
    db,          \* committed contents of usage_counters
    wpc,         \* where the writer goroutine is
    after,       \* what follows the flush: "loop", "ack" or "exit"
    serving,     \* the FlushCounters call being served
    done,        \* w.done is closed
    fpc,         \* where each FlushCounters call is
    dbErrors,    \* transient database errors so far
    restarts,    \* process restarts so far
    purged,      \* history: what deletions removed from usage_counters
    lost,        \* history: samples in memory when the process died
    seen,        \* history: samples accepted before each FlushCounters call
    beforeStop,  \* history: samples accepted before Stop
    flushOk      \* history: the latest flush reached the database

dbvars == <<tenants, db, purged>>
chanvars == <<recorded, dropped, ch, bucket>>
flushvars == <<accum, snapshot, todo, tx>>
ctlvars == <<wpc, after, serving, flushOk>>
callvars == <<done, fpc, seen, beforeStop>>
envvars == <<hour, dbErrors, restarts, lost>>
vars == <<tenants, hour, bucket, recorded, dropped, ch, accum, snapshot, todo,
          tx, db, wpc, after, serving, done, fpc, dbErrors, restarts, purged,
          lost, seen, beforeStop, flushOk>>

WriterPC == {"select", "drain", "snapshot", "begin", "prepare", "exec",
             "commit", "exited"}
FlusherPC == {"idle", "sending", "waiting", "acked", "failed", "skipped"}

Zero == [s \in Sample |-> 0]
Plus(f, g) == [s \in Sample |-> f[s] + g[s]]
Only(s) == [x \in Sample |-> IF x = s THEN 1 ELSE 0]

\* counterKey: one aggregate, and one row of usage_counters, per key.
Key(s) == <<TenantOf[s], SignalOf[s], bucket[s]>>
Keys(f) == {Key(s) : s \in {x \in Sample : f[x] > 0}}

Accepted == recorded \ (dropped \cup lost)

\* While the transaction is open no other statement gets the connection.
TxOpen == wpc \in {"prepare", "exec", "commit"}

Init ==
    /\ tenants = Tenant /\ hour = 0
    /\ bucket = [s \in Sample |-> 0]
    /\ recorded = {} /\ dropped = {} /\ ch = {}
    /\ accum = Zero /\ snapshot = Zero /\ todo = {} /\ tx = Zero /\ db = Zero
    /\ wpc = "select" /\ after = "loop" /\ serving = NoFlusher /\ done = FALSE
    /\ fpc = [f \in Flusher |-> "idle"]
    /\ dbErrors = 0 /\ restarts = 0
    /\ purged = Zero /\ lost = {}
    /\ seen = [f \in Flusher |-> {}] /\ beforeStop = {} /\ flushOk = TRUE

-----------------------------------------------------------------------------
(***************************************************************************)
(* Request handlers.                                                       *)
(***************************************************************************)

\* A handler records a request: the send never blocks, a full channel drops
\* the sample.  Handlers may still run while, and after, the writer stops.
RecordUsage(s) ==
    /\ s \notin recorded
    /\ recorded' = recorded \cup {s}
    /\ bucket' = [bucket EXCEPT ![s] = hour]
    /\ IF Cardinality(ch) < BufferSize
       THEN ch' = ch \cup {s} /\ UNCHANGED dropped
       ELSE dropped' = dropped \cup {s} /\ UNCHANGED ch
    /\ UNCHANGED <<dbvars, flushvars, ctlvars, callvars, envvars>>

-----------------------------------------------------------------------------
(***************************************************************************)
(* The writer goroutine.  At "select" it takes any ready case.             *)
(***************************************************************************)

\* One sample received and accumulated, in the loop or while draining.
Receive(s) == /\ s \in ch
              /\ ch' = ch \ {s}
              /\ accum' = Plus(accum, Only(s))
              /\ UNCHANGED <<recorded, dropped, bucket, snapshot, todo, tx>>

Accumulate(s) == /\ wpc = "select"
                 /\ Receive(s)
                 /\ UNCHANGED <<dbvars, ctlvars, callvars, envvars>>

TickFlush == /\ wpc = "select"
             /\ wpc' = "snapshot" /\ after' = "loop"
             /\ UNCHANGED <<serving, flushOk>>
             /\ UNCHANGED <<dbvars, chanvars, flushvars, callvars, envvars>>

\* The unbuffered send of FlushCounters meets the writer's receive.
ServeFlush(f) == /\ wpc = "select" /\ fpc[f] = "sending"
                 /\ wpc' = "drain" /\ after' = "ack" /\ serving' = f
                 /\ fpc' = [fpc EXCEPT ![f] = "waiting"]
                 /\ UNCHANGED <<flushOk, done, seen, beforeStop>>
                 /\ UNCHANGED <<dbvars, chanvars, flushvars, envvars>>

SeeDone == /\ wpc = "select" /\ done
           /\ wpc' = "drain" /\ after' = "exit"
           /\ UNCHANGED <<serving, flushOk>>
           /\ UNCHANGED <<dbvars, chanvars, flushvars, callvars, envvars>>

DrainOne(s) == /\ wpc = "drain"
               /\ Receive(s)
               /\ UNCHANGED <<dbvars, ctlvars, callvars, envvars>>

\* Fault: drain gives up although samples are waiting.
DrainGivesUp == /\ wpc = "drain"
                /\ wpc' = "snapshot"
                /\ UNCHANGED <<after, serving, flushOk>>
                /\ UNCHANGED <<dbvars, chanvars, flushvars, callvars, envvars>>

DrainEmpty == /\ wpc = "drain" /\ ch = {}
              /\ wpc' = "snapshot"
              /\ UNCHANGED <<after, serving, flushOk>>
              /\ UNCHANGED <<dbvars, chanvars, flushvars, callvars, envvars>>

-----------------------------------------------------------------------------
(***************************************************************************)
(* flush.                                                                  *)
(***************************************************************************)

\* Fault: the FlushCounters caller is never released.
FlushReturnsNoAck(ok) ==
    /\ wpc' = IF after = "exit" THEN "exited" ELSE "select"
    /\ flushOk' = ok
    /\ fpc' = fpc
    /\ serving' = NoFlusher
    /\ UNCHANGED <<after, done, seen, beforeStop>>

\* Fault: the writer goes on after the flush that Stop asked for.
FlushReturnsToLoop(ok) ==
    /\ wpc' = "select"
    /\ flushOk' = ok
    /\ fpc' = [f \in Flusher |->
                 IF after = "ack" /\ f = serving
                 THEN IF ok THEN "acked" ELSE "failed"
                 ELSE fpc[f]]
    /\ serving' = NoFlusher
    /\ UNCHANGED <<after, done, seen, beforeStop>>

\* flush returns to the case of the select that called it.
FlushReturns(ok) ==
    /\ wpc' = IF after = "exit" THEN "exited" ELSE "select"
    /\ flushOk' = ok
    /\ fpc' = [f \in Flusher |->
                 IF after = "ack" /\ f = serving
                 THEN IF ok THEN "acked" ELSE "failed"
                 ELSE fpc[f]]
    /\ serving' = NoFlusher
    /\ UNCHANGED <<after, done, seen, beforeStop>>

TakeSnapshot ==
    /\ wpc = "snapshot" /\ accum # Zero
    /\ snapshot' = accum /\ accum' = Zero
    /\ wpc' = "begin"
    /\ UNCHANGED <<todo, tx, after, serving, flushOk>>
    /\ UNCHANGED <<dbvars, chanvars, callvars, envvars>>

NothingToFlush ==
    /\ wpc = "snapshot" /\ accum = Zero
    /\ FlushReturns(TRUE)
    /\ UNCHANGED <<dbvars, chanvars, flushvars, envvars>>

BeginTx == /\ wpc = "begin"
           /\ wpc' = "prepare"
           /\ UNCHANGED <<after, serving, flushOk>>
           /\ UNCHANGED <<dbvars, chanvars, flushvars, callvars, envvars>>

PrepareStmt == /\ wpc = "prepare"
               /\ wpc' = "exec"
               /\ todo' = Keys(snapshot)
               /\ UNCHANGED <<accum, snapshot, tx, after, serving, flushOk>>
               /\ UNCHANGED <<dbvars, chanvars, callvars, envvars>>

\* Fault: every row of the snapshot is added again for each key.
UpsertWholeSnapshot(k) == Plus(tx, snapshot)

\* INSERT ... ON CONFLICT DO UPDATE: the aggregate of key k is added to its row.
Upsert(k) == [s \in Sample |-> IF Key(s) = k THEN tx[s] + snapshot[s] ELSE tx[s]]

\* FOREIGN KEY (tenant_id): the insert needs the tenant's row.
ForeignKeyHolds(k) == k[1] \in tenants

\* The loop ranges over a Go map: any key may be next.
ExecKey(k) == /\ wpc = "exec" /\ k \in todo
              /\ ForeignKeyHolds(k)
              /\ todo' = todo \ {k}
              /\ tx' = Upsert(k)
              /\ UNCHANGED <<accum, snapshot>>
              /\ UNCHANGED <<dbvars, chanvars, ctlvars, callvars, envvars>>

ExecDone == /\ wpc = "exec" /\ todo = {}
            /\ wpc' = "commit"
            /\ UNCHANGED <<after, serving, flushOk>>
            /\ UNCHANGED <<dbvars, chanvars, flushvars, callvars, envvars>>

Commit == /\ wpc = "commit"
          /\ db' = Plus(db, tx)
          /\ tx' = Zero /\ snapshot' = Zero
          /\ FlushReturns(TRUE)
          /\ UNCHANGED <<tenants, purged, accum, todo>>
          /\ UNCHANGED <<chanvars, envvars>>

\* Fault: the failed flush forgets its snapshot.
RestoreForgets == accum

\* restore: the snapshot is merged back into the (new) map.
Restore == Plus(accum, snapshot)

\* Rollback and restore, the exit of every failure after the snapshot.
Abandon == /\ accum' = Restore
           /\ snapshot' = Zero /\ todo' = {} /\ tx' = Zero
           /\ FlushReturns(FALSE)
           /\ UNCHANGED <<dbvars, chanvars>>

\* Begin, Prepare, Exec or Commit fails for a transient reason.
FlushFails == /\ wpc \in {"begin", "prepare", "exec", "commit"}
              /\ dbErrors < MaxDbErrors
              /\ dbErrors' = dbErrors + 1
              /\ Abandon
              /\ UNCHANGED <<hour, restarts, lost>>

\* Exec fails because the tenant of the key has been deleted.
ExecRefused(k) == /\ wpc = "exec" /\ k \in todo
                  /\ ~ForeignKeyHolds(k)
                  /\ Abandon
                  /\ UNCHANGED envvars

-----------------------------------------------------------------------------
(***************************************************************************)
(* FlushCounters, Stop, the administrator, retention, time, restarts.      *)
(***************************************************************************)

\* FlushCounters looks at w.done first and returns if it is closed.
FlushCountersCall(f) ==
    /\ fpc[f] = "idle"
    /\ fpc' = [fpc EXCEPT ![f] = IF done THEN "skipped" ELSE "sending"]
    /\ seen' = [seen EXCEPT ![f] = Accepted]
    /\ UNCHANGED <<done, beforeStop>>
    /\ UNCHANGED <<dbvars, chanvars, flushvars, ctlvars, envvars>>

\* Stop closes w.done; it returns when the writer has exited.
Stop == /\ MayStop /\ ~done
        /\ done' = TRUE
        /\ beforeStop' = Accepted
        /\ UNCHANGED <<fpc, seen>>
        /\ UNCHANGED <<dbvars, chanvars, flushvars, ctlvars, envvars>>

\* The rows of the samples in S leave usage_counters.
DeleteRows(S) ==
    /\ db' = [s \in Sample |-> IF s \in S THEN 0 ELSE db[s]]
    /\ purged' = [s \in Sample |-> IF s \in S THEN purged[s] + db[s]
                                   ELSE purged[s]]

\* Fault: the delete does not cascade to usage_counters.
CascadeForgotten(t) == {}

\* ON DELETE CASCADE of usage_counters.tenant_id.
Cascade(t) == {s \in Sample : TenantOf[s] = t}

DeleteTenant(t) == /\ t \in tenants \cap Deletable
                   /\ ~TxOpen
                   /\ tenants' = tenants \ {t}
                   /\ DeleteRows(Cascade(t))
                   /\ UNCHANGED <<chanvars, flushvars, ctlvars, callvars, envvars>>

\* Fault: retention compares the wrong way round.
ExpiredReversed == {s \in Sample : bucket[s] >= hour - Retention}

\* The rows below the retention threshold.
Expired == {s \in Sample : bucket[s] < hour - Retention}

CleanupOldCounters ==
    /\ ~TxOpen
    /\ DeleteRows(Expired)
    /\ UNCHANGED tenants
    /\ UNCHANGED <<chanvars, flushvars, ctlvars, callvars, envvars>>

Tick == /\ hour < MaxHour
        /\ hour' = hour + 1
        /\ UNCHANGED <<dbErrors, restarts, lost>>
        /\ UNCHANGED <<dbvars, chanvars, flushvars, ctlvars, callvars>>

\* The process exits, or is killed, and starts again (Open, Start): memory is
\* gone and SQLite discards a transaction that was not committed.
Restart ==
    /\ restarts < MaxRestarts
    /\ restarts' = restarts + 1
    /\ lost' = lost \cup {s \in Sample : s \in ch \/ accum[s] + snapshot[s] > 0}
    /\ ch' = {} /\ accum' = Zero /\ snapshot' = Zero /\ todo' = {} /\ tx' = Zero
    /\ wpc' = "select" /\ after' = "loop" /\ serving' = NoFlusher
    /\ flushOk' = TRUE
    /\ done' = FALSE /\ beforeStop' = {}
    /\ fpc' = [f \in Flusher |-> "idle"] /\ seen' = [f \in Flusher |-> {}]
    /\ UNCHANGED <<dbvars, recorded, dropped, bucket, hour, dbErrors>>

-----------------------------------------------------------------------------
\* The steps of the writer goroutine once it has chosen a case.
WriterStep ==
    \/ \E s \in Sample : DrainOne(s)
    \/ DrainEmpty
    \/ TakeSnapshot
    \/ NothingToFlush
    \/ BeginTx
    \/ PrepareStmt
    \/ \E k \in todo : ExecKey(k) \/ ExecRefused(k)
    \/ ExecDone
    \/ Commit
    \/ FlushFails

Next ==
    \/ \E s \in Sample : RecordUsage(s)
    \/ \E s \in Sample : Accumulate(s)
    \/ TickFlush
    \/ \E f \in Flusher : ServeFlush(f)
    \/ SeeDone
    \/ WriterStep
    \/ \E f \in Flusher : FlushCountersCall(f)
    \/ Stop
    \/ \E t \in Tenant : DeleteTenant(t)
    \/ CleanupOldCounters
    \/ Tick
    \/ Restart

Safety == Init /\ [][Next]_vars

\* A running goroutine runs on.  Go's select chooses among the ready cases at
\* random, so a case that is ready again and again is taken.
Fairness ==
    /\ WF_vars(WriterStep)
    /\ SF_vars(\E s \in Sample : Accumulate(s))
    /\ SF_vars(TickFlush)
    /\ SF_vars(SeeDone)
    /\ \A f \in Flusher : SF_vars(ServeFlush(f))

Spec == Safety /\ Fairness

-----------------------------------------------------------------------------
(***************************************************************************)
(* Properties.                                                             *)
(***************************************************************************)

\* Every variable has its type, and the channel never holds more than
\* usageWriterBufferSize samples (make(chan counterSample, ...)).
TypeOK ==
    /\ tenants \subseteq Tenant
    /\ hour \in Nat
    /\ bucket \in [Sample -> Nat]
    /\ recorded \subseteq Sample /\ dropped \subseteq Sample
    /\ ch \subseteq Sample /\ Cardinality(ch) <= BufferSize
    /\ accum \in [Sample -> Nat] /\ snapshot \in [Sample -> Nat]
    /\ tx \in [Sample -> Nat] /\ db \in [Sample -> Nat]
    /\ purged \in [Sample -> Nat]
    /\ todo \subseteq Tenant \X Signal \X Nat
    /\ wpc \in WriterPC /\ after \in {"loop", "ack", "exit"}
    /\ serving \in Flusher \cup {NoFlusher}
    /\ done \in BOOLEAN /\ flushOk \in BOOLEAN
    /\ fpc \in [Flusher -> FlusherPC]
    /\ seen \in [Flusher -> SUBSET Sample]
    /\ beforeStop \subseteq Sample /\ lost \subseteq Sample
    /\ dbErrors \in Nat /\ restarts \in Nat

Ind(S, s) == IF s \in S THEN 1 ELSE 0

InMemory(s) == Ind(ch, s) + accum[s] + snapshot[s]
InTable(s) == db[s] + purged[s]
Forgone(s) == Ind(dropped, s) + Ind(lost, s)

\* A sample that was recorded is in exactly one place, once: in memory (the
\* channel, the map or the snapshot), in usage_counters or purged from it,
\* dropped, or lost in a restart.  No failure path of flush (usage.go:136-151)
\* loses a sample or counts it twice.
ExactlyOnce ==
    \A s \in Sample : InMemory(s) + InTable(s) + Forgone(s) = Ind(recorded, s)

\* usage_counters, and the open transaction, hold rows of existing tenants
\* only: an administrator's delete and a flush in progress (one connection)
\* never leave a row behind that no tenant owns.
NoOrphanRows ==
    \A s \in Sample : db[s] + tx[s] > 0 => TenantOf[s] \in tenants

Settled(s) == db[s] + purged[s] > 0

\* When Stop has returned and the last flush reached the database, every
\* sample accepted before Stop is in usage_counters ("Stop drains and flushes
\* buffered counters", usage.go:91).
StopPersists ==
    wpc = "exited" /\ flushOk => \A s \in beforeStop : Settled(s)

\* A FlushCounters call that the writer served, and whose flush reached the
\* database, has persisted everything accepted before the call.
AckedFlushPersists ==
    \A f \in Flusher : fpc[f] = "acked" => \A s \in seen[f] : Settled(s)

\* A row leaves usage_counters only with its tenant or past its retention:
\* CleanupOldCounters and the cascade of DeleteTenant remove nothing else.
RowsLeaveForAReason ==
    [][\A s \in Sample : db'[s] < db[s] =>
          \/ TenantOf[s] \in tenants \ tenants'
          \/ bucket[s] + Retention < hour]_vars

\* A pending sample reaches usage_counters while its tenant exists and the
\* writer runs: "merge it back so no samples are lost; a later flush will
\* retry" (usage.go:136-137).
PendingIsPersisted ==
    \A s \in Sample :
        s \in ch ~> \/ Settled(s)
                    \/ s \in lost
                    \/ done
                    \/ TenantOf[s] \notin tenants

\* Stop returns: once w.done is closed the writer drains, flushes and exits
\* (unless the process dies first).
StopTerminates == done ~> (wpc = "exited" \/ ~done)

\* "FlushCounters triggers an immediate synchronous flush" (usage.go:221): a
\* call that waits for the writer returns, whatever the flush runs into.  The one
\* exception is a call that saw w.done open and sends when the writer has exited.
FlushCountersReturns ==
    \A f \in Flusher : fpc[f] = "sending" ~> \/ fpc[f] \notin {"sending", "waiting"}
                                             \/ fpc[f] = "sending" /\ wpc = "exited"

\* The refinement mapping to the abstract ledger.
StatusOf(s) ==
    IF s \in dropped THEN "dropped"
    ELSE IF s \in lost THEN "lost"
    ELSE IF purged[s] > 0 THEN "purged"
    ELSE IF db[s] > 0 THEN "counted"
    ELSE IF s \in recorded THEN "pending"
    ELSE "new"

StatusMap == [s \in Sample |-> StatusOf(s)]

Ledger == INSTANCE UsageLedger WITH status <- StatusMap

\* The writer implements the ledger: every sample is counted at most once, in
\* whole batches, and leaves usage_counters only by deletion or retention.
LedgerSpec == Ledger!Spec
=============================================================================
