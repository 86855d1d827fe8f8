------------------------- MODULE UsageWriterProofs -------------------------
(***************************************************************************)
(* What UsageWriter guarantees for every set of samples, tenants and       *)
(* flushers, every buffer size and any number of errors and restarts.      *)
(***************************************************************************)
EXTENDS UsageWriter, FiniteSetTheorems, TLAPS

-----------------------------------------------------------------------------
(***************************************************************************)
(* The channel bound.                                                      *)
(***************************************************************************)

\* Adding a sample to a channel with a free slot keeps the bound of
\* make(chan counterSample, usageWriterBufferSize).
LEMMA SendKeepsBound ==
    ASSUME NEW C \in SUBSET Sample, NEW s \in Sample, Cardinality(C) < BufferSize
    PROVE  Cardinality(C \cup {s}) <= BufferSize
<1>1. IsFiniteSet(C)
  BY SampleFinite, FS_Subset
<1>2. Cardinality(C \cup {s}) = IF s \in C THEN Cardinality(C)
                                             ELSE Cardinality(C) + 1
  BY <1>1, FS_AddElement
<1>3. Cardinality(C) \in Nat
  BY <1>1, FS_CardinalityType
<1> QED
  BY <1>2, <1>3, UsageAssumption

\* Receiving a sample keeps the bound.
LEMMA ReceiveKeepsBound ==
    ASSUME NEW C \in SUBSET Sample, NEW s \in C, Cardinality(C) <= BufferSize
    PROVE  Cardinality(C \ {s}) <= BufferSize
<1>1. IsFiniteSet(C)
  BY SampleFinite, FS_Subset
<1>2. Cardinality(C \ {s}) = Cardinality(C) - 1
  BY <1>1, FS_RemoveElement
<1> QED
  BY <1>1, <1>2, FS_CardinalityType, UsageAssumption

-----------------------------------------------------------------------------
(***************************************************************************)
(* Type correctness.                                                       *)
(***************************************************************************)

\* The initial state is well typed.
LEMMA TypeInit == Init => TypeOK
<1> SUFFICES ASSUME Init PROVE TypeOK
  OBVIOUS
<1>1. Cardinality({}) <= BufferSize
  BY FS_EmptySet, UsageAssumption
<1> QED
  BY <1>1, UsageAssumption DEF Init, TypeOK, Zero, WriterPC, FlusherPC

\* Every step keeps the types, and the channel within its capacity.
LEMMA TypeStep == TypeOK /\ [Next]_vars => TypeOK'
<1> SUFFICES ASSUME TypeOK, [Next]_vars PROVE TypeOK'
  OBVIOUS
<1> USE UsageAssumption DEF TypeOK, dbvars, chanvars, flushvars, ctlvars,
      callvars, envvars, WriterPC, FlusherPC
<1>1. ASSUME NEW s \in Sample, RecordUsage(s) PROVE TypeOK'
  <2>1. Cardinality(ch') <= BufferSize
    BY <1>1, SendKeepsBound DEF RecordUsage
  <2> QED
    BY <1>1, <2>1 DEF RecordUsage
<1>2. ASSUME NEW s \in Sample, Accumulate(s) \/ DrainOne(s) PROVE TypeOK'
  <2>1. Cardinality(ch') <= BufferSize
    BY <1>2, ReceiveKeepsBound DEF Accumulate, DrainOne, Receive
  <2> QED
    BY <1>2, <2>1 DEF Accumulate, DrainOne, Receive, Plus, Only
<1>3. CASE TickFlush
  BY <1>3 DEF TickFlush
<1>4. ASSUME NEW f \in Flusher, ServeFlush(f) PROVE TypeOK'
  BY <1>4 DEF ServeFlush
<1>5. CASE SeeDone \/ DrainEmpty
  BY <1>5 DEF SeeDone, DrainEmpty
<1>6. CASE TakeSnapshot
  BY <1>6 DEF TakeSnapshot, Zero
<1>7. CASE NothingToFlush
  BY <1>7 DEF NothingToFlush, FlushReturns
<1>8. CASE BeginTx \/ ExecDone
  BY <1>8 DEF BeginTx, ExecDone
<1>9. CASE PrepareStmt
  BY <1>9 DEF PrepareStmt, Keys, Key
<1>10. ASSUME NEW k \in todo, ExecKey(k) PROVE TypeOK'
  BY <1>10 DEF ExecKey, Upsert
<1>11. CASE Commit
  BY <1>11 DEF Commit, FlushReturns, Plus, Zero
<1>a. ASSUME Abandon
      PROVE  /\ accum' \in [Sample -> Nat] /\ snapshot' \in [Sample -> Nat]
             /\ tx' \in [Sample -> Nat] /\ todo' = {}
             /\ fpc' \in [Flusher -> FlusherPC]
             /\ wpc' \in WriterPC /\ flushOk' \in BOOLEAN
             /\ serving' \in Flusher \cup {NoFlusher}
             /\ UNCHANGED <<tenants, db, purged, recorded, dropped, ch, bucket,
                           after, done, seen, beforeStop>>
  <2>1. /\ accum' \in [Sample -> Nat] /\ snapshot' \in [Sample -> Nat]
        /\ tx' \in [Sample -> Nat] /\ todo' = {}
    BY <1>a DEF Abandon, Restore, Plus, Zero
  <2>2. fpc' \in [Flusher -> FlusherPC]
    BY <1>a DEF Abandon, FlushReturns
  <2> QED
    BY <1>a, <2>1, <2>2 DEF Abandon, FlushReturns
<1>12. CASE FlushFails
  BY <1>12, <1>a DEF FlushFails
<1>13. ASSUME NEW k \in todo, ExecRefused(k) PROVE TypeOK'
  BY <1>13, <1>a DEF ExecRefused
<1>14. ASSUME NEW f \in Flusher, FlushCountersCall(f) PROVE TypeOK'
  BY <1>14 DEF FlushCountersCall, Accepted
<1>15. CASE Stop
  BY <1>15 DEF Stop, Accepted
<1>16. ASSUME NEW t \in Tenant, DeleteTenant(t) PROVE TypeOK'
  BY <1>16 DEF DeleteTenant, DeleteRows
<1>17. CASE CleanupOldCounters
  BY <1>17 DEF CleanupOldCounters, DeleteRows
<1>18. CASE Tick
  BY <1>18 DEF Tick
<1>19. CASE Restart
  <2>1. Cardinality({}) <= BufferSize
    BY FS_EmptySet
  <2>2. /\ accum' \in [Sample -> Nat] /\ snapshot' \in [Sample -> Nat]
        /\ tx' \in [Sample -> Nat]
    BY <1>19 DEF Restart, Zero
  <2>3. fpc' \in [Flusher -> FlusherPC] /\ seen' \in [Flusher -> SUBSET Sample]
    BY <1>19 DEF Restart
  <2>4. lost' \subseteq Sample /\ restarts' \in Nat
    BY <1>19 DEF Restart
  <2> QED
    BY <1>19, <2>1, <2>2, <2>3, <2>4 DEF Restart
<1>20. CASE UNCHANGED vars
  BY <1>20 DEF vars
<1> QED
  BY <1>1, <1>2, <1>3, <1>4, <1>5, <1>6, <1>7, <1>8, <1>9, <1>10, <1>11,
     <1>12, <1>13, <1>14, <1>15, <1>16, <1>17, <1>18, <1>19, <1>20
     DEF Next, WriterStep

\* Every reachable state of the writer is well typed and its channel never
\* exceeds usageWriterBufferSize.
THEOREM TypeCorrect == Safety => []TypeOK
<1> QED
  BY TypeInit, TypeStep, PTL DEF Safety

-----------------------------------------------------------------------------
(***************************************************************************)
(* Exactly once.  ExactlyOnce is not inductive: Commit adds the contents   *)
(* of the transaction to the table and forgets the snapshot, so the two    *)
(* must be equal then, which is the work of the exec loop.                 *)
(***************************************************************************)

InFlush == {"begin", "prepare", "exec", "commit"}

\* The exec loop: tx holds the snapshot's aggregates except those in todo.
FlushShape ==
    /\ wpc \notin InFlush => \A s \in Sample : snapshot[s] = 0
    /\ wpc \in InFlush => \A s \in Sample : accum[s] = 0
    /\ wpc \notin {"exec", "commit"} => \A s \in Sample : tx[s] = 0
    /\ wpc = "exec" => \A s \in Sample :
                          tx[s] = IF Key(s) \in todo THEN 0 ELSE snapshot[s]
    /\ wpc = "commit" => \A s \in Sample : tx[s] = snapshot[s]

\* A sample nobody recorded is nowhere.
LEMMA UnrecordedNowhere ==
    ASSUME TypeOK, ExactlyOnce, NEW s \in Sample, s \notin recorded
    PROVE  /\ s \notin ch /\ s \notin dropped /\ s \notin lost
           /\ accum[s] = 0 /\ snapshot[s] = 0 /\ db[s] = 0 /\ purged[s] = 0
<1>1. /\ accum[s] \in Nat /\ snapshot[s] \in Nat /\ db[s] \in Nat
      /\ purged[s] \in Nat
  BY DEF TypeOK
<1>2. InMemory(s) \in Nat /\ InTable(s) \in Nat /\ Forgone(s) \in Nat
  BY <1>1 DEF InMemory, InTable, Forgone, Ind
<1>3. InMemory(s) + InTable(s) + Forgone(s) = 0
  BY DEF ExactlyOnce, Ind
<1>4. InMemory(s) = 0 /\ InTable(s) = 0 /\ Forgone(s) = 0
  BY <1>2, <1>3
<1>5. accum[s] = 0 /\ snapshot[s] = 0 /\ s \notin ch
  BY <1>1, <1>4 DEF InMemory, Ind
<1>6. db[s] = 0 /\ purged[s] = 0
  BY <1>1, <1>4 DEF InTable
<1>7. s \notin dropped /\ s \notin lost
  BY <1>4 DEF Forgone, Ind
<1> QED
  BY <1>5, <1>6, <1>7

\* Nothing is in flight at first.
LEMMA OnceInit == Init => FlushShape /\ ExactlyOnce
  BY DEF Init, FlushShape, ExactlyOnce, Zero, InFlush, Ind,
     InMemory, InTable, Forgone

\* Every step leaves each sample in one place: the channel, the map, a snapshot,
\* the table or a set of samples given up for a reason.
LEMMA OnceStep ==
    TypeOK /\ FlushShape /\ ExactlyOnce /\ [Next]_vars
        => FlushShape' /\ ExactlyOnce'
<1> SUFFICES ASSUME TypeOK, FlushShape, ExactlyOnce, [Next]_vars
             PROVE  FlushShape' /\ ExactlyOnce'
  OBVIOUS
<1> USE DEF TypeOK, FlushShape, ExactlyOnce, InFlush, Ind, InMemory, InTable,
      Forgone, dbvars, chanvars, flushvars, ctlvars, callvars, envvars
<1>1. ASSUME NEW s \in Sample, RecordUsage(s) PROVE FlushShape' /\ ExactlyOnce'
  <2>a. s \notin recorded
    BY <1>1 DEF RecordUsage
  <2>1. s \notin ch /\ s \notin dropped /\ snapshot[s] = 0
    BY <2>a, UnrecordedNowhere
  <2>2. tx[s] = 0
    <3>1. CASE wpc = "exec"
      BY <2>1, <3>1
    <3>2. CASE wpc = "commit"
      BY <2>1, <3>2
    <3>3. CASE wpc \notin {"exec", "commit"}
      BY <3>3
    <3> QED
      BY <3>1, <3>2, <3>3
  <2>3. \A x \in Sample : x # s => Key(x)' = Key(x)
    BY <1>1 DEF RecordUsage, Key
  <2>4. FlushShape'
    BY <1>1, <2>1, <2>2, <2>3 DEF RecordUsage
  <2>5. ASSUME NEW x \in Sample
        PROVE  (InMemory(x) + InTable(x) + Forgone(x) = Ind(recorded, x))'
    <3>1. InMemory(x) + InTable(x) + Forgone(x) = Ind(recorded, x)
      OBVIOUS
    <3>2. /\ accum' = accum /\ snapshot' = snapshot /\ lost' = lost
          /\ db' = db /\ purged' = purged
      BY <1>1 DEF RecordUsage
    <3>3. CASE x # s
      <4>1. /\ x \in ch' <=> x \in ch
            /\ x \in dropped' <=> x \in dropped
            /\ x \in recorded' <=> x \in recorded
        BY <1>1, <3>3 DEF RecordUsage
      <4> HIDE DEF ExactlyOnce, FlushShape, TypeOK
      <4> QED
        BY <3>1, <3>2, <4>1
    <3>4. CASE x = s
      <4>1. /\ s \in recorded'
            /\ \/ s \in ch' /\ s \notin dropped'
               \/ s \notin ch' /\ s \in dropped'
        BY <1>1, <2>1 DEF RecordUsage
      <4>2. /\ s \notin lost
            /\ accum[s] = 0 /\ snapshot[s] = 0 /\ db[s] = 0 /\ purged[s] = 0
        BY <2>a, UnrecordedNowhere
      <4> HIDE DEF ExactlyOnce, FlushShape, TypeOK
      <4> QED
        BY <3>2, <3>4, <4>1, <4>2
    <3> QED
      BY <3>3, <3>4
  <2> QED
    BY <2>4, <2>5
<1>2. ASSUME NEW s \in Sample, Accumulate(s) \/ DrainOne(s)
      PROVE  FlushShape' /\ ExactlyOnce'
  BY <1>2 DEF Accumulate, DrainOne, Receive, Plus, Only
<1>3. CASE TickFlush
  BY <1>3 DEF TickFlush
<1>4. ASSUME NEW f \in Flusher, ServeFlush(f) PROVE FlushShape' /\ ExactlyOnce'
  BY <1>4 DEF ServeFlush
<1>5. CASE SeeDone \/ DrainEmpty
  BY <1>5 DEF SeeDone, DrainEmpty
<1>6. CASE TakeSnapshot
  BY <1>6 DEF TakeSnapshot, Zero
<1>7. CASE NothingToFlush
  BY <1>7 DEF NothingToFlush, FlushReturns
<1>8. CASE BeginTx
  BY <1>8 DEF BeginTx
<1>9. CASE PrepareStmt
  <2>1. \A s \in Sample : snapshot[s] > 0 => Key(s)' \in todo'
    BY <1>9 DEF PrepareStmt, Keys, Key
  <2> QED
    BY <1>9, <2>1 DEF PrepareStmt
<1>10. ASSUME NEW k \in todo, ExecKey(k) PROVE FlushShape' /\ ExactlyOnce'
  <2>1. \A s \in Sample : Key(s)' = Key(s)
    BY <1>10 DEF ExecKey, Key
  <2>2. \A s \in Sample : tx'[s] = IF Key(s) = k THEN tx[s] + snapshot[s] ELSE tx[s]
    BY <1>10 DEF ExecKey, Upsert
  <2> QED
    BY <1>10, <2>1, <2>2 DEF ExecKey
<1>11. CASE ExecDone
  BY <1>11 DEF ExecDone
<1>12. CASE Commit
  BY <1>12 DEF Commit, FlushReturns, Plus, Zero
<1>13. CASE FlushFails
  BY <1>13 DEF FlushFails, Abandon, Restore, FlushReturns, Plus, Zero
<1>14. ASSUME NEW k \in todo, ExecRefused(k) PROVE FlushShape' /\ ExactlyOnce'
  BY <1>14 DEF ExecRefused, Abandon, Restore, FlushReturns, Plus, Zero
<1>15. ASSUME NEW f \in Flusher, FlushCountersCall(f)
       PROVE  FlushShape' /\ ExactlyOnce'
  BY <1>15 DEF FlushCountersCall, Key
<1>16. CASE Stop
  BY <1>16 DEF Stop, Key
<1>17. ASSUME NEW t \in Tenant, DeleteTenant(t) PROVE FlushShape' /\ ExactlyOnce'
  BY <1>17 DEF DeleteTenant, DeleteRows, TxOpen, WriterPC, Key
<1>18. CASE CleanupOldCounters
  BY <1>18 DEF CleanupOldCounters, DeleteRows, TxOpen, WriterPC, Key
<1>19. CASE Tick
  BY <1>19 DEF Tick, Key
<1>20. CASE Restart
  <2>1. FlushShape'
    BY <1>20 DEF Restart, Zero
  <2>2. ASSUME NEW s \in Sample
        PROVE  (InMemory(s) + InTable(s) + Forgone(s) = Ind(recorded, s))'
    <3>1. /\ accum[s] \in Nat /\ snapshot[s] \in Nat /\ db[s] \in Nat
          /\ purged[s] \in Nat
      OBVIOUS
    <3>2. InMemory(s) + InTable(s) + Forgone(s) = Ind(recorded, s)
      OBVIOUS
    <3>3. /\ s \notin ch' /\ accum'[s] = 0 /\ snapshot'[s] = 0
          /\ db' = db /\ purged' = purged
          /\ dropped' = dropped /\ recorded' = recorded
          /\ s \in lost' <=> s \in lost \/ s \in ch \/ accum[s] + snapshot[s] > 0
      BY <1>20 DEF Restart, Zero
    <3> HIDE DEF ExactlyOnce, FlushShape, TypeOK
    <3> QED
      BY <3>1, <3>2, <3>3
  <2> QED
    BY <2>1, <2>2
<1>21. CASE UNCHANGED vars
  BY <1>21 DEF vars, Key
<1> QED
  BY <1>1, <1>2, <1>3, <1>4, <1>5, <1>6, <1>7, <1>8, <1>9, <1>10, <1>11,
     <1>12, <1>13, <1>14, <1>15, <1>16, <1>17, <1>18, <1>19, <1>20, <1>21
     DEF Next, WriterStep

\* Every recorded sample is in exactly one place, once, in every reachable
\* state: no error, restart, deletion or retention run between two steps of
\* flush (usage.go:126-191) loses a sample or counts it twice.
THEOREM SamplesCountedOnce == Safety => []ExactlyOnce
<1> QED
  BY TypeInit, TypeStep, OnceInit, OnceStep, PTL DEF Safety

-----------------------------------------------------------------------------
(***************************************************************************)
(* No orphans: a flush that passed the foreign-key check of a row keeps    *)
(* the connection until it ends, so the tenant cannot go away under it.    *)
(***************************************************************************)

\* No step leaves a row without its tenant.
LEMMA OrphanStep ==
    TypeOK /\ FlushShape /\ NoOrphanRows /\ [Next]_vars => NoOrphanRows'
<1> SUFFICES ASSUME TypeOK, FlushShape, NoOrphanRows, [Next]_vars
             PROVE  NoOrphanRows'
  OBVIOUS
<1> USE DEF TypeOK, NoOrphanRows, dbvars, chanvars, flushvars, ctlvars,
      callvars, envvars
<1>1. CASE UNCHANGED <<tenants, db, tx>>
  BY <1>1
<1>2. ASSUME NEW k \in todo, ExecKey(k) PROVE NoOrphanRows'
  <2>1. \A s \in Sample : Key(s) = k => TenantOf[s] \in tenants
    BY <1>2 DEF ExecKey, ForeignKeyHolds, Key
  <2>2. \A s \in Sample : tx'[s] = IF Key(s) = k THEN tx[s] + snapshot[s] ELSE tx[s]
    BY <1>2 DEF ExecKey, Upsert
  <2> QED
    BY <1>2, <2>1, <2>2 DEF ExecKey
<1>3. CASE Commit
  <2>1. ASSUME NEW s \in Sample PROVE db'[s] + tx'[s] = db[s] + tx[s]
    BY <1>3 DEF Commit, Plus, Zero
  <2> QED
    BY <1>3, <2>1 DEF Commit
<1>4. CASE Abandon
  <2>1. ASSUME NEW s \in Sample PROVE tx'[s] = 0 /\ db'[s] = db[s]
    BY <1>4 DEF Abandon, Zero
  <2> QED
    BY <1>4, <2>1 DEF Abandon
<1>5. ASSUME NEW t \in Tenant, DeleteTenant(t) PROVE NoOrphanRows'
  <2>1. ASSUME NEW s \in Sample
        PROVE  /\ tx'[s] = 0
               /\ db'[s] = IF TenantOf[s] = t THEN 0 ELSE db[s]
    BY <1>5 DEF DeleteTenant, DeleteRows, Cascade, TxOpen, FlushShape
  <2>2. \A s \in Sample : tx[s] \in Nat /\ db[s] \in Nat
    OBVIOUS
  <2>3. tenants' = tenants \ {t}
    BY <1>5 DEF DeleteTenant
  <2> QED
    BY <2>1, <2>2, <2>3
<1>6. CASE CleanupOldCounters
  <2>1. ASSUME NEW s \in Sample PROVE tx'[s] = tx[s] /\ db'[s] <= db[s]
    BY <1>6 DEF CleanupOldCounters, DeleteRows
  <2>2. \A s \in Sample : tx[s] \in Nat /\ db[s] \in Nat /\ db'[s] \in Nat
    BY <1>6 DEF CleanupOldCounters, DeleteRows
  <2> QED
    BY <1>6, <2>1, <2>2 DEF CleanupOldCounters
<1>7. CASE Restart
  <2>1. ASSUME NEW s \in Sample PROVE tx'[s] = 0 /\ db'[s] = db[s]
    BY <1>7 DEF Restart, Zero
  <2> QED
    BY <1>7, <2>1 DEF Restart
<1> QED
  BY <1>1, <1>2, <1>3, <1>4, <1>5, <1>6, <1>7
     DEF Next, WriterStep, RecordUsage, Accumulate, DrainOne, Receive,
         TickFlush, ServeFlush, SeeDone, DrainEmpty, TakeSnapshot,
         NothingToFlush, BeginTx, PrepareStmt, ExecDone, FlushFails,
         ExecRefused, FlushCountersCall, Stop, Tick, vars

\* usage_counters never holds a row of a tenant that was deleted, whatever
\* the order of administrator deletes and flushes.
THEOREM NoOrphans == Safety => []NoOrphanRows
<1>1. Init => NoOrphanRows
  BY DEF Init, NoOrphanRows, Zero
<1> QED
  BY <1>1, TypeInit, TypeStep, OnceInit, OnceStep, OrphanStep, PTL DEF Safety

-----------------------------------------------------------------------------
(***************************************************************************)
(* What Stop and FlushCounters promise.  A sample accepted before the call *)
(* is out of the channel once drain has found it empty, and out of the map *)
(* once the snapshot is taken; by ExactlyOnce it is in the table when the  *)
(* flush has succeeded.                                                    *)
(***************************************************************************)

Drained == {"snapshot"} \cup InFlush

\* What is known on the way through the final flush.
StopShape ==
    /\ beforeStop \subseteq Accepted
    /\ ~done => beforeStop = {}
    /\ wpc = "exited" => done
    /\ after = "exit" /\ wpc # "select" => done
    /\ after = "exit" /\ wpc \in Drained => beforeStop \cap ch = {}

\* What is known on the way through a requested flush.
AckShape ==
    /\ \A f \in Flusher : seen[f] \subseteq Accepted
    /\ \A f \in Flusher : fpc[f] = "waiting" =>
           after = "ack" /\ serving = f /\ wpc \in {"drain"} \cup Drained
    /\ after = "ack" /\ wpc \in {"drain"} \cup Drained =>
           \A f \in Flusher : serving = f => fpc[f] = "waiting"
    /\ after = "ack" /\ wpc \in Drained =>
           \A f \in Flusher : serving = f => seen[f] \cap ch = {}

\* An accepted sample that is no longer in memory is in the table.
OutOfMemory ==
    \A s \in Accepted : InMemory(s) = 0 => Settled(s)

\* A sample that is accounted for once and not in memory has been settled.
LEMMA NotInMemory == TypeOK /\ ExactlyOnce => OutOfMemory
<1> SUFFICES ASSUME TypeOK, ExactlyOnce, NEW s \in Accepted, InMemory(s) = 0
             PROVE  Settled(s)
  BY DEF OutOfMemory
<1>1. s \in Sample /\ s \in recorded /\ s \notin dropped /\ s \notin lost
  BY DEF TypeOK, Accepted
<1>2. InMemory(s) + InTable(s) + Forgone(s) = 1
  BY <1>1 DEF ExactlyOnce, Ind
<1>3. Forgone(s) = 0
  BY <1>1 DEF Forgone, Ind
<1>4. db[s] \in Nat /\ purged[s] \in Nat
  BY <1>1 DEF TypeOK
<1>5. InTable(s) = 1
  BY <1>2, <1>3, <1>4 DEF InTable
<1> QED
  BY <1>4, <1>5 DEF InTable, Settled

\* What reached the table has reached it for good, purged or not.
LEMMA SettledStable ==
    TypeOK /\ [Next]_vars => \A s \in Sample : Settled(s) => Settled(s)'
<1> SUFFICES ASSUME TypeOK, [Next]_vars, NEW s \in Sample, Settled(s)
             PROVE  Settled(s)'
  OBVIOUS
<1>0. db[s] \in Nat /\ purged[s] \in Nat /\ tx[s] \in Nat
  BY DEF TypeOK
<1> USE DEF Settled, dbvars, chanvars, flushvars, ctlvars, callvars, envvars
<1>1. CASE UNCHANGED <<db, purged>>
  BY <1>1
<1>2. CASE Commit
  BY <1>0, <1>2 DEF Commit, Plus
<1>3. ASSUME NEW S, DeleteRows(S) PROVE Settled(s)'
  BY <1>0, <1>3 DEF DeleteRows
<1> QED
  BY <1>1, <1>2, <1>3
     DEF Next, WriterStep, RecordUsage, Accumulate, DrainOne, Receive,
         TickFlush, ServeFlush, SeeDone, DrainEmpty, TakeSnapshot,
         NothingToFlush, BeginTx, PrepareStmt, ExecKey, ExecDone, FlushFails,
         ExecRefused, Abandon, FlushCountersCall, Stop, DeleteTenant,
         CleanupOldCounters, Tick, Restart, vars

\* The shape of a writer that is stopping, or that serves a FlushCounters.
LEMMA StopStep ==
    TypeOK /\ TypeOK' /\ StopShape /\ AckShape /\ [Next]_vars
        => StopShape' /\ AckShape'
<1> SUFFICES ASSUME TypeOK, TypeOK', StopShape, AckShape, [Next]_vars
             PROVE  StopShape' /\ AckShape'
  OBVIOUS
<1> USE NoFlusherAssumption DEF StopShape, AckShape, Accepted, Drained, InFlush,
      dbvars, chanvars, flushvars, ctlvars, callvars, envvars
<1>1. ASSUME NEW s \in Sample, RecordUsage(s) PROVE StopShape' /\ AckShape'
  BY <1>1 DEF RecordUsage, TypeOK
<1>2. ASSUME NEW s \in Sample, Accumulate(s) \/ DrainOne(s)
      PROVE  StopShape' /\ AckShape'
  BY <1>2 DEF Accumulate, DrainOne, Receive
<1>3. CASE TickFlush
  BY <1>3 DEF TickFlush
<1>4. ASSUME NEW f \in Flusher, ServeFlush(f) PROVE StopShape' /\ AckShape'
  BY <1>4 DEF ServeFlush, TypeOK
<1>5. CASE SeeDone \/ DrainEmpty
  BY <1>5 DEF SeeDone, DrainEmpty
<1>6. CASE TakeSnapshot \/ BeginTx \/ PrepareStmt \/ ExecDone
  BY <1>6 DEF TakeSnapshot, BeginTx, PrepareStmt, ExecDone
<1>7. ASSUME NEW ok \in BOOLEAN, FlushReturns(ok), wpc \in Drained,
             UNCHANGED <<recorded, dropped, ch, lost>>
      PROVE  StopShape' /\ AckShape'
  <2>1. ASSUME NEW f \in Flusher PROVE fpc'[f] # "waiting"
    <3>1. fpc'[f] = IF after = "ack" /\ f = serving
                    THEN IF ok THEN "acked" ELSE "failed" ELSE fpc[f]
      BY <1>7 DEF FlushReturns
    <3> QED
      BY <3>1
  <2> QED
    BY <1>7, <2>1 DEF FlushReturns
<1>8. ASSUME NEW k \in todo, ExecKey(k) PROVE StopShape' /\ AckShape'
  BY <1>8 DEF ExecKey
<1>9. ASSUME NEW f \in Flusher, FlushCountersCall(f) PROVE StopShape' /\ AckShape'
  <2>1. \A g \in Flusher : seen'[g] \subseteq Accepted
    BY <1>9 DEF FlushCountersCall, TypeOK
  <2>2. \A g \in Flusher : fpc'[g] = "waiting" => fpc[g] = "waiting"
    BY <1>9 DEF FlushCountersCall, TypeOK
  <2>3. after = "ack" /\ wpc \in {"drain"} \cup Drained => serving # f
    BY <1>9 DEF FlushCountersCall
  <2>4. \A g \in Flusher : g # f => seen'[g] = seen[g] /\ fpc'[g] = fpc[g]
    BY <1>9 DEF FlushCountersCall, TypeOK
  <2> QED
    BY <1>9, <2>1, <2>2, <2>3, <2>4 DEF FlushCountersCall
<1>10. CASE Stop
  BY <1>10 DEF Stop
<1>11. ASSUME NEW t \in Tenant, DeleteTenant(t) PROVE StopShape' /\ AckShape'
  BY <1>11 DEF DeleteTenant
<1>12. CASE CleanupOldCounters \/ Tick
  BY <1>12 DEF CleanupOldCounters, Tick
<1>13. CASE Restart
  BY <1>13 DEF Restart
<1>14. CASE UNCHANGED vars
  BY <1>14 DEF vars
<1> QED
  BY <1>1, <1>2, <1>3, <1>4, <1>5, <1>6, <1>7, <1>8, <1>9, <1>10, <1>11,
     <1>12, <1>13, <1>14
     DEF Next, WriterStep, NothingToFlush, Commit, FlushFails, ExecRefused, Abandon

\* The conjunction the two promises are proved from.
CoverInv == StopShape /\ AckShape /\ StopPersists /\ AckedFlushPersists

\* What a Stop or a flush has to cover stays in memory until it is persisted.
LEMMA CoverStep ==
    TypeOK /\ FlushShape /\ TypeOK' /\ FlushShape' /\ OutOfMemory' /\ CoverInv
      /\ [Next]_vars => StopPersists' /\ AckedFlushPersists'
<1> SUFFICES ASSUME TypeOK, FlushShape, TypeOK', FlushShape', OutOfMemory',
                    CoverInv, [Next]_vars
             PROVE  StopPersists' /\ AckedFlushPersists'
  OBVIOUS
<1> StopShape /\ AckShape /\ StopPersists /\ AckedFlushPersists
  BY DEF CoverInv
<1>s. \A s \in Sample : Settled(s) => Settled(s)'
  BY SettledStable
\* Steps that neither end a flush nor change what the calls cover.
<1>1. ASSUME UNCHANGED <<beforeStop, seen, flushOk>>,
             wpc' # "exited" \/ wpc' = wpc,
             \A f \in Flusher : fpc'[f] = "acked" => fpc[f] = "acked"
      PROVE  StopPersists' /\ AckedFlushPersists'
  <2>1. beforeStop \subseteq Sample /\ \A f \in Flusher : seen[f] \subseteq Sample
    BY DEF TypeOK
  <2> QED
    BY <1>1, <1>s, <2>1 DEF StopPersists, AckedFlushPersists
\* Steps that end a flush: the flush that succeeded emptied the memory.
<1>2. ASSUME FlushReturns(FALSE) PROVE StopPersists' /\ AckedFlushPersists'
  <2>1. \A f \in Flusher : seen[f] \subseteq Sample /\ seen'[f] = seen[f]
    BY <1>2 DEF TypeOK, FlushReturns
  <2>2. \A f \in Flusher : fpc'[f] = "acked" => fpc[f] = "acked"
    BY <1>2 DEF FlushReturns
  <2> QED
    BY <1>2, <1>s, <2>1, <2>2 DEF StopPersists, AckedFlushPersists, FlushReturns
<1>3. ASSUME FlushReturns(TRUE), wpc \in Drained,
             \A s \in Sample : accum'[s] = 0 /\ snapshot'[s] = 0,
             UNCHANGED <<recorded, dropped, ch, lost>>
      PROVE  StopPersists' /\ AckedFlushPersists'
  <2>1. ASSUME NEW s \in Accepted, s \notin ch PROVE Settled(s)'
    <3>1. s \in Sample /\ s \in Accepted' /\ s \notin ch'
      BY <1>3, <2>1 DEF Accepted, TypeOK
    <3>2. InMemory(s)' = 0
      BY <1>3, <3>1 DEF InMemory, Ind
    <3> QED
      BY <3>1, <3>2 DEF OutOfMemory
  <2>2. StopPersists'
    <3> SUFFICES ASSUME wpc' = "exited", NEW s \in beforeStop' PROVE Settled(s)'
      BY DEF StopPersists
    <3>1. after = "exit" /\ s \in beforeStop
      BY <1>3 DEF FlushReturns
    <3> QED
      BY <1>3, <2>1, <3>1 DEF StopShape
  <2>3. AckedFlushPersists'
    <3> SUFFICES ASSUME NEW f \in Flusher, fpc'[f] = "acked", NEW s \in seen'[f]
                 PROVE  Settled(s)'
      BY DEF AckedFlushPersists
    <3>1. s \in seen[f] /\ s \in Sample
      BY <1>3 DEF FlushReturns, TypeOK
    <3>2. CASE after = "ack" /\ f = serving
      BY <1>3, <2>1, <3>1, <3>2 DEF AckShape
    <3>3. CASE ~(after = "ack" /\ f = serving)
      <4>1. fpc[f] = "acked"
        BY <1>3, <3>3 DEF FlushReturns
      <4> QED
        BY <1>s, <3>1, <4>1 DEF AckedFlushPersists
    <3> QED
      BY <3>2, <3>3
  <2> QED
    BY <2>2, <2>3
<1> USE DEF dbvars, chanvars, flushvars, ctlvars, callvars, envvars
<1>4. CASE NothingToFlush
  <2>1. \A s \in Sample : accum'[s] = 0 /\ snapshot'[s] = 0
    BY <1>4 DEF NothingToFlush, Zero, FlushShape, InFlush
  <2> QED
    BY <1>3, <1>4, <2>1 DEF NothingToFlush, Drained
<1>5. CASE Commit
  <2>1. \A s \in Sample : accum'[s] = 0 /\ snapshot'[s] = 0
    BY <1>5 DEF Commit, Zero, FlushShape, InFlush
  <2> QED
    BY <1>3, <1>5, <2>1 DEF Commit, Drained, InFlush
<1>6. CASE Abandon
  BY <1>2, <1>6 DEF Abandon
<1>7. ASSUME NEW f \in Flusher, ServeFlush(f)
      PROVE  StopPersists' /\ AckedFlushPersists'
  BY <1>1, <1>7 DEF ServeFlush, TypeOK
<1>8. ASSUME NEW f \in Flusher, FlushCountersCall(f)
      PROVE  StopPersists' /\ AckedFlushPersists'
  <2>1. \A g \in Flusher : fpc'[g] = "acked" => fpc[g] = "acked" /\ seen'[g] = seen[g]
    BY <1>8 DEF FlushCountersCall, TypeOK
  <2>2. beforeStop \subseteq Sample /\ \A g \in Flusher : seen[g] \subseteq Sample
    BY DEF TypeOK
  <2> QED
    BY <1>8, <1>s, <2>1, <2>2 DEF FlushCountersCall, StopPersists, AckedFlushPersists
<1>9. CASE Stop
  <2>1. wpc' # "exited"
    BY <1>9 DEF Stop, StopShape
  <2>2. \A g \in Flusher : seen[g] \subseteq Sample
    BY DEF TypeOK
  <2> QED
    BY <1>9, <1>s, <2>1, <2>2 DEF Stop, StopPersists, AckedFlushPersists
<1>10. CASE Restart
  BY <1>10 DEF Restart, StopPersists, AckedFlushPersists
<1>11. CASE UNCHANGED <<beforeStop, seen, flushOk, fpc>> /\ (wpc' # "exited" \/ wpc' = wpc)
  BY <1>1, <1>11
<1> QED
  BY <1>4, <1>5, <1>6, <1>7, <1>8, <1>9, <1>10, <1>11
     DEF Next, WriterStep, RecordUsage, Accumulate, DrainOne, Receive,
         TickFlush, SeeDone, DrainEmpty, TakeSnapshot, BeginTx, PrepareStmt,
         ExecKey, ExecDone, FlushFails, ExecRefused, DeleteTenant,
         CleanupOldCounters, Tick, vars

\* Stop (usage.go:91-97) and a served FlushCounters (usage.go:221-231) persist
\* everything accepted before the call, unless their flush failed.
LEMMA CallsPersist == Safety => [](StopPersists /\ AckedFlushPersists)
<1>1. Init => CoverInv
  BY NoFlusherAssumption DEF Init, CoverInv, StopShape, AckShape, StopPersists,
     AckedFlushPersists, Drained, InFlush
<1>2. TypeOK /\ FlushShape /\ ExactlyOnce /\ CoverInv /\ [Next]_vars => CoverInv'
  <2> SUFFICES ASSUME TypeOK, FlushShape, ExactlyOnce, CoverInv, [Next]_vars
               PROVE  CoverInv'
    OBVIOUS
  <2>1. TypeOK' /\ FlushShape' /\ ExactlyOnce'
    BY TypeStep, OnceStep
  <2>2. OutOfMemory'
    BY <2>1, NotInMemory, PTL
  <2> QED
    BY <2>1, <2>2, StopStep, CoverStep DEF CoverInv
<1>3. CoverInv => StopPersists /\ AckedFlushPersists
  BY DEF CoverInv
<1> QED
  BY <1>1, <1>2, <1>3, TypeInit, TypeStep, OnceInit, OnceStep, PTL DEF Safety

\* What was accepted before Stop is settled when the writer has exited, although
\* its last flush drains a channel that others still fill (Stop, run, flush).
THEOREM StopKeepsItsPromise == Safety => []StopPersists
  BY CallsPersist, PTL

\* What was accepted before FlushCounters is settled when it is acknowledged,
\* whatever was merged back or served before (FlushCounters, flush, restore).
THEOREM FlushKeepsItsPromise == Safety => []AckedFlushPersists
  BY CallsPersist, PTL

\* A row leaves usage_counters only with its tenant or past its retention:
\* no flush, failure or restart takes back what was committed.
THEOREM CommittedRowsStay == Safety => RowsLeaveForAReason
<1> DEFINE Reason(s) == \/ TenantOf[s] \in tenants \ tenants'
                        \/ bucket[s] + Retention < hour
<1>1. TypeOK /\ [Next]_vars => [\A s \in Sample : db'[s] < db[s] => Reason(s)]_vars
  <2> SUFFICES ASSUME TypeOK, Next, NEW s \in Sample, db'[s] < db[s]
               PROVE  Reason(s)
    OBVIOUS
  <2>1. /\ db \in [Sample -> Nat] /\ tx \in [Sample -> Nat]
        /\ bucket[s] \in Nat /\ hour \in Nat /\ Retention \in Nat
    BY UsageAssumption DEF TypeOK
  <2>2. db' # db
    BY <2>1
  <2>3. CASE Commit
    <3>1. db'[s] = db[s] + tx[s]
      BY <2>3 DEF Commit, Plus
    <3> QED
      BY <2>1, <3>1
  <2>4. ASSUME NEW t \in Tenant, DeleteTenant(t) PROVE Reason(s)
    <3>1. s \in Cascade(t)
      BY <2>1, <2>4 DEF DeleteTenant, DeleteRows
    <3> QED
      BY <2>4, <3>1 DEF DeleteTenant, Cascade
  <2>5. CASE CleanupOldCounters
    <3>1. s \in Expired
      BY <2>1, <2>5 DEF CleanupOldCounters, DeleteRows
    <3> QED
      BY <2>1, <3>1 DEF Expired
  <2>6. CASE UNCHANGED db
    BY <2>2, <2>6
  <2> QED
    BY <2>3, <2>4, <2>5, <2>6
       DEF Next, WriterStep, RecordUsage, Accumulate, DrainOne, Receive,
           TickFlush, ServeFlush, SeeDone, DrainEmpty, TakeSnapshot,
           NothingToFlush, BeginTx, PrepareStmt, ExecKey, ExecDone, FlushFails,
           ExecRefused, Abandon, FlushCountersCall, Stop, Tick, Restart, dbvars
<1> QED
  BY <1>1, TypeInit, TypeStep, PTL DEF Safety, RowsLeaveForAReason

-----------------------------------------------------------------------------
(***************************************************************************)
(* Refinement: UsageWriter implements UsageLedger under StatusMap.         *)
(***************************************************************************)

\* The places of a sample exclude each other.
LEMMA Places ==
    ASSUME TypeOK, ExactlyOnce, NEW s \in Sample
    PROVE  /\ db[s] > 0 => /\ s \in recorded /\ s \notin dropped
                           /\ s \notin lost /\ purged[s] = 0
           /\ purged[s] > 0 => /\ s \in recorded /\ s \notin dropped
                               /\ s \notin lost /\ db[s] = 0
           /\ InMemory(s) > 0 => /\ s \in recorded /\ s \notin dropped
                                 /\ s \notin lost /\ db[s] = 0 /\ purged[s] = 0
           /\ s \in recorded /\ s \notin dropped /\ s \notin lost
                /\ db[s] = 0 /\ purged[s] = 0 => InMemory(s) > 0
<1>1. /\ accum[s] \in Nat /\ snapshot[s] \in Nat /\ db[s] \in Nat
      /\ purged[s] \in Nat
  BY DEF TypeOK
<1>2. InMemory(s) \in Nat /\ InTable(s) \in Nat /\ Forgone(s) \in Nat
  BY <1>1 DEF InMemory, InTable, Forgone, Ind
<1>3. InMemory(s) + InTable(s) + Forgone(s) = IF s \in recorded THEN 1 ELSE 0
  BY DEF ExactlyOnce, Ind
<1>4. /\ InTable(s) > 0 => s \in recorded /\ Forgone(s) = 0 /\ InTable(s) = 1
      /\ InMemory(s) > 0 => s \in recorded /\ Forgone(s) = 0 /\ InTable(s) = 0
      /\ s \in recorded /\ Forgone(s) = 0 /\ InTable(s) = 0 => InMemory(s) > 0
  BY <1>2, <1>3
<1>5. Forgone(s) = 0 <=> s \notin dropped /\ s \notin lost
  BY DEF Forgone, Ind
<1>6. /\ InTable(s) = 0 <=> db[s] = 0 /\ purged[s] = 0
      /\ db[s] > 0 => InTable(s) > 0
      /\ purged[s] > 0 => InTable(s) > 0
      /\ InTable(s) = 1 => (db[s] > 0 => purged[s] = 0)
      /\ InTable(s) = 1 => (purged[s] > 0 => db[s] = 0)
  BY <1>1 DEF InTable
<1> QED
  BY <1>4, <1>5, <1>6

\* The initial state is an empty ledger.
LEMMA LedgerInit == Init => Ledger!Init
  BY DEF Init, Ledger!Init, StatusMap, StatusOf, Zero

\* Steps the ledger does not see.
LEMMA LedgerStutters ==
    ASSUME UNCHANGED <<tenants, recorded, dropped, lost, db, purged>>
    PROVE  UNCHANGED Ledger!lvars
  BY DEF Ledger!lvars, StatusMap, StatusOf

\* A handler's call is an Accept or a Drop.
LEMMA LedgerRecord ==
    ASSUME TypeOK, ExactlyOnce, NEW s \in Sample, RecordUsage(s)
    PROVE  Ledger!Accept(s) \/ Ledger!Drop(s)
<1>1. s \notin recorded
  BY DEF RecordUsage
<1>2. s \notin dropped /\ s \notin lost /\ db[s] = 0 /\ purged[s] = 0
  BY <1>1, UnrecordedNowhere
<1>3. StatusMap[s] = "new"
  BY <1>1, <1>2 DEF StatusMap, StatusOf
<1>4. /\ tenants' = tenants /\ lost' = lost /\ db' = db /\ purged' = purged
      /\ recorded' = recorded \cup {s}
      /\ dropped' = dropped \/ dropped' = dropped \cup {s}
  BY DEF RecordUsage, dbvars, envvars
<1>5. CASE dropped' = dropped
  BY <1>2, <1>3, <1>4, <1>5 DEF Ledger!Accept, Ledger!Move, StatusMap, StatusOf
<1>6. CASE dropped' = dropped \cup {s}
  BY <1>2, <1>3, <1>4, <1>6 DEF Ledger!Drop, Ledger!Move, StatusMap, StatusOf
<1> QED
  BY <1>4, <1>5, <1>6

\* A commit posts the whole snapshot.
LEMMA LedgerCommit ==
    ASSUME TypeOK, ExactlyOnce, FlushShape, NoOrphanRows, Commit
    PROVE  Ledger!Post({s \in Sample : tx[s] > 0})
<1> DEFINE S == {s \in Sample : tx[s] > 0}
<1>1. ASSUME NEW s \in Sample
      PROVE  /\ tx[s] \in Nat /\ db[s] \in Nat /\ purged[s] \in Nat
             /\ accum[s] \in Nat /\ snapshot[s] = tx[s]
             /\ db'[s] = db[s] + tx[s]
  BY DEF TypeOK, Commit, FlushShape, Plus
<1>2. ASSUME NEW s \in S
      PROVE  /\ s \in recorded /\ s \notin dropped /\ s \notin lost
             /\ db[s] = 0 /\ purged[s] = 0 /\ TenantOf[s] \in tenants
  <2>1. InMemory(s) > 0
    BY <1>1 DEF InMemory, Ind
  <2>2. TenantOf[s] \in tenants
    BY <1>1 DEF NoOrphanRows
  <2> QED
    BY <2>1, <2>2, Places
<1>3. UNCHANGED <<tenants, recorded, dropped, lost, purged>>
  BY DEF Commit, chanvars, envvars
<1>4. \A s \in S : StatusMap[s] = "pending"
  BY <1>2 DEF StatusMap, StatusOf
<1>5. ASSUME NEW s \in Sample
      PROVE  StatusOf(s)' = IF s \in S THEN "counted" ELSE StatusOf(s)
  <2>1. CASE s \in S
    BY <1>1, <1>2, <1>3, <2>1 DEF StatusOf
  <2>2. CASE s \notin S
    <3>1. db'[s] = db[s]
      BY <1>1, <2>2
    <3> QED
      BY <1>3, <2>2, <3>1 DEF StatusOf
  <2> QED
    BY <2>1, <2>2
<1>6. StatusMap' = [s \in Sample |-> IF s \in S THEN "counted" ELSE StatusMap[s]]
  BY <1>5 DEF StatusMap
<1> HIDE DEF S
<1>7. S \subseteq Sample
  BY DEF S
<1>8. Ledger!Post(S)
  BY <1>2, <1>3, <1>4, <1>6, <1>7 DEF Ledger!Post, Ledger!Move, Ledger!Having
<1> QED
  BY <1>8 DEF S

\* Removing the rows of T purges exactly the samples of T that were counted.
LEMMA LedgerPurge ==
    ASSUME TypeOK, ExactlyOnce, NEW T \in SUBSET Sample, DeleteRows(T),
           UNCHANGED <<recorded, dropped, lost>>
    PROVE  StatusMap' = [s \in Sample |->
                IF s \in T /\ StatusMap[s] = "counted" THEN "purged" ELSE StatusMap[s]]
<1>1. ASSUME NEW s \in Sample
      PROVE  StatusOf(s)' = IF s \in T /\ StatusOf(s) = "counted"
                            THEN "purged" ELSE StatusOf(s)
  <2>1. db[s] \in Nat /\ purged[s] \in Nat
    BY DEF TypeOK
  <2>2. db'[s] = (IF s \in T THEN 0 ELSE db[s])
    BY DEF DeleteRows
  <2>3. purged'[s] = (IF s \in T THEN purged[s] + db[s] ELSE purged[s])
    BY DEF DeleteRows
  <2>4. CASE s \notin T
    BY <2>2, <2>3, <2>4 DEF StatusOf
  <2>5. CASE s \in T /\ db[s] = 0
    <3>1. db'[s] = db[s] /\ purged'[s] = purged[s]
      BY <2>1, <2>2, <2>3, <2>5
    <3>2. StatusOf(s) # "counted"
      BY <2>5 DEF StatusOf
    <3> QED
      BY <3>1, <3>2 DEF StatusOf
  <2>6. CASE s \in T /\ db[s] > 0
    <3>1. s \notin dropped /\ s \notin lost /\ purged[s] = 0
      BY <2>6, Places
    <3>2. purged'[s] > 0
      BY <2>1, <2>3, <2>6
    <3>3. StatusOf(s) = "counted"
      BY <2>6, <3>1 DEF StatusOf
    <3>4. StatusOf(s)' = "purged"
      BY <3>1, <3>2 DEF StatusOf
    <3> QED
      BY <2>6, <3>3, <3>4
  <2> QED
    BY <2>1, <2>4, <2>5, <2>6
<1> QED
  BY <1>1 DEF StatusMap

\* A restart loses exactly the pending samples.
LEMMA LedgerRestart ==
    ASSUME TypeOK, ExactlyOnce, Restart PROVE Ledger!Lose
<1>1. UNCHANGED <<tenants, recorded, dropped, db, purged>>
  BY DEF Restart, dbvars
<1>2. ASSUME NEW s \in Sample
      PROVE  StatusOf(s)' = IF StatusOf(s) = "pending" THEN "lost" ELSE StatusOf(s)
  <2>1. /\ accum[s] \in Nat /\ snapshot[s] \in Nat /\ db[s] \in Nat
        /\ purged[s] \in Nat
    BY DEF TypeOK
  <2>2. InMemory(s) > 0 <=> s \in ch \/ accum[s] + snapshot[s] > 0
    BY <2>1 DEF InMemory, Ind
  <2>3. s \in lost' <=> s \in lost \/ InMemory(s) > 0
    BY <2>2 DEF Restart
  <2>4. StatusOf(s) = "pending" <=> InMemory(s) > 0
    BY <2>1, Places DEF StatusOf
  <2>5. CASE InMemory(s) > 0
    <3>1. s \notin dropped' /\ s \in lost'
      BY <1>1, <2>3, <2>5, Places
    <3> QED
      BY <2>4, <2>5, <3>1 DEF StatusOf
  <2>6. CASE ~(InMemory(s) > 0)
    BY <1>1, <2>3, <2>4, <2>6 DEF StatusOf
  <2> QED
    BY <2>5, <2>6
<1> QED
  BY <1>1, <1>2 DEF Ledger!Lose, Ledger!Move, Ledger!Having, StatusMap

\* Every step of the writer is a step of the ledger, or none.
LEMMA LedgerStep ==
    TypeOK /\ ExactlyOnce /\ FlushShape /\ NoOrphanRows /\ [Next]_vars
        => [Ledger!Next]_(Ledger!lvars)
<1> SUFFICES ASSUME TypeOK, ExactlyOnce, FlushShape, NoOrphanRows, [Next]_vars
             PROVE  Ledger!Next \/ UNCHANGED Ledger!lvars
  OBVIOUS
<1> USE DEF dbvars, chanvars, flushvars, ctlvars, callvars, envvars
<1>1. ASSUME NEW s \in Sample, RecordUsage(s) PROVE Ledger!Next
  BY <1>1, LedgerRecord DEF Ledger!Next
<1>2. CASE Commit
  BY <1>2, LedgerCommit DEF Ledger!Next
<1>3. ASSUME NEW t \in Tenant, DeleteTenant(t) PROVE Ledger!Next
  <2>1. StatusMap' = [s \in Sample |->
            IF s \in Cascade(t) /\ StatusMap[s] = "counted"
            THEN "purged" ELSE StatusMap[s]]
    BY <1>3, LedgerPurge DEF DeleteTenant, Cascade
  <2>2. t \in tenants /\ tenants' = tenants \ {t}
    BY <1>3 DEF DeleteTenant
  <2>3. Ledger!DeleteTenant(t)
    BY <2>1, <2>2 DEF Ledger!DeleteTenant, Ledger!Move, Ledger!Having, Cascade
  <2> QED
    BY <2>3 DEF Ledger!Next
<1>4. CASE CleanupOldCounters
  <2> DEFINE S == {s \in Expired : StatusMap[s] = "counted"}
  <2>1. StatusMap' = [s \in Sample |->
            IF s \in Expired /\ StatusMap[s] = "counted"
            THEN "purged" ELSE StatusMap[s]]
    BY <1>4, LedgerPurge DEF CleanupOldCounters, Expired
  <2>2. tenants' = tenants
    BY <1>4 DEF CleanupOldCounters
  <2>3. S \in SUBSET Sample
    BY DEF Expired
  <2>4. Ledger!Expire(S)
    BY <2>1, <2>2, <2>3 DEF Ledger!Expire, Ledger!Move, Ledger!Having
  <2> QED
    BY <2>3, <2>4 DEF Ledger!Next
<1>5. CASE Restart
  BY <1>5, LedgerRestart DEF Ledger!Next
<1>6. CASE UNCHANGED <<tenants, recorded, dropped, lost, db, purged>>
  BY <1>6, LedgerStutters
<1> QED
  BY <1>1, <1>2, <1>3, <1>4, <1>5, <1>6
     DEF Next, WriterStep, Accumulate, DrainOne, Receive, TickFlush, ServeFlush,
         SeeDone, DrainEmpty, TakeSnapshot, NothingToFlush, BeginTx, PrepareStmt,
         ExecKey, ExecDone, FlushFails, ExecRefused, Abandon, FlushReturns,
         FlushCountersCall, Stop, Tick, vars

\* The usage writer implements the abstract ledger: each sample is counted at
\* most once, in whole flushes, only for tenants that exist, and leaves
\* usage_counters only by deletion or retention.
THEOREM WriterImplementsLedger == Safety => LedgerSpec
<1>1. Init => NoOrphanRows
  BY DEF Init, NoOrphanRows, Zero
<1> QED
  BY <1>1, TypeInit, TypeStep, OnceInit, OnceStep, OrphanStep, LedgerInit,
     LedgerStep, PTL DEF Safety, LedgerSpec, Ledger!Spec
=============================================================================
