------------------------- MODULE SyslogServerProofs -------------------------
(***************************************************************************)
(* What SyslogServer and its pool guarantee for every number of clients,   *)
(* tenants and sockets, and all caps.                                      *)
(***************************************************************************)
EXTENDS SyslogServer, FiniteSetTheorems, TLAPS

PoolInv == PoolTypeOK /\ SocketsAreOwned

-----------------------------------------------------------------------------
(***************************************************************************)
(* The pool.                                                               *)
(***************************************************************************)

\* Cardinality of a pool that changes by one socket.
LEMMA PoolCardinality ==
  ASSUME PoolTypeOK, NEW s \in Socket
  PROVE  /\ Cardinality(pool) \in Nat /\ Cardinality({}) = 0
         /\ Cardinality(pool \ {s}) \in Nat /\ Cardinality(pool \cup {s}) \in Nat
         /\ Cardinality(pool \ {s}) <= Cardinality(pool)
         /\ Cardinality(pool \cup {s}) <= Cardinality(pool) + 1
<1>1. IsFiniteSet(pool)
  BY PoolAssumption, FS_Subset DEF PoolTypeOK
<1>2. Cardinality(pool) \in Nat
  BY <1>1, FS_CardinalityType
<1>3. Cardinality(pool \ {s}) = IF s \in pool THEN Cardinality(pool) - 1
                                              ELSE Cardinality(pool)
  BY <1>1, FS_RemoveElement
<1>4. Cardinality(pool \cup {s}) = IF s \in pool THEN Cardinality(pool)
                                                 ELSE Cardinality(pool) + 1
  BY <1>1, FS_AddElement
<1>5. Cardinality(pool \ {s}) \in Nat /\ Cardinality(pool \cup {s}) \in Nat
  BY <1>1, FS_RemoveElement, FS_AddElement, FS_CardinalityType
<1> QED
  BY <1>2, <1>3, <1>4, <1>5, FS_EmptySet

\* Taking a connection out of the pool, or dialling one, keeps ownership.
LEMMA GetConnOwned ==
  ASSUME PoolInv, NEW c \in Conn, GetConn(c)
  PROVE  PoolInv'
<1> USE DEF PoolInv, PoolTypeOK, SocketsAreOwned, ForwardPC, FGoto, Holds
<1>1. CASE \E s \in pool : /\ TakeOut(s) /\ Holds(c, {s})
                           /\ FGoto(c, IF fpc[c] = "get" THEN "write" ELSE "rewrite")
                           /\ UNCHANGED <<healthy, opened, broken, up>>
  <2>1. PICK s \in pool : /\ TakeOut(s) /\ Holds(c, {s})
                          /\ FGoto(c, IF fpc[c] = "get" THEN "write" ELSE "rewrite")
                          /\ UNCHANGED <<healthy, opened, broken, up>>
    BY <1>1
  <2>2. Cardinality(pool') <= MaxPool
    <3>1. s \in Socket /\ pool' = pool \ {s}
      BY <2>1 DEF TakeOut
    <3>2. /\ Cardinality(pool) \in Nat /\ Cardinality(pool \ {s}) \in Nat
          /\ Cardinality(pool \ {s}) <= Cardinality(pool)
      BY <3>1, PoolCardinality
    <3> QED
      BY <3>1, <3>2, PoolAssumption
  <2>3. PoolTypeOK'
    BY <2>1, GetConn(c) DEF TakeOut, GetConn
  <2>4. \A d \in Conn : sock'[d] = IF d = c THEN {s} ELSE sock[d]
    BY <2>1
  <2>5. sock[c] = {} /\ s \in Socket /\ \A d \in Conn : s \notin sock[d]
    BY <2>1, GetConn(c) DEF GetConn
  <2>6. \A x \in Socket : x \in opened' <=> x \in pool' \/ \E d \in Conn : x \in sock'[d]
    BY <2>1, <2>4, <2>5 DEF TakeOut
  <2>7. \A d \in Conn : /\ sock'[d] \cap pool' = {}
                        /\ \A e \in Conn : d # e => sock'[d] \cap sock'[e] = {}
    BY <2>1, <2>4, <2>5 DEF TakeOut
  <2>8. \A d \in Conn : d # c => fpc'[d] = fpc[d]
    BY <2>1
  <2>9. fpc'[c] \in {"write", "rewrite"}
    BY <2>1
  <2> QED
    BY <2>2, <2>3, <2>4, <2>5, <2>6, <2>7, <2>8, <2>9
<1>2. CASE \E s \in Socket \ opened :
             /\ opened' = opened \cup {s} /\ healthy' = TRUE /\ Holds(c, {s})
             /\ FGoto(c, IF fpc[c] = "get" THEN "write" ELSE "rewrite")
             /\ UNCHANGED <<pool, broken, up>>
  <2>1. PICK s \in Socket \ opened :
             /\ opened' = opened \cup {s} /\ healthy' = TRUE /\ Holds(c, {s})
             /\ FGoto(c, IF fpc[c] = "get" THEN "write" ELSE "rewrite")
             /\ UNCHANGED <<pool, broken, up>>
    BY <1>2
  <2>2. PoolTypeOK'
    BY <2>1, GetConn(c) DEF GetConn
  <2>3. \A d \in Conn : sock'[d] = IF d = c THEN {s} ELSE sock[d]
    BY <2>1
  <2>4. sock[c] = {} /\ s \notin pool /\ \A d \in Conn : s \notin sock[d]
    BY <2>1, GetConn(c) DEF GetConn
  <2>5. \A x \in Socket : x \in opened' <=> x \in pool' \/ \E d \in Conn : x \in sock'[d]
    BY <2>1, <2>3, <2>4
  <2> QED
    BY <2>1, <2>2, <2>3, <2>4, <2>5, GetConn(c) DEF GetConn
<1>3. CASE /\ healthy' = FALSE /\ FGoto(c, "failed")
           /\ UNCHANGED <<pool, opened, broken, sock, up>>
  <2>1. fpc[c] \in {"get", "reget"} /\ sock[c] = {}
    BY GetConn(c) DEF GetConn
  <2>2. \A d \in Conn : fpc'[d] = IF d = c THEN "failed" ELSE fpc[d]
    BY <1>3
  <2>3. PoolTypeOK'
    BY <1>3
  <2> QED
    BY <1>3, <2>1, <2>2, <2>3
<1> HIDE DEF PoolInv, PoolTypeOK, SocketsAreOwned, ForwardPC, FGoto, Holds
<1> QED
  BY <1>1, <1>2, <1>3, GetConn(c) DEF GetConn

\* A write that succeeds changes nothing but the handler's place.
LEMMA WriteSucceedsOwned ==
  ASSUME PoolInv, NEW c \in Conn, WriteSucceeds(c)
  PROVE  PoolInv'
  BY DEF PoolInv, PoolTypeOK, SocketsAreOwned, ForwardPC, FGoto, WriteSucceeds

\* A failed write closes the connection of the handler and no other.
LEMMA WriteFailsOwned ==
  ASSUME PoolInv, NEW c \in Conn, WriteFails(c)
  PROVE  PoolInv'
<1> USE DEF PoolInv, PoolTypeOK, SocketsAreOwned, ForwardPC, FGoto, Holds
<1>1. PICK s \in Socket : sock[c] = {s} /\ opened' = opened \ {s} /\ broken' = broken \ {s}
  BY WriteFails(c) DEF WriteFails, MarkDead, CloseSocket
<1>2. PoolTypeOK'
  BY <1>1, WriteFails(c) DEF WriteFails, AfterFailedWrite
<1>3. \A d \in Conn : sock'[d] = IF d = c THEN {} ELSE sock[d]
  BY WriteFails(c) DEF WriteFails
<1>4. pool' = pool /\ s \notin pool /\ \A d \in Conn : d # c => s \notin sock[d]
  BY <1>1, WriteFails(c) DEF WriteFails
<1>5. \A x \in Socket : x \in opened' <=> x \in pool' \/ \E d \in Conn : x \in sock'[d]
  BY <1>1, <1>3, <1>4
<1>6. \A d \in Conn : fpc'[d] = IF d = c THEN AfterFailedWrite(fpc[c]) ELSE fpc[d]
  BY WriteFails(c) DEF WriteFails
<1> QED
  BY <1>1, <1>2, <1>3, <1>4, <1>5, <1>6 DEF AfterFailedWrite

\* A connection that is given back is in the pool or closed.
LEMMA ReturnConnOwned ==
  ASSUME PoolInv, NEW c \in Conn, ReturnConn(c)
  PROVE  PoolInv'
<1> USE DEF PoolInv, PoolTypeOK, SocketsAreOwned, ForwardPC, FGoto, Holds
<1>1. PICK s \in Socket :
        /\ sock[c] = {s}
        /\ IF HasRoom THEN pool' = pool \cup {s} /\ UNCHANGED <<opened, broken>>
                      ELSE opened' = opened \ {s} /\ broken' = broken \ {s} /\ UNCHANGED pool
  BY ReturnConn(c) DEF ReturnConn, CloseSocket
<1>2. PoolTypeOK'
  BY <1>1, ReturnConn(c) DEF ReturnConn
<1>3. \A d \in Conn : /\ sock'[d] = IF d = c THEN {} ELSE sock[d]
                      /\ fpc'[d] = IF d = c THEN "ok" ELSE fpc[d]
  BY ReturnConn(c) DEF ReturnConn
<1>4. s \notin pool /\ s \in opened /\ \A d \in Conn : d # c => s \notin sock[d]
  BY <1>1
<1>5. Cardinality(pool') <= MaxPool
  <2>1. /\ Cardinality(pool) \in Nat /\ Cardinality(pool \cup {s}) \in Nat
        /\ Cardinality(pool \cup {s}) <= Cardinality(pool) + 1
    BY PoolCardinality
  <2>2. CASE HasRoom
    <3>1. pool' = pool \cup {s} /\ Cardinality(pool) < MaxPool
      BY <1>1, <2>2 DEF HasRoom
    <3> QED
      BY <2>1, <3>1, PoolAssumption
  <2>3. CASE ~HasRoom
    BY <1>1, <2>3
  <2> QED
    BY <2>2, <2>3
<1>6. \A x \in Socket : x \in opened' <=> x \in pool' \/ \E d \in Conn : x \in sock'[d]
  BY <1>1, <1>3, <1>4
<1>7. \A d \in Conn : /\ sock'[d] \cap pool' = {}
                      /\ \A e \in Conn : d # e => sock'[d] \cap sock'[e] = {}
  BY <1>1, <1>3, <1>4
<1> QED
  BY <1>2, <1>3, <1>5, <1>6, <1>7

\* A step of Forward moves a connection between the pool and one caller, or closes it.
LEMMA ForwardStepOwned ==
  ASSUME PoolInv, NEW c \in Conn, PoolStep(c) \/ WriteStep(c)
  PROVE  PoolInv'
  BY GetConnOwned, WriteSucceedsOwned, WriteFailsOwned, ReturnConnOwned DEF PoolStep, WriteStep

\* Calling Forward and returning from it, and what the collector does.
LEMMA PoolOthersOwned ==
  ASSUME PoolInv,
         \/ \E c \in Conn : ForwardCall(c) \/ ForwardReturns(c, "ok") \/ ForwardReturns(c, "failed")
         \/ CollectorStep
         \/ UNCHANGED poolvars
  PROVE  PoolInv'
  BY DEF PoolInv, PoolTypeOK, SocketsAreOwned, ForwardPC, FGoto, ForwardCall, ForwardReturns,
         CollectorStep, CollectorDown, CollectorUp, CollectorCloses, poolvars

\* Closing the pool.
LEMMA PoolCloseOwned ==
  ASSUME PoolInv, PoolClose
  PROVE  PoolInv'
<1> USE DEF PoolInv, PoolTypeOK, SocketsAreOwned, ForwardPC, PoolClose
<1>1. Cardinality(pool') <= MaxPool
  BY FS_EmptySet, PoolAssumption
<1> QED
  BY <1>1

-----------------------------------------------------------------------------
(***************************************************************************)
(* The connection caps.                                                    *)
(***************************************************************************)

Running == Conn \ InPC({"none"})

\* What a handler's move does to the sets the two counters count.
LEMMA MoveSets ==
  ASSUME cpc \in [Conn -> HandlerPC], NEW c \in Conn, NEW q \in HandlerPC, Goto(c, q)
  PROVE  /\ Running' = IF q = "none" THEN Running \ {c} ELSE Running \cup {c}
         /\ \A t \in Tenant :
              SlotsOf(t)' = IF t # TenantOf[c] THEN SlotsOf(t)
                            ELSE IF q \in HoldingSlot THEN SlotsOf(t) \cup {c}
                                                      ELSE SlotsOf(t) \ {c}
  BY DEF Goto, Running, SlotsOf, InPC, HoldingSlot

\* Cardinalities of sets of handlers.
LEMMA HandlerCardinality ==
  ASSUME NEW S \in SUBSET Conn, NEW c \in Conn
  PROVE  /\ Cardinality(S) \in Nat
         /\ c \in S => Cardinality(S \ {c}) = Cardinality(S) - 1 /\ Cardinality(S) >= 1
         /\ c \notin S => Cardinality(S \cup {c}) = Cardinality(S) + 1
<1>1. IsFiniteSet(S) /\ IsFiniteSet(S \ {c})
  BY PoolAssumption, FS_Subset
<1>2. Cardinality(S) \in Nat /\ Cardinality(S \ {c}) \in Nat
  BY <1>1, FS_CardinalityType
<1>3. c \in S => Cardinality(S \ {c}) = Cardinality(S) - 1
  BY <1>1, FS_RemoveElement
<1>4. c \notin S => Cardinality(S \cup {c}) = Cardinality(S) + 1
  BY <1>1, FS_AddElement
<1> QED
  BY <1>2, <1>3, <1>4

\* A handler that moves on without taking or giving back anything.
LEMMA MoveKeepsCaps ==
  ASSUME TypeOK, CapsHold, NEW c \in Conn, NEW q \in HandlerPC, Goto(c, q),
         UNCHANGED <<sem, connCounts>>,
         cpc[c] # "none" /\ q # "none",
         cpc[c] \in HoldingSlot <=> q \in HoldingSlot
  PROVE  CapsHold'
<1>1. Running' = Running
  BY MoveSets DEF TypeOK, Running, InPC
<1>2. \A t \in Tenant : SlotsOf(t)' = SlotsOf(t)
  BY MoveSets DEF TypeOK, SlotsOf, InPC
<1> QED
  BY <1>1, <1>2 DEF CapsHold, Running

\* Nothing that the caps are about changes.
LEMMA StillKeepsCaps ==
  ASSUME CapsHold, UNCHANGED connvars
  PROVE  CapsHold'
  BY DEF CapsHold, connvars, SlotsOf, InPC

\* A connection is accepted.
LEMMA AcceptKeepsCaps ==
  ASSUME TypeOK, CapsHold, NEW c \in Conn, Accept(c)
  PROVE  CapsHold' /\ sem' \in Nat
<1>1. CASE ~SemHasRoom
  <2>1. UNCHANGED connvars
    BY <1>1 DEF Accept, connvars
  <2> QED
    BY <2>1, StillKeepsCaps DEF connvars, TypeOK
<1>2. CASE SemHasRoom
  <2>1. /\ cpc[c] = "none" /\ Goto(c, "handshake") /\ sem' = sem + 1
        /\ connCounts' = connCounts /\ sem < MaxConnections
    BY <1>2 DEF Accept, SemHasRoom
  <2>2. Running' = Running \cup {c} /\ c \notin Running /\ Running \in SUBSET Conn
    BY <2>1, MoveSets DEF TypeOK, HandlerPC, Running, InPC
  <2>3. \A t \in Tenant : SlotsOf(t)' = SlotsOf(t)
    BY <2>1, MoveSets DEF TypeOK, HandlerPC, HoldingSlot, SlotsOf, InPC
  <2>4. sem' = Cardinality(Running')
    BY <2>1, <2>2, HandlerCardinality DEF CapsHold, Running
  <2>5. sem' <= MaxConnections /\ sem' \in Nat
    BY <2>1, ServerAssumption DEF TypeOK
  <2> QED
    BY <2>1, <2>3, <2>4, <2>5 DEF CapsHold, Running
<1> QED
  BY <1>1, <1>2

\* A handler ends and frees its place in connSem.
LEMMA FreeSemKeepsCaps ==
  ASSUME TypeOK, CapsHold, NEW c \in Conn, FreeSem(c)
  PROVE  CapsHold' /\ sem' \in Nat
<1>1. cpc[c] = "done" /\ Goto(c, "none") /\ sem' = sem - 1 /\ connCounts' = connCounts
  BY DEF FreeSem
<1>2. Running' = Running \ {c} /\ c \in Running /\ Running \in SUBSET Conn
  BY <1>1, MoveSets DEF TypeOK, HandlerPC, Running, InPC
<1>3. \A t \in Tenant : SlotsOf(t)' = SlotsOf(t)
  BY <1>1, MoveSets DEF TypeOK, HandlerPC, HoldingSlot, SlotsOf, InPC
<1>4. sem' = Cardinality(Running') /\ sem >= 1
  BY <1>1, <1>2, HandlerCardinality DEF CapsHold, Running
<1>5. sem' <= MaxConnections /\ sem' \in Nat
  BY <1>1, <1>4, ServerAssumption DEF TypeOK, CapsHold
<1> QED
  BY <1>1, <1>3, <1>4, <1>5 DEF CapsHold, Running

\* A slot of the tenant is taken, or the connection is turned away.
LEMMA AcquireKeepsCaps ==
  ASSUME TypeOK, CapsHold, NEW c \in Conn, AcquireConnSlot(c)
  PROVE  CapsHold' /\ connCounts' \in [Tenant -> Nat]
<1> DEFINE t == TenantOf[c]
<1>0. t \in Tenant
  BY ServerAssumption
<1>1. CASE ~(connCounts[t] < MaxConnsPerTenant)
  <2>1. Goto(c, "close") /\ UNCHANGED <<sem, connCounts>> /\ cpc[c] = "slot"
    BY <1>1 DEF AcquireConnSlot
  <2> QED
    BY <2>1, MoveKeepsCaps DEF HandlerPC, HoldingSlot, TypeOK
<1>2. CASE connCounts[t] < MaxConnsPerTenant
  <2>1. /\ cpc[c] = "slot" /\ Goto(c, "health") /\ sem' = sem
        /\ connCounts' = [connCounts EXCEPT ![t] = @ + 1]
    BY <1>2 DEF AcquireConnSlot
  <2>2. Running' = Running
    BY <2>1, MoveSets DEF TypeOK, HandlerPC, Running, InPC
  <2>3. /\ SlotsOf(t)' = SlotsOf(t) \cup {c} /\ c \notin SlotsOf(t) /\ SlotsOf(t) \in SUBSET Conn
        /\ \A u \in Tenant : u # t => SlotsOf(u)' = SlotsOf(u)
    BY <1>0, <2>1, MoveSets DEF TypeOK, HandlerPC, HoldingSlot, SlotsOf, InPC
  <2>4. connCounts'[t] = connCounts[t] + 1 /\ \A u \in Tenant : u # t => connCounts'[u] = connCounts[u]
    BY <1>0, <2>1 DEF TypeOK
  <2>5. connCounts'[t] = Cardinality(SlotsOf(t)')
    BY <1>0, <2>3, <2>4, HandlerCardinality DEF CapsHold
  <2>6. connCounts'[t] <= MaxConnsPerTenant /\ connCounts' \in [Tenant -> Nat]
    BY <1>0, <1>2, <2>1, <2>4, ServerAssumption DEF TypeOK
  <2> QED
    BY <2>1, <2>2, <2>3, <2>4, <2>5, <2>6 DEF CapsHold, Running
<1> QED
  BY <1>1, <1>2

\* The slot is given back, once.
LEMMA ReleaseKeepsCaps ==
  ASSUME TypeOK, CapsHold, NEW c \in Conn, Release(c)
  PROVE  CapsHold' /\ connCounts' \in [Tenant -> Nat]
<1> DEFINE t == TenantOf[c]
<1>0. t \in Tenant
  BY ServerAssumption
<1>1. /\ cpc[c] = "release" /\ Goto(c, "close") /\ sem' = sem
      /\ connCounts' = [connCounts EXCEPT ![t] = @ - 1]
  BY DEF Release, ReleaseSlot
<1>2. Running' = Running
  BY <1>1, MoveSets DEF TypeOK, HandlerPC, Running, InPC
<1>3. /\ SlotsOf(t)' = SlotsOf(t) \ {c} /\ c \in SlotsOf(t) /\ SlotsOf(t) \in SUBSET Conn
      /\ \A u \in Tenant : u # t => SlotsOf(u)' = SlotsOf(u)
  BY <1>0, <1>1, MoveSets DEF TypeOK, HandlerPC, HoldingSlot, SlotsOf, InPC
<1>4. connCounts'[t] = connCounts[t] - 1 /\ \A u \in Tenant : u # t => connCounts'[u] = connCounts[u]
  BY <1>0, <1>1 DEF TypeOK
<1>5. connCounts'[t] = Cardinality(SlotsOf(t)') /\ connCounts[t] >= 1
  BY <1>0, <1>3, <1>4, HandlerCardinality DEF CapsHold
<1>6. connCounts[t] <= MaxConnsPerTenant
  BY <1>0 DEF CapsHold
<1>7. connCounts'[t] <= MaxConnsPerTenant /\ connCounts' \in [Tenant -> Nat]
  BY <1>0, <1>1, <1>4, <1>5, <1>6, ServerAssumption DEF TypeOK
<1> QED
  BY <1>1, <1>2, <1>3, <1>4, <1>5, <1>7 DEF CapsHold, Running

-----------------------------------------------------------------------------
(***************************************************************************)
(* The inductive invariant of the server.                                  *)
(***************************************************************************)

\* A handler is inside Forward exactly when its own place says so.
InStep == \A c \in Conn : cpc[c] = "forward" <=> fpc[c] # "idle"

\* The loop leaves "accept" with the listener closed, and returns with every
\* handler past its work and an empty pool.
LoopShape == /\ lpc # "accept" => ~listening
             /\ lpc = "returned" => (\A c \in Conn : cpc[c] \in {"none", "done"}) /\ pool = {}

ServerInv == /\ TypeOK /\ SocketsAreOwned /\ CapsHold /\ FramesAreRecorded
             /\ InStep /\ LoopShape

\* A server that was just made satisfies the invariant.
LEMMA ServerInit == Init => ServerInv
<1> SUFFICES ASSUME Init PROVE ServerInv
  OBVIOUS
<1>1. TypeOK /\ InStep /\ LoopShape /\ FramesAreRecorded
  BY DEF Init, PoolInit, TypeOK, PoolTypeOK, HandlerPC, ForwardPC, Standing, InStep,
         LoopShape, FramesAreRecorded, Processing
<1>2. SocketsAreOwned
  BY PoolAssumption, FS_EmptySet DEF Init, PoolInit, SocketsAreOwned
<1>3. Conn \ InPC({"none"}) = {} /\ \A t \in Tenant : SlotsOf(t) = {}
  BY DEF Init, InPC, SlotsOf, HoldingSlot
<1>4. CapsHold
  <2>1. sem = 0 /\ \A t \in Tenant : connCounts[t] = 0
    BY DEF Init
  <2>2. Cardinality({}) = 0
    BY FS_EmptySet
  <2>3. Cardinality(Conn \ InPC({"none"})) = 0
    BY <1>3, <2>2
  <2>4. ASSUME NEW t \in Tenant PROVE Cardinality(SlotsOf(t)) = 0
    BY <1>3, <2>2
  <2> QED
    BY <2>1, <2>3, <2>4, ServerAssumption DEF CapsHold
<1> QED
  BY <1>1, <1>2, <1>4 DEF ServerInv

\* A handler that only moves on.
LEMMA PlainMove ==
  ASSUME ServerInv, NEW c \in Conn, NEW q \in HandlerPC, Goto(c, q),
         UNCHANGED <<sem, connCounts, srvvars, owed, standing, poolvars>>,
         cpc[c] \notin {"none", "done", "forward"}, q \notin {"none", "forward"},
         cpc[c] \in HoldingSlot <=> q \in HoldingSlot,
         cpc[c] \in Processing <=> q \in Processing
  PROVE  ServerInv'
<1>1. CapsHold'
  BY MoveKeepsCaps DEF ServerInv
<1>2. PoolInv'
  BY PoolOthersOwned DEF ServerInv, TypeOK, PoolInv
<1>3. TypeOK'
  BY <1>2 DEF ServerInv, TypeOK, PoolInv, Goto, srvvars
<1>4. FramesAreRecorded'
  BY DEF ServerInv, TypeOK, FramesAreRecorded, Goto
<1>5. InStep' /\ LoopShape'
  BY DEF ServerInv, TypeOK, InStep, LoopShape, Goto, srvvars, poolvars
<1> QED
  BY <1>1, <1>2, <1>3, <1>4, <1>5 DEF ServerInv, PoolInv

\* A handler that records its frame and moves on.
LEMMA RecordMove ==
  ASSUME ServerInv, NEW c \in Conn, NEW q \in {"read", "release"}, Goto(c, q),
         RecordUsage(c),
         UNCHANGED <<sem, connCounts, srvvars, standing>>, PoolInv',
         cpc[c] \in Processing, fpc'[c] = "idle", pool' = pool,
         \A d \in Conn : d # c => fpc'[d] = fpc[d]
  PROVE  ServerInv'
<1>1. CapsHold'
  BY MoveKeepsCaps DEF ServerInv, HandlerPC, HoldingSlot, Processing
<1>2. owed[c] = 1
  BY DEF ServerInv, FramesAreRecorded
<1>3. \A d \in Conn : /\ owed'[d] = IF d = c THEN 0 ELSE owed[d]
                      /\ cpc'[d] = IF d = c THEN q ELSE cpc[d]
  BY <1>2 DEF ServerInv, TypeOK, RecordUsage, Goto
<1>4. TypeOK'
  BY <1>2 DEF ServerInv, TypeOK, PoolInv, Goto, srvvars, RecordUsage, HandlerPC
<1>5. FramesAreRecorded'
  BY <1>3 DEF ServerInv, FramesAreRecorded, Processing
<1>6. InStep' /\ LoopShape'
  BY <1>3 DEF ServerInv, InStep, LoopShape, srvvars, Processing
<1> QED
  BY <1>1, <1>4, <1>5, <1>6 DEF ServerInv, PoolInv

\* A step of the loop, the administrator or the collector: no handler moves.
LEMMA StillHandlers ==
  ASSUME ServerInv, UNCHANGED <<connvars, owed>>, fpc' = fpc, PoolInv',
         cancelled' \in BOOLEAN, listening' \in BOOLEAN,
         lpc' \in {"accept", "join", "returned"},
         standing' \in [Tenant -> Standing], LoopShape'
  PROVE  ServerInv'
<1>1. CapsHold'
  BY StillKeepsCaps DEF ServerInv
<1> QED
  BY <1>1 DEF ServerInv, TypeOK, PoolInv, connvars, FramesAreRecorded, InStep

\* Every step of the loop, a handler, the pool or the collector preserves it.
LEMMA ServerStep == ServerInv /\ [Next]_vars => ServerInv'
<1> SUFFICES ASSUME ServerInv, [Next]_vars PROVE ServerInv'
  OBVIOUS
<1>0. PoolInv
  BY DEF ServerInv, TypeOK, PoolInv
<1>1. ASSUME NEW c \in Conn, Accept(c) PROVE ServerInv'
  <2>1. CapsHold' /\ sem' \in Nat
    BY <1>1, AcceptKeepsCaps DEF ServerInv
  <2>2. PoolInv'
    BY <1>0, <1>1, PoolOthersOwned DEF Accept
  <2>3. TypeOK'
    BY <1>1, <2>1, <2>2 DEF ServerInv, TypeOK, PoolInv, Accept, Goto, srvvars, HandlerPC
  <2>4. FramesAreRecorded' /\ InStep' /\ LoopShape'
    BY <1>1 DEF ServerInv, TypeOK, Accept, Goto, FramesAreRecorded, Processing, InStep,
                LoopShape, srvvars, poolvars
  <2> QED
    BY <2>1, <2>2, <2>3, <2>4 DEF ServerInv, PoolInv
<1>2. ASSUME NEW c \in Conn, Handshake(c) PROVE ServerInv'
  BY <1>2, PlainMove DEF Handshake, HandlerPC, HoldingSlot, Processing
<1>3. ASSUME NEW c \in Conn, ResolveTenant(c) PROVE ServerInv'
  BY <1>3, PlainMove DEF ResolveTenant, HandlerPC, HoldingSlot, Processing
<1>4. ASSUME NEW c \in Conn, AcquireConnSlot(c) PROVE ServerInv'
  <2>1. CapsHold' /\ connCounts' \in [Tenant -> Nat]
    BY <1>4, AcquireKeepsCaps DEF ServerInv
  <2>2. PoolInv'
    BY <1>0, <1>4, PoolOthersOwned DEF AcquireConnSlot
  <2>3. \E q \in {"health", "close"} : cpc' = [cpc EXCEPT ![c] = q]
    BY <1>4 DEF AcquireConnSlot, Goto
  <2>4. TypeOK'
    BY <1>4, <2>1, <2>2, <2>3 DEF ServerInv, TypeOK, PoolInv, AcquireConnSlot, srvvars, HandlerPC
  <2>5. FramesAreRecorded' /\ InStep' /\ LoopShape'
    BY <1>4, <2>3 DEF ServerInv, TypeOK, AcquireConnSlot, FramesAreRecorded, Processing, InStep,
                LoopShape, srvvars, poolvars
  <2> QED
    BY <2>1, <2>2, <2>4, <2>5 DEF ServerInv, PoolInv
<1>5. ASSUME NEW c \in Conn, CheckHealth(c) PROVE ServerInv'
  BY <1>5, PlainMove DEF CheckHealth, HandlerPC, HoldingSlot, Processing
<1>6. ASSUME NEW c \in Conn, ReadFrame(c) PROVE ServerInv'
  <2>1. Goto(c, "rps") /\ cpc[c] = "read" /\ UNCHANGED <<sem, connCounts>>
    BY <1>6 DEF ReadFrame
  <2>2. CapsHold'
    BY <2>1, MoveKeepsCaps DEF ServerInv, HandlerPC, HoldingSlot
  <2>3. PoolInv'
    BY <1>0, <1>6, PoolOthersOwned DEF ReadFrame
  <2>4. \A d \in Conn : /\ owed'[d] = IF d = c THEN 1 ELSE owed[d]
                        /\ cpc'[d] = IF d = c THEN "rps" ELSE cpc[d]
    BY <1>6, <2>1 DEF ServerInv, TypeOK, FramesAreRecorded, Processing, ReadFrame, Goto
  <2>5. TypeOK'
    BY <1>6, <2>3 DEF ServerInv, TypeOK, PoolInv, ReadFrame, Goto, srvvars, HandlerPC
  <2>6. FramesAreRecorded' /\ InStep' /\ LoopShape'
    BY <1>6, <2>4 DEF ServerInv, FramesAreRecorded, Processing, InStep, LoopShape, ReadFrame,
                      srvvars, poolvars
  <2> QED
    BY <2>2, <2>3, <2>5, <2>6 DEF ServerInv, PoolInv
<1>7. ASSUME NEW c \in Conn, ReadEnds(c) PROVE ServerInv'
  BY <1>7, PlainMove DEF ReadEnds, HandlerPC, HoldingSlot, Processing
<1>8. ASSUME NEW c \in Conn, FrameRejected(c) PROVE ServerInv'
  <2>1. /\ Goto(c, "release") /\ RecordUsage(c) /\ cpc[c] \in {"rps", "bytes"}
        /\ UNCHANGED <<sem, connCounts, srvvars, standing>> /\ UNCHANGED poolvars
    BY <1>8 DEF FrameRejected
  <2>2. PoolInv'
    BY <1>0, <2>1, PoolOthersOwned
  <2>3. fpc'[c] = "idle" /\ pool' = pool /\ \A d \in Conn : d # c => fpc'[d] = fpc[d]
    BY <2>1 DEF poolvars, ServerInv, InStep
  <2> QED
    BY <2>1, <2>2, <2>3, RecordMove DEF Processing
<1>9. ASSUME NEW c \in Conn, AllowRPS(c) PROVE ServerInv'
  BY <1>9, PlainMove DEF AllowRPS, HandlerPC, HoldingSlot, Processing
<1>10. ASSUME NEW c \in Conn, AllowBytes(c) PROVE ServerInv'
  <2>1. Goto(c, "forward") /\ cpc[c] = "bytes" /\ ForwardCall(c) /\ UNCHANGED <<sem, connCounts>>
    BY <1>10 DEF AllowBytes
  <2>2. CapsHold'
    BY <2>1, MoveKeepsCaps DEF ServerInv, HandlerPC, HoldingSlot
  <2>3. PoolInv'
    BY <1>0, <2>1, PoolOthersOwned
  <2>4. TypeOK' /\ FramesAreRecorded'
    BY <1>10, <2>3 DEF ServerInv, TypeOK, PoolInv, AllowBytes, Goto, srvvars, HandlerPC,
                       FramesAreRecorded, Processing
  <2>5. InStep' /\ LoopShape'
    BY <1>10, <2>1 DEF ServerInv, TypeOK, PoolTypeOK, InStep, LoopShape, AllowBytes, Goto,
                       ForwardCall, FGoto, srvvars
  <2> QED
    BY <2>2, <2>3, <2>4, <2>5 DEF ServerInv, PoolInv
<1>11. ASSUME NEW c \in Conn, Pooling(c) \/ Writing(c) PROVE ServerInv'
  <2>0. /\ cpc[c] = "forward"
        /\ PoolStep(c) \/ WriteStep(c)
        /\ UNCHANGED <<connvars, srvvars, owed, standing>>
    BY <1>11 DEF Pooling, Writing
  <2>1. PoolInv'
    BY <1>0, <2>0, ForwardStepOwned
  <2>2. CapsHold'
    BY <2>0, StillKeepsCaps DEF ServerInv
  <2>3. \E p \in ForwardPC \ {"idle"} : fpc' = [fpc EXCEPT ![c] = p]
    BY <2>0 DEF PoolStep, WriteStep, GetConn, WriteSucceeds, WriteFails, ReturnConn,
                FGoto, ForwardPC, AfterFailedWrite
  <2>4. TypeOK' /\ FramesAreRecorded'
    BY <2>0, <2>1 DEF ServerInv, TypeOK, PoolInv, connvars, srvvars, FramesAreRecorded
  <2>5. InStep'
    BY <2>0, <2>3 DEF ServerInv, TypeOK, PoolTypeOK, InStep, connvars
  <2>6. LoopShape'
    BY <2>0 DEF ServerInv, LoopShape, connvars, srvvars
  <2> QED
    BY <2>1, <2>2, <2>4, <2>5, <2>6 DEF ServerInv, PoolInv
<1>12. ASSUME NEW c \in Conn, Forwarded(c) PROVE ServerInv'
  <2>1. /\ Goto(c, "read") /\ RecordUsage(c) /\ cpc[c] = "forward"
        /\ UNCHANGED <<sem, connCounts, srvvars, standing>> /\ ForwardReturns(c, "ok")
    BY <1>12 DEF Forwarded
  <2>2. PoolInv'
    BY <1>0, <2>1, PoolOthersOwned
  <2>3. fpc'[c] = "idle" /\ pool' = pool /\ \A d \in Conn : d # c => fpc'[d] = fpc[d]
    BY <2>1 DEF ForwardReturns, FGoto, ServerInv, TypeOK, PoolTypeOK
  <2> QED
    BY <2>1, <2>2, <2>3, RecordMove DEF Processing
<1>13. ASSUME NEW c \in Conn, ForwardFailed(c) PROVE ServerInv'
  <2>1. /\ Goto(c, "release") /\ RecordUsage(c) /\ cpc[c] = "forward"
        /\ UNCHANGED <<sem, connCounts, srvvars, standing>> /\ ForwardReturns(c, "failed")
    BY <1>13 DEF ForwardFailed
  <2>2. PoolInv'
    BY <1>0, <2>1, PoolOthersOwned
  <2>3. fpc'[c] = "idle" /\ pool' = pool /\ \A d \in Conn : d # c => fpc'[d] = fpc[d]
    BY <2>1 DEF ForwardReturns, FGoto, ServerInv, TypeOK, PoolTypeOK
  <2> QED
    BY <2>1, <2>2, <2>3, RecordMove DEF Processing
<1>14. ASSUME NEW c \in Conn, Release(c) PROVE ServerInv'
  <2>1. CapsHold' /\ connCounts' \in [Tenant -> Nat]
    BY <1>14, ReleaseKeepsCaps DEF ServerInv
  <2>2. PoolInv'
    BY <1>0, <1>14, PoolOthersOwned DEF Release
  <2>3. TypeOK'
    BY <1>14, <2>1, <2>2 DEF ServerInv, TypeOK, PoolInv, Release, Goto, srvvars, HandlerPC
  <2>4. FramesAreRecorded' /\ InStep' /\ LoopShape'
    BY <1>14 DEF ServerInv, TypeOK, Release, Goto, FramesAreRecorded, Processing, InStep,
                 LoopShape, srvvars, poolvars
  <2> QED
    BY <2>1, <2>2, <2>3, <2>4 DEF ServerInv, PoolInv
<1>15. ASSUME NEW c \in Conn, CloseAndDone(c) PROVE ServerInv'
  BY <1>15, PlainMove DEF CloseAndDone, HandlerPC, HoldingSlot, Processing
<1>16. ASSUME NEW c \in Conn, FreeSem(c) PROVE ServerInv'
  <2>1. CapsHold' /\ sem' \in Nat
    BY <1>16, FreeSemKeepsCaps DEF ServerInv
  <2>2. PoolInv'
    BY <1>0, <1>16, PoolOthersOwned DEF FreeSem
  <2>3. TypeOK'
    BY <1>16, <2>1, <2>2 DEF ServerInv, TypeOK, PoolInv, FreeSem, Goto, srvvars, HandlerPC
  <2>4. FramesAreRecorded' /\ InStep' /\ LoopShape'
    BY <1>16 DEF ServerInv, TypeOK, FreeSem, Goto, FramesAreRecorded, Processing, InStep,
                 LoopShape, srvvars, poolvars
  <2> QED
    BY <2>1, <2>2, <2>3, <2>4 DEF ServerInv, PoolInv
<1>17. CASE Cancel \/ CloseListener \/ AcceptFails
  <2>1. PoolInv'
    BY <1>0, <1>17, PoolOthersOwned DEF Cancel, CloseListener, AcceptFails
  <2>2. LoopShape'
    BY <1>17 DEF ServerInv, TypeOK, LoopShape, Cancel, CloseListener, AcceptFails,
                 WaitForHandlers, connvars, poolvars
  <2>3. /\ UNCHANGED <<connvars, owed>> /\ fpc' = fpc
        /\ standing' \in [Tenant -> Standing]
    BY <1>17 DEF ServerInv, TypeOK, Cancel, CloseListener, AcceptFails, poolvars
  <2>4. /\ cancelled' \in BOOLEAN /\ listening' \in BOOLEAN
        /\ lpc' \in {"accept", "join", "returned"}
    <3>1. /\ cancelled \in BOOLEAN /\ listening \in BOOLEAN
          /\ lpc \in {"accept", "join", "returned"}
      BY DEF ServerInv, TypeOK
    <3>2. CASE Cancel
      BY <3>1, <3>2 DEF Cancel
    <3>3. CASE CloseListener
      BY <3>1, <3>3 DEF CloseListener
    <3>4. CASE AcceptFails
      BY <3>1, <3>4 DEF AcceptFails, WaitForHandlers
    <3> QED
      BY <1>17, <3>2, <3>3, <3>4
  <2> QED
    BY <2>1, <2>2, <2>3, <2>4, StillHandlers
<1>18. CASE JoinAndClose
  <2>1. PoolInv'
    BY <1>0, <1>18, PoolCloseOwned DEF JoinAndClose
  <2>2. LoopShape'
    BY <1>18 DEF ServerInv, LoopShape, JoinAndClose, Joined, PoolClose, connvars
  <2> QED
    BY <1>18, <2>1, <2>2, StillHandlers DEF ServerInv, TypeOK, JoinAndClose, PoolClose
<1>19. ASSUME NEW t \in Managed, NEW s \in Standing, Administer(t, s) PROVE ServerInv'
  <2>1. PoolInv'
    BY <1>0, <1>19, PoolOthersOwned DEF Administer
  <2>2. LoopShape'
    BY <1>19 DEF ServerInv, LoopShape, Administer, connvars, srvvars, poolvars
  <2>3. /\ standing' \in [Tenant -> Standing] /\ fpc' = fpc
        /\ UNCHANGED <<connvars, owed, srvvars>>
    BY <1>19 DEF ServerInv, TypeOK, Administer, poolvars
  <2> QED
    BY <2>1, <2>2, <2>3, StillHandlers DEF ServerInv, TypeOK, srvvars
<1>20. CASE Collector
  <2>1. PoolInv'
    BY <1>0, <1>20, PoolOthersOwned DEF Collector
  <2>2. LoopShape' /\ fpc' = fpc
    BY <1>20 DEF ServerInv, LoopShape, Collector, CollectorStep, CollectorDown, CollectorUp,
                 CollectorCloses, connvars, srvvars
  <2> QED
    BY <1>20, <2>1, <2>2, StillHandlers DEF ServerInv, TypeOK, Collector, srvvars
<1>21. CASE UNCHANGED vars
  <2>1. PoolInv' /\ LoopShape'
    BY <1>0, <1>21, PoolOthersOwned DEF vars, poolvars, ServerInv, LoopShape
  <2> QED
    BY <1>21, <2>1, StillHandlers DEF ServerInv, TypeOK, vars, connvars
<1> QED
  BY <1>1, <1>2, <1>3, <1>4, <1>5, <1>6, <1>7, <1>8, <1>9, <1>10, <1>11, <1>12, <1>13,
     <1>14, <1>15, <1>16, <1>17, <1>18, <1>19, <1>20, <1>21 DEF Next, HandlerStep, LoopStep

\* The invariant holds throughout, with no assumption of fairness.
LEMMA ServerInvariant == Safety => []ServerInv
  BY ServerInit, ServerStep, PTL DEF Safety

\* Every variable keeps its type, and no connection count goes below zero.
THEOREM ServerTypeCorrect == Safety => []TypeOK
<1>1. ServerInv => TypeOK
  BY DEF ServerInv
<1> QED
  BY <1>1, ServerInvariant, PTL

\* No collector connection is shared or leaked, and the pool keeps its bound,
\* for every number of handlers and whatever the collector does.
THEOREM ConnectionsAreOwned == Safety => []SocketsAreOwned
<1>1. ServerInv => SocketsAreOwned
  BY DEF ServerInv
<1> QED
  BY <1>1, ServerInvariant, PTL

\* The global cap and the per-tenant cap hold, and both counters count exactly
\* the handlers they stand for, on every path through handleConnection.
THEOREM CapsAreExact == Safety => []CapsHold
<1>1. ServerInv => CapsHold
  BY DEF ServerInv
<1> QED
  BY <1>1, ServerInvariant, PTL

\* Every frame read from a client is recorded exactly once.
THEOREM FramesRecordedOnce == Safety => []FramesAreRecorded
<1>1. ServerInv => FramesAreRecorded
  BY DEF ServerInv
<1> QED
  BY <1>1, ServerInvariant, PTL

\* When ListenAndServe has returned no handler works and no collector
\* connection is open.
THEOREM CleanShutdown == Safety => []ShutdownIsClean
<1>1. ServerInv => ShutdownIsClean
  <2> SUFFICES ASSUME ServerInv, lpc = "returned"
               PROVE  /\ \A c \in Conn : cpc[c] \in {"none", "done"} /\ fpc[c] = "idle"
                      /\ opened = {} /\ pool = {}
    BY DEF ShutdownIsClean
  <2>1. pool = {} /\ \A c \in Conn : cpc[c] \in {"none", "done"} /\ fpc[c] = "idle"
    BY DEF ServerInv, LoopShape, InStep
  <2>2. \A c \in Conn : sock[c] = {}
    BY <2>1 DEF ServerInv, SocketsAreOwned
  <2>3. opened = {}
    BY <2>1, <2>2 DEF ServerInv, SocketsAreOwned, TypeOK, PoolTypeOK
  <2> QED
    BY <2>1, <2>3
<1> QED
  BY <1>1, ServerInvariant, PTL
=============================================================================
