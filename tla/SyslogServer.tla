---------------------------- MODULE SyslogServer ----------------------------
(***************************************************************************)
(* internal/syslog/server.go and conn.go over the pool: the accept loop,   *)
(* one handler goroutine for each mTLS client connection, the global and   *)
(* the per-tenant connection caps, the way of a frame through limiter,     *)
(* pool and usage accounting, and the shutdown.                            *)
(*                                                                         *)
(* A member of Conn is a client that connects, is served, and may connect  *)
(* again.  Each tenant has one client certificate; its standing is what    *)
(* the database says of both.  What the limiter decides about an existing  *)
(* tenant is left open here (RateLimiter models it).                       *)
(***************************************************************************)
EXTENDS CollectorPool

CONSTANTS Tenant,            \* tenant ids
          TenantOf,          \* the tenant whose certificate a client presents
          MaxConnections,    \* cap of connSem
          MaxConnsPerTenant, \* cap of connCounts
          Managed,           \* tenants the administrator changes in this instance
          MayCancel          \* whether the server is shut down in this instance

ASSUME ServerAssumption ==
    /\ TenantOf \in [Conn -> Tenant]
    /\ MaxConnections \in Nat /\ MaxConnsPerTenant \in Nat
    /\ Managed \subseteq Tenant /\ MayCancel \in BOOLEAN

VARIABLES
    cancelled,    \* ctx is done
    listening,    \* the listener is open
    lpc,          \* where the accept loop is
    sem,          \* number of tokens in connSem
    connCounts,   \* per-tenant connection counts
    cpc,          \* where each handler is
    standing,     \* what the database says of the tenant's certificate
    owed          \* frames read from the client and not yet in RecordUsage

srvvars == <<cancelled, listening, lpc>>
connvars == <<sem, connCounts, cpc>>
vars == <<pool, healthy, opened, broken, up, fpc, sock, cancelled, listening,
          lpc, sem, connCounts, cpc, standing, owed>>

HandlerPC == {"none", "handshake", "resolve", "slot", "health", "read", "rps",
              "bytes", "forward", "release", "close", "done"}
Standing == {"active", "inactive", "revoked", "deleted"}

\* From acquireConnSlot to its release, and from the read to RecordUsage.
HoldingSlot == {"health", "read", "rps", "bytes", "forward", "release"}
Processing == {"rps", "bytes", "forward"}

Init ==
    /\ PoolInit
    /\ cancelled = FALSE /\ listening = TRUE /\ lpc = "accept"
    /\ sem = 0
    /\ connCounts = [t \in Tenant |-> 0]
    /\ cpc = [c \in Conn |-> "none"]
    /\ standing = [t \in Tenant |-> "active"]
    /\ owed = [c \in Conn |-> 0]

Goto(c, p) == cpc' = [cpc EXCEPT ![c] = p]

-----------------------------------------------------------------------------
(***************************************************************************)
(* ListenAndServe.                                                         *)
(***************************************************************************)

\* The send to connSem does not block.
SemHasRoom == sem < MaxConnections

\* A connection is accepted; over the cap it is closed at once.
Accept(c) ==
    /\ lpc = "accept" /\ listening
    /\ cpc[c] = "none"
    /\ IF SemHasRoom THEN sem' = sem + 1 /\ Goto(c, "handshake")
                     ELSE UNCHANGED <<sem, cpc>>
    /\ UNCHANGED <<connCounts, srvvars, owed, standing, poolvars>>

Cancel == /\ MayCancel /\ ~cancelled
          /\ cancelled' = TRUE
          /\ UNCHANGED <<listening, lpc, connvars, owed, standing, poolvars>>

\* The goroutine that waits for ctx closes the listener.
CloseListener == /\ cancelled /\ listening
                 /\ listening' = FALSE
                 /\ UNCHANGED <<cancelled, lpc, connvars, owed, standing, poolvars>>

\* Fault: the loop takes the closed listener for one more accept error.
AcceptFailsRetries == lpc'= "accept"

WaitForHandlers == lpc' = "join"

\* Accept fails and ctx is done: the loop waits for the handlers.
AcceptFails == /\ lpc = "accept" /\ ~listening
               /\ WaitForHandlers
               /\ UNCHANGED <<cancelled, listening, connvars, owed, standing, poolvars>>

\* Fault: the pool is closed without waiting for the handlers.
JoinedEarly == TRUE

\* wg.Wait returns.
Joined == \A c \in Conn : cpc[c] \in {"none", "done"}

JoinAndClose == /\ lpc = "join" /\ Joined
                /\ lpc' = "returned"
                /\ PoolClose
                /\ UNCHANGED <<cancelled, listening, connvars, owed, standing>>

-----------------------------------------------------------------------------
(***************************************************************************)
(* handleConnection.                                                       *)
(***************************************************************************)

\* The handshake has no deadline; it ends when the client lets it.
Handshake(c) == /\ cpc[c] = "handshake"
                /\ Goto(c, "resolve") \/ Goto(c, "close")
                /\ UNCHANGED <<sem, connCounts, srvvars, owed, standing, poolvars>>

\* ResolveTenant by fingerprint: a live certificate of an active tenant.  An
\* error of the lookup closes the connection as well.  (UpdateLastSeen stamps
\* a column that nothing here reads.)
ResolveTenant(c) ==
    /\ cpc[c] = "resolve"
    /\ \/ standing[TenantOf[c]] = "active" /\ Goto(c, "slot")
       \/ Goto(c, "close")
    /\ UNCHANGED <<sem, connCounts, srvvars, owed, standing, poolvars>>

AcquireConnSlot(c) ==
    /\ cpc[c] = "slot"
    /\ IF connCounts[TenantOf[c]] < MaxConnsPerTenant
       THEN /\ connCounts' = [connCounts EXCEPT ![TenantOf[c]] = @ + 1]
            /\ Goto(c, "health")
       ELSE Goto(c, "close") /\ UNCHANGED connCounts
    /\ UNCHANGED <<sem, srvvars, owed, standing, poolvars>>

CheckHealth(c) ==
    /\ cpc[c] = "health"
    /\ Goto(c, IF healthy THEN "read" ELSE "release")
    /\ UNCHANGED <<sem, connCounts, srvvars, owed, standing, poolvars>>

ReadFrame(c) ==
    /\ cpc[c] = "read"
    /\ Goto(c, "rps")
    /\ owed' = [owed EXCEPT ![c] = @ + 1]
    /\ UNCHANGED <<sem, connCounts, srvvars, standing, poolvars>>

\* EOF, a malformed or oversized frame, or the read deadline.
ReadEnds(c) ==
    /\ cpc[c] = "read"
    /\ Goto(c, "release")
    /\ UNCHANGED <<sem, connCounts, srvvars, owed, standing, poolvars>>

\* The status code (200, 429, 502) is part of the sample that UsageWriter counts.
RecordUsage(c) == owed' = [owed EXCEPT ![c] = @ - 1]

\* AllowRPS and AllowBytes both look the tenant's row up, active or not.
Lookup(c) == standing[TenantOf[c]] # "deleted"

\* The limiter refuses the frame, or has no tenant to look at: 429, and the
\* connection ends.
FrameRejected(c) ==
    /\ cpc[c] \in {"rps", "bytes"}
    /\ RecordUsage(c)
    /\ Goto(c, "release")
    /\ UNCHANGED <<sem, connCounts, srvvars, standing, poolvars>>

AllowRPS(c) ==
    /\ cpc[c] = "rps" /\ Lookup(c)
    /\ Goto(c, "bytes")
    /\ UNCHANGED <<sem, connCounts, srvvars, owed, standing, poolvars>>

AllowBytes(c) ==
    /\ cpc[c] = "bytes" /\ Lookup(c)
    /\ Goto(c, "forward")
    /\ ForwardCall(c)
    /\ UNCHANGED <<sem, connCounts, srvvars, owed, standing>>

Pooling(c) ==
    /\ cpc[c] = "forward"
    /\ PoolStep(c)
    /\ UNCHANGED <<connvars, srvvars, owed, standing>>

\* The write has no deadline; it ends when the collector lets it.
Writing(c) ==
    /\ cpc[c] = "forward"
    /\ WriteStep(c)
    /\ UNCHANGED <<connvars, srvvars, owed, standing>>

Forwarded(c) ==
    /\ cpc[c] = "forward" /\ ForwardReturns(c, "ok")
    /\ RecordUsage(c)
    /\ Goto(c, "read")
    /\ UNCHANGED <<sem, connCounts, srvvars, standing>>

\* Fault: a frame that could not be forwarded is not recorded.
ForwardFailedSilently(c) ==
    /\ cpc[c] = "forward" /\ ForwardReturns(c, "failed")
    /\ Goto(c, "release")
    /\ UNCHANGED <<sem, connCounts, srvvars, standing, owed>>

ForwardFailed(c) ==
    /\ cpc[c] = "forward" /\ ForwardReturns(c, "failed")
    /\ RecordUsage(c)
    /\ Goto(c, "release")
    /\ UNCHANGED <<sem, connCounts, srvvars, standing>>

\* Fault: the handler keeps its per-tenant slot.
ReleaseForgotten(t) == connCounts

ReleaseSlot(t) == [connCounts EXCEPT ![t] = @ - 1]

\* The deferred calls, last one first: release, conn.Close, wg.Done, <-connSem.
Release(c) == /\ cpc[c] = "release"
              /\ connCounts' = ReleaseSlot(TenantOf[c])
              /\ Goto(c, "close")
              /\ UNCHANGED <<sem, srvvars, owed, standing, poolvars>>

CloseAndDone(c) == /\ cpc[c] = "close"
                   /\ Goto(c, "done")
                   /\ UNCHANGED <<sem, connCounts, srvvars, owed, standing, poolvars>>

FreeSem(c) == /\ cpc[c] = "done"
              /\ sem' = sem - 1
              /\ Goto(c, "none")
              /\ UNCHANGED <<connCounts, srvvars, owed, standing, poolvars>>

\* The administrator updates or deletes the tenant, or revokes the certificate.
Administer(t, s) ==
    /\ standing[t] # "deleted"
    /\ standing[t] = "revoked" => s = "deleted"
    /\ standing' = [standing EXCEPT ![t] = s]
    /\ UNCHANGED <<connvars, srvvars, owed, poolvars>>

Collector == CollectorStep /\ UNCHANGED <<connvars, srvvars, owed, standing>>

-----------------------------------------------------------------------------
\* Steps of a handler that neither its client nor the collector can hold up: a
\* query and a critical section end, and a dial has a timeout.
HandlerStep(c) ==
    \/ ResolveTenant(c)
    \/ AcquireConnSlot(c)
    \/ CheckHealth(c)
    \/ FrameRejected(c)
    \/ AllowRPS(c)
    \/ AllowBytes(c)
    \/ Pooling(c)
    \/ Forwarded(c)
    \/ ForwardFailed(c)
    \/ Release(c)
    \/ CloseAndDone(c)
    \/ FreeSem(c)

LoopStep == CloseListener \/ AcceptFails \/ JoinAndClose

Next ==
    \/ \E c \in Conn : \/ Accept(c)
                       \/ Handshake(c)
                       \/ ReadFrame(c)
                       \/ ReadEnds(c)
                       \/ Writing(c)
                       \/ HandlerStep(c)
    \/ Cancel
    \/ LoopStep
    \/ \E t \in Managed, s \in Standing : Administer(t, s)
    \/ Collector

Safety == Init /\ [][Next]_vars

\* Goroutines run on, and a read returns: the deadline sees to it.  Nothing is
\* assumed of handshakes and of writes to the collector, which have none.
Fairness ==
    /\ WF_vars(LoopStep)
    /\ \A c \in Conn : WF_vars(HandlerStep(c)) /\ WF_vars(ReadFrame(c) \/ ReadEnds(c))

Spec == Safety /\ Fairness

\* Clients that complete their handshake and fall silent some day.
QuietClients == \A c \in Conn : WF_vars(Handshake(c)) /\ SF_vars(ReadEnds(c))
QuietSpec == Spec /\ QuietClients

\* A collector that, as long as it keeps a connection open, reads from it.
ReadingCollector == \A c \in Conn : WF_vars(Writing(c))
BenignSpec == QuietSpec /\ ReadingCollector

-----------------------------------------------------------------------------
(***************************************************************************)
(* Properties.                                                             *)
(***************************************************************************)

\* Every variable has its type, and a connection count never goes below zero.
TypeOK ==
    /\ PoolTypeOK
    /\ cancelled \in BOOLEAN /\ listening \in BOOLEAN
    /\ lpc \in {"accept", "join", "returned"}
    /\ sem \in Nat /\ connCounts \in [Tenant -> Nat]
    /\ cpc \in [Conn -> HandlerPC]
    /\ standing \in [Tenant -> Standing]
    /\ owed \in [Conn -> Nat]

InPC(S) == {c \in Conn : cpc[c] \in S}
SlotsOf(t) == {c \in InPC(HoldingSlot) : TenantOf[c] = t}

\* Both counters count what they are meant to count and stay under their caps:
\* connSem the running handlers, connCounts the connections of each tenant
\* that have got past acquireConnSlot (server.go:103-128, 162-173).  No exit
\* of handleConnection keeps a slot or gives one back twice.
CapsHold ==
    /\ sem = Cardinality(Conn \ InPC({"none"}))
    /\ sem <= MaxConnections
    /\ \A t \in Tenant : /\ connCounts[t] = Cardinality(SlotsOf(t))
                        /\ connCounts[t] <= MaxConnsPerTenant

\* Every frame that was read is recorded once, whatever became of it: between
\* the read and RecordUsage one frame is owed, and outside none.
FramesAreRecorded ==
    \A c \in Conn : owed[c] = IF cpc[c] \in Processing THEN 1 ELSE 0

\* When ListenAndServe has returned nothing is left of it: no handler works,
\* no collector connection is open, and none will be opened.
ShutdownIsClean ==
    lpc = "returned" => /\ \A c \in Conn : cpc[c] \in {"none", "done"} /\ fpc[c] = "idle"
                        /\ opened = {} /\ pool = {}

\* A frame under way is answered: the handler reads on or gives up, however
\* often the collector restarts or drops connections meanwhile, as long as it
\* reads from those it keeps (ReadingCollector).
FramesAreAnswered == \A c \in Conn : cpc[c] = "rps" ~> cpc[c] \in {"read", "release"}

\* ListenAndServe returns once ctx is cancelled: "runs the accept loop until
\* ctx is cancelled, then joins all connection goroutines and closes the
\* collector pool" (server.go:130-131).  It does if the clients finish their
\* handshake and fall silent and the collector reads (BenignSpec); without the
\* one or the other condition it need not.
ShutdownCompletes == cancelled ~> lpc = "returned"
=============================================================================
