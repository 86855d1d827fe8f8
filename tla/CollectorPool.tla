--------------------------- MODULE CollectorPool ---------------------------
(***************************************************************************)
(* internal/syslog/pool.go: the pool of TCP connections to the local       *)
(* collector.  Handlers call Forward concurrently; p.mu is held while a    *)
(* connection is taken (and dialled) and while one is given back, and not  *)
(* while a frame is written, so those three are the atomic steps.          *)
(*                                                                         *)
(* p.conns is a set here: the code takes the first of the slice, and no    *)
(* property depends on which one it is.  The collector is modelled from    *)
(* how the pool uses it: it accepts dials while it is up; a connection     *)
(* breaks when the collector restarts or closes it, and a write to a       *)
(* broken connection fails, or succeeds into the kernel's buffer.  A dial  *)
(* gives up after 5 s; a write has no deadline, and waits for a collector  *)
(* that does not read.                                                     *)
(***************************************************************************)
EXTENDS Integers, FiniteSets

CONSTANTS Conn,         \* handlers, one for each client connection
          Socket,       \* TCP connections to the collector
          MaxPool       \* p.maxConns

ASSUME PoolAssumption ==
    /\ IsFiniteSet(Conn) /\ IsFiniteSet(Socket)
    /\ MaxPool \in Nat

VARIABLES
    pool,       \* p.conns
    healthy,    \* p.healthy
    opened,     \* sockets that are open on our side
    broken,     \* sockets whose other side is gone
    up,         \* the collector accepts connections
    fpc,        \* where each handler is in Forward
    sock        \* the socket it holds there, as a set

poolvars == <<pool, healthy, opened, broken, up, fpc, sock>>

ForwardPC == {"idle", "get", "write", "reget", "rewrite", "return", "ok", "failed"}

PoolInit ==
    /\ pool = {} /\ healthy = TRUE /\ opened = {} /\ broken = {} /\ up = TRUE
    /\ fpc = [c \in Conn |-> "idle"]
    /\ sock = [c \in Conn |-> {}]

FGoto(c, p) == fpc' = [fpc EXCEPT ![c] = p]
Holds(c, S) == sock' = [sock EXCEPT ![c] = S]

\* conn.Close.
CloseSocket(s) == opened' = opened \ {s} /\ broken' = broken \ {s}

\* Forward is called.
ForwardCall(c) ==
    /\ fpc[c] = "idle"
    /\ FGoto(c, "get")
    /\ UNCHANGED <<pool, healthy, opened, broken, up, sock>>

TakeOut(s) == pool' = pool \ {s}

\* getConn: a pooled connection if there is one, otherwise a new one.
GetConn(c) ==
    /\ fpc[c] \in {"get", "reget"}
    /\ LET writing == IF fpc[c] = "get" THEN "write" ELSE "rewrite"
       IN  \/ \E s \in pool : /\ TakeOut(s)
                              /\ Holds(c, {s}) /\ FGoto(c, writing)
                              /\ UNCHANGED <<healthy, opened, broken>>
           \/ \E s \in Socket \ opened :
                /\ pool = {} /\ up
                /\ opened' = opened \cup {s} /\ healthy' = TRUE
                /\ Holds(c, {s}) /\ FGoto(c, writing)
                /\ UNCHANGED <<pool, broken>>
           \/ /\ pool = {} /\ ~up
              /\ healthy' = FALSE
              /\ FGoto(c, "failed")
              /\ UNCHANGED <<pool, opened, broken, sock>>
    /\ UNCHANGED up

WriteSucceeds(c) ==
    /\ fpc[c] \in {"write", "rewrite"}
    /\ FGoto(c, "return")
    /\ UNCHANGED <<pool, healthy, opened, broken, up, sock>>

\* Fault: the connection of the failed write is not closed.
MarkDeadLeaks(s) == UNCHANGED <<opened, broken>>

MarkDead(s) == CloseSocket(s)

\* Fault: every failed write is retried.
RetryForever(p) == "reget"

\* The first failed write is retried on another connection, the second is not.
AfterFailedWrite(p) == IF p = "write" THEN "reget" ELSE "failed"

WriteFails(c) ==
    /\ fpc[c] \in {"write", "rewrite"}
    /\ \E s \in sock[c] : s \in broken /\ MarkDead(s)
    /\ Holds(c, {})
    /\ FGoto(c, AfterFailedWrite(fpc[c]))
    /\ UNCHANGED <<pool, healthy, up>>

HasRoom == Cardinality(pool) < MaxPool

\* returnConn: into the pool, or closed when the pool is full.
ReturnConn(c) ==
    /\ fpc[c] = "return"
    /\ \E s \in sock[c] : IF HasRoom
                          THEN pool' = pool \cup {s} /\ UNCHANGED <<opened, broken>>
                          ELSE CloseSocket(s) /\ UNCHANGED pool
    /\ Holds(c, {}) /\ FGoto(c, "ok")
    /\ UNCHANGED <<healthy, up>>

\* Forward returns to its caller.
ForwardReturns(c, p) ==
    /\ fpc[c] = p
    /\ FGoto(c, "idle")
    /\ UNCHANGED <<pool, healthy, opened, broken, up, sock>>

\* Close.
PoolClose ==
    /\ opened' = opened \ pool /\ broken' = broken \ pool
    /\ pool' = {} /\ healthy' = FALSE
    /\ UNCHANGED <<up, fpc, sock>>

PoolStep(c) == GetConn(c) \/ ReturnConn(c)

\* conn.Write returns.
WriteStep(c) == WriteSucceeds(c) \/ WriteFails(c)

-----------------------------------------------------------------------------
(***************************************************************************)
(* The collector.                                                          *)
(***************************************************************************)

CollectorDown == /\ up
                 /\ up' = FALSE /\ broken' = opened
                 /\ UNCHANGED <<pool, healthy, opened, fpc, sock>>

CollectorUp == /\ ~up
               /\ up' = TRUE
               /\ UNCHANGED <<pool, healthy, opened, broken, fpc, sock>>

\* The collector closes one connection, an idle one for instance.
CollectorCloses(s) == /\ s \in opened \ broken
                      /\ broken' = broken \cup {s}
                      /\ UNCHANGED <<pool, healthy, opened, up, fpc, sock>>

CollectorStep == \/ CollectorDown
                 \/ CollectorUp
                 \/ \E s \in Socket : CollectorCloses(s)

-----------------------------------------------------------------------------
PoolTypeOK ==
    /\ pool \subseteq Socket /\ opened \subseteq Socket /\ broken \subseteq Socket
    /\ healthy \in BOOLEAN /\ up \in BOOLEAN
    /\ fpc \in [Conn -> ForwardPC]
    /\ sock \in [Conn -> SUBSET Socket]

\* Every open socket is in one place: in the pool, or held by one handler that
\* is about to write to it or give it back; the pool keeps MaxPool at most.
\* Frames of two handlers never mix on one connection, and no path of Forward
\* (pool.go:98-125) leaks a connection.
SocketsAreOwned ==
    /\ Cardinality(pool) <= MaxPool
    /\ \A s \in Socket : s \in opened <=> s \in pool \/ \E c \in Conn : s \in sock[c]
    /\ \A c \in Conn : sock[c] \cap pool = {}
    /\ \A c, d \in Conn : c # d => sock[c] \cap sock[d] = {}
    /\ \A c \in Conn : IF fpc[c] \in {"write", "rewrite", "return"}
                       THEN \E s \in Socket : sock[c] = {s}
                       ELSE sock[c] = {}
=============================================================================
