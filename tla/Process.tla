------------------------------ MODULE Process ------------------------------
(***************************************************************************)
(* cmd/proxy/main.go: the life of the process.  run() opens the store      *)
(* (Migrate), starts the goroutines of its parts, waits for a signal, and  *)
(* takes the parts down in an order meant to leave nobody who uses the     *)
(* store when it closes it.                                                *)
(*                                                                         *)
(* A part is launched until its goroutine ends (the wait group) and        *)
(* listening while it accepts.  Requests of the proxy are those of Ingest; *)
(* of the admin, syslog and renewal parts only matters whether one of      *)
(* their handlers is busy.                                                 *)
(***************************************************************************)
EXTENDS Ingest

Part == {"cleanup", "proxy", "admin", "syslog", "renewal"}
Listener == Part \ {"cleanup"}

VARIABLES
    stage,          \* where run() is, "idle" before the store is open
    launched,       \* the wait group: parts whose goroutine has not ended
    listening,      \* parts that accept connections
    busy,           \* parts other than the proxy with a handler at work
    cancelled,      \* ctx is cancelled
    expired,        \* shutdownCtx is past its 10 s
    failed,         \* run() returned early, after the listeners were started
    unsaved         \* the last flush of the usage writer failed

pvars == <<stage, launched, listening, busy, cancelled, expired, failed, unsaved>>
vars == <<mvars, ivars, pvars>>

Stage == {"idle", "syslog", "renewal", "serving", "proxy", "drainProxy", "admin",
          "drainAdmin", "join", "close", "exit"}

Init ==
    /\ MigrateInit /\ IngestInit
    /\ stage = "idle" /\ launched = {} /\ listening = {} /\ busy = {}
    /\ cancelled = FALSE /\ expired = FALSE /\ failed = FALSE /\ unsaved = FALSE

At(s, t) == stage = s /\ stage' = t

(***************************************************************************)
(* Start.                                                                  *)
(***************************************************************************)
Boot ==
    /\ OpenDatabase
    /\ UNCHANGED <<ivars, pvars>>

Migration ==
    /\ MigrateStep
    /\ UNCHANGED <<ivars, pvars>>

\* The goroutines of the retention, of the proxy and of the admin server.
Launch ==
    /\ mpc = "open" /\ At("idle", "syslog")
    /\ launched' = {"cleanup", "proxy", "admin"}
    /\ UNCHANGED <<mvars, ivars, listening, busy, cancelled, expired, failed, unsaved>>

\* A bad endpoint, provisioner key, root certificate or lifetime.
LaunchFails ==
    /\ mpc = "open" /\ At("idle", "close")
    /\ UNCHANGED <<mvars, ivars, launched, listening, busy, cancelled, expired, failed, unsaved>>

\* The two optional servers, each after its certificates were loaded.
StartOptional(p, next) ==
    /\ At(p, next)
    /\ launched' \in {launched, launched \cup {p}}
    /\ UNCHANGED <<mvars, ivars, listening, busy, cancelled, expired, failed, unsaved>>

StartSyslog == StartOptional("syslog", "renewal")
StartRenewal == StartOptional("renewal", "serving")

\* NewServer or NewRenewalServer fails: run() returns, which cancels and
\* closes, while the proxy and the admin server go on.
StartFails ==
    /\ stage \in {"syslog", "renewal"} /\ stage' = "close"
    /\ cancelled' = TRUE /\ failed' = TRUE
    /\ UNCHANGED <<mvars, ivars, launched, listening, busy, expired, unsaved>>

(***************************************************************************)
(* The parts.                                                              *)
(***************************************************************************)
\* Shutdown was called on this server.
ShutDown(p) == \/ p = "proxy" /\ stage \in {"drainProxy", "admin", "drainAdmin", "join"}
               \/ p = "admin" /\ stage \in {"drainAdmin", "join"}

\* ListenAndServe refuses to start on a server that was shut down.  The other two
\* open a listener even when the context is done, and close it at once: that is
\* EndPart of a part that never listened.
Closed(p) == IF p \in {"proxy", "admin"} THEN ShutDown(p) ELSE cancelled

Bind(p) ==
    /\ p \in launched \cap Listener /\ ~Closed(p)
    /\ listening' = listening \cup {p}
    /\ UNCHANGED <<mvars, ivars, stage, launched, busy, cancelled, expired, failed, unsaved>>

\* The address is taken: the goroutine logs it and ends.
BindFails(p) ==
    /\ p \in (launched \cap Listener) \ listening /\ ~Closed(p)
    /\ launched' = launched \ {p}
    /\ UNCHANGED <<mvars, ivars, stage, listening, busy, cancelled, expired, failed, unsaved>>

\* The goroutine that waits for the context closes the listener.
CloseListener(p) ==
    /\ p \in listening \cap {"syslog", "renewal"} /\ cancelled
    /\ listening' = listening \ {p}
    /\ UNCHANGED <<mvars, ivars, stage, launched, busy, cancelled, expired, failed, unsaved>>

\* The syslog server joins its handlers; Serve of the others does not.
Joins(p) == p = "syslog" => "syslog" \notin busy

\* Fault: the loop of the retention does not look at the context.
EndPartNotCleanup(p) ==
    /\ p \in launched \ (listening \cup {"cleanup"}) /\ Closed(p) /\ Joins(p)
    /\ launched' = launched \ {p}
    /\ UNCHANGED <<mvars, ivars, stage, listening, busy, cancelled, expired, failed, unsaved>>

\* A part's goroutine ends once it was told to and its listener is closed.
EndPart(p) ==
    /\ p \in launched \ listening /\ Closed(p) /\ Joins(p)
    /\ launched' = launched \ {p}
    /\ UNCHANGED <<mvars, ivars, stage, listening, busy, cancelled, expired, failed, unsaved>>

AcceptRequest(r) ==
    /\ "proxy" \in listening
    /\ Receive(r)
    /\ UNCHANGED <<mvars, pvars>>

HandleRequest(r) ==
    /\ UNCHANGED <<mvars, pvars>>
    /\ IngestStep(r)

AcceptOther(p) ==
    /\ p \in listening \ ({"proxy"} \cup busy)
    /\ busy' = busy \cup {p}
    /\ UNCHANGED <<mvars, ivars, stage, launched, listening, cancelled, expired, failed, unsaved>>

FinishOther(p) ==
    /\ p \in busy
    /\ busy' = busy \ {p}
    /\ UNCHANGED <<mvars, ivars, stage, launched, listening, cancelled, expired, failed, unsaved>>

\* The usage writer's ticker.
Flush ==
    /\ mpc = "open" /\ Usage!Having("pending") # {}
    /\ UNCHANGED <<mvars, ipc, body, sent, out, pvars>>
    /\ Usage!Post(Usage!Having("pending"))

(***************************************************************************)
(* Shutdown.                                                               *)
(***************************************************************************)
Signal ==
    /\ At("serving", "proxy")
    /\ cancelled' = TRUE
    /\ UNCHANGED <<mvars, ivars, launched, listening, busy, expired, failed, unsaved>>

\* Shutdown of a server closes its listener at once ...
CloseServer(p, here, there) ==
    /\ At(here, there)
    /\ listening' = listening \ {p}
    /\ UNCHANGED <<mvars, ivars, launched, busy, cancelled, expired, failed, unsaved>>

CloseProxy == CloseServer("proxy", "proxy", "drainProxy")
CloseAdmin == CloseServer("admin", "admin", "drainAdmin")

\* Fault: Shutdown is not given time.
DrainedAtOnce(p) == TRUE

\* ... and returns when its handlers are done, or the context is.
Drained(p) == expired \/ (IF p = "proxy" THEN Running = {} ELSE p \notin busy)

DrainProxy ==
    /\ At("drainProxy", "admin") /\ Drained("proxy")
    /\ UNCHANGED <<mvars, ivars, launched, listening, busy, cancelled, expired, failed, unsaved>>

DrainAdmin ==
    /\ At("drainAdmin", "join") /\ Drained("admin")
    /\ UNCHANGED <<mvars, ivars, launched, listening, busy, cancelled, expired, failed, unsaved>>

Deadline ==
    /\ stage \in {"drainProxy", "admin", "drainAdmin"} /\ ~expired
    /\ expired' = TRUE
    /\ UNCHANGED <<mvars, ivars, stage, launched, listening, busy, cancelled, failed, unsaved>>

\* Fault: the wait group is not waited for.
JoinEarly ==
    /\ At("join", "close")
    /\ UNCHANGED <<mvars, ivars, launched, listening, busy, cancelled, expired, failed, unsaved>>

\* wg.Wait, and dl.Stop.
Join ==
    /\ At("join", "close") /\ launched = {}
    /\ UNCHANGED <<mvars, ivars, launched, listening, busy, cancelled, expired, failed, unsaved>>

\* The deferred lim.Stop and st.Close: the writer drains and flushes once more.
\* That flush may fail like any other, at its begin, at a statement (the foreign
\* key of a deleted tenant) or at its commit; it is rolled back and merged into a
\* map that nobody will flush, and the store is closed all the same.
CloseStore ==
    /\ At("close", "exit")
    /\ MGoto("closed")
    /\ UNCHANGED <<had, db, tx, fk, todo, cur, ignored, ipc, body, sent, out,
                   launched, listening, busy, cancelled, expired, failed>>
    /\ \/ Usage!Post(Usage!Having("pending")) /\ UNCHANGED unsaved
       \/ Usage!Having("pending") # {} /\ UNCHANGED status /\ unsaved' = TRUE

\* The process ends, after run() or by a crash, and with it every handler and
\* whatever the writer had in memory.
Die ==
    /\ Disconnect
    /\ Usage!Lose
    /\ ipc' = [r \in Request |-> IF r \in Running THEN "done" ELSE ipc[r]]
    /\ out' = [r \in Request |-> IF r \in Running THEN "killed" ELSE out[r]]
    /\ stage' = "idle" /\ launched' = {} /\ listening' = {} /\ busy' = {}
    /\ cancelled' = FALSE /\ expired' = FALSE /\ failed' = FALSE /\ unsaved' = FALSE
    /\ UNCHANGED <<body, sent>>

Exit == stage = "exit" /\ Die
Crash == mpc # "down" /\ Die

Run ==
    \/ Launch \/ StartSyslog \/ StartRenewal \/ CloseProxy \/ DrainProxy
    \/ CloseAdmin \/ DrainAdmin \/ Deadline \/ Join \/ CloseStore \/ Exit

Next ==
    \/ Boot \/ Migration \/ Run \/ LaunchFails \/ StartFails \/ Signal \/ Flush \/ Crash
    \/ \E p \in Part : \/ Bind(p) \/ BindFails(p) \/ CloseListener(p) \/ EndPart(p)
                       \/ AcceptOther(p) \/ FinishOther(p)
    \/ \E r \in Request : AcceptRequest(r) \/ HandleRequest(r)

(***************************************************************************)
(* The goroutines of the program run.  Nothing is assumed of handlers, of  *)
(* signals or of requests: a syslog handler in particular need not end     *)
(* (the handshake and the collector's write have no deadline).             *)
(***************************************************************************)
Fairness ==
    /\ WF_vars(Migration) /\ WF_vars(Run)
    /\ \A p \in Part : WF_vars(CloseListener(p)) /\ WF_vars(EndPart(p))

Spec == Init /\ [][Next]_vars /\ Fairness

TypeOK ==
    /\ MigrateTypeOK
    /\ ipc \in [Request -> {"idle", "resolve", "rps", "read", "bytes", "stamp", "proxy",
                            "record", "done"}]
    /\ out \in [Request -> Outcome]
    /\ status \in [Request -> Usage!Status]
    /\ stage \in Stage /\ launched \in SUBSET Part /\ listening \in SUBSET Listener
    /\ busy \in SUBSET (Listener \ {"proxy"})
    /\ cancelled \in BOOLEAN /\ expired \in BOOLEAN /\ failed \in BOOLEAN
    /\ unsaved \in BOOLEAN

(***************************************************************************)
(* The store is closed under nobody: when run() closes it after an orderly *)
(* shutdown, no handler is at work, but for those of the renewal server,   *)
(* which nobody joins, and those that outlasted the 10 s of Shutdown.      *)
(***************************************************************************)
StoreOutlivesHandlers ==
    mpc = "closed" /\ ~failed =>
        /\ launched = {} /\ listening = {}
        /\ busy \subseteq {"renewal"} \cup (IF expired THEN {"admin"} ELSE {})
        /\ Running = {} \/ expired

(***************************************************************************)
(* A request that was forwarded is in usage_counters when the process      *)
(* exits in order, across restarts and migrations before it, unless the    *)
(* channel was full, its answer broke off, the process was killed under    *)
(* it, or it outlasted the deadline; or unless its sample was still in     *)
(* memory when the process died before (lost), or is there now because     *)
(* the last flush failed (unsaved), which Stop reports to nobody.          *)
(***************************************************************************)
ForwardedIsCounted ==
    stage = "exit" /\ ~failed /\ ~expired =>
        \A r \in Request :
            sent[r] # {} => \/ status[r] \in {"counted", "dropped", "lost"}
                            \/ status[r] = "pending" /\ unsaved
                            \/ out[r] \in {"aborted", "killed"}

(***************************************************************************)
(* Once run() has received a signal the process ends, whatever the         *)
(* handlers of the proxy, the admin and the renewal server do, unless a    *)
(* handler of the syslog server never returns: wg.Wait has no deadline.    *)
(***************************************************************************)
ShutdownEnds == (stage = "proxy") ~> (stage = "idle" \/ [](stage = "join" /\ "syslog" \in busy))

(***************************************************************************)
(* "Migration failure is fatal and observable": an Open that was begun     *)
(* succeeds, or the process exits.                                         *)
(***************************************************************************)
OpenReturns == (mpc \in Migrating) ~> (mpc \in {"open", "down"})
=============================================================================
