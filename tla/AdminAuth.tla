----------------------------- MODULE AdminAuth -----------------------------
(***************************************************************************)
(* Administrators: first-run setup, login and its throttle, sessions, and  *)
(* the management of users (internal/auth, internal/web/handlers_auth.go,  *)
(* internal/web/middleware.go, internal/store/users.go).                   *)
(*                                                                         *)
(* A client is a browser; it has one request under way, in the steps       *)
(* between which others come: the throttle, each query, the slow bcrypt in *)
(* between.  Of the throttle's two keys only "user:" is kept: "ip:" holds   *)
(* r.RemoteAddr with its port, the key of a connection, of which a client  *)
(* opens as many as it likes; an attempt that it refuses is one that is    *)
(* not made.  A user's password is                                         *)
(* known to the client that chose it, its owner, and a session is the      *)
(* signed cookie of a client: the id in it, and whether its 24 hours are    *)
(* over, which are so much longer than the throttle's window that they end *)
(* at any time.                                                            *)
(***************************************************************************)
EXTENDS Integers, FiniteSets

CONSTANTS Client,       \* browsers
          Name,         \* usernames
          MaxAttempts,  \* 5
          Window,       \* 15 minutes
          MaxId,        \* bound on the users ever created
          MaxRestarts   \* bound on the restarts within a window's time

ASSUME AdminAssumption ==
    /\ MaxAttempts \in Nat \ {0} /\ Window \in Nat
    /\ MaxId \in Nat /\ MaxRestarts \in Nat

VARIABLES
    users,      \* table users, a set of rows
    lastId,     \* its AUTOINCREMENT sequence
    entries,    \* LoginLimiter.entries: attempts in each window, and its time left
    cookies,    \* the sessions that the clients hold
    pc,         \* where a client's request is
    name,       \* the username it is about, as a set
    row,        \* the user id it has in hand, 0 for none
    tries,      \* history: attempts let through, by key, that are at most so old
    restarts,   \* history: restarts that are at most so old
    met,        \* history: the users there were when a setup began
    late,       \* history: clients whose session had ended when they began
    blind       \* history: clients whose UserCount failed

history == <<met, late, blind>>
vars == <<users, lastId, entries, cookies, pc, name, row, tries, restarts,
          history>>

Age == 0 .. Window
NoWindow == [count |-> 0, left |-> -1]
NothingYet == [a \in Age |-> 0]

Init ==
    /\ users = {} /\ lastId = 0 /\ cookies = {}
    /\ entries = [n \in Name |-> NoWindow]
    /\ tries = [n \in Name |-> NothingYet] /\ restarts = NothingYet
    /\ pc = [c \in Client |-> "idle"] /\ name = [c \in Client |-> {}]
    /\ row = [c \in Client |-> 0]
    /\ met = [c \in Client |-> {}] /\ late = {} /\ blind = {}

Goto(c, p) == pc' = [pc EXCEPT ![c] = p]
Ids == {u.id : u \in users}
Named(c) == {u \in users : u.name \in name[c]}
Cookie(c) == {s \in cookies : s.holder = c}

\* A request begins, and ends with an answer.
Begin(c, p) ==
    /\ pc[c] = "idle"
    /\ Goto(c, p)
    /\ UNCHANGED <<users, lastId, entries, cookies, name, row, tries, restarts, blind>>

Finish(c) ==
    /\ Goto(c, "idle")
    /\ name' = [name EXCEPT ![c] = {}]
    /\ row' = [row EXCEPT ![c] = 0]
    /\ met' = [met EXCEPT ![c] = {}] /\ late' = late \ {c} /\ blind' = blind \ {c}

(***************************************************************************)
(* Login.                                                                  *)
(***************************************************************************)
\* The window is over, or there was none.
Over(n) == entries[n].left < 0

\* Fault: a full window is only noticed one attempt later.
FullOffByOne(n) == ~Over(n) /\ entries[n].count > MaxAttempts

Full(n) == ~Over(n) /\ entries[n].count >= MaxAttempts

\* LoginLimiter.Allow, under its mutex, for an attempt to log in as n.
Allow(c, n) ==
    /\ pc[c] = "idle" /\ ~Full(n)
    /\ entries' = [entries EXCEPT ![n] =
                     IF Over(n) THEN [count |-> 1, left |-> Window]
                                ELSE [count |-> entries[n].count + 1, left |-> entries[n].left]]
    /\ tries' = [tries EXCEPT ![n] = [a \in Age |-> tries[n][a] + 1]]
    /\ name' = [name EXCEPT ![c] = {n}]
    /\ Goto(c, "lookup")
    /\ UNCHANGED <<users, lastId, cookies, row, restarts, history>>

\* GetUserByUsername and bcrypt: an unknown name, an error or another's
\* password is a 401.
LoginLookup(c) ==
    /\ pc[c] = "lookup"
    /\ \/ \E u \in Named(c) : /\ u.owner = c
                              /\ row' = [row EXCEPT ![c] = u.id]
                              /\ name' = [name EXCEPT ![c] = {}]
                              /\ Goto(c, "session")
                              /\ UNCHANGED history
       \/ Finish(c)
    /\ UNCHANGED <<users, lastId, entries, cookies, tries, restarts>>

Session(c, id, own) == [id |-> id, holder |-> c, old |-> FALSE, own |-> own]

\* establishSession puts the new cookie in the place of an old one.
EstablishSession(c) ==
    /\ pc[c] = "session"
    /\ cookies' = (cookies \ Cookie(c)) \cup {Session(c, row[c], row[c])}
    /\ Finish(c)
    /\ UNCHANGED <<users, lastId, entries, tries, restarts>>

(***************************************************************************)
(* Setup.                                                                  *)
(***************************************************************************)
SetupBegins(c) ==
    /\ Begin(c, "count")
    /\ met' = [met EXCEPT ![c] = Ids]
    /\ UNCHANGED late

\* Fault: the count is not looked at.
NoUsersUnchecked == TRUE

NoUsers == users = {}

\* UserCount, whose error counts as no users.
SetupCount(c) ==
    /\ pc[c] = "count"
    /\ \/ NoUsers /\ Goto(c, "create") /\ UNCHANGED <<name, row, history>>
       \/ /\ ~NoUsers
          /\ Goto(c, "create") /\ blind' = blind \cup {c}
          /\ UNCHANGED <<name, row, met, late>>
       \/ ~NoUsers /\ Finish(c)
    /\ UNCHANGED <<users, lastId, entries, cookies, tries, restarts>>

\* Fault: ids are not AUTOINCREMENT and come back after a delete.
ReusedId == 1 + Cardinality(users)

FreshId == lastId + 1

\* CreateUser, which the UNIQUE username may refuse.
CreateUser(c, n) ==
    /\ FreshId <= MaxId /\ \A u \in users : u.name # n
    /\ users' = users \cup {[id |-> FreshId, name |-> n, owner |-> c]}
    /\ lastId' = FreshId

\* The slow hash, then the insert.
SetupCreate(c) ==
    /\ pc[c] = "create"
    /\ \/ /\ \E n \in Name : CreateUser(c, n) /\ name' = [name EXCEPT ![c] = {n}]
          /\ row' = [row EXCEPT ![c] = FreshId]
          /\ Goto(c, "find")
          /\ UNCHANGED history
       \/ Finish(c) /\ UNCHANGED <<users, lastId>>
    /\ UNCHANGED <<entries, cookies, tries, restarts>>

\* GetUserByUsername, whose error, like an absent row, is the id 0.
SetupSession(c) ==
    /\ pc[c] = "find"
    /\ \E id \in {u.id : u \in Named(c)} \cup {0} :
         cookies' = (cookies \ Cookie(c)) \cup {Session(c, id, row[c])}
    /\ Finish(c)
    /\ UNCHANGED <<users, lastId, entries, tries, restarts>>

(***************************************************************************)
(* Requests with a session.                                                *)
(***************************************************************************)
RequestBegins(c) ==
    /\ Cookie(c) # {}
    /\ Begin(c, "verify")
    /\ late' = IF \E s \in Cookie(c) : s.old \/ s.id \notin Ids THEN late \cup {c} ELSE late
    /\ UNCHANGED met

\* Fault: the user is not looked up.
ValidUnchecked(s) == ~s.old

\* SessionManager.Verify: not expired, and the user still exists.
Valid(s) == ~s.old /\ s.id \in Ids

\* requireAuth; a failing lookup is a redirect too.
RequireAuth(c) ==
    /\ pc[c] = "verify"
    /\ \/ /\ \E s \in Cookie(c) : Valid(s)
          /\ Goto(c, "serve")
          /\ UNCHANGED <<name, row, history>>
       \/ Finish(c)
    /\ UNCHANGED <<users, lastId, entries, cookies, tries, restarts>>

\* userCreate.
UserCreate(c) ==
    /\ pc[c] = "serve"
    /\ \E n \in Name : CreateUser(c, n)
    /\ Finish(c)
    /\ UNCHANGED <<entries, cookies, tries, restarts>>

\* userDelete, of any user, the last one and oneself included.
UserDelete(c) ==
    /\ pc[c] = "serve"
    /\ \E u \in users : users' = users \ {u}
    /\ Finish(c)
    /\ UNCHANGED <<lastId, entries, cookies, tries, restarts>>

\* logout clears the cookie in the browser.
Logout(c) ==
    /\ pc[c] = "serve"
    /\ cookies' = cookies \ Cookie(c)
    /\ Finish(c)
    /\ UNCHANGED <<users, lastId, entries, tries, restarts>>

\* Any other page, or a statement that fails.
ServePage(c) ==
    /\ pc[c] = "serve"
    /\ Finish(c)
    /\ UNCHANGED <<users, lastId, entries, cookies, tries, restarts>>

\* What is at most a ticks old now is at most a + 1 ticks old in the next tick.
Older(h) == [a \in Age |-> IF a = 0 THEN 0 ELSE h[a - 1]]

\* Time passes.  A window that is over is as good as none: Allow treats both
\* alike.  The histories go back as far as a window.
Tick ==
    /\ entries' = [n \in Name |-> IF entries[n].left > 0
                                THEN [entries[n] EXCEPT !.left = @ - 1] ELSE NoWindow]
    /\ tries' = [n \in Name |-> Older(tries[n])] /\ restarts' = Older(restarts)
    /\ UNCHANGED <<users, lastId, cookies, pc, name, row, history>>

\* The 24 hours of a session are over.
Expire(c) ==
    /\ \E s \in Cookie(c) : /\ ~s.old
                            /\ cookies' = (cookies \ {s}) \cup {[s EXCEPT !.old = TRUE]}
    /\ UNCHANGED <<users, lastId, entries, pc, name, row, tries, restarts, history>>

\* The throttle is in memory; the table and the signing key are not, and the
\* attempts that were made stay made.
Restart ==
    /\ restarts[Window] < MaxRestarts
    /\ restarts' = [a \in Age |-> restarts[a] + 1]
    /\ entries' = [n \in Name |-> NoWindow]
    /\ pc' = [c \in Client |-> "idle"] /\ name' = [c \in Client |-> {}]
    /\ row' = [c \in Client |-> 0]
    /\ met' = [c \in Client |-> {}] /\ late' = {} /\ blind' = {}
    /\ UNCHANGED <<users, lastId, cookies, tries>>

Step(c) ==
    \/ (\E n \in Name : Allow(c, n)) \/ LoginLookup(c) \/ EstablishSession(c)
    \/ SetupBegins(c) \/ SetupCount(c) \/ SetupCreate(c) \/ SetupSession(c)
    \/ RequestBegins(c) \/ RequireAuth(c) \/ UserCreate(c) \/ UserDelete(c) \/ Logout(c)
    \/ ServePage(c) \/ Expire(c)

Next == (\E c \in Client : Step(c)) \/ Tick \/ Restart

Spec == Init /\ [][Next]_vars

User == [id : 1 .. MaxId, name : Name, owner : Client]

ThrottleOK ==
    /\ entries \in [Name -> [count : 0 .. MaxAttempts, left : -1 .. Window]]
    /\ tries \in [Name -> [Age -> Nat]] /\ restarts \in [Age -> Nat]

RequestsOK ==
    /\ users \in SUBSET User /\ lastId \in 0 .. MaxId
    /\ cookies \in SUBSET [id : 0 .. MaxId, holder : Client, old : BOOLEAN, own : 0 .. MaxId]
    /\ pc \in [Client -> {"idle", "lookup", "session", "count",
                          "create", "find", "verify", "serve"}]
    /\ name \in [Client -> SUBSET Name] /\ row \in [Client -> 0 .. MaxId]
    /\ met \in [Client -> SUBSET (1 .. MaxId)] /\ late \in SUBSET Client
    /\ blind \in SUBSET Client

TypeOK == ThrottleOK /\ RequestsOK

(***************************************************************************)
(* In any stretch as long as a window, fewer than two windows' worth of    *)
(* logins is tried for one name, and one window's worth more for each      *)
(* restart within the stretch, however the requests race and wherever the  *)
(* stretch lies between the windows: 9, and 14 with a restart, where the   *)
(* comment says 5 (loginlimiter.go:13-22: the windows are kept in memory). *)
(***************************************************************************)
ThrottleHolds ==
    \A n \in Name : tries[n][Window] < (2 + restarts[Window]) * MaxAttempts

(***************************************************************************)
(* Whoever holds a session for a user chose that user's password, also     *)
(* after users were deleted and their names given to others.  Only a setup *)
(* whose own user was deleted before it could look its id up gets the      *)
(* session of another user of that name.                                   *)
(***************************************************************************)
SessionsAreEarned ==
    \A s \in cookies, u \in users :
        u.id = s.id => u.owner = s.holder \/ s.own \notin Ids

(***************************************************************************)
(* A request that began after its session had expired, or after its user   *)
(* was deleted, is not served: "deleting a user revokes their session".    *)
(***************************************************************************)
SessionsEnd == \A c \in Client : pc[c] = "serve" => c \notin late

(***************************************************************************)
(* A setup that began when there were users creates none while one of them *)
(* is left, unless its UserCount failed.                                   *)
(***************************************************************************)
SetupCloses ==
    [][\A c \in Client :
         pc[c] = "create" /\ pc'[c] = "find" => c \in blind \/ met[c] \cap Ids = {}]_vars
=============================================================================
