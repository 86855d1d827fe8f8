-------------------------- MODULE AdminAuthProofs --------------------------
(***************************************************************************)
(* Sessions and setup, for any browsers, names and bounds.  All rests on   *)
(* ids that are given out once: a session, a request and a setup's memory  *)
(* of the users it met speak of ids that no later user can have.           *)
(***************************************************************************)
EXTENDS AdminAuth, TLAPS

-----------------------------------------------------------------------------
\* Rows are told apart by their id and by their name, and no id is above the
\* last one given out.
Rows == /\ \A u, v \in users : u.id = v.id \/ u.name = v.name => u = v
        /\ \A u \in users : u.id <= lastId
        /\ \A s \in cookies : s.id <= lastId /\ s.own <= lastId
        /\ \A c \in Client : row[c] <= lastId /\ \A i \in met[c] : i <= lastId

\* What a request that is about to establish a session knows of its user.
AboutToSign ==
    \A c \in Client, u \in users :
        u.id = row[c] => /\ pc[c] = "session" => u.owner = c
                         /\ pc[c] = "find" => u.owner = c /\ name[c] = {u.name}

\* A setup has one name in hand.
OneName == \A c \in Client : pc[c] = "find" => \A m, n \in name[c] : m = n

\* A browser has one session.
OneCookie == \A s, t \in cookies : s.holder = t.holder => s = t

\* A request with an ended session has not got past Verify, and will not.
Ended == \A c \in late : /\ pc[c] = "verify"
                         /\ \A s \in Cookie(c) : s.old \/ s.id \notin Ids

\* A setup that is to create a user has seen the users it met go.
Opened == \A c \in Client : pc[c] = "create" => c \in blind \/ met[c] \cap Ids = {}

AuthInv == /\ TypeOK /\ Rows /\ AboutToSign /\ OneName
           /\ SessionsAreEarned /\ OneCookie /\ Ended /\ Opened

-----------------------------------------------------------------------------
\* The invariant holds on an empty table.
LEMMA AuthInit == Init => AuthInv
<1> SUFFICES ASSUME Init PROVE AuthInv
    OBVIOUS
<1> USE AdminAssumption DEF Init
<1>1. TypeOK
  <2>1. entries \in [Name -> [count : 0 .. MaxAttempts, left : -1 .. Window]]
    BY DEF NoWindow
  <2>2. tries \in [Name -> [Age -> Nat]] /\ restarts \in [Age -> Nat]
    BY DEF NothingYet
  <2> QED
    BY <2>1, <2>2 DEF TypeOK, ThrottleOK, RequestsOK, User
<1>2. Rows /\ AboutToSign /\ OneName
  BY DEF Rows, AboutToSign, OneName
<1>3. SessionsAreEarned /\ OneCookie /\ Ended /\ Opened
  BY DEF SessionsAreEarned, OneCookie, Ended, Opened
<1> QED
  BY <1>1, <1>2, <1>3 DEF AuthInv

-----------------------------------------------------------------------------
\* Only Allow, Tick and Restart touch the throttle.
LEMMA ThrottleKept ==
    ASSUME [Next]_vars
    PROVE  \/ \E c \in Client, n \in Name : Allow(c, n)
           \/ Tick \/ Restart \/ UNCHANGED <<entries, tries, restarts>>
<1>1. ASSUME NEW c \in Client, Step(c), ~\E n \in Name : Allow(c, n)
      PROVE  UNCHANGED <<entries, tries, restarts>>
  BY <1>1 DEF Step, LoginLookup, EstablishSession, SetupBegins, SetupCount, SetupCreate,
              SetupSession, RequestBegins, Begin, RequireAuth, UserCreate, UserDelete, Logout,
              ServePage, Expire
<1> QED
  BY <1>1 DEF Next, vars

\* The type of the throttle after each step.
LEMMA ThrottleTypes == TypeOK /\ [Next]_vars => ThrottleOK'
<1> SUFFICES ASSUME ThrottleOK, [Next]_vars PROVE ThrottleOK'
    BY DEF TypeOK
<1> USE AdminAssumption DEF ThrottleOK, Age
<1>1. ASSUME NEW c \in Client, NEW n \in Name, Allow(c, n) PROVE ThrottleOK'
  <2>1. entries' \in [Name -> [count : 0 .. MaxAttempts, left : -1 .. Window]]
    <3>1. CASE Over(n)
      BY <1>1, <3>1 DEF Allow
    <3>2. CASE ~Over(n)
      <4>1. entries[n].count + 1 \in 0 .. MaxAttempts
        BY <1>1, <3>2 DEF Allow, Full
      <4> QED
        BY <1>1, <3>2, <4>1 DEF Allow
    <3> QED
      BY <3>1, <3>2
  <2>2. tries' \in [Name -> [0 .. Window -> Nat]]
    <3>1. [a \in 0 .. Window |-> tries[n][a] + 1] \in [0 .. Window -> Nat]
      BY DEF ThrottleOK
    <3> QED
      BY <1>1, <3>1 DEF Allow
  <2> QED
    BY <1>1, <2>1, <2>2 DEF Allow
<1>2. CASE Tick
  <2>1. entries' \in [Name -> [count : 0 .. MaxAttempts, left : -1 .. Window]]
    <3>1. ASSUME NEW n \in Name
          PROVE  (IF entries[n].left > 0 THEN [entries[n] EXCEPT !.left = @ - 1] ELSE NoWindow)
                     \in [count : 0 .. MaxAttempts, left : -1 .. Window]
      <4>1. entries[n] \in [count : 0 .. MaxAttempts, left : -1 .. Window]
        OBVIOUS
      <4>2. NoWindow \in [count : 0 .. MaxAttempts, left : -1 .. Window]
        BY DEF NoWindow
      <4>3. ASSUME NEW e \in [count : 0 .. MaxAttempts, left : -1 .. Window], e.left > 0
            PROVE  [e EXCEPT !.left = @ - 1] \in [count : 0 .. MaxAttempts, left : -1 .. Window]
        <5> HIDE DEF ThrottleOK
        <5>1. e.left - 1 \in -1 .. Window
          BY <4>3
        <5> QED
          BY <5>1
      <4> QED
        BY <4>1, <4>2, <4>3
    <3> QED
      BY <1>2, <3>1 DEF Tick
  <2>2. tries' \in [Name -> [0 .. Window -> Nat]]
    <3>1. ASSUME NEW n \in Name, NEW a \in 0 .. Window
          PROVE  (IF a = 0 THEN 0 ELSE tries[n][a - 1]) \in Nat
      BY DEF ThrottleOK
    <3> QED
      BY <1>2, <3>1 DEF Tick, Older
  <2>3. restarts' \in [0 .. Window -> Nat]
    <3>1. ASSUME NEW a \in 0 .. Window PROVE (IF a = 0 THEN 0 ELSE restarts[a - 1]) \in Nat
      BY DEF ThrottleOK
    <3> QED
      BY <1>2, <3>1 DEF Tick, Older
  <2> QED
    BY <1>2, <2>1, <2>2, <2>3 DEF Tick
<1>3. CASE Restart
  <2>1. entries' \in [Name -> [count : 0 .. MaxAttempts, left : -1 .. Window]]
    BY <1>3 DEF Restart, NoWindow
  <2>2. restarts' \in [0 .. Window -> Nat]
    BY <1>3 DEF Restart
  <2> QED
    BY <1>3, <2>1, <2>2 DEF Restart
<1> HIDE DEF ThrottleOK, Age
<1>4. CASE UNCHANGED <<entries, tries, restarts>>
  BY <1>4 DEF ThrottleOK
<1> QED
  BY <1>1, <1>2, <1>3, <1>4, ThrottleKept

\* The type of a state after each step.
LEMMA TypeStep == TypeOK /\ [Next]_vars => TypeOK'
<1> SUFFICES ASSUME TypeOK, [Next]_vars PROVE RequestsOK'
    BY ThrottleTypes DEF TypeOK
<1> USE AdminAssumption DEF TypeOK, RequestsOK, User
<1>1. ASSUME NEW c \in Client, NEW n \in Name, Allow(c, n) PROVE RequestsOK'
  BY <1>1 DEF Allow, Goto, history
<1> DEFINE Control == /\ pc \in [Client -> {"idle", "lookup", "session", "count",
                                           "create", "find", "verify", "serve"}]
                      /\ name \in [Client -> SUBSET Name] /\ row \in [Client -> 0 .. MaxId]
                      /\ met \in [Client -> SUBSET (1 .. MaxId)] /\ late \in SUBSET Client
                      /\ blind \in SUBSET Client
           Sessions == SUBSET [id : 0 .. MaxId, holder : Client, old : BOOLEAN, own : 0 .. MaxId]
<1>2. ASSUME NEW c \in Client, Finish(c) PROVE Control'
  BY <1>2 DEF Finish, Goto
<1>18. ASSUME NEW c \in Client, NEW p \in {"create", "serve"}, Goto(c, p),
              UNCHANGED <<name, row, met, late>>,
              blind' \in SUBSET Client
       PROVE  Control'
  BY <1>18 DEF Goto
<1>3. ASSUME NEW c \in Client, LoginLookup(c) PROVE RequestsOK'
  <2>1. CASE Finish(c)
    BY <1>2, <1>3, <2>1 DEF LoginLookup
  <2>2. CASE \E u \in Named(c) : /\ u.owner = c
                                /\ row' = [row EXCEPT ![c] = u.id]
                                /\ name' = [name EXCEPT ![c] = {}]
                                /\ Goto(c, "session")
                                /\ UNCHANGED history
    <3> PICK u \in Named(c) : /\ row' = [row EXCEPT ![c] = u.id]
                              /\ name' = [name EXCEPT ![c] = {}]
                              /\ Goto(c, "session")
                              /\ UNCHANGED history
      BY <2>2
    <3>1. u.id \in 0 .. MaxId
      BY DEF Named
    <3>2. Control'
      BY <3>1 DEF Goto, history
    <3> QED
      BY <1>3, <3>2 DEF LoginLookup
  <2> QED
    BY <1>3, <2>1, <2>2 DEF LoginLookup
<1>4. ASSUME NEW c \in Client, EstablishSession(c) PROVE RequestsOK'
  <2>1. Session(c, row[c], row[c]) \in [id : 0 .. MaxId, holder : Client, old : BOOLEAN, own : 0 .. MaxId]
    BY DEF Session
  <2>2. cookies' \in Sessions
    BY <1>4, <2>1 DEF EstablishSession, Cookie
  <2> QED
    BY <1>2, <1>4, <2>2 DEF EstablishSession
<1>5. ASSUME NEW c \in Client, SetupBegins(c) PROVE RequestsOK'
  BY <1>5 DEF SetupBegins, Begin, Goto, Ids
<1>6. ASSUME NEW c \in Client, SetupCount(c) PROVE RequestsOK'
  <2>1. Control'
    <3>1. CASE Finish(c)
      BY <1>2, <3>1
    <3>2. CASE Goto(c, "create") /\ UNCHANGED <<name, row, history>>
      BY <1>18, <3>2 DEF history
    <3>3. CASE Goto(c, "create") /\ blind' = blind \cup {c} /\ UNCHANGED <<name, row, met, late>>
      BY <1>18, <3>3
    <3> QED
      BY <1>6, <3>1, <3>2, <3>3 DEF SetupCount
  <2> QED
    BY <1>6, <2>1 DEF SetupCount
<1>7. ASSUME NEW c \in Client, NEW n \in Name, CreateUser(c, n)
      PROVE  users' \in SUBSET User /\ lastId' \in 0 .. MaxId /\ FreshId \in 0 .. MaxId
  BY <1>7 DEF CreateUser, FreshId
<1>8. ASSUME NEW c \in Client, SetupCreate(c) PROVE RequestsOK'
  <2>1. CASE Finish(c) /\ UNCHANGED <<users, lastId>>
    BY <1>2, <1>8, <2>1 DEF SetupCreate
  <2>2. CASE \E n \in Name : CreateUser(c, n) /\ name' = [name EXCEPT ![c] = {n}]
    <3> PICK n \in Name : CreateUser(c, n) /\ name' = [name EXCEPT ![c] = {n}]
      BY <2>2
    <3>1. CASE row' = [row EXCEPT ![c] = FreshId] /\ Goto(c, "find") /\ UNCHANGED history
      BY <1>7, <1>8, <3>1 DEF SetupCreate, Goto, history
    <3>2. CASE Finish(c) /\ UNCHANGED <<users, lastId>>
      BY <2>1, <3>2
    <3> QED
      BY <1>8, <3>1, <3>2 DEF SetupCreate
  <2> QED
    BY <1>8, <2>1, <2>2 DEF SetupCreate
<1>9. ASSUME NEW c \in Client, SetupSession(c) PROVE RequestsOK'
  <2> PICK id \in {u.id : u \in Named(c)} \cup {0} :
         cookies' = (cookies \ Cookie(c)) \cup {Session(c, id, row[c])}
    BY <1>9 DEF SetupSession
  <2>1. Session(c, id, row[c]) \in [id : 0 .. MaxId, holder : Client, old : BOOLEAN, own : 0 .. MaxId]
    BY DEF Session, Named
  <2>2. cookies' \in Sessions
    BY <2>1 DEF Cookie
  <2> QED
    BY <1>2, <1>9, <2>2 DEF SetupSession
<1>10. ASSUME NEW c \in Client, RequestBegins(c) PROVE RequestsOK'
  BY <1>10 DEF RequestBegins, Begin, Goto
<1>11. ASSUME NEW c \in Client, RequireAuth(c) PROVE RequestsOK'
  <2>1. Control'
    BY <1>2, <1>11, <1>18 DEF RequireAuth, history
  <2> QED
    BY <1>11, <2>1 DEF RequireAuth
<1>12. ASSUME NEW c \in Client, UserCreate(c) PROVE RequestsOK'
  <2> PICK n \in Name : CreateUser(c, n)
    BY <1>12 DEF UserCreate
  <2> QED
    BY <1>2, <1>7, <1>12 DEF UserCreate
<1>13. ASSUME NEW c \in Client, UserDelete(c) \/ Logout(c) \/ ServePage(c) PROVE RequestsOK'
  <2>1. Control' /\ UNCHANGED lastId
    BY <1>2, <1>13 DEF UserDelete, Logout, ServePage
  <2>2. users' \in SUBSET User /\ cookies' \in Sessions
    BY <1>13 DEF UserDelete, Logout, ServePage, Cookie
  <2> QED
    BY <2>1, <2>2
<1>14. ASSUME NEW c \in Client, Expire(c) PROVE RequestsOK'
  BY <1>14 DEF Expire, Cookie, history
<1>15. CASE Tick \/ Restart
  BY <1>15 DEF Tick, Restart, history
<1>17. CASE UNCHANGED vars
  BY <1>17 DEF vars, history
<1> HIDE DEF TypeOK, RequestsOK, User
<1> QED
  BY <1>1, <1>3, <1>4, <1>5, <1>6, <1>8, <1>9, <1>10, <1>11, <1>12, <1>13, <1>14, <1>15,
     <1>17 DEF Next, Step

\* Ids and names stay apart, and new ids are above all that are around.
LEMMA RowsStep == AuthInv /\ TypeOK' /\ [Next]_vars => Rows'
<1> SUFFICES ASSUME AuthInv, TypeOK', [Next]_vars PROVE Rows'
    OBVIOUS
<1> USE AdminAssumption DEF AuthInv, TypeOK, RequestsOK, User, Rows, Cookie, Ids
<1>1. ASSUME NEW c \in Client, EstablishSession(c) PROVE Rows'
  BY <1>1 DEF EstablishSession, Finish, Goto, Session
<1>2. ASSUME NEW c \in Client, SetupBegins(c) PROVE Rows'
  BY <1>2 DEF SetupBegins, Begin, Goto
<1>3. ASSUME NEW c \in Client, SetupCount(c) PROVE Rows'
  <2>1. UNCHANGED <<users, lastId, cookies>>
    BY <1>3 DEF SetupCount
  <2>2. row' \in {row, [row EXCEPT ![c] = 0]} /\ met' \in {met, [met EXCEPT ![c] = {}]}
    BY <1>3 DEF SetupCount, Finish, history
  <2>3. \A d \in Client : row'[d] <= lastId'
    <3>1. \A d \in Client : row'[d] = row[d] \/ row'[d] = 0
      BY <2>2
    <3> QED
      BY <2>1, <3>1
  <2>4. \A d \in Client : \A i \in met'[d] : i <= lastId'
    BY <2>1, <2>2
  <2> QED
    BY <2>1, <2>3, <2>4
<1>4. ASSUME NEW c \in Client, SetupCreate(c) PROVE Rows'
  <2>1. CASE Finish(c) /\ UNCHANGED <<users, lastId>>
    BY <1>4, <2>1 DEF SetupCreate, Finish
  <2>2. ASSUME NEW n \in Name, CreateUser(c, n), row' = [row EXCEPT ![c] = FreshId],
               UNCHANGED history
        PROVE  Rows'
    <3>1. \A u, v \in users' : u.id = v.id \/ u.name = v.name => u = v
      BY <2>2 DEF CreateUser, FreshId
    <3>2. \A u \in users' : u.id <= lastId'
      BY <2>2 DEF CreateUser, FreshId
    <3>3. \A s \in cookies' : s.id <= lastId' /\ s.own <= lastId'
      BY <1>4, <2>2 DEF SetupCreate, CreateUser, FreshId
    <3>4. \A d \in Client : row'[d] <= lastId' /\ \A i \in met'[d] : i <= lastId'
      BY <2>2 DEF CreateUser, FreshId, history
    <3> QED
      BY <3>1, <3>2, <3>3, <3>4
  <2> QED
    BY <1>4, <2>1, <2>2 DEF SetupCreate
<1>5. ASSUME NEW c \in Client, SetupSession(c) PROVE Rows'
  BY <1>5 DEF SetupSession, Finish, Goto, Session, Named
<1>6. ASSUME NEW c \in Client, UserCreate(c) PROVE Rows'
  BY <1>6 DEF UserCreate, CreateUser, FreshId, Finish, Goto
<1>7. ASSUME NEW c \in Client, UserDelete(c) PROVE Rows'
  BY <1>7 DEF UserDelete, Finish, Goto
<1>8. ASSUME NEW c \in Client,
              \/ LoginLookup(c) \/ RequestBegins(c) \/ RequireAuth(c) \/ Logout(c)
              \/ ServePage(c) \/ Expire(c)
       PROVE  Rows'
  <2>1. CASE LoginLookup(c)
    BY <2>1 DEF LoginLookup, Finish, history, Named
  <2>2. CASE RequestBegins(c) \/ Expire(c)
    BY <2>2 DEF RequestBegins, Begin, Expire, history
  <2>3. CASE RequireAuth(c)
    BY <2>3 DEF RequireAuth, Finish, history
  <2>4. CASE Logout(c) \/ ServePage(c)
    BY <2>4 DEF Logout, ServePage, Finish
  <2> QED
    BY <1>8, <2>1, <2>2, <2>3, <2>4
<1>9. ASSUME NEW c \in Client, NEW n \in Name, Allow(c, n) PROVE Rows'
  BY <1>9 DEF Allow, Goto, history
<1>10. CASE Tick \/ Restart \/ UNCHANGED vars
  BY <1>10 DEF Tick, Restart, vars, history
<1> HIDE DEF AuthInv, TypeOK, RequestsOK, User, Rows, Cookie, Ids
<1> QED
  BY <1>1, <1>2, <1>3, <1>4, <1>5, <1>6, <1>7, <1>8, <1>9, <1>10 DEF Next, Step

\* A request keeps its user until it signs.
LEMMA AboutToSignStep == AuthInv /\ TypeOK' /\ [Next]_vars => AboutToSign'
<1> SUFFICES ASSUME AuthInv, TypeOK', [Next]_vars PROVE AboutToSign'
    OBVIOUS
<1> USE AdminAssumption DEF AuthInv, TypeOK, RequestsOK, User, AboutToSign, Rows
<1>1. ASSUME NEW c \in Client, LoginLookup(c) PROVE AboutToSign'
  BY <1>1 DEF LoginLookup, Finish, Goto, history, Named
<1>2. ASSUME NEW c \in Client, SetupCreate(c) PROVE AboutToSign'
  BY <1>2 DEF SetupCreate, CreateUser, FreshId, Finish, Goto, history
<1>3. ASSUME NEW c \in Client, SetupSession(c) PROVE AboutToSign'
  BY <1>3 DEF SetupSession, Finish, Goto, Session, Named
<1>4. ASSUME NEW c \in Client, UserCreate(c) PROVE AboutToSign'
  BY <1>4 DEF UserCreate, CreateUser, FreshId, Finish, Goto
<1>5. ASSUME NEW c \in Client, UserDelete(c) PROVE AboutToSign'
  BY <1>5 DEF UserDelete, Finish, Goto
<1>6. ASSUME NEW c \in Client, EstablishSession(c) \/ SetupBegins(c) \/ SetupCount(c) \/ RequestBegins(c)
       PROVE  AboutToSign'
  BY <1>6 DEF EstablishSession, Finish, Goto, Session, SetupBegins, Begin, SetupCount,
              history, NoUsers, RequestBegins
<1>7. ASSUME NEW c \in Client, RequireAuth(c) \/ Logout(c) \/ ServePage(c) \/ Expire(c)
       PROVE  AboutToSign'
  BY <1>7 DEF RequireAuth, Finish, Goto, history, Valid, Logout, ServePage, Expire
<1>8. ASSUME NEW c \in Client, NEW n \in Name, Allow(c, n) PROVE AboutToSign'
  BY <1>8 DEF Allow, Goto, history
<1>9. CASE Tick \/ Restart \/ UNCHANGED vars
  BY <1>9 DEF Tick, Restart, vars, history
<1> HIDE DEF AuthInv, TypeOK, RequestsOK, User, AboutToSign, Rows
<1> QED
  BY <1>1, <1>2, <1>3, <1>4, <1>5, <1>6, <1>7, <1>8, <1>9 DEF Next, Step

\* A setup keeps its one name.
LEMMA OneNameStep == AuthInv /\ TypeOK' /\ [Next]_vars => OneName'
<1> SUFFICES ASSUME AuthInv, TypeOK', [Next]_vars PROVE OneName'
    OBVIOUS
<1> USE AdminAssumption DEF AuthInv, TypeOK, RequestsOK, User, OneName
<1>1. ASSUME NEW c \in Client, SetupCreate(c) PROVE OneName'
  BY <1>1 DEF SetupCreate, CreateUser, FreshId, Finish, Goto, history
<1>2. ASSUME NEW c \in Client,
              \/ LoginLookup(c) \/ EstablishSession(c) \/ SetupBegins(c) \/ SetupCount(c)
              \/ SetupSession(c) \/ RequestBegins(c)
       PROVE  OneName'
  <2>1. CASE Finish(c)
    BY <2>1 DEF Finish, Goto
  <2>2. CASE Goto(c, "create") /\ UNCHANGED name
    BY <2>2 DEF Goto
  <2>3. CASE Goto(c, "session") /\ name' = [name EXCEPT ![c] = {}]
    BY <2>3 DEF Goto
  <2>4. CASE SetupBegins(c) \/ RequestBegins(c)
    BY <2>4 DEF SetupBegins, RequestBegins, Begin, Goto
  <2> QED
    BY <1>2, <2>1, <2>2, <2>3, <2>4
       DEF LoginLookup, EstablishSession, SetupCount, SetupSession
<1>3. ASSUME NEW c \in Client,
              \/ RequireAuth(c) \/ UserCreate(c) \/ UserDelete(c) \/ Logout(c)
              \/ ServePage(c) \/ Expire(c)
       PROVE  OneName'
  BY <1>3 DEF RequireAuth, Finish, Goto, history, Valid, UserCreate, CreateUser, FreshId,
              UserDelete, Logout, ServePage, Expire
<1>4. ASSUME NEW c \in Client, NEW n \in Name, Allow(c, n) PROVE OneName'
  BY <1>4 DEF Allow, Goto, history
<1>5. CASE Tick \/ Restart \/ UNCHANGED vars
  BY <1>5 DEF Tick, Restart, vars, history
<1> HIDE DEF AuthInv, TypeOK, RequestsOK, User, OneName
<1> QED
  BY <1>1, <1>2, <1>3, <1>4, <1>5 DEF Next, Step

\* Sessions stay with whoever chose the password: a new user has a new id, and the
\* name by which a setup finds its user is its user's as long as that exists.
LEMMA EarnedStep == AuthInv /\ TypeOK' /\ [Next]_vars => SessionsAreEarned'
<1> SUFFICES ASSUME AuthInv, TypeOK', [Next]_vars PROVE SessionsAreEarned'
    OBVIOUS
<1> USE AdminAssumption DEF AuthInv, TypeOK, RequestsOK, User, SessionsAreEarned, Rows, Ids,
                            Cookie, AboutToSign, OneName
<1>1. ASSUME NEW c \in Client, EstablishSession(c) PROVE SessionsAreEarned'
  BY <1>1 DEF EstablishSession, Finish, Goto, Session
<1>2. ASSUME NEW c \in Client, SetupCreate(c) PROVE SessionsAreEarned'
  BY <1>2 DEF SetupCreate, CreateUser, FreshId, Finish, Goto, history
<1>3. ASSUME NEW c \in Client, SetupSession(c) PROVE SessionsAreEarned'
  BY <1>3 DEF SetupSession, Finish, Goto, Session, Named
<1>4. ASSUME NEW c \in Client, UserCreate(c) PROVE SessionsAreEarned'
  BY <1>4 DEF UserCreate, CreateUser, FreshId, Finish, Goto
<1>5. ASSUME NEW c \in Client, UserDelete(c) PROVE SessionsAreEarned'
  BY <1>5 DEF UserDelete, Finish, Goto
<1>6. ASSUME NEW c \in Client, LoginLookup(c) \/ SetupBegins(c) \/ SetupCount(c) \/ RequestBegins(c)
       PROVE  SessionsAreEarned'
  BY <1>6 DEF LoginLookup, Finish, Goto, history, Named, SetupBegins, Begin, SetupCount,
              NoUsers, RequestBegins
<1>7. ASSUME NEW c \in Client, RequireAuth(c) \/ Logout(c) \/ ServePage(c) \/ Expire(c)
       PROVE  SessionsAreEarned'
  <2>1. CASE UNCHANGED <<users, cookies>>
    BY <2>1
  <2>2. CASE Logout(c)
    BY <2>2 DEF Logout
  <2>3. CASE Expire(c)
    <3>1. users' = users
      BY <2>3 DEF Expire
    <3>2. \A t \in cookies' : \E s \in cookies :
              t.id = s.id /\ t.holder = s.holder /\ t.own = s.own
      BY <2>3 DEF Expire
    <3> HIDE DEF TypeOK, RequestsOK, Rows, AboutToSign, OneName
    <3> QED
      BY <3>1, <3>2
  <2> QED
    BY <1>7, <2>1, <2>2, <2>3 DEF RequireAuth, ServePage
<1>8. ASSUME NEW c \in Client, NEW n \in Name, Allow(c, n) PROVE SessionsAreEarned'
  BY <1>8 DEF Allow, Goto, history
<1>9. CASE Tick \/ Restart \/ UNCHANGED vars
  BY <1>9 DEF Tick, Restart, vars, history
<1> HIDE DEF AuthInv, TypeOK, RequestsOK, User, SessionsAreEarned, Rows, Ids, Cookie,
             AboutToSign, OneName
<1> QED
  BY <1>1, <1>2, <1>3, <1>4, <1>5, <1>6, <1>7, <1>8, <1>9 DEF Next, Step

\* A new session takes the place of the one before.
LEMMA OneCookieStep == AuthInv /\ TypeOK' /\ [Next]_vars => OneCookie'
<1> SUFFICES ASSUME AuthInv, TypeOK', [Next]_vars PROVE OneCookie'
    OBVIOUS
<1> USE DEF AuthInv, TypeOK, RequestsOK, OneCookie, Cookie
<1>1. ASSUME NEW c \in Client, EstablishSession(c) PROVE OneCookie'
  BY <1>1 DEF EstablishSession, Session
<1>2. ASSUME NEW c \in Client, SetupSession(c) PROVE OneCookie'
  BY <1>2 DEF SetupSession, Session
<1>3. ASSUME NEW c \in Client, Expire(c) PROVE OneCookie'
  BY <1>3 DEF Expire
<1>4. ASSUME NEW c \in Client, Logout(c) PROVE OneCookie'
  BY <1>4 DEF Logout
<1>5. CASE UNCHANGED cookies
  BY <1>5
<1> HIDE DEF AuthInv, TypeOK, RequestsOK, OneCookie, Cookie
<1>6. ASSUME NEW c \in Client,
             \/ (\E n \in Name : Allow(c, n)) \/ LoginLookup(c) \/ SetupBegins(c)
             \/ SetupCount(c) \/ SetupCreate(c) \/ RequestBegins(c) \/ RequireAuth(c)
             \/ UserCreate(c) \/ UserDelete(c) \/ ServePage(c)
      PROVE  UNCHANGED cookies
  BY <1>6 DEF Allow, LoginLookup, SetupBegins, Begin, SetupCount, SetupCreate, RequestBegins,
              RequireAuth, UserCreate, UserDelete, ServePage
<1>7. Tick \/ Restart \/ UNCHANGED vars => UNCHANGED cookies
  BY DEF Tick, Restart, vars
<1> QED
  BY <1>1, <1>2, <1>3, <1>4, <1>5, <1>6, <1>7 DEF Next, Step

\* An ended session stays ended: no new user gets its id, and only its own browser
\* gets another.
LEMMA EndedStep == AuthInv /\ TypeOK' /\ [Next]_vars => Ended'
<1> SUFFICES ASSUME AuthInv, TypeOK', [Next]_vars PROVE Ended'
    OBVIOUS
<1> USE AdminAssumption DEF AuthInv, TypeOK, RequestsOK, User, Ended, Rows, Ids, Cookie
<1>1. ASSUME NEW c \in Client, EstablishSession(c) PROVE Ended'
  BY <1>1 DEF EstablishSession, Finish, Goto, Session
<1>2. ASSUME NEW c \in Client, SetupCreate(c) PROVE Ended'
  BY <1>2 DEF SetupCreate, CreateUser, FreshId, Finish, Goto, history
<1>3. ASSUME NEW c \in Client, SetupSession(c) PROVE Ended'
  BY <1>3 DEF SetupSession, Finish, Goto, Session, Named
<1>4. ASSUME NEW c \in Client, RequestBegins(c) PROVE Ended'
  <2>1. ASSUME NEW d \in late', d # c
        PROVE  pc'[d] = "verify" /\ \A s \in Cookie(d)' : s.old \/ s.id \notin Ids'
    BY <1>4, <2>1 DEF RequestBegins, Begin, Goto
  <2>2. ASSUME c \in late'
        PROVE  pc'[c] = "verify" /\ \A s \in Cookie(c)' : s.old \/ s.id \notin Ids'
    <3>1. pc[c] = "idle" /\ pc'[c] = "verify"
      BY <1>4 DEF RequestBegins, Begin, Goto
    <3>2. PICK s \in Cookie(c) : s.old \/ s.id \notin Ids
      BY <1>4, <2>2, <3>1 DEF RequestBegins
    <3>3. \A r \in Cookie(c) : r = s
      BY <3>2 DEF OneCookie
    <3> QED
      BY <1>4, <3>1, <3>2, <3>3 DEF RequestBegins, Begin
  <2> QED
    BY <2>1, <2>2
<1>5. ASSUME NEW c \in Client, RequireAuth(c) PROVE Ended'
  BY <1>5 DEF RequireAuth, Finish, Goto, history, Valid
<1>6. ASSUME NEW c \in Client, UserCreate(c) PROVE Ended'
  BY <1>6 DEF UserCreate, CreateUser, FreshId, Finish, Goto
<1>7. ASSUME NEW c \in Client, UserDelete(c) PROVE Ended'
  BY <1>7 DEF UserDelete, Finish, Goto
<1>8. ASSUME NEW c \in Client,
              \/ LoginLookup(c) \/ SetupBegins(c) \/ SetupCount(c) \/ Logout(c)
              \/ ServePage(c) \/ Expire(c)
       PROVE  Ended'
  BY <1>8 DEF LoginLookup, Finish, Goto, history, Named, SetupBegins, Begin, SetupCount,
              NoUsers, Logout, ServePage, Expire
<1>9. ASSUME NEW c \in Client, NEW n \in Name, Allow(c, n) PROVE Ended'
  BY <1>9 DEF Allow, Goto, history
<1>10. CASE Tick \/ Restart \/ UNCHANGED vars
  BY <1>10 DEF Tick, Restart, vars, history
<1> HIDE DEF AuthInv, TypeOK, RequestsOK, User, Ended, Rows, Ids, Cookie
<1> QED
  BY <1>1, <1>2, <1>3, <1>4, <1>5, <1>6, <1>7, <1>8, <1>9, <1>10 DEF Next, Step

\* A setup that may create stays one that met nobody who is left.
LEMMA OpenedStep == AuthInv /\ TypeOK' /\ [Next]_vars => Opened'
<1> SUFFICES ASSUME AuthInv, TypeOK', [Next]_vars PROVE Opened'
    OBVIOUS
<1> USE AdminAssumption DEF AuthInv, TypeOK, RequestsOK, User, Opened, Rows, Ids
<1>1. ASSUME NEW c \in Client, SetupCount(c) PROVE Opened'
  BY <1>1 DEF SetupCount, Finish, Goto, history, NoUsers
<1>2. ASSUME NEW c \in Client, SetupCreate(c) PROVE Opened'
  BY <1>2 DEF SetupCreate, CreateUser, FreshId, Finish, Goto, history
<1>3. ASSUME NEW c \in Client, UserCreate(c) PROVE Opened'
  BY <1>3 DEF UserCreate, CreateUser, FreshId, Finish, Goto
<1>4. ASSUME NEW c \in Client, UserDelete(c) PROVE Opened'
  BY <1>4 DEF UserDelete, Finish, Goto
<1>5. ASSUME NEW c \in Client, LoginLookup(c) \/ EstablishSession(c) \/ SetupBegins(c) \/ SetupSession(c)
       PROVE  Opened'
  BY <1>5 DEF LoginLookup, Finish, Goto, history, Named, EstablishSession, Session,
              SetupBegins, Begin, SetupSession
<1>6. ASSUME NEW c \in Client,
              \/ RequestBegins(c) \/ RequireAuth(c) \/ Logout(c) \/ ServePage(c)
              \/ Expire(c)
       PROVE  Opened'
  BY <1>6 DEF RequestBegins, Begin, Goto, RequireAuth, Finish, history, Valid, Logout,
              ServePage, Expire
<1>7. ASSUME NEW c \in Client, NEW n \in Name, Allow(c, n) PROVE Opened'
  BY <1>7 DEF Allow, Goto, history
<1>8. CASE Tick \/ Restart \/ UNCHANGED vars
  BY <1>8 DEF Tick, Restart, vars, history
<1> HIDE DEF AuthInv, TypeOK, RequestsOK, User, Opened, Rows, Ids
<1> QED
  BY <1>1, <1>2, <1>3, <1>4, <1>5, <1>6, <1>7, <1>8 DEF Next, Step

-----------------------------------------------------------------------------
\* Every step keeps the invariant.
LEMMA AuthStep == AuthInv /\ [Next]_vars => AuthInv'
<1> SUFFICES ASSUME AuthInv, [Next]_vars PROVE AuthInv'
    OBVIOUS
<1>1. TypeOK'
  BY TypeStep DEF AuthInv
<1>2. Rows' /\ AboutToSign' /\ OneName'
  BY <1>1, RowsStep, AboutToSignStep, OneNameStep
<1>3. SessionsAreEarned' /\ OneCookie' /\ Ended' /\ Opened'
  BY <1>1, EarnedStep, OneCookieStep, EndedStep, OpenedStep
<1> QED
  BY <1>1, <1>2, <1>3 DEF AuthInv

\* It holds in every state that the pages of internal/web/handlers_auth.go reach.
THEOREM AuthInvariant == Spec => []AuthInv
<1> QED
  BY AuthInit, AuthStep, PTL DEF Spec

\* The table, the throttle and the requests have their types: a window's count
\* never passes MaxAttempts.
THEOREM AuthTypeCorrect == Spec => []TypeOK
<1>1. AuthInv => TypeOK
  BY DEF AuthInv
<1> QED
  BY <1>1, AuthInvariant, PTL

\* Whoever holds a session for a user chose that user's password, whatever is
\* deleted and created between login's lookup and its establishSession; only a
\* setup whose own user is gone is left out.
THEOREM SessionsBelongToOwners == Spec => []SessionsAreEarned
<1>1. AuthInv => SessionsAreEarned
  BY DEF AuthInv
<1> QED
  BY <1>1, AuthInvariant, PTL

\* requireAuth serves no request that began after its session had expired or its
\* user was deleted.
THEOREM SessionsEndForGood == Spec => []SessionsEnd
<1>1. AuthInv => SessionsEnd
  BY DEF AuthInv, Ended, SessionsEnd
<1> QED
  BY <1>1, AuthInvariant, PTL

\* A setup that met users creates none while one of them is left, unless its
\* UserCount failed.
THEOREM SetupStaysClosed == Spec => SetupCloses
<1>1. AuthInv => [\A c \in Client : pc[c] = "create" /\ pc'[c] = "find"
                                      => c \in blind \/ met[c] \cap Ids = {}]_vars
  BY DEF AuthInv, Opened
<1> QED
  BY <1>1, AuthInvariant, PTL DEF SetupCloses

-----------------------------------------------------------------------------
(***************************************************************************)
(* The throttle.  A window begins with the attempt that opened it, and     *)
(* that one is too old to count when the window is over.  So at most       *)
(* MaxAttempts - 1 attempts of the window before are young enough to be    *)
(* added to those of the window that is open; a restart adds one window,   *)
(* the one it forgot, to what may have gone before.                        *)
(***************************************************************************)
\* What closed and forgotten windows may have let through: one window, and one
\* for each restart that is at most a ticks old.
Allowance(a) == (1 + restarts[a]) * MaxAttempts

\* Attempts of the window that is open.
Counting(n) == IF Over(n) THEN 0 ELSE entries[n].count

\* At every age, fewer attempts are remembered than were let through before the
\* open window and in it.
Rested == \A n \in Name, a \in Age : tries[n][a] < Allowance(a) + Counting(n)

\* In a window, all but its first attempt are younger than it.
Counted ==
    \A n \in Name :
        ~Over(n) => /\ entries[n].count > 0
                    /\ \A a \in Age : a < Window - entries[n].left
                                          => tries[n][a] < entries[n].count

ThrottleInv == TypeOK /\ Rested /\ Counted

\* A product with one more restart, and with none.
LEMMA OneMoreWindow ==
    ASSUME NEW r \in Nat, NEW m \in Nat
    PROVE  /\ (1 + r) * m \in Nat /\ (1 + r) * m >= m /\ (1 + 0) * m = m
           /\ (1 + (r + 1)) * m = (1 + r) * m + m /\ (2 + r) * m = (1 + r) * m + m
<1> DEFINE p == r * m
<1>1. p \in Nat
  OBVIOUS
<1>2. /\ (1 + r) * m = p + m
      /\ (1 + (r + 1)) * m = p + (m + m) /\ (2 + r) * m = p + (m + m)
      /\ (1 + 0) * m = m
  OBVIOUS
<1> HIDE DEF p
<1> QED
  BY <1>1, <1>2

\* The numbers that the invariant is about.
LEMMA ThrottleNumbers ==
    ASSUME TypeOK, NEW n \in Name, NEW a \in Age
    PROVE  /\ restarts[a] \in Nat /\ tries[n][a] \in Nat /\ Counting(n) \in 0 .. MaxAttempts
           /\ entries[n].count \in 0 .. MaxAttempts /\ entries[n].left \in -1 .. Window
           /\ Allowance(a) \in Nat /\ Allowance(a) >= MaxAttempts
<1>1. /\ restarts[a] \in Nat /\ tries[n][a] \in Nat
      /\ entries[n].count \in 0 .. MaxAttempts /\ entries[n].left \in -1 .. Window
  BY DEF TypeOK, ThrottleOK
<1>2. Counting(n) \in 0 .. MaxAttempts
  BY <1>1, AdminAssumption DEF Counting
<1>3. Allowance(a) \in Nat /\ Allowance(a) >= MaxAttempts
  BY <1>1, OneMoreWindow, AdminAssumption DEF Allowance
<1> QED
  BY <1>1, <1>2, <1>3

\* There is neither an attempt nor a window at first.
LEMMA ThrottleInit == Init => ThrottleInv
<1> SUFFICES ASSUME Init PROVE ThrottleInv
    OBVIOUS
<1>1. TypeOK
  BY AuthInit DEF AuthInv
<1>2. \A n \in Name, a \in Age : tries[n][a] = 0 /\ Over(n)
  BY DEF Init, NothingYet, NoWindow, Over
<1>3. Rested
  BY <1>1, <1>2, ThrottleNumbers, AdminAssumption DEF Rested
<1>4. \A n \in Name : Over(n)
  BY DEF Init, NoWindow, Over
<1>5. Counted
  BY <1>4 DEF Counted
<1> QED
  BY <1>1, <1>3, <1>5 DEF ThrottleInv

\* An attempt that LoginLimiter.Allow lets through is one more on both sides.
LEMMA ThrottleAllow ==
    ASSUME ThrottleInv, TypeOK', NEW c \in Client, NEW n \in Name, Allow(c, n)
    PROVE  Rested' /\ Counted'
<1>0. TypeOK /\ Rested /\ Counted
  BY DEF ThrottleInv
<1>1. ASSUME NEW m \in Name, m # n
      PROVE  entries'[m] = entries[m] /\ tries'[m] = tries[m]
  BY <1>0, <1>1 DEF Allow, TypeOK, ThrottleOK
<1>2. \A a \in Age : tries'[n][a] = tries[n][a] + 1 /\ Allowance(a)' = Allowance(a)
  BY <1>0 DEF Allow, TypeOK, ThrottleOK, Allowance
<1>3. /\ Over(n) => entries'[n].count = 1 /\ entries'[n].left = Window
      /\ ~Over(n) => entries'[n].count = entries[n].count + 1 /\ entries'[n].left = entries[n].left
  BY <1>0 DEF Allow, TypeOK, ThrottleOK
<1>4. ~Over(n)' /\ Counting(n)' = Counting(n) + 1
  <2>1. CASE Over(n)
    BY <1>3, <2>1, AdminAssumption DEF Over, Counting
  <2>2. CASE ~Over(n)
    BY <1>3, <2>2 DEF Over, Counting
  <2> QED
    BY <2>1, <2>2
<1>5. ASSUME NEW a \in Age PROVE tries'[n][a] < Allowance(a)' + Counting(n)'
  <2>1. tries[n][a] < Allowance(a) + Counting(n)
    BY <1>0 DEF Rested
  <2>2. tries[n][a] \in Nat /\ Allowance(a) \in Nat /\ Counting(n) \in Nat
    BY <1>0, ThrottleNumbers, AdminAssumption
  <2> QED
    BY <1>2, <1>4, <2>1, <2>2
<1>6. ASSUME NEW a \in Age, a < Window - entries'[n].left PROVE tries'[n][a] < entries'[n].count
  <2>1. a \in Nat /\ Window \in Nat
    BY AdminAssumption DEF Age
  <2>2. ~Over(n)
    BY <1>3, <1>6, <2>1
  <2>3. tries[n][a] < entries[n].count
    BY <1>0, <1>3, <1>6, <2>2 DEF Counted
  <2>4. tries[n][a] \in Nat /\ entries[n].count \in Nat
    BY <1>0, ThrottleNumbers, AdminAssumption
  <2> QED
    BY <1>2, <1>3, <2>2, <2>3, <2>4
<1>7. Rested'
  <2> SUFFICES ASSUME NEW m \in Name, NEW a \in Age
               PROVE  tries'[m][a] < Allowance(a)' + Counting(m)'
    BY DEF Rested
  <2>1. CASE m # n
    <3>1. Counting(m)' = Counting(m) /\ tries'[m][a] = tries[m][a]
      BY <1>1, <2>1 DEF Counting, Over
    <3> QED
      BY <1>0, <1>2, <3>1 DEF Rested
  <2> QED
    BY <1>5, <2>1
<1>8. Counted'
  <2>1. entries'[n].count > 0
    BY <1>0, <1>3, ThrottleNumbers, AdminAssumption DEF Counted, Age
  <2> QED
    BY <1>0, <1>1, <1>6, <2>1 DEF Counted, Over
<1> QED
  BY <1>7, <1>8

\* Time passes: a window that was in its last tick is over, and its first attempt
\* is forgotten.
LEMMA ThrottleTick == ASSUME ThrottleInv, Tick PROVE Rested' /\ Counted'
<1>0. TypeOK /\ Rested /\ Counted
  BY DEF ThrottleInv
<1>1. ASSUME NEW n \in Name, NEW a \in Age, a # 0
      PROVE  /\ a - 1 \in Age /\ tries'[n][a] = tries[n][a - 1]
             /\ Allowance(a)' = Allowance(a - 1)
  <2>1. a - 1 \in Age
    BY <1>1, AdminAssumption DEF Age
  <2>2. tries'[n][a] = tries[n][a - 1] /\ restarts'[a] = restarts[a - 1]
    BY <1>0, <1>1 DEF Tick, Older, TypeOK, ThrottleOK
  <2> QED
    BY <2>1, <2>2 DEF Allowance
<1>2. ASSUME NEW n \in Name, NEW a \in Age, a = 0
      PROVE  tries'[n][a] = 0 /\ Allowance(a)' = MaxAttempts
  <2>1. tries'[n][a] = 0 /\ restarts'[a] = 0
    BY <1>0, <1>2 DEF Tick, Older, TypeOK, ThrottleOK
  <2> QED
    BY <2>1, OneMoreWindow, AdminAssumption DEF Allowance
<1>3. ASSUME NEW n \in Name
      PROVE  IF entries[n].left > 0
             THEN entries'[n].count = entries[n].count /\ entries'[n].left = entries[n].left - 1
             ELSE entries'[n].count = 0 /\ entries'[n].left = -1
  BY <1>0 DEF Tick, NoWindow, TypeOK, ThrottleOK
<1>4. ASSUME NEW n \in Name, NEW a \in Age
      PROVE  tries'[n][a] < Allowance(a)' + Counting(n)'
  <2>1. /\ MaxAttempts \in Nat \ {0} /\ Window \in Nat
        /\ entries[n].left \in -1 .. Window /\ entries[n].count \in 0 .. MaxAttempts
    BY <1>0, ThrottleNumbers, AdminAssumption
  <2>2. CASE entries[n].left > 0
    <3>1. Counting(n)' = Counting(n) /\ Counting(n) \in Nat
      BY <1>3, <2>1, <2>2 DEF Counting, Over
    <3>2. CASE a = 0
      BY <1>2, <2>1, <3>1, <3>2
    <3>3. CASE a # 0
      BY <1>0, <1>1, <3>1, <3>3 DEF Rested
    <3> QED
      BY <3>2, <3>3
  <2>3. CASE ~(entries[n].left > 0)
    <3>1. Counting(n)' = 0
      BY <1>3, <2>3 DEF Counting, Over
    <3>2. CASE a = 0
      BY <1>2, <2>1, <3>1, <3>2
    <3>3. CASE a # 0
      <4>1. a - 1 \in Age /\ tries'[n][a] = tries[n][a - 1] /\ Allowance(a)' = Allowance(a - 1)
        BY <1>1, <3>3
      <4>2. /\ tries[n][a - 1] \in Nat /\ Allowance(a - 1) \in Nat
            /\ Allowance(a - 1) >= MaxAttempts
        BY <1>0, <4>1, ThrottleNumbers
      <4>3. CASE Over(n)
        <5>1. Counting(n) = 0
          BY <4>3 DEF Counting
        <5>2. tries[n][a - 1] < Allowance(a - 1) + 0
          BY <1>0, <4>1, <5>1 DEF Rested
        <5> QED
          BY <3>1, <4>1, <4>2, <5>2
      <4>4. CASE ~Over(n)
        <5>1. a - 1 < Window - entries[n].left
          BY <2>1, <2>3, <4>4 DEF Over, Age
        <5>2. tries[n][a - 1] < entries[n].count
          BY <1>0, <4>1, <4>4, <5>1 DEF Counted
        <5> QED
          BY <2>1, <3>1, <4>1, <4>2, <5>2
      <4> QED
        BY <4>3, <4>4
    <3> QED
      BY <3>2, <3>3
  <2> QED
    BY <2>2, <2>3
<1>5. ASSUME NEW n \in Name, NEW a \in Age, ~Over(n)', a < Window - entries'[n].left
      PROVE  tries'[n][a] < entries'[n].count
  <2>1. /\ Window \in Nat /\ a \in 0 .. Window
        /\ entries[n].left \in -1 .. Window /\ entries[n].count \in 0 .. MaxAttempts
    BY <1>0, ThrottleNumbers, AdminAssumption DEF Age
  <2>2. /\ entries[n].left > 0 /\ entries'[n].count = entries[n].count
        /\ entries'[n].left = entries[n].left - 1
    BY <1>3, <1>5, <2>1 DEF Over
  <2>3. ~Over(n)
    BY <2>1, <2>2 DEF Over
  <2>4. CASE a = 0
    BY <1>0, <1>2, <2>2, <2>3, <2>4 DEF Counted
  <2>5. CASE a # 0
    <3>1. a - 1 \in Age /\ tries'[n][a] = tries[n][a - 1] /\ a - 1 < Window - entries[n].left
      BY <1>1, <1>5, <2>1, <2>2, <2>5
    <3> QED
      BY <1>0, <2>2, <2>3, <3>1 DEF Counted
  <2> QED
    BY <2>4, <2>5
<1>6. Rested'
  BY <1>4 DEF Rested
<1>7. ASSUME NEW n \in Name, ~Over(n)' PROVE entries'[n].count > 0
  <2>1. 0 \in Age /\ entries[n].left \in Int
    BY <1>0, AdminAssumption, ThrottleNumbers DEF Age
  <2>2. entries[n].left > 0 /\ entries'[n].count = entries[n].count
    BY <1>3, <1>7 DEF Over
  <2> QED
    BY <1>0, <2>1, <2>2 DEF Counted, Over
<1>8. Counted'
  BY <1>5, <1>7 DEF Counted
<1> QED
  BY <1>6, <1>8

\* A restart forgets the open window, which let MaxAttempts through at most.
LEMMA ThrottleRestart == ASSUME ThrottleInv, Restart PROVE Rested' /\ Counted'
<1>0. TypeOK /\ Rested
  BY DEF ThrottleInv
<1>1. \A n \in Name : Over(n)' /\ tries'[n] = tries[n]
  BY DEF Restart, NoWindow, Over
<1>2. ASSUME NEW n \in Name, NEW a \in Age PROVE tries'[n][a] < Allowance(a)' + Counting(n)'
  <2>1. Allowance(a)' = Allowance(a) + MaxAttempts
    <3>1. restarts'[a] = restarts[a] + 1 /\ restarts[a] \in Nat
      BY <1>0 DEF Restart, TypeOK, ThrottleOK
    <3> QED
      BY <3>1, OneMoreWindow, AdminAssumption DEF Allowance
  <2>2. Counting(n)' = 0
    BY <1>1 DEF Counting
  <2>3. tries[n][a] < Allowance(a) + Counting(n)
    BY <1>0 DEF Rested
  <2>4. /\ MaxAttempts \in Nat /\ tries[n][a] \in Nat /\ Allowance(a) \in Nat
        /\ Counting(n) \in 0 .. MaxAttempts
    BY <1>0, ThrottleNumbers, AdminAssumption
  <2> QED
    BY <1>1, <2>1, <2>2, <2>3, <2>4
<1>3. Rested'
  BY <1>2 DEF Rested
<1>4. Counted'
  BY <1>1 DEF Counted
<1> QED
  BY <1>3, <1>4

\* In any stretch as long as a window, fewer attempts for a name than two windows
\* and one more for each restart in it hold pass LoginLimiter.Allow, for any number
\* of racing clients, any window and any number of restarts.
THEOREM ThrottleBound == Spec => []ThrottleHolds
<1>1. ThrottleInv /\ [Next]_vars => ThrottleInv'
  <2> SUFFICES ASSUME ThrottleInv, [Next]_vars PROVE ThrottleInv'
      OBVIOUS
  <2>1. TypeOK'
    BY TypeStep DEF ThrottleInv
  <2>2. CASE UNCHANGED <<entries, tries, restarts>>
    BY <2>1, <2>2 DEF ThrottleInv, Rested, Counted, Over, Counting, Allowance
  <2> QED
    BY <2>1, <2>2, ThrottleKept, ThrottleAllow, ThrottleTick, ThrottleRestart DEF ThrottleInv
<1>2. ThrottleInv => ThrottleHolds
  <2> SUFFICES ASSUME ThrottleInv, NEW n \in Name
               PROVE  tries[n][Window] < (2 + restarts[Window]) * MaxAttempts
      BY DEF ThrottleHolds
  <2>1. Window \in Age
    BY AdminAssumption DEF Age
  <2>2. /\ tries[n][Window] \in Nat /\ Allowance(Window) \in Nat /\ restarts[Window] \in Nat
        /\ MaxAttempts \in Nat /\ Counting(n) \in 0 .. MaxAttempts
    BY <2>1, ThrottleNumbers, AdminAssumption DEF ThrottleInv
  <2>3. tries[n][Window] < Allowance(Window) + Counting(n)
    BY <2>1 DEF ThrottleInv, Rested
  <2>4. (2 + restarts[Window]) * MaxAttempts = Allowance(Window) + MaxAttempts
    BY <2>2, OneMoreWindow DEF Allowance
  <2> QED
    BY <2>2, <2>3, <2>4
<1> QED
  BY <1>1, <1>2, ThrottleInit, PTL DEF Spec
=============================================================================
