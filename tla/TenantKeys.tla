----------------------------- MODULE TenantKeys -----------------------------
(***************************************************************************)
(* internal/store/tenants.go and apikeys.go, with the administrator's      *)
(* handlers of internal/web/handlers.go: tenants, their API keys and the   *)
(* authentication of a key.  Creating a tenant and regenerating its key    *)
(* are several SQL statements without a transaction, so the handlers of    *)
(* concurrent requests interleave between them, and each statement may     *)
(* fail alone (a database error, a cancelled request, a restart).          *)
(*                                                                         *)
(* A key is its random secret; the tenant id in its text is the id it was  *)
(* generated for.  A credential is what a client presents: a tenant id     *)
(* with a secret, or a bare legacy key.                                    *)
(***************************************************************************)
EXTENDS Integers, FiniteSets

CONSTANTS TenantId,      \* values of the AUTOINCREMENT column tenants.id
          Secret,        \* the random parts of keys
          Legacy,        \* keys of the old format, migrated with their tenant
          LegacyTenant,  \* the tenant that existed before the migration
          Request,       \* administrator requests
          Client,        \* ingest requests that authenticate with a key
          NoTenant       \* the id in the text of a legacy key: none

ASSUME KeysAssumption ==
    /\ Legacy \subseteq Secret
    /\ LegacyTenant \in TenantId
    /\ NoTenant \notin TenantId

VARIABLES
    tenants,    \* rows of table tenants
    active,     \* tenants with active = 1
    created,    \* ids AUTOINCREMENT has given out
    rows,       \* secrets with a row in api_keys
    owner,      \* tenant id each secret was generated for
    revoked,    \* secrets whose revoked_at is set
    issued,     \* secrets generated so far
    used,       \* secrets whose last_used_at is set
    pc,         \* where each administrator request is
    rt,         \* its tenant id
    rk,         \* the key it shows to the administrator, as a set
    cpc,        \* where each ingest request is
    ccred,      \* the credential it presents
    cten,       \* the tenant it resolved to
    inc,        \* history: how many tenants have had this id
    rinc,       \* history: which of them the request works for
    kinc,       \* history: which of them the key was generated for
    old         \* history: the tenant's keys when a regeneration began

tenantvars == <<tenants, active, created, inc>>
keyvars == <<rows, owner, revoked, issued, kinc>>
reqvars == <<pc, rt, rk, rinc, old>>
clientvars == <<cpc, ccred, cten, used>>
vars == <<tenants, active, created, rows, owner, revoked, issued, used, pc, rt,
          rk, cpc, ccred, cten, inc, rinc, kinc, old>>

RequestPC == {"idle", "created", "regenerate", "revoked", "shown", "failed"}
ClientPC == {"idle", "matched", "resolved", "rejected"}

KeysOf(t) == {k \in rows : owner[k] = t}

Init ==
    /\ tenants = {LegacyTenant} /\ active = tenants /\ created = tenants
    /\ rows = Legacy /\ issued = Legacy /\ revoked = {} /\ used = {}
    /\ owner = [k \in Secret |-> LegacyTenant]
    /\ pc = [r \in Request |-> "idle"]
    /\ rt = [r \in Request |-> LegacyTenant]
    /\ rk = [r \in Request |-> {}]
    /\ cpc = [c \in Client |-> "idle"]
    /\ ccred = [c \in Client |-> <<NoTenant, NoTenant>>]
    /\ cten = [c \in Client |-> NoTenant]
    /\ inc = [t \in TenantId |-> IF t = LegacyTenant THEN 1 ELSE 0]
    /\ rinc = [r \in Request |-> 0]
    /\ kinc = [k \in Secret |-> 1]
    /\ old = [r \in Request |-> {}]

-----------------------------------------------------------------------------
(***************************************************************************)
(* Administrator requests.                                                 *)
(***************************************************************************)

\* Fault: ids of deleted tenants are given out again (no AUTOINCREMENT).
ReusedId(t) == t \notin tenants

\* AUTOINCREMENT: an id is never given out twice.
FreshId(t) == t \notin created

\* First statement of CreateTenant.
CreateTenant(r, t) ==
    /\ pc[r] = "idle" /\ FreshId(t)
    /\ tenants' = tenants \cup {t} /\ active' = active \cup {t}
    /\ created' = created \cup {t}
    /\ inc' = [inc EXCEPT ![t] = @ + 1]
    /\ pc' = [pc EXCEPT ![r] = "created"]
    /\ rt' = [rt EXCEPT ![r] = t]
    /\ rinc' = [rinc EXCEPT ![r] = inc[t] + 1]
    /\ UNCHANGED <<rk, old, keyvars, clientvars>>

\* tenantRegenerate finds the tenant before it calls RegenerateKey.
LookupTenantByID(r, t) ==
    /\ pc[r] = "idle" /\ t \in tenants
    /\ pc' = [pc EXCEPT ![r] = "regenerate"]
    /\ rt' = [rt EXCEPT ![r] = t]
    /\ rinc' = [rinc EXCEPT ![r] = inc[t]]
    /\ old' = [old EXCEPT ![r] = KeysOf(t)]
    /\ UNCHANGED <<rk, tenantvars, keyvars, clientvars>>

\* Fault: only keys that were never used are revoked.
RevokeUnused(t) == revoked' = revoked \cup (KeysOf(t) \ used)

\* Fault: the revocation of other keys is overwritten.
RevokeForgets(t) == revoked' = KeysOf(t)

\* RevokeAllKeysForTenant.
RevokeAll(t) == revoked' = revoked \cup KeysOf(t)

\* First statement of RegenerateKey.
RevokeAllKeysForTenant(r) ==
    /\ pc[r] = "regenerate"
    /\ RevokeAll(rt[r])
    /\ pc' = [pc EXCEPT ![r] = "revoked"]
    /\ UNCHANGED <<rt, rk, rinc, old, tenantvars, clientvars, rows, owner, issued, kinc>>

\* api_keys.tenant_id REFERENCES tenants(id).
ForeignKeyHolds(t) == t \in tenants

\* Last statement of CreateTenant and of RegenerateKey: a new secret, its row,
\* and the key in the flash message of the response.
InsertKey(r, k) ==
    /\ pc[r] \in {"created", "revoked"}
    /\ k \notin issued
    /\ ForeignKeyHolds(rt[r])
    /\ issued' = issued \cup {k} /\ rows' = rows \cup {k}
    /\ owner' = [owner EXCEPT ![k] = rt[r]]
    /\ kinc' = [kinc EXCEPT ![k] = rinc[r]]
    /\ pc' = [pc EXCEPT ![r] = "shown"]
    /\ rk' = [rk EXCEPT ![r] = {k}]
    /\ UNCHANGED <<rt, rinc, old, revoked, tenantvars, clientvars>>

\* A statement fails: the foreign key, an error, a cancelled request.  What the
\* statements before it did stays.
RequestFails(r) ==
    /\ pc[r] \in {"created", "regenerate", "revoked"}
    /\ pc' = [pc EXCEPT ![r] = "failed"]
    /\ UNCHANGED <<rt, rk, rinc, old, tenantvars, keyvars, clientvars>>

UpdateTenant(t, on) ==
    /\ t \in tenants
    /\ active' = IF on THEN active \cup {t} ELSE active \ {t}
    /\ UNCHANGED <<tenants, created, inc, keyvars, reqvars, clientvars>>

\* ON DELETE CASCADE removes the tenant's keys.
DeleteTenant(t) ==
    /\ t \in tenants
    /\ tenants' = tenants \ {t} /\ active' = active \ {t}
    /\ rows' = rows \ KeysOf(t)
    /\ UNCHANGED <<created, inc, owner, revoked, issued, kinc, reqvars, clientvars>>

-----------------------------------------------------------------------------
(***************************************************************************)
(* LookupTenantByKey.                                                      *)
(***************************************************************************)

Credential == (TenantId \cup {NoTenant}) \X Secret

\* HashKey covers the whole text of the key, the tenant id in it included.
HashKey(k) == IF k \in Legacy THEN <<NoTenant, k>> ELSE <<owner[k], k>>

\* Fault: revoked keys are still candidates.
CandidatesRevoked(cred) ==
    {k \in rows : /\ owner[k] \in active
                  /\ IF cred[1] = NoTenant THEN HashKey(k) = cred
                                           ELSE owner[k] = cred[1]}

\* The SELECT: by tenant id for a key ing_<id>_<secret>, by hash for a legacy
\* key; only keys that are not revoked, of active tenants.
Candidates(cred) ==
    {k \in rows : /\ k \notin revoked /\ owner[k] \in active
                  /\ IF cred[1] = NoTenant THEN HashKey(k) = cred
                                           ELSE owner[k] = cred[1]}

\* matchCandidates: the candidates whose hash is the hash presented.
Match(cred) == {k \in Candidates(cred) : HashKey(k) = cred}

LookupTenantByKey(c, cred) ==
    /\ cpc[c] = "idle"
    /\ ccred' = [ccred EXCEPT ![c] = cred]
    /\ \/ \E k \in Match(cred) : /\ cpc' = [cpc EXCEPT ![c] = "matched"]
                                 /\ cten' = [cten EXCEPT ![c] = owner[k]]
       \/ /\ Match(cred) = {}
          /\ cpc' = [cpc EXCEPT ![c] = "rejected"]
          /\ UNCHANGED cten
    /\ UNCHANGED <<used, tenantvars, keyvars, reqvars>>

\* The best-effort last_used_at update: it touches the row if it still exists,
\* and the request goes on as the tenant it read before.
TouchLastUsed(c) ==
    /\ cpc[c] = "matched"
    /\ cpc' = [cpc EXCEPT ![c] = "resolved"]
    /\ \/ used' = used \cup {k \in rows : HashKey(k) = ccred[c]}
       \/ UNCHANGED used
    /\ UNCHANGED <<ccred, cten, tenantvars, keyvars, reqvars>>

Next ==
    \/ \E r \in Request :
         \/ \E t \in TenantId : CreateTenant(r, t) \/ LookupTenantByID(r, t)
         \/ RevokeAllKeysForTenant(r)
         \/ \E k \in Secret : InsertKey(r, k)
         \/ RequestFails(r)
    \/ \E t \in TenantId : \/ \E on \in BOOLEAN : UpdateTenant(t, on)
                           \/ DeleteTenant(t)
    \/ \E c \in Client : \/ \E cred \in Credential : LookupTenantByKey(c, cred)
                         \/ TouchLastUsed(c)

Spec == Init /\ [][Next]_vars

-----------------------------------------------------------------------------
(***************************************************************************)
(* Properties.                                                             *)
(***************************************************************************)

\* Every variable has its type, and only existing tenants are active.
TypeOK ==
    /\ tenants \subseteq TenantId /\ created \subseteq TenantId
    /\ active \subseteq tenants
    /\ rows \subseteq Secret /\ revoked \subseteq Secret
    /\ issued \subseteq Secret /\ used \subseteq Secret
    /\ owner \in [Secret -> TenantId]
    /\ pc \in [Request -> RequestPC] /\ rt \in [Request -> TenantId]
    /\ rk \in [Request -> SUBSET Secret] /\ old \in [Request -> SUBSET Secret]
    /\ cpc \in [Client -> ClientPC]
    /\ ccred \in [Client -> (TenantId \cup {NoTenant}) \X (Secret \cup {NoTenant})]
    /\ cten \in [Client -> TenantId \cup {NoTenant}]
    /\ inc \in [TenantId -> Nat] /\ rinc \in [Request -> Nat]
    /\ kinc \in [Secret -> Nat]

\* A key's row belongs to the very tenant it was generated for: a request that
\* was between its statements when its tenant was deleted gives no key to a
\* tenant created later (AUTOINCREMENT, tenants.go:80-96, 137-148).
KeysStayWithTheirTenant ==
    \A k \in rows : owner[k] \in tenants /\ kinc[k] = inc[owner[k]]

Dead(k) == k \in revoked \/ k \notin rows

\* Once RegenerateKey has revoked, no key the tenant had when the request came
\* in works any more, whatever the other requests did meanwhile.
OldKeysAreDead ==
    \A r \in Request : pc[r] \in {"revoked", "shown"} => \A k \in old[r] : Dead(k)

\* A key that was issued and is revoked or deleted never works again.
DeadKeysStayDead ==
    [][\A k \in issued : Dead(k) => Dead(k)']_vars

\* A client is taken for a tenant only if it presents a secret that was issued
\* for that very tenant and is alive at the lookup: another tenant's id with the
\* secret, or a dead key, is refused (apikeys.go:43-136).
OnlyLiveKeysMatch ==
    [][\A c \in Client : cpc[c] = "idle" /\ cpc'[c] = "matched" =>
          LET k == ccred'[c][2]
          IN  /\ k \in issued /\ ~Dead(k)
              /\ cten'[c] = owner[k] /\ owner[k] \in active]_vars
=============================================================================
