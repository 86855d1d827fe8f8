-------------------------- MODULE TenantKeysProofs --------------------------
(***************************************************************************)
(* What TenantKeys guarantees for every number of tenants, keys, requests  *)
(* and clients.                                                            *)
(***************************************************************************)
EXTENDS TenantKeys, TLAPS

\* What the proofs need beyond the types.  Ids that were given out cover the
\* tenants and the requests' tenants; an id is given out once; rows were issued;
\* what a regeneration has to revoke was issued before.
KeysInv ==
    /\ TypeOK
    /\ tenants \subseteq created
    /\ rows \subseteq issued
    /\ \A t \in created : inc[t] = 1
    /\ \A t \in TenantId \ created : inc[t] = 0
    /\ \A k \in rows : owner[k] \in tenants
    /\ \A k \in issued : kinc[k] = 1 /\ owner[k] \in created
    /\ \A r \in Request : pc[r] # "idle" => rinc[r] = 1 /\ rt[r] \in created
    /\ \A r \in Request : old[r] \subseteq issued
    /\ \A r \in Request : \A k \in old[r] : owner[k] = rt[r]
    /\ \A r \in Request : pc[r] \in {"idle", "created"} => old[r] = {}
    /\ OldKeysAreDead

\* A migrated database satisfies the invariant.
LEMMA KeysInit == Init => KeysInv
  BY KeysAssumption DEF Init, KeysInv, TypeOK, OldKeysAreDead, RequestPC, ClientPC

\* Every statement of every request preserves it.
LEMMA KeysStep == KeysInv /\ [Next]_vars => KeysInv'
<1> SUFFICES ASSUME KeysInv, [Next]_vars PROVE KeysInv'
  OBVIOUS
<1> USE KeysAssumption DEF KeysInv, TypeOK, OldKeysAreDead, Dead, RequestPC,
      ClientPC, tenantvars, keyvars, reqvars, clientvars
<1>1. ASSUME NEW r \in Request, NEW t \in TenantId, CreateTenant(r, t)
      PROVE  KeysInv'
  <2>1. TypeOK'
    BY <1>1 DEF CreateTenant
  <2>2. \A x \in TenantId : inc'[x] = IF x = t THEN inc[t] + 1 ELSE inc[x]
    BY <1>1 DEF CreateTenant
  <2>3. /\ \A x \in created' : inc'[x] = 1
        /\ \A x \in TenantId \ created' : inc'[x] = 0
    BY <1>1, <2>2 DEF CreateTenant, FreshId
  <2>4. \A x \in Request :
           /\ pc'[x] # "idle" => rinc'[x] = 1 /\ rt'[x] \in created'
           /\ \A k \in old'[x] : owner'[k] = rt'[x]
    BY <1>1 DEF CreateTenant, FreshId
  <2> QED
    BY <1>1, <2>1, <2>3, <2>4 DEF CreateTenant
<1>2. ASSUME NEW r \in Request, NEW t \in TenantId, LookupTenantByID(r, t)
      PROVE  KeysInv'
  BY <1>2 DEF LookupTenantByID, KeysOf
<1>3. ASSUME NEW r \in Request, RevokeAllKeysForTenant(r) PROVE KeysInv'
  <2>1. \A k \in old[r] : k \in revoked' \/ k \notin rows
    BY <1>3 DEF RevokeAllKeysForTenant, RevokeAll, KeysOf
  <2>2. TypeOK'
    BY <1>3 DEF RevokeAllKeysForTenant, RevokeAll, KeysOf
  <2>3. OldKeysAreDead'
    BY <1>3, <2>1 DEF RevokeAllKeysForTenant, RevokeAll
  <2> QED
    BY <1>3, <2>2, <2>3 DEF RevokeAllKeysForTenant
<1>4. ASSUME NEW r \in Request, NEW k \in Secret, InsertKey(r, k) PROVE KeysInv'
  <2>1. TypeOK'
    BY <1>4 DEF InsertKey
  <2>2. /\ \A x \in Secret : x # k => owner'[x] = owner[x] /\ kinc'[x] = kinc[x]
        /\ owner'[k] = rt[r] /\ kinc'[k] = rinc[r]
        /\ rt[r] \in tenants /\ rinc[r] = 1 /\ k \notin issued
    BY <1>4 DEF InsertKey, ForeignKeyHolds
  <2>3. /\ rows' \subseteq issued' /\ \A x \in rows' : owner'[x] \in tenants'
        /\ \A x \in issued' : kinc'[x] = 1 /\ owner'[x] \in created'
    BY <1>4, <2>2 DEF InsertKey
  <2>4. \A q \in Request : /\ old'[q] \subseteq issued'
                           /\ \A x \in old'[q] : owner'[x] = rt'[q]
    BY <1>4, <2>2 DEF InsertKey
  <2>5. \A q \in Request : pc'[q] \in {"revoked", "shown"} =>
            pc[q] \in {"revoked", "shown"} \/ (q = r /\ pc[r] = "created")
    BY <1>4 DEF InsertKey
  <2>6. \A q \in Request : \A x \in old[q] : x # k
    BY <2>2
  <2>7. OldKeysAreDead'
    BY <1>4, <2>5, <2>6 DEF InsertKey
  <2> QED
    BY <1>4, <2>1, <2>3, <2>4, <2>7 DEF InsertKey
<1>5. ASSUME NEW r \in Request, RequestFails(r) PROVE KeysInv'
  BY <1>5 DEF RequestFails
<1>6. ASSUME NEW t \in TenantId, NEW on \in BOOLEAN, UpdateTenant(t, on)
      PROVE  KeysInv'
  BY <1>6 DEF UpdateTenant
<1>7. ASSUME NEW t \in TenantId, DeleteTenant(t) PROVE KeysInv'
  BY <1>7 DEF DeleteTenant, KeysOf
<1>8. ASSUME NEW c \in Client, NEW cred \in Credential, LookupTenantByKey(c, cred)
      PROVE  KeysInv'
  BY <1>8 DEF LookupTenantByKey, Credential, Match, Candidates
<1>9. ASSUME NEW c \in Client, TouchLastUsed(c) PROVE KeysInv'
  BY <1>9 DEF TouchLastUsed
<1>10. CASE UNCHANGED vars
  BY <1>10 DEF vars
<1> QED
  BY <1>1, <1>2, <1>3, <1>4, <1>5, <1>6, <1>7, <1>8, <1>9, <1>10 DEF Next

\* Every reachable state of the key store is well typed.
THEOREM KeysTypeCorrect == Spec => []TypeOK
<1>1. KeysInv => TypeOK
  BY DEF KeysInv
<1> QED
  BY <1>1, KeysInit, KeysStep, PTL DEF Spec

\* No key ever ends up with another tenant than the one it was generated for,
\* however creations, regenerations and deletes interleave.
THEOREM KeysNeverChangeTenant == Spec => []KeysStayWithTheirTenant
<1>1. KeysInv => KeysStayWithTheirTenant
  BY DEF KeysInv, KeysStayWithTheirTenant
<1> QED
  BY <1>1, KeysInit, KeysStep, PTL DEF Spec

\* After RegenerateKey's revocation every key the tenant had when the request
\* came in is dead, in every later state.
THEOREM RegenerationKillsOldKeys == Spec => []OldKeysAreDead
<1>1. KeysInv => OldKeysAreDead
  BY DEF KeysInv
<1> QED
  BY <1>1, KeysInit, KeysStep, PTL DEF Spec

\* A revoked or deleted key never works again.
THEOREM NoResurrection == Spec => DeadKeysStayDead
<1>1. KeysInv /\ [Next]_vars => [\A k \in issued : Dead(k) => Dead(k)']_vars
  <2> SUFFICES ASSUME KeysInv, Next, NEW k \in issued, Dead(k) PROVE Dead(k)'
    OBVIOUS
  <2>1. \A r \in Request, x \in Secret : InsertKey(r, x) => x # k
    BY DEF InsertKey
  <2> QED
    BY <2>1 DEF Next, Dead, CreateTenant, LookupTenantByID,
       RevokeAllKeysForTenant, RevokeAll, InsertKey, RequestFails, UpdateTenant,
       DeleteTenant, LookupTenantByKey, TouchLastUsed, tenantvars, keyvars,
       reqvars, clientvars
<1> QED
  BY <1>1, KeysInit, KeysStep, PTL DEF Spec, DeadKeysStayDead

\* A client is taken for a tenant only with a secret that was issued for that
\* very tenant and is alive at the lookup (LookupTenantByKey).
THEOREM DeadKeysAreRefused == Spec => OnlyLiveKeysMatch
<1> DEFINE Live(c) ==
      LET k == ccred'[c][2]
      IN  /\ k \in issued /\ ~Dead(k)
          /\ cten'[c] = owner[k] /\ owner[k] \in active
<1>1. KeysInv /\ [Next]_vars =>
        [\A c \in Client : cpc[c] = "idle" /\ cpc'[c] = "matched" => Live(c)]_vars
  <2> SUFFICES ASSUME KeysInv, Next, NEW c \in Client,
                      cpc[c] = "idle", cpc'[c] = "matched"
               PROVE  Live(c)
    OBVIOUS
  <2>1. PICK cred \in Credential : LookupTenantByKey(c, cred)
    BY DEF Next, CreateTenant, LookupTenantByID, RevokeAllKeysForTenant,
       RevokeAll, InsertKey, RequestFails, UpdateTenant, DeleteTenant,
       LookupTenantByKey, TouchLastUsed, clientvars, KeysInv, TypeOK
  <2>2. Live(c)
    <3>1. PICK k \in Match(cred) : cten' = [cten EXCEPT ![c] = owner[k]]
      BY <2>1 DEF LookupTenantByKey, KeysInv, TypeOK
    <3>2. k \in rows \ revoked /\ owner[k] \in active /\ HashKey(k) = cred
      BY <3>1 DEF Match, Candidates
    <3>3. cred[2] = k
      BY <3>2 DEF HashKey
    <3>4. ccred'[c] = cred /\ cten'[c] = owner[k]
      BY <2>1, <3>1 DEF LookupTenantByKey, KeysInv, TypeOK
    <3> QED
      BY <3>2, <3>3, <3>4 DEF Dead, KeysInv
  <2> QED
    BY <2>2
<1> QED
  BY <1>1, KeysInit, KeysStep, PTL DEF Spec, OnlyLiveKeysMatch
=============================================================================
