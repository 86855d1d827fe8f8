---------------------------- MODULE Certificates ----------------------------
(***************************************************************************)
(* The life of client certificates: the administrator's handlers of        *)
(* internal/web/handlers_certs.go, the renewal endpoint of devices in      *)
(* internal/pki/renewal.go, the table of internal/store/certs.go and the   *)
(* calls to step-ca in internal/pki/client.go, with the links of           *)
(* DownloadManager.                                                        *)
(*                                                                         *)
(* A handler looks rows up, calls the CA over the network and writes a row *)
(* in separate steps, so requests interleave between them.  Every step may *)
(* fail, a call to the CA may fail after the CA has acted, and the context *)
(* of a request that is cancelled fails its next database statement.       *)
(***************************************************************************)
EXTENDS DownloadManager

CONSTANTS TenantId,   \* tenants.id
          Request,    \* requests to certIssue*, certRenew, certRevoke, handleRenew
          NoTenant    \* no tenant

ASSUME CertsAssumption == NoTenant \notin TenantId

VARIABLES
    caEnabled, \* the server has a caClient (CA_ENABLED, read at the start)
    tenants,   \* rows of table tenants
    active,    \* tenants with active = 1
    certs,     \* fingerprints with a row in table certificates
    owner,     \* their tenant_id
    revoked,   \* rows with revoked_at
    signed,    \* certificates the CA has signed
    crl,       \* certificates the CA has revoked
    pc,        \* where each request is
    job,       \* its handler
    rt,        \* its tenant id
    rp,        \* the certificate it was called for
    rc,        \* the certificate the CA returned to it
    parent,    \* history: the certificate that each one renews
    stored     \* history: certificates that have had a row

tablevars == <<tenants, active, certs, owner, revoked, stored>>
cavars == <<signed, crl, parent, caEnabled>>
reqvars == <<pc, job, rt, rp, rc>>
vars == <<dlvars, caEnabled, tenants, active, certs, owner, revoked, signed, crl,
          pc, job, rt, rp, rc, parent, stored>>

Job == {"none", "issue", "keygen", "renew", "device", "revoke"}
Working == {"resolved", "sign", "store", "download", "caRevoke", "mark"}
RequestPC == Working \cup {"idle", "done", "failed"}

\* The database may hold certificates from before, none of them revoked.
Init ==
    /\ DownloadInit /\ caEnabled = TRUE
    /\ tenants = TenantId /\ active = TenantId
    /\ certs \in SUBSET Cert /\ signed = certs /\ stored = certs
    /\ revoked = {} /\ crl = {}
    /\ owner \in [Cert -> TenantId \cup {NoTenant}]
    /\ \A c \in Cert : owner[c] = NoTenant <=> c \notin certs
    /\ parent = [c \in Cert |-> NoCert]
    /\ pc = [r \in Request |-> "idle"]
    /\ job = [r \in Request |-> "none"]
    /\ rt = [r \in Request |-> NoTenant]
    /\ rp = [r \in Request |-> NoCert]
    /\ rc = [r \in Request |-> NoCert]

Start(r, j, t, c, next) ==
    /\ pc[r] = "idle"
    /\ pc' = [pc EXCEPT ![r] = next]
    /\ job' = [job EXCEPT ![r] = j]
    /\ rt' = [rt EXCEPT ![r] = t]
    /\ rp' = [rp EXCEPT ![r] = c]
    /\ UNCHANGED <<rc, tablevars, cavars, dlvars>>

Goto(r, next) ==
    /\ pc' = [pc EXCEPT ![r] = next]
    /\ UNCHANGED <<job, rt, rp>>

-----------------------------------------------------------------------------
(***************************************************************************)
(* The lookups that begin a request.                                       *)
(***************************************************************************)

\* certIssue and certIssueKeygen: the tenant id of the URL is not looked up.
CertIssue(r, t, j) ==
    /\ caEnabled /\ j \in {"issue", "keygen"}
    /\ Start(r, j, t, NoCert, "sign")

\* Fault: the certificate's tenant is not compared with the tenant of the URL.
FoundAnywhere(t, c) == c \in certs

\* LookupCertificateByID finds the row, and it belongs to the tenant of the URL.
Found(t, c) == c \in certs /\ owner[c] = t

CertRenew(r, t, c) ==
    /\ caEnabled /\ Found(t, c) /\ c \notin revoked
    /\ Start(r, "renew", t, c, "sign")

\* handleRenew: the device presented c, and ResolveTenant finds its tenant.
Resolves(c) == c \in certs \ revoked /\ owner[c] \in active

HandleRenew(r, c) ==
    /\ caEnabled /\ Resolves(c)
    /\ Start(r, "device", owner[c], c, "resolved")

\* ... and the metadata of c, in a second query, and the device's CSR.
LookupCertificateByFingerprint(r) ==
    /\ pc[r] = "resolved" /\ rp[r] \in certs
    /\ Goto(r, "sign")
    /\ UNCHANGED <<rc, tablevars, cavars, dlvars>>

\* Fault: the local mark comes before the call to the CA.
MarkFirst == "mark"

\* certRevoke calls the CA first, when there is one.
FirstRevocation == IF caEnabled THEN "caRevoke" ELSE "mark"

CertRevoke(r, t, c) ==
    /\ Found(t, c)
    /\ Start(r, "revoke", t, c, FirstRevocation)

-----------------------------------------------------------------------------
(***************************************************************************)
(* Issuing.                                                                *)
(***************************************************************************)

\* The CA signs the CSR of request r and returns c.  Renew is Sign: the old
\* certificate stays valid.
Sign(r, c) ==
    /\ pc[r] = "sign" /\ c \notin signed
    /\ signed' = signed \cup {c}
    /\ parent' = [parent EXCEPT ![c] = rp[r]]
    /\ rc' = [rc EXCEPT ![r] = c]
    /\ Goto(r, "store")
    /\ UNCHANGED <<crl, caEnabled, tablevars, dlvars>>

\* The CA signs but its answer is lost, late or unreadable.
SignLost(r, c) ==
    /\ pc[r] = "sign" /\ c \notin signed
    /\ signed' = signed \cup {c}
    /\ parent' = [parent EXCEPT ![c] = rp[r]]
    /\ Goto(r, "failed")
    /\ UNCHANGED <<rc, crl, caEnabled, tablevars, dlvars>>

\* certificates.tenant_id REFERENCES tenants(id).
ForeignKeyHolds(t) == t \in tenants

AfterStore(r) == IF job[r] \in {"keygen", "renew"} THEN "download" ELSE "done"

\* Fault: the row of the certificate that is renewed is refreshed as well.
AddCertificateRefreshes(r) ==
    /\ pc[r] = "store" /\ ForeignKeyHolds(rt[r])
    /\ certs' = certs \cup {rc[r]} /\ stored' = stored \cup {rc[r]}
    /\ owner' = [owner EXCEPT ![rc[r]] = rt[r]]
    /\ revoked' = revoked \ {rp[r]}
    /\ Goto(r, AfterStore(r))
    /\ UNCHANGED <<rc, tenants, active, cavars, dlvars>>

AddCertificate(r) ==
    /\ pc[r] = "store" /\ ForeignKeyHolds(rt[r])
    /\ certs' = certs \cup {rc[r]} /\ stored' = stored \cup {rc[r]}
    /\ owner' = [owner EXCEPT ![rc[r]] = rt[r]]
    /\ Goto(r, AfterStore(r))
    /\ UNCHANGED <<rc, tenants, active, revoked, cavars, dlvars>>

\* Fault: a failed insert is only logged.
StoreLogged(r) == AfterStore(r)

\* AddCertificate fails: 500, and the key made for the request is dropped.
StoreFailed(r) == "failed"

\* issueDownload.
IssueDownload(r) ==
    /\ pc[r] = "download"
    /\ Create(rc[r])
    /\ Goto(r, "done")
    /\ UNCHANGED <<rc, tablevars, cavars>>

\* A lookup, the CA or the insert fails.
RequestFails(r) ==
    /\ \/ pc[r] \in {"resolved", "sign", "caRevoke"} /\ Goto(r, "failed")
       \/ pc[r] = "store" /\ Goto(r, StoreFailed(r))
    /\ UNCHANGED <<rc, tablevars, cavars, dlvars>>

-----------------------------------------------------------------------------
(***************************************************************************)
(* Revoking.                                                               *)
(***************************************************************************)

\* The CA revokes; its answer arrives, or the handler sees an error all the same.
RevokeAtCA(r, answered) ==
    /\ pc[r] = "caRevoke"
    /\ crl' = crl \cup {rp[r]}
    /\ Goto(r, IF answered THEN "mark" ELSE "failed")
    /\ UNCHANGED <<rc, signed, parent, caEnabled, tablevars, dlvars>>

\* RevokeCertificate: the UPDATE sets revoked_at on the row, if it is there.
RevokeCertificate(r) ==
    /\ pc[r] = "mark"
    /\ revoked' = revoked \cup ({rp[r]} \cap certs)
    /\ Goto(r, "done")
    /\ UNCHANGED <<rc, tenants, active, certs, owner, stored, cavars, dlvars>>

\* The UPDATE fails: that is only logged, and the administrator is redirected as
\* after a success.
RevokeCertificateFails(r) ==
    /\ pc[r] = "mark"
    /\ Goto(r, "done")
    /\ UNCHANGED <<rc, tablevars, cavars, dlvars>>

-----------------------------------------------------------------------------
(***************************************************************************)
(* Tenants and the process.                                                *)
(***************************************************************************)

UpdateTenant(t, on) ==
    /\ t \in tenants
    /\ active' = IF on THEN active \cup {t} ELSE active \ {t}
    /\ UNCHANGED <<tenants, certs, owner, revoked, stored, cavars, reqvars, dlvars>>

\* ON DELETE CASCADE removes the tenant's certificates.
DeleteTenant(t) ==
    /\ t \in tenants
    /\ tenants' = tenants \ {t} /\ active' = active \ {t}
    /\ certs' = {c \in certs : owner[c] # t}
    /\ revoked' = {c \in revoked : owner[c] # t}
    /\ UNCHANGED <<owner, stored, cavars, reqvars, dlvars>>

\* A crash or a shutdown, and a restart with CA_ENABLED or without it: the
\* requests under way end where they are.
Crash ==
    /\ DownloadCrash /\ caEnabled' \in BOOLEAN
    /\ pc' = [r \in Request |-> IF pc[r] \in Working THEN "failed" ELSE pc[r]]
    /\ UNCHANGED <<job, rt, rp, rc, tablevars, signed, crl, parent>>

CertStep(r) ==
    \/ \E t \in TenantId, j \in Job : CertIssue(r, t, j)
    \/ \E t \in TenantId, c \in Cert : CertRenew(r, t, c) \/ CertRevoke(r, t, c)
    \/ \E c \in Cert : HandleRenew(r, c) \/ Sign(r, c) \/ SignLost(r, c)
    \/ LookupCertificateByFingerprint(r)
    \/ AddCertificate(r) \/ IssueDownload(r) \/ RequestFails(r)
    \/ \E answered \in BOOLEAN : RevokeAtCA(r, answered)
    \/ RevokeCertificate(r) \/ RevokeCertificateFails(r)

Next ==
    \/ \E r \in Request : CertStep(r)
    \/ caEnabled /\ DownloadStep /\ UNCHANGED <<tablevars, cavars, reqvars>>
    \/ \E t \in TenantId : \/ \E on \in BOOLEAN : UpdateTenant(t, on)
                           \/ DeleteTenant(t)
    \/ Crash

Spec == Init /\ [][Next]_vars

-----------------------------------------------------------------------------
(***************************************************************************)
(* Properties.                                                             *)
(***************************************************************************)

\* Every variable has its type; rows belong to tenants that exist, and only rows
\* are revoked.
TypeOK ==
    /\ DownloadTypeOK /\ caEnabled \in BOOLEAN
    /\ tenants \subseteq TenantId /\ active \subseteq tenants
    /\ certs \subseteq Cert /\ revoked \subseteq certs
    /\ signed \subseteq Cert /\ crl \subseteq Cert /\ stored \subseteq Cert
    /\ owner \in [Cert -> TenantId \cup {NoTenant}]
    /\ \A c \in certs : owner[c] \in tenants
    /\ pc \in [Request -> RequestPC] /\ job \in [Request -> Job]
    /\ rt \in [Request -> TenantId \cup {NoTenant}]
    /\ rp \in [Request -> Cert \cup {NoCert}]
    /\ rc \in [Request -> Cert \cup {NoCert}]
    /\ parent \in [Cert -> Cert \cup {NoCert}]

\* A certificate that the proxy knows was signed by the CA, and a renewal, by the
\* administrator or by the device, belongs to the tenant of the certificate it
\* renews, along a chain of any length (handlers_certs.go:158-162, 190;
\* renewal.go:99-134).
RenewalsKeepTheTenant ==
    \A c \in certs : /\ c \in signed
                     /\ parent[c] \in certs => owner[parent[c]] = owner[c]

\* A certificate that was revoked or whose tenant was deleted never resolves to a
\* tenant again, whatever renewals of it were under way.
RevokedForGood ==
    [][\A c \in stored : c \notin certs \ revoked => c \notin (certs \ revoked)']_vars

\* With CA integration on, a certificate is marked as revoked only once step-ca
\* has revoked it: a failure between the two leaves it marked at the CA alone,
\* never in the proxy alone (handlers_certs.go:227-238).
RevokedAtTheCA ==
    [][caEnabled => revoked' \ revoked \subseteq crl]_vars

\* A private key is offered for download only with a certificate that has been
\* registered: a request that failed to store it gives no key away, and no link
\* leads to a certificate that the listener would not know.
BundlesAreRegistered ==
    tokens \cup {got[d].cert : d \in Reader} \subseteq stored \cup {NoCert}
=============================================================================
