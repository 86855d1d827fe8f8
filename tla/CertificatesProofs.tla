------------------------- MODULE CertificatesProofs -------------------------
(***************************************************************************)
(* Proofs about Certificates, for any sets of tenants, certificates,       *)
(* requests and readers and any life of a link.  No property is inductive  *)
(* by itself: what a request may do with the certificate it holds depends  *)
(* on nobody else holding it (Apart), on its not having a row yet or a     *)
(* link yet (Requests), and on no certificate naming a parent that never   *)
(* had a row (Parents); what a sweep guarantees depends on when it comes   *)
(* (Timely).                                                               *)
(***************************************************************************)
EXTENDS Certificates, TLAPS

\* The table only knows certificates that were stored, and those were signed.
Rows == certs \subseteq stored /\ stored \subseteq signed

\* A certificate renews one that has had a row, or none.
Parents == \A c \in Cert : parent[c] \in stored \cup {NoCert}

Lineage == \A c \in certs : parent[c] \in certs => owner[parent[c]] = owner[c]

\* What a request may rely on between its steps.
RequestOK(r) ==
    /\ rp[r] \in stored \cup {NoCert}
    /\ pc[r] \in {"resolved", "sign", "store"} /\ rp[r] \in certs => owner[rp[r]] = rt[r]
    /\ pc[r] = "store" => rc[r] \in signed \ stored /\ parent[rc[r]] = rp[r]
    /\ pc[r] = "download" => /\ rc[r] \in stored \ tokens
                             /\ \A d \in Reader : got[d].cert # rc[r]
    /\ pc[r] = "caRevoke" => rp[r] \in Cert
    /\ caEnabled /\ pc[r] = "mark" => rp[r] \in crl

Requests == \A r \in Request : RequestOK(r)

\* No two requests hold the same new certificate.
Apart ==
    \A r, q \in Request :
        r # q /\ pc[r] \in {"store", "download"} /\ pc[q] \in {"store", "download"}
            => rc[r] # rc[q]

\* A link that was used is not in the map.
Gone == \A d \in Reader : got[d].cert \notin tokens

\* The next sweep is due within a period, and within a period of every expiry.
Timely ==
    ~stopped => /\ now <= sweepAt /\ sweepAt <= now + SweepEvery
                /\ \A c \in tokens : sweepAt <= expiresAt[c] + SweepEvery

CertInv ==
    /\ TypeOK
    /\ Rows /\ Parents /\ Lineage
    /\ Requests /\ Apart
    /\ BundlesAreRegistered /\ Gone
    /\ SingleUse /\ BundlesAreIntact /\ KeysAreErased
    /\ Timely

-----------------------------------------------------------------------------
\* The invariant holds when the process finds a table of certificates that were
\* signed and belong to tenants.
LEMMA InitInv == Init => CertInv
<1> SUFFICES ASSUME Init PROVE CertInv
    OBVIOUS
<1> USE CertsAssumption, DownloadAssumption DEF Init, DownloadInit, Nothing
<1>1. TypeOK
  <2>1. DownloadTypeOK
    BY DEF DownloadTypeOK, ReaderPC
  <2> QED
    BY <2>1 DEF TypeOK, RequestPC, Working, Job
<1>2. Rows /\ Parents /\ Lineage /\ Requests /\ Apart
  BY DEF Rows, Parents, Lineage, Requests, RequestOK, Apart
<1>3. BundlesAreRegistered /\ Gone /\ SingleUse
  BY DEF BundlesAreRegistered, Gone, SingleUse
<1>4. BundlesAreIntact /\ KeysAreErased /\ Timely
  BY DEF BundlesAreIntact, KeysAreErased, Timely
<1> QED
  BY <1>1, <1>2, <1>3, <1>4 DEF CertInv

\* The parts of the invariant that speak of the links alone.
LinksInv == Gone /\ SingleUse /\ BundlesAreIntact /\ KeysAreErased /\ Timely

\* A step that leaves the links alone keeps what is known of them.
LEMMA LinksFrame == LinksInv /\ UNCHANGED dlvars => LinksInv'
  BY DEF LinksInv, Gone, SingleUse, BundlesAreIntact, KeysAreErased, Timely, dlvars,
         Nothing

\* The type of a state after each kind of step.
LEMMA TypeStep == CertInv /\ [Next]_vars => TypeOK'
<1> SUFFICES ASSUME CertInv, [Next]_vars PROVE TypeOK'
    OBVIOUS
<1> USE CertsAssumption, DownloadAssumption DEF CertInv, TypeOK, DownloadTypeOK, RequestPC,
        Working, Job, ReaderPC
<1>1. ASSUME NEW r \in Request, NEW t \in TenantId, NEW c \in Cert \cup {NoCert}, NEW j \in Job,
             NEW n \in Working, Start(r, j, t, c, n)
      PROVE  TypeOK'
  BY <1>1 DEF Start, tablevars, cavars, dlvars
<1>2. ASSUME NEW r \in Request, NEW c \in Cert, Sign(r, c) \/ SignLost(r, c)
      PROVE  TypeOK'
  BY <1>2 DEF Sign, SignLost, Goto, tablevars, dlvars
<1>3. ASSUME NEW r \in Request, AddCertificate(r) PROVE TypeOK'
  BY <1>3 DEF AddCertificate, Goto, cavars, dlvars, AfterStore, ForeignKeyHolds, Requests, RequestOK
<1>4. ASSUME NEW r \in Request, IssueDownload(r) PROVE TypeOK'
  BY <1>4 DEF IssueDownload, Create, Goto, cavars, tablevars, Requests, RequestOK
<1>5. ASSUME NEW r \in Request,
             LookupCertificateByFingerprint(r) \/ RequestFails(r) \/ RevokeCertificateFails(r)
      PROVE  TypeOK'
  BY <1>5 DEF LookupCertificateByFingerprint, RequestFails, RevokeCertificateFails, StoreFailed,
              Goto, cavars, tablevars, dlvars
<1>6. ASSUME NEW r \in Request, NEW a \in BOOLEAN, RevokeAtCA(r, a) PROVE TypeOK'
  <2>1. rp[r] \in Cert
    BY <1>6 DEF RevokeAtCA, Requests, RequestOK
  <2> QED
    BY <1>6, <2>1 DEF RevokeAtCA, Goto, tablevars, dlvars
<1>7. ASSUME NEW r \in Request, RevokeCertificate(r) PROVE TypeOK'
  BY <1>7 DEF RevokeCertificate, Goto, cavars, dlvars
<1>8. ASSUME DownloadStep, UNCHANGED <<tablevars, cavars, reqvars>> PROVE TypeOK'
  <2>1. DownloadTypeOK'
    <3>1. ASSUME NEW d \in Reader, NEW c \in Cert, ConsumeUnknown(d, c) \/ ConsumeExpired(d, c)
          PROVE  DownloadTypeOK'
      BY <3>1 DEF ConsumeUnknown, ConsumeExpired, Erase
    <3>2. ASSUME NEW d \in Reader, NEW c \in Cert, Consume(d, c) PROVE DownloadTypeOK'
      BY <3>2 DEF Consume, KeyCopy, Erase
    <3>3. ASSUME NEW d \in Reader, ServeBundle(d) PROVE DownloadTypeOK'
      BY <3>3 DEF ServeBundle
    <3>4. CASE Sweep
      BY <3>4 DEF Sweep, Erase
    <3>5. CASE StopSweeper
      <4>1. stopped' \in BOOLEAN
        BY <3>5 DEF StopSweeper
      <4> QED
        BY <3>5, <4>1 DEF StopSweeper
    <3>6. CASE DownloadTick
      <4>1. now' \in Nat
        BY <3>6 DEF DownloadTick
      <4>2. stopped' \in BOOLEAN
        BY <3>6 DEF DownloadTick
      <4> QED
        BY <3>6, <4>1, <4>2 DEF DownloadTick
    <3> HIDE DEF DownloadTypeOK
    <3> QED
      BY <1>8, <3>1, <3>2, <3>3, <3>4, <3>5, <3>6 DEF DownloadStep
  <2> QED
    BY <1>8, <2>1 DEF tablevars, cavars, reqvars
<1>9. ASSUME NEW t \in TenantId, (\E on \in BOOLEAN : UpdateTenant(t, on)) \/ DeleteTenant(t)
      PROVE  TypeOK'
  BY <1>9 DEF UpdateTenant, DeleteTenant, cavars, reqvars, dlvars
<1>10. CASE Crash
  <2>1. DownloadTypeOK'
    <3>1. sweepAt' \in Nat
      BY <1>10 DEF Crash, DownloadCrash
    <3>2. stopped' \in BOOLEAN
      BY <1>10 DEF Crash, DownloadCrash
    <3>3. dpc' \in [Reader -> ReaderPC]
      BY <1>10 DEF Crash, DownloadCrash
    <3> QED
      BY <1>10, <3>1, <3>2, <3>3 DEF Crash, DownloadCrash
  <2>2. pc' \in [Request -> RequestPC]
    BY <1>10 DEF Crash
  <2> QED
    BY <1>10, <2>1, <2>2 DEF Crash, tablevars
<1>11. CASE UNCHANGED vars
  BY <1>11 DEF vars, dlvars
<1>12. ASSUME NEW r \in Request, NEW t \in TenantId, NEW j \in Job, CertIssue(r, t, j)
       PROVE  TypeOK'
  <2> HIDE DEF CertInv, TypeOK, DownloadTypeOK, RequestPC, ReaderPC, Job
  <2>1. Start(r, j, t, NoCert, "sign")
    BY <1>12 DEF CertIssue
  <2> QED
    BY <1>1, <2>1
<1>15. ASSUME NEW r \in Request, NEW t \in TenantId, NEW c \in Cert,
              CertRenew(r, t, c) \/ CertRevoke(r, t, c)
       PROVE  TypeOK'
  BY <1>1, <1>15 DEF CertRenew, CertRevoke, FirstRevocation
<1>13. ASSUME NEW r \in Request, NEW c \in Cert, HandleRenew(r, c) PROVE TypeOK'
  BY <1>1, <1>13 DEF HandleRenew, Resolves
<1>14. ASSUME NEW r \in Request, CertStep(r) PROVE TypeOK'
  <2> HIDE DEF CertInv, TypeOK, DownloadTypeOK, RequestPC, ReaderPC, Working, Job
  <2> QED
    BY <1>14, <1>2, <1>3, <1>4, <1>5, <1>6, <1>7, <1>12, <1>13, <1>15 DEF CertStep
<1> HIDE DEF CertInv, TypeOK, DownloadTypeOK, RequestPC, ReaderPC, Working, Job
<1> QED
  BY <1>8, <1>9, <1>10, <1>11, <1>14 DEF Next

-----------------------------------------------------------------------------
\* The parts of the invariant that speak of the table, the CA and the requests.
TableInv ==
    /\ Rows /\ Parents /\ Lineage
    /\ Requests /\ Apart
    /\ BundlesAreRegistered

\* A request that begins holds no certificate yet, and the one it was called for
\* has a row of the request's tenant.
LEMMA StartStep ==
  ASSUME CertInv, NEW r \in Request, NEW t, NEW c \in Cert \cup {NoCert}, NEW j,
         NEW n \in {"resolved", "sign", "caRevoke", "mark"},
         Start(r, j, t, c, n),
         c \in certs \cup {NoCert}, c \in certs => owner[c] = t,
         n = "caRevoke" => c \in Cert, n = "mark" => ~caEnabled
  PROVE  TableInv'
<1> USE DownloadAssumption, CertsAssumption DEF CertInv, TypeOK, DownloadTypeOK
<1>1. Requests'
  BY DEF Requests, RequestOK, Start, tablevars, cavars, dlvars, Rows
<1>2. (Rows /\ Parents /\ Lineage /\ BundlesAreRegistered)'
  BY DEF Rows, Parents, Lineage, BundlesAreRegistered, Start, tablevars, cavars, dlvars
<1>3. Apart'
  BY DEF Apart, Start
<1> QED
  BY <1>1, <1>2, <1>3 DEF TableInv

\* The certificate that the CA signs is new to everybody.
LEMMA SignStep ==
  ASSUME CertInv, NEW r \in Request, NEW c \in Cert, Sign(r, c) \/ SignLost(r, c)
  PROVE  TableInv'
<1> USE DownloadAssumption, CertsAssumption DEF CertInv, TypeOK, DownloadTypeOK
<1> USE DEF Sign, SignLost, Goto, tablevars, dlvars
<1>1. Rows' /\ Parents' /\ BundlesAreRegistered'
  BY DEF Rows, Parents, Requests, RequestOK, BundlesAreRegistered
<1>2. Lineage'
  BY DEF Lineage, Rows
<1>3. Requests'
  BY DEF Requests, RequestOK, Rows
<1>4. Apart'
  BY DEF Apart, Requests, RequestOK, Rows
<1> QED
  BY <1>1, <1>2, <1>3, <1>4 DEF TableInv

\* The row that is inserted is the first of its certificate.
LEMMA AddStep ==
  ASSUME CertInv, NEW r \in Request, AddCertificate(r)
  PROVE  TableInv'
<1> USE DownloadAssumption, CertsAssumption DEF CertInv, TypeOK, DownloadTypeOK
<1> USE DEF AddCertificate, Goto, cavars, dlvars, AfterStore
<1>1. /\ rc[r] \in signed \ stored /\ parent[rc[r]] = rp[r] /\ rc[r] \in Cert
      /\ rp[r] \in certs => owner[rp[r]] = rt[r]
  BY DEF Requests, RequestOK
<1>2. Rows' /\ Parents' /\ BundlesAreRegistered'
  BY <1>1 DEF Rows, Parents, BundlesAreRegistered
<1>3. Lineage'
  BY <1>1 DEF Lineage, Rows, Parents
<1>4. rc[r] \notin tokens /\ \A d \in Reader : got[d].cert # rc[r]
  BY <1>1 DEF BundlesAreRegistered
<1>5. ASSUME NEW q \in Request PROVE RequestOK(q)'
  <2>1. CASE q = r
    BY <1>1, <1>4, <2>1 DEF Requests, RequestOK
  <2>2. CASE q # r
    <3>1. RequestOK(q)
      BY DEF Requests
    <3>2. pc[q] = "store" => rc[q] # rc[r]
      BY <2>2 DEF Apart
    <3> QED
      BY <1>1, <2>2, <3>1, <3>2 DEF RequestOK, Rows
  <2> QED
    BY <2>1, <2>2
<1>6. Apart'
  BY DEF Apart
<1> QED
  BY <1>2, <1>3, <1>5, <1>6 DEF TableInv, Requests

\* The link that is made is the first of its certificate.
LEMMA IssueStep ==
  ASSUME CertInv, NEW r \in Request, IssueDownload(r)
  PROVE  TableInv' /\ LinksInv'
<1> USE DownloadAssumption, CertsAssumption DEF CertInv, TypeOK, DownloadTypeOK
<1> USE DEF IssueDownload, Create, Goto, cavars, tablevars
<1>1. /\ rc[r] \in stored \ tokens /\ rc[r] \in Cert
      /\ \A d \in Reader : got[d].cert # rc[r]
  BY DEF Requests, RequestOK
<1>2. (Rows /\ Parents /\ Lineage /\ BundlesAreRegistered)'
  BY <1>1 DEF Rows, Parents, Lineage, BundlesAreRegistered
<1>3. ASSUME NEW q \in Request PROVE RequestOK(q)'
  <2>1. CASE q = r
    BY <2>1 DEF Requests, RequestOK
  <2>2. CASE q # r
    <3>1. pc[q] = "download" => rc[q] # rc[r]
      BY <2>2 DEF Apart
    <3> QED
      BY <2>2, <3>1 DEF Requests, RequestOK
  <2> QED
    BY <2>1, <2>2
<1>4. Apart'
  BY DEF Apart
<1>5. Gone' /\ SingleUse' /\ BundlesAreIntact' /\ KeysAreErased'
  BY <1>1 DEF Gone, SingleUse, BundlesAreIntact, KeysAreErased, Nothing
<1>6. Timely'
  BY <1>1 DEF Timely
<1> QED
  BY <1>2, <1>3, <1>4, <1>5, <1>6 DEF TableInv, LinksInv, Requests

\* The other steps of requests only move on, or revoke.
LEMMA OtherStep ==
  ASSUME CertInv, NEW r \in Request,
         \/ LookupCertificateByFingerprint(r) \/ RequestFails(r)
         \/ RevokeCertificate(r) \/ RevokeCertificateFails(r)
         \/ \E a \in BOOLEAN : RevokeAtCA(r, a)
  PROVE  TableInv'
<1> USE DownloadAssumption, CertsAssumption DEF CertInv, TypeOK, DownloadTypeOK
<1> USE DEF LookupCertificateByFingerprint, RequestFails, RevokeCertificate,
            RevokeCertificateFails, RevokeAtCA, Goto, cavars, tablevars, dlvars, StoreFailed
<1>1. (Rows /\ Parents /\ Lineage /\ BundlesAreRegistered)'
  BY DEF Rows, Parents, Lineage, BundlesAreRegistered
<1>2. Requests'
  BY DEF Requests, RequestOK
<1>3. Apart'
  BY DEF Apart
<1> QED
  BY <1>1, <1>2, <1>3 DEF TableInv

\* Deleting a tenant removes rows; changing one concerns none of this.
LEMMA TenantStep ==
  ASSUME CertInv, NEW t \in TenantId,
         (\E on \in BOOLEAN : UpdateTenant(t, on)) \/ DeleteTenant(t)
  PROVE  TableInv'
<1> USE DEF CertInv, TypeOK, UpdateTenant, DeleteTenant, cavars, reqvars, dlvars
<1>1. (Rows /\ Parents /\ Lineage /\ BundlesAreRegistered)'
  BY DEF Rows, Parents, Lineage, BundlesAreRegistered
<1>2. Requests'
  BY DEF Requests, RequestOK
<1>3. Apart'
  BY DEF Apart
<1> QED
  BY <1>1, <1>2, <1>3 DEF TableInv

\* A restart empties the links and ends the requests.
LEMMA CrashStep ==
  ASSUME CertInv, Crash
  PROVE  TableInv' /\ LinksInv'
<1> USE DownloadAssumption, CertsAssumption DEF CertInv, TypeOK, DownloadTypeOK, RequestPC, Working
<1> USE DEF Crash, DownloadCrash, tablevars
<1>1. (Rows /\ Parents /\ Lineage /\ BundlesAreRegistered)'
  BY DEF Rows, Parents, Lineage, BundlesAreRegistered
<1>2. Requests'
  BY DEF Requests, RequestOK
<1>3. Apart'
  BY DEF Apart
<1>4. Gone' /\ SingleUse' /\ BundlesAreIntact' /\ KeysAreErased'
  BY DEF Gone, SingleUse, BundlesAreIntact, KeysAreErased, Nothing
<1>5. Timely'
  BY DEF Timely
<1> QED
  BY <1>1, <1>2, <1>3, <1>4, <1>5 DEF TableInv, LinksInv

-----------------------------------------------------------------------------
\* A step on the links: no link appears, and a reader gets a key by taking its
\* link out of the map.
LEMMA DownloadTable ==
  ASSUME CertInv, DownloadStep, UNCHANGED <<tablevars, cavars, reqvars>>
  PROVE  TableInv'
<1> USE DownloadAssumption, CertsAssumption DEF CertInv, TypeOK, DownloadTypeOK
<1>1. /\ tokens' \subseteq tokens
      /\ \A d \in Reader : got'[d] = got[d] \/ got'[d].cert \in tokens
  BY DEF DownloadStep, ConsumeUnknown, ConsumeExpired, Consume, ServeBundle, Sweep, StopSweeper,
         DownloadTick, Erase
<1> USE DEF tablevars, cavars, reqvars
<1>2. (Rows /\ Parents /\ Lineage /\ BundlesAreRegistered)'
  BY <1>1 DEF Rows, Parents, Lineage, BundlesAreRegistered
<1>3. ASSUME NEW q \in Request PROVE RequestOK(q)'
  BY <1>1 DEF Requests, RequestOK
<1>4. Apart'
  BY DEF Apart
<1> QED
  BY <1>2, <1>3, <1>4 DEF TableInv, Requests

\* What a step on the links does to them: a reader takes its link out, the sweep
\* takes out what has expired, and the clock waits for a sweep that is due.
LEMMA DownloadLinks ==
  ASSUME CertInv, DownloadStep
  PROVE  LinksInv'
<1> USE DownloadAssumption, CertsAssumption DEF CertInv, TypeOK, DownloadTypeOK
<1> USE DEF Gone, SingleUse, BundlesAreIntact, KeysAreErased, Timely, Nothing
<1>1. ASSUME NEW d \in Reader, NEW c \in Cert, ConsumeUnknown(d, c) PROVE LinksInv'
  BY <1>1 DEF ConsumeUnknown, LinksInv
<1>2. ASSUME NEW d \in Reader, NEW c \in Cert, ConsumeExpired(d, c) PROVE LinksInv'
  BY <1>2 DEF ConsumeExpired, Erase, LinksInv
<1>3. ASSUME NEW d \in Reader, NEW c \in Cert, Consume(d, c) PROVE LinksInv'
  <2> USE <1>3 DEF Consume, Erase, KeyCopy
  <2>1. got' = [got EXCEPT ![d] = [cert |-> c, key |-> "key"]]
    OBVIOUS
  <2>2. Gone' /\ BundlesAreIntact' /\ KeysAreErased'
    BY <2>1
  <2>3. SingleUse'
    BY <2>1
  <2>4. Timely'
    OBVIOUS
  <2> QED
    BY <2>2, <2>3, <2>4 DEF LinksInv
<1>4. ASSUME NEW d \in Reader, ServeBundle(d) PROVE LinksInv'
  BY <1>4 DEF ServeBundle, LinksInv
<1>5. CASE Sweep
  <2> USE <1>5 DEF Sweep, Erase
  <2>1. Gone' /\ SingleUse' /\ BundlesAreIntact' /\ KeysAreErased'
    OBVIOUS
  <2>2. Timely'
    <3>1. now = sweepAt /\ sweepAt' = now + SweepEvery /\ now' = now
      OBVIOUS
    <3>2. ASSUME NEW c \in tokens' PROVE sweepAt' <= expiresAt'[c] + SweepEvery
      BY <3>1, <3>2 DEF Sweepable, Expired
    <3> QED
      BY <3>1, <3>2
  <2> QED
    BY <2>1, <2>2 DEF LinksInv
<1>6. CASE StopSweeper
  BY <1>6 DEF StopSweeper, LinksInv
<1>7. CASE DownloadTick
  <2> USE <1>7 DEF DownloadTick
  <2>1. Gone' /\ SingleUse' /\ BundlesAreIntact' /\ KeysAreErased'
    OBVIOUS
  <2>2. Timely'
    OBVIOUS
  <2> QED
    BY <2>1, <2>2 DEF LinksInv
<1> HIDE DEF CertInv, TypeOK, DownloadTypeOK
<1> QED
  BY <1>1, <1>2, <1>3, <1>4, <1>5, <1>6, <1>7 DEF DownloadStep

-----------------------------------------------------------------------------
\* Every step preserves the invariant.
LEMMA NextInv == CertInv /\ [Next]_vars => CertInv'
<1> SUFFICES ASSUME CertInv, [Next]_vars PROVE TableInv' /\ LinksInv'
  BY TypeStep DEF CertInv, TableInv, LinksInv
<1>1. LinksInv
  BY DEF CertInv, LinksInv
<1>2. ASSUME NEW r \in Request, NEW t \in TenantId, NEW j \in Job, CertIssue(r, t, j)
      PROVE  TableInv' /\ LinksInv'
  <2>1. Start(r, j, t, NoCert, "sign") /\ UNCHANGED dlvars
    BY <1>2 DEF CertIssue, Start
  <2>2. NoCert \notin certs
    BY DownloadAssumption DEF CertInv, TypeOK
  <2> QED
    BY <1>1, <2>1, <2>2, StartStep, LinksFrame
<1>3. ASSUME NEW r \in Request, NEW t \in TenantId, NEW c \in Cert,
             CertRenew(r, t, c) \/ CertRevoke(r, t, c)
      PROVE  TableInv' /\ LinksInv'
  <2>1. c \in certs /\ owner[c] = t
    BY <1>3 DEF CertRenew, CertRevoke, Found
  <2>2. CASE CertRenew(r, t, c)
    <3>1. Start(r, "renew", t, c, "sign") /\ UNCHANGED dlvars
      BY <2>2 DEF CertRenew, Start
    <3> QED
      BY <1>1, <2>1, <3>1, StartStep, LinksFrame
  <2>3. CASE CertRevoke(r, t, c)
    <3>1. UNCHANGED dlvars
      BY <2>3 DEF CertRevoke, Start
    <3>2. PICK n \in {"caRevoke", "mark"} :
            Start(r, "revoke", t, c, n) /\ (n = "mark" => ~caEnabled)
      BY <2>3 DEF CertRevoke, FirstRevocation
    <3>3. n \in {"resolved", "sign", "caRevoke", "mark"}
      BY <3>2
    <3> QED
      BY <1>1, <2>1, <3>1, <3>2, <3>3, StartStep, LinksFrame
  <2> QED
    BY <1>3, <2>2, <2>3
<1>4. ASSUME NEW r \in Request, NEW c \in Cert, HandleRenew(r, c)
      PROVE  TableInv' /\ LinksInv'
  <2>1. c \in certs /\ Start(r, "device", owner[c], c, "resolved") /\ UNCHANGED dlvars
    BY <1>4 DEF HandleRenew, Resolves, Start
  <2> QED
    BY <1>1, <2>1, StartStep, LinksFrame
<1>5. ASSUME NEW r \in Request, NEW c \in Cert, Sign(r, c) \/ SignLost(r, c)
      PROVE  TableInv' /\ LinksInv'
  <2>1. UNCHANGED dlvars
    BY <1>5 DEF Sign, SignLost
  <2> QED
    BY <1>1, <1>5, <2>1, SignStep, LinksFrame
<1>6. ASSUME NEW r \in Request, AddCertificate(r) PROVE TableInv' /\ LinksInv'
  <2>1. UNCHANGED dlvars
    BY <1>6 DEF AddCertificate
  <2> QED
    BY <1>1, <1>6, <2>1, AddStep, LinksFrame
<1>7. ASSUME NEW r \in Request,
             \/ LookupCertificateByFingerprint(r) \/ RequestFails(r)
             \/ RevokeCertificate(r) \/ RevokeCertificateFails(r)
             \/ \E a \in BOOLEAN : RevokeAtCA(r, a)
      PROVE  TableInv' /\ LinksInv'
  <2>1. UNCHANGED dlvars
    BY <1>7 DEF LookupCertificateByFingerprint, RequestFails, RevokeCertificate,
                RevokeCertificateFails, RevokeAtCA
  <2> QED
    BY <1>1, <1>7, <2>1, OtherStep, LinksFrame
<1>8. ASSUME NEW t \in TenantId, (\E on \in BOOLEAN : UpdateTenant(t, on)) \/ DeleteTenant(t)
      PROVE  TableInv' /\ LinksInv'
  <2>1. UNCHANGED dlvars
    BY <1>8 DEF UpdateTenant, DeleteTenant
  <2> QED
    BY <1>1, <1>8, <2>1, TenantStep, LinksFrame
<1>9. CASE UNCHANGED vars
  <2>1. UNCHANGED dlvars
    BY <1>9 DEF vars
  <2>2. TableInv'
    BY <1>9 DEF CertInv, TableInv, Rows, Parents, Lineage, Requests, RequestOK, Apart,
                BundlesAreRegistered, vars, dlvars
  <2> QED
    BY <1>1, <2>1, <2>2, LinksFrame
<1>10. ASSUME NEW r \in Request, CertStep(r) PROVE TableInv' /\ LinksInv'
  BY <1>10, <1>2, <1>3, <1>4, <1>5, <1>6, <1>7, IssueStep DEF CertStep
<1> QED
  BY <1>8, <1>9, <1>10, CrashStep, DownloadTable, DownloadLinks DEF Next

\* The inductive invariant holds throughout every behaviour of the handlers.
THEOREM CertInvariant == Spec => []CertInv
  BY InitInv, NextInv, PTL DEF Spec

-----------------------------------------------------------------------------
\* Type correctness: rows belong to tenants that exist, and only rows are marked
\* as revoked (the foreign key and the cascade of table certificates).
THEOREM CertsTypeCorrect == Spec => []TypeOK
<1>1. CertInv => TypeOK
  BY DEF CertInv
<1> QED
  BY <1>1, CertInvariant, PTL

\* Every certificate the proxy knows was signed by the CA and is of the tenant of
\* the one it renews, for chains of renewals by administrators and devices of any
\* length (certRenew, handleRenew).
THEOREM RenewalLineage == Spec => []RenewalsKeepTheTenant
<1>1. CertInv => RenewalsKeepTheTenant
  BY DEF CertInv, Rows, Lineage, RenewalsKeepTheTenant
<1> QED
  BY <1>1, CertInvariant, PTL

\* A certificate that was revoked, or whose tenant was deleted, never resolves
\* again (RevokeCertificate, DeleteTenant, AddCertificate).
THEOREM RevocationIsFinal == Spec => RevokedForGood
<1> DEFINE A == \A c \in stored : c \notin certs \ revoked => c \notin (certs \ revoked)'
<1>1. ASSUME CertInv, [Next]_vars PROVE [A]_vars
  <2>1. ASSUME NEW r \in Request, CertStep(r), NEW c \in stored, c \in certs'
        PROVE  c \in certs /\ (c \in revoked => c \in revoked')
    BY <1>1, <2>1
    DEF CertInv, Requests, RequestOK, CertStep, CertIssue, CertRenew, CertRevoke, HandleRenew,
        Start, Sign, SignLost, LookupCertificateByFingerprint, AddCertificate, IssueDownload,
        RequestFails, RevokeAtCA, RevokeCertificate, RevokeCertificateFails, tablevars
  <2>2. CASE \E r \in Request : CertStep(r)
    BY <2>1, <2>2
  <2>3. CASE \E t \in TenantId : (\E on \in BOOLEAN : UpdateTenant(t, on)) \/ DeleteTenant(t)
    BY <2>3 DEF UpdateTenant, DeleteTenant
  <2>4. CASE UNCHANGED <<tablevars, cavars, reqvars>>
    BY <2>4 DEF tablevars
  <2>5. CASE Crash
    BY <2>5 DEF Crash, tablevars
  <2> QED
    BY <1>1, <2>2, <2>3, <2>4, <2>5 DEF Next
<1> QED
  BY <1>1, CertInvariant, PTL DEF Spec, RevokedForGood

\* With CA integration on, a row is marked only after step-ca has revoked its
\* certificate (certRevoke).
THEOREM MarkedAfterTheCA == Spec => RevokedAtTheCA
<1>1. ASSUME CertInv, [Next]_vars PROVE [caEnabled => revoked' \ revoked \subseteq crl]_vars
  <2>1. ASSUME NEW r \in Request, CertStep(r), caEnabled PROVE revoked' \ revoked \subseteq crl
    <3>1. RequestOK(r)
      BY <1>1, <2>1 DEF CertInv, Requests
    <3>2. CASE RevokeCertificate(r)
      BY <2>1, <3>1, <3>2 DEF RequestOK, RevokeCertificate
    <3>3. CASE ~RevokeCertificate(r)
      BY <2>1, <3>3
      DEF CertStep, CertIssue, CertRenew, CertRevoke, HandleRenew, Start, Sign, SignLost,
          LookupCertificateByFingerprint, AddCertificate, IssueDownload, RequestFails,
          RevokeAtCA, RevokeCertificateFails, tablevars
    <3> QED
      BY <3>2, <3>3
  <2>2. ASSUME ~(\E r \in Request : CertStep(r)), ~(UNCHANGED vars)
        PROVE  revoked' \subseteq revoked
    BY <1>1, <2>2 DEF Next, UpdateTenant, DeleteTenant, Crash, tablevars
  <2> QED
    BY <2>1, <2>2
<1> QED
  BY <1>1, CertInvariant, PTL DEF Spec, RevokedAtTheCA

\* A key is offered and handed out only with a certificate that was registered
\* (certIssueKeygen, certRenew, issueDownload).
THEOREM KeysComeWithRows == Spec => []BundlesAreRegistered
<1>1. CertInv => BundlesAreRegistered
  BY DEF CertInv
<1> QED
  BY <1>1, CertInvariant, PTL

\* One reader at most gets the key of a link, however the readers race (Consume).
THEOREM LinksAreSingleUse == Spec => []SingleUse
<1>1. CertInv => SingleUse
  BY DEF CertInv
<1> QED
  BY <1>1, CertInvariant, PTL

\* The reader that gets the key of a link gets it whole, although the manager
\* zeroes its own copy in the same call (Consume).
THEOREM KeysAreDelivered == Spec => []BundlesAreIntact
<1>1. CertInv => BundlesAreIntact
  BY DEF CertInv
<1> QED
  BY <1>1, CertInvariant, PTL

\* The manager's copy of a key is erased when its link leaves the table, by a
\* download or by the sweeper (Consume, cleanup).
THEOREM NoKeyIsLeftBehind == Spec => []KeysAreErased
<1>1. CertInv => KeysAreErased
  BY DEF CertInv
<1> QED
  BY <1>1, CertInvariant, PTL

\* The manager's copy of a key is gone at most one sweep after its link expired
\* while the sweeper runs (cleanup).
THEOREM KeysAreShortLived == Spec => []KeysExpire
<1>1. CertInv => KeysExpire
  BY DownloadAssumption DEF CertInv, Timely, KeysExpire, TypeOK, DownloadTypeOK
<1> QED
  BY <1>1, CertInvariant, PTL
=============================================================================
