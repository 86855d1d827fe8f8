-------------------------- MODULE DownloadManager --------------------------
(***************************************************************************)
(* internal/pki/download.go: the single-use links under which the private  *)
(* keys made by the server wait for the administrator.  Create, Consume    *)
(* and one sweep of cleanup each hold the mutex throughout, so each is one *)
(* step; readers, the sweep and the clock interleave between them.  A      *)
(* random token stands for the one certificate whose bundle it holds, so   *)
(* tokens are named by certificates.                                       *)
(*                                                                         *)
(* The key is a byte slice that the map and the handler share: zero()      *)
(* overwrites it in place, and only the copy made by Consume survives.     *)
(***************************************************************************)
EXTENDS Integers

CONSTANTS Cert,        \* certificates, by fingerprint
          Reader,      \* requests to downloadByToken, one link each
          Life,        \* ticks a link is valid for: 10 minutes
          SweepEvery,  \* ticks between two sweeps: 60 seconds
          MaxTime,     \* bound: the clock stops here
          NoCert       \* no certificate

ASSUME DownloadAssumption ==
    /\ Life \in Nat /\ SweepEvery \in Nat \ {0} /\ MaxTime \in Nat
    /\ NoCert \notin Cert

VARIABLES
    now,        \* the clock
    tokens,     \* keys of the map m.tokens
    expiresAt,  \* their ExpiresAt
    keyPEM,     \* content of the key slice: "none", "key" or "zeros"
    sweepAt,    \* when the cleanup ticker fires next
    stopped,    \* Stop has closed m.done and joined the sweeper
    dpc,        \* where each reader is
    got         \* what Consume returned to it: a certificate and a key slice

dlvars == <<now, tokens, expiresAt, keyPEM, sweepAt, stopped, dpc, got>>

ReaderPC == {"idle", "bundle", "served", "lost", "invalid", "expired"}
Nothing == [cert |-> NoCert, key |-> "none"]

DownloadInit ==
    /\ now = 0 /\ tokens = {} /\ sweepAt = SweepEvery /\ stopped = FALSE
    /\ expiresAt = [c \in Cert |-> 0]
    /\ keyPEM = [c \in Cert |-> "none"]
    /\ dpc = [d \in Reader |-> "idle"]
    /\ got = [d \in Reader |-> Nothing]

Create(c) ==
    /\ tokens' = tokens \cup {c}
    /\ expiresAt' = [expiresAt EXCEPT ![c] = now + Life]
    /\ keyPEM' = [keyPEM EXCEPT ![c] = "key"]
    /\ UNCHANGED <<now, sweepAt, stopped, dpc, got>>

Expired(c) == now > expiresAt[c]

\* Fault: the entry is dropped and its key bytes are left as they are.
EraseNoZero(S) ==
    /\ tokens' = tokens \ S
    /\ UNCHANGED keyPEM

\* Fault: the key is zeroed and the entry stays in the map.
EraseKeepsEntry(S) ==
    /\ keyPEM' = [c \in Cert |-> IF c \in S THEN "zeros" ELSE keyPEM[c]]
    /\ UNCHANGED tokens

\* zero, then delete from the map.
Erase(S) ==
    /\ keyPEM' = [c \in Cert |-> IF c \in S THEN "zeros" ELSE keyPEM[c]]
    /\ tokens' = tokens \ S

\* Fault: the result shares the slice that is zeroed.
KeyAliased(c) == "zeros"

\* The copy that Consume makes before it zeroes the slice.
KeyCopy(c) == keyPEM[c]

\* Consume, by a request for link c.  The flag Used is never set: a link that
\* was used is no longer in the map.
ConsumeUnknown(d, c) ==
    /\ dpc[d] = "idle" /\ c \notin tokens
    /\ dpc' = [dpc EXCEPT ![d] = "invalid"]
    /\ UNCHANGED <<now, tokens, expiresAt, keyPEM, sweepAt, stopped, got>>

ConsumeExpired(d, c) ==
    /\ dpc[d] = "idle" /\ c \in tokens /\ Expired(c)
    /\ Erase({c})
    /\ dpc' = [dpc EXCEPT ![d] = "expired"]
    /\ UNCHANGED <<now, expiresAt, sweepAt, stopped, got>>

Consume(d, c) ==
    /\ dpc[d] = "idle" /\ c \in tokens /\ ~Expired(c)
    /\ got' = [got EXCEPT ![d] = [cert |-> c, key |-> KeyCopy(c)]]
    /\ Erase({c})
    /\ dpc' = [dpc EXCEPT ![d] = "bundle"]
    /\ UNCHANGED <<now, expiresAt, sweepAt, stopped>>

\* GenerateBundle and the response, which may fail after the link was used up.
ServeBundle(d) ==
    /\ dpc[d] = "bundle"
    /\ \E out \in {"served", "lost"} : dpc' = [dpc EXCEPT ![d] = out]
    /\ UNCHANGED <<now, tokens, expiresAt, keyPEM, sweepAt, stopped, got>>

\* Fault: only links that expired a whole period ago are swept.
SweepableLate(c) == now > expiresAt[c] + SweepEvery

\* What the sweep takes.
Sweepable(c) == Expired(c)

\* One round of cleanup.
Sweep ==
    /\ ~stopped /\ now >= sweepAt
    /\ Erase({c \in tokens : Sweepable(c)})
    /\ sweepAt' = sweepAt + SweepEvery
    /\ UNCHANGED <<now, expiresAt, stopped, dpc, got>>

\* Stop at the end of run: the sweeper is joined and no sweep follows.
StopSweeper ==
    /\ ~stopped
    /\ stopped' = TRUE
    /\ UNCHANGED <<now, tokens, expiresAt, keyPEM, sweepAt, dpc, got>>

\* The clock.  A sweep that is due runs before the next tick: the sweeper waits
\* for nothing but a mutex that is never held across I/O.
DownloadTick ==
    /\ now < MaxTime /\ (stopped \/ now < sweepAt)
    /\ now' = now + 1
    /\ UNCHANGED <<tokens, expiresAt, keyPEM, sweepAt, stopped, dpc, got>>

\* The process ends: its memory is gone, and with it every link.
DownloadCrash ==
    /\ tokens' = {} /\ keyPEM' = [c \in Cert |-> "none"]
    /\ dpc' = [d \in Reader |-> IF dpc[d] = "bundle" THEN "lost" ELSE dpc[d]]
    /\ sweepAt' = now + SweepEvery /\ stopped' = FALSE
    /\ UNCHANGED <<now, expiresAt, got>>

DownloadStep ==
    \/ \E d \in Reader :
         \/ \E c \in Cert : ConsumeUnknown(d, c) \/ ConsumeExpired(d, c) \/ Consume(d, c)
         \/ ServeBundle(d)
    \/ Sweep \/ StopSweeper \/ DownloadTick

-----------------------------------------------------------------------------
DownloadTypeOK ==
    /\ now \in Nat /\ sweepAt \in Nat /\ stopped \in BOOLEAN
    /\ tokens \subseteq Cert
    /\ expiresAt \in [Cert -> Nat]
    /\ keyPEM \in [Cert -> {"none", "key", "zeros"}]
    /\ dpc \in [Reader -> ReaderPC]
    /\ got \in [Reader -> [cert : Cert \cup {NoCert}, key : {"none", "key", "zeros"}]]

\* "Single-use download": however many requests race for a link, one of them at
\* most gets its key (download.go:62-88).
SingleUse ==
    \A d, e \in Reader : d # e /\ got[d].cert = got[e].cert => got[d] = Nothing

\* Whoever is given a bundle is given its key and not the zeroed bytes, although
\* the map and the reader share the slice until Consume copies it.
BundlesAreIntact ==
    \A d \in Reader : got[d].cert # NoCert => got[d].key = "key"

\* "The stored key bytes are zeroed before deletion": the manager's copy of a key
\* is readable for as long as its link is in the map and no longer, whether the
\* link was used, expired under a reader or was swept.
KeysAreErased ==
    \A c \in Cert : (keyPEM[c] = "key") <=> c \in tokens

\* While the sweeper runs no key outlives its ten minutes by more than one sweep
\* period, even when nobody asks for it.
KeysExpire ==
    ~stopped => \A c \in tokens : now <= expiresAt[c] + SweepEvery
=============================================================================
