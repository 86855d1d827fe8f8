------------------------------- MODULE Ingest -------------------------------
(***************************************************************************)
(* internal/ingest: one OTLP request goes through authentication, the two  *)
(* checks of the limiter, the reading of its body and the stamping of its  *)
(* payload, is forwarded, and is recorded.  Any step may answer instead.   *)
(*                                                                         *)
(* The api_keys table is the one Migrate leaves behind; the limiter's      *)
(* verdicts are RateLimiter's subject and are a choice here; the usage     *)
(* writer is taken at its promise, the ledger of UsageLedger, whose sample *)
(* is the request.  The collector behind the reverse proxy is external.    *)
(***************************************************************************)
EXTENDS Migrate

CONSTANTS Request,      \* POST /v1/logs, each of one tenant's key
          TenantOf,     \* the tenant whose key a request carries
          Payloads      \* the bodies a client may send

VARIABLES
    ipc,        \* where a request is in ServeHTTP
    body,       \* the payload it carries, as a set
    sent,       \* the payload that was forwarded, as a set
    out,        \* how it ended
    status      \* what became of its usage sample

ivars == <<ipc, body, sent, out, status>>

Usage == INSTANCE UsageLedger WITH Sample <- Request, tenants <- db.rows

Outcome == {"none", "refused", "answered", "aborted", "killed"}

Running == {r \in Request : ipc[r] \notin {"idle", "done"}}

IngestInit ==
    /\ ipc = [r \in Request |-> "idle"] /\ body = [r \in Request |-> {}]
    /\ sent = [r \in Request |-> {}] /\ out = [r \in Request |-> "none"]
    /\ status = [r \in Request |-> "new"]

IGoto(r, p) == ipc' = [ipc EXCEPT ![r] = p]

(***************************************************************************)
(* Stamping.  A payload is a sequence of resources with their log records; *)
(* an attribute is a key with the tenant its value names, and a log body   *)
(* is text or something structured, with the prefixes put before it.       *)
(***************************************************************************)
Attribute == [key : STRING, val : Tenant]
LogBody == [kind : {"text", "data"}, by : Seq(Tenant)]
Payload == Seq([attrs : Seq(Attribute), logs : Seq(LogBody)])

ASSUME PayloadsAssumption == Payloads \subseteq Payload

Reserved == {"tenant.id", "tenant.name", "service.namespace"}

\* Fault: tenant.name is not filtered.
StampSingleResourceKeepsName(attrs, t) ==
    LET filtered[i \in 0 .. Len(attrs)] ==
          IF i = 0 THEN <<>>
          ELSE IF attrs[i].key \in Reserved \ {"tenant.name"} THEN filtered[i - 1]
          ELSE Append(filtered[i - 1], attrs[i])
    IN  filtered[Len(attrs)]
          \o <<[key |-> "tenant.id", val |-> t], [key |-> "tenant.name", val |-> t]>>

\* stampSingleResource and its loop; a nil resource has no attributes.
StampSingleResource(attrs, t) ==
    LET filtered[i \in 0 .. Len(attrs)] ==
          IF i = 0 THEN <<>>
          ELSE IF attrs[i].key \in Reserved THEN filtered[i - 1]
          ELSE Append(filtered[i - 1], attrs[i])
    IN  filtered[Len(attrs)]
          \o <<[key |-> "tenant.id", val |-> t], [key |-> "tenant.name", val |-> t]>>

StampLogBody(b, t) == IF b.kind = "text" THEN [b EXCEPT !.by = <<t>> \o @] ELSE b

StampResources(p, t) ==
    [i \in DOMAIN p |->
        [attrs |-> StampSingleResource(p[i].attrs, t),
         logs |-> [j \in DOMAIN p[i].logs |-> StampLogBody(p[i].logs[j], t)]]]

(***************************************************************************)
(* ServeHTTP.                                                              *)
(***************************************************************************)
Receive(r) ==
    /\ ipc[r] = "idle"
    /\ \E p \in Payloads : body' = [body EXCEPT ![r] = {p}]
    /\ IGoto(r, "resolve")
    /\ UNCHANGED <<sent, out, status>>

\* The gateway finds the tenant of a key in api_keys while the store is open.
Known(r) == mpc = "open" /\ TenantOf[r] \in db.hashed

Pass(r, here, there) ==
    /\ ipc[r] = here
    /\ IGoto(r, there)
    /\ UNCHANGED <<body, sent, out, status>>

ResolveTenant(r) == Known(r) /\ Pass(r, "resolve", "rps")
AllowRPS(r) == Pass(r, "rps", "read")
ReadBody(r) == Pass(r, "read", "bytes")
AllowBytes(r) == Pass(r, "bytes", "stamp")

\* A step gives up and answers: the key is unknown or its lookup fails (401,
\* 500), a limit is hit or cannot be looked up (429, 500), the body is too
\* large, cut off or malformed (413, 500, 400).
Refuse(r) ==
    /\ ipc[r] \in {"resolve", "rps", "read", "bytes", "stamp"}
    /\ out' = [out EXCEPT ![r] = "refused"]
    /\ IGoto(r, "done")
    /\ UNCHANGED <<body, sent, status>>

StampTenantIdentity(r) ==
    /\ ipc[r] = "stamp"
    /\ sent' = [sent EXCEPT ![r] = {StampResources(p, TenantOf[r]) : p \in body[r]}]
    /\ IGoto(r, "proxy")
    /\ UNCHANGED <<body, out, status>>

\* The collector answers, or cannot be reached and the code stays 502.
Forward(r) ==
    /\ ipc[r] = "proxy"
    /\ out' = [out EXCEPT ![r] = "answered"]
    /\ IGoto(r, "record")
    /\ UNCHANGED <<body, sent, status>>

\* The answer breaks off while it is copied to the client: ReverseProxy
\* panics with ErrAbortHandler, past the call of RecordUsage.
AbortResponse(r) ==
    /\ ipc[r] = "proxy"
    /\ out' = [out EXCEPT ![r] = "aborted"]
    /\ IGoto(r, "done")
    /\ UNCHANGED <<body, sent, status>>

\* RecordUsage: the channel has room, or the sample is dropped.
RecordUsage(r) ==
    /\ ipc[r] = "record"
    /\ Usage!Accept(r) \/ Usage!Drop(r)
    /\ IGoto(r, "done")
    /\ UNCHANGED <<body, sent, out>>

IngestStep(r) ==
    \/ ResolveTenant(r) \/ AllowRPS(r) \/ ReadBody(r) \/ AllowBytes(r) \/ Refuse(r)
    \/ StampTenantIdentity(r) \/ Forward(r) \/ AbortResponse(r) \/ RecordUsage(r)

(***************************************************************************)
(* What is forwarded carries the identity of the tenant whose key the      *)
(* request came with, at the end of every resource and in front of every   *)
(* text, whatever the client wrote there; before it come the attributes    *)
(* the client sent, all of them but the reserved ones and in their order,  *)
(* and nothing else.                                                       *)
(***************************************************************************)
Stamped(before, after, t) ==
    LET Foreign == {j \in DOMAIN before : before[j].key \notin Reserved}
        n == Len(after)
    IN  /\ \E place \in [Foreign -> 1 .. n - 2] :
             /\ \A j, k \in Foreign : j < k => place[j] < place[k]
             /\ \A m \in 1 .. n - 2 : \E j \in Foreign : place[j] = m
             /\ \A j \in Foreign : after[place[j]] = before[j]
        /\ n >= 2
        /\ after[n - 1] = [key |-> "tenant.id", val |-> t]
        /\ after[n] = [key |-> "tenant.name", val |-> t]

Identified(p, q, t) ==
    /\ Len(q) = Len(p)
    /\ \A i \in DOMAIN p :
         /\ Stamped(p[i].attrs, q[i].attrs, t)
         /\ Len(q[i].logs) = Len(p[i].logs)
         /\ \A j \in DOMAIN p[i].logs :
              q[i].logs[j] = [kind |-> p[i].logs[j].kind,
                              by |-> IF p[i].logs[j].kind = "text"
                                     THEN <<t>> \o p[i].logs[j].by
                                     ELSE p[i].logs[j].by]

IdentityIsServers ==
    \A r \in Request : \A q \in sent[r], p \in body[r] : Identified(p, q, TenantOf[r])
=============================================================================
