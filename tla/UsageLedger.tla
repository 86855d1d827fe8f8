---------------------------- MODULE UsageLedger ----------------------------
(***************************************************************************)
(* What usage accounting promises, with no channel, buffer, transaction or *)
(* writer goroutine in sight.  Every usage sample (one RecordUsage call)   *)
(* goes once through                                                       *)
(*                                                                         *)
(*     new -> pending -> counted -> purged                                 *)
(*     new -> dropped        pending -> lost                               *)
(*                                                                         *)
(* It is counted at most once, only while its tenant exists, together with *)
(* the other samples of one flush, and it leaves usage_counters only when  *)
(* its tenant is deleted or its hour is past the retention period.         *)
(* UsageWriter is shown to implement this specification.                   *)
(***************************************************************************)
CONSTANTS Sample,        \* the RecordUsage calls
          Tenant,        \* tenant ids
          TenantOf       \* the tenant each sample is recorded for

VARIABLES tenants,       \* the tenants that exist
          status         \* what became of each sample

lvars == <<tenants, status>>

Status == {"new", "pending", "counted", "purged", "dropped", "lost"}

\* The samples of S move to status x together; no other sample moves.
Move(S, x) == status' = [s \in Sample |-> IF s \in S THEN x ELSE status[s]]

Having(x) == {s \in Sample : status[s] = x}

Init == /\ tenants = Tenant
        /\ status = [s \in Sample |-> "new"]

Accept(s) == /\ status[s] = "new"
             /\ Move({s}, "pending")
             /\ UNCHANGED tenants

Drop(s) == /\ status[s] = "new"
           /\ Move({s}, "dropped")
           /\ UNCHANGED tenants

\* One flush: a batch of pending samples is counted, all of it or nothing.
Post(S) == /\ S \subseteq Having("pending")
           /\ \A s \in S : TenantOf[s] \in tenants
           /\ Move(S, "counted")
           /\ UNCHANGED tenants

\* Retention removes counted samples.
Expire(S) == /\ S \subseteq Having("counted")
             /\ Move(S, "purged")
             /\ UNCHANGED tenants

\* Deleting a tenant removes exactly what was counted for it.
DeleteTenant(t) ==
    /\ t \in tenants
    /\ tenants' = tenants \ {t}
    /\ Move({s \in Having("counted") : TenantOf[s] = t}, "purged")

\* The process dies: what was not counted yet is gone, all of it.
Lose == /\ Move(Having("pending"), "lost")
        /\ UNCHANGED tenants

Next == \/ \E s \in Sample : Accept(s) \/ Drop(s)
        \/ \E S \in SUBSET Sample : Post(S) \/ Expire(S)
        \/ \E t \in Tenant : DeleteTenant(t)
        \/ Lose

Spec == Init /\ [][Next]_lvars
=============================================================================
