--------------------------- MODULE MCUsageWriter ---------------------------
(***************************************************************************)
(* Instances of UsageWriter for TLC: three samples of two tenants, more    *)
(* samples than channel slots.                                             *)
(***************************************************************************)
EXTENDS UsageWriter, TLC

CONSTANTS a, b,          \* tenants
          f1,            \* a caller of FlushCounters
          s1, s2, s3     \* samples

MCSample == {s1, s2, s3}
MCTenant == {a, b}
MCTenantOf == (s1 :> a) @@ (s2 :> a) @@ (s3 :> b)
MCSignalOf == [s \in MCSample |-> "logs"]
=============================================================================
