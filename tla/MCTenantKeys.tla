---------------------------- MODULE MCTenantKeys ----------------------------
(***************************************************************************)
(* Instance of TenantKeys for TLC: a migrated tenant and one or two that   *)
(* are created.  New secrets are interchangeable, and so are requests.     *)
(***************************************************************************)
EXTENDS TenantKeys, TLC

CONSTANTS t1, t2,        \* tenant ids
          old1,          \* the migrated key
          k1, k2, k3,    \* secrets
          r1, r2, r3,    \* administrator requests
          c1             \* ingest request

FreshSymmetry == Permutations({k1, k2, k3}) \cup Permutations({r1, r2, r3})
=============================================================================
