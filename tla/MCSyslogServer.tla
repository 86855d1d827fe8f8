--------------------------- MODULE MCSyslogServer ---------------------------
(***************************************************************************)
(* Instances of SyslogServer for TLC.                                      *)
(***************************************************************************)
EXTENDS SyslogServer, TLC

CONSTANTS a, b,          \* tenants
          c1, c2, c3,    \* clients
          s1, s2, s3     \* sockets

OneTenant == [c \in Conn |-> a]
TwoTenants == (c1 :> a) @@ (c2 :> a) @@ (c3 :> b)
=============================================================================
