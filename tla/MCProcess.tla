----------------------------- MODULE MCProcess -----------------------------
(***************************************************************************)
(* Instances of Process for TLC.                                           *)
(***************************************************************************)
EXTENDS Process, TLC

CONSTANTS a, b,     \* tenants
          r1, r2    \* requests

MCTenantOf == (r1 :> a) @@ (r2 :> b)

Attr(k, t) == [key |-> k, val |-> t]
Text == [kind |-> "text", by |-> <<>>]
Data == [kind |-> "data", by |-> <<>>]

\* A forged identity among other attributes, a nil resource, and a text that
\* already carries a prefix.
Forged ==
    <<[attrs |-> <<Attr("tenant.name", b), Attr("host", a), Attr("tenant.id", b),
                   Attr("service.namespace", a), Attr("os", b)>>,
       logs |-> <<Text, Data>>],
      [attrs |-> <<>>, logs |-> <<[kind |-> "text", by |-> <<b>>]>>]>>

MCPayloads == {Forged}

\* A database of an early version, of a later one, and none at all.
Early == [Blank EXCEPT !.tables = TRUE, !.unique = TRUE, !.rows = {a, b},
                       !.plain = {a}, !.hashed = {b}, !.kids = {a, b}]
Later == [Early EXCEPT !.unique = FALSE, !.plain = {a, b}, !.columns = TRUE]

MCDatabases == {Blank, Early, Later}
=============================================================================
