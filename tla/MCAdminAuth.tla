---------------------------- MODULE MCAdminAuth ----------------------------
(***************************************************************************)
(* Instance of AdminAuth for TLC.                                          *)
(***************************************************************************)
EXTENDS AdminAuth, TLC

CONSTANTS c1, c2,       \* clients
          n1, n2        \* usernames

Symmetry == Permutations({c1, c2}) \cup Permutations({n1, n2})

\* The throttle does not look at the users.  It is explored in full while none
\* was created; afterwards one login for a name in the time of a window is enough.
Focus == lastId = 0 \/ \A n \in Name : tries[n][Window] <= 1
=============================================================================
