--------------------------- MODULE MCCertificates ---------------------------
(***************************************************************************)
(* Instance of Certificates for TLC.  Certificates, requests and readers   *)
(* are interchangeable, and so are the tenants.                            *)
(***************************************************************************)
EXTENDS Certificates, TLC

CONSTANTS t1, t2,           \* tenants
          c1, c2, c3,       \* certificates
          r1, r2, r3,       \* requests
          d1, d2            \* readers of links

CertSymmetry ==
    Permutations({c1, c2, c3}) \cup Permutations({r1, r2, r3})
        \cup Permutations({d1, d2}) \cup Permutations({t1, t2})
=============================================================================
