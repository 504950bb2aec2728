--------------------------- MODULE MCCredentials ---------------------------
(* Two principals, a counting key with a copy and one that does not count. *)
EXTENDS Credentials, TLC

CONSTANTS k1, k2, d1, copy, d2, s1, s2, r1, r2

MCKeyOf == (d1 :> k1) @@ (copy :> k1) @@ (d2 :> k2)
TwoHomes == (s1 :> r1) @@ (s2 :> r2)
=============================================================================
