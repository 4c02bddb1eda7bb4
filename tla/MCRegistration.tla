--------------------------- MODULE MCRegistration ---------------------------
(***************************************************************************)
(* Registration on small instances: two registrations and two clusters,    *)
(* with the bundle of the second one applied to either cluster.            *)
(***************************************************************************)
EXTENDS Registration

CONSTANTS r1, r2, c1, c2

MixedBundles == {<<c1, r1>>, <<c1, r2>>, <<c2, r2>>}
=============================================================================
