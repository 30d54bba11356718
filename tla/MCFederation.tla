------------------------------ MODULE MCFederation ------------------------------
(* The host and two member clusters.                                       *)
EXTENDS Federation

CONSTANTS h, m1, m2

MCMembers == {m1, m2}
=============================================================================
