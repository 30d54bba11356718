------------------------- MODULE MCOperatorStartup -------------------------
(* One operator replica of the host cluster and two of a member cluster. *)
(* Up to 4 certificates can be signed before the secret exists: one by    *)
(* its creator, one by the replica that loses the Create race, and one     *)
(* more per failed call and per crash.                                     *)
EXTENDS OperatorStartup

CONSTANTS h1, r1, r2, c1, c2, c3, c4

MCHostReplicas == {h1}
MCMemberReplicas == {r1, r2}
MCCerts == {c1, c2, c3, c4}
=============================================================================
