------------------------------ MODULE MCEdgeIPAM ------------------------------
(* Three edge nodes competing for two blocks of EdgePodCIDR.               *)
EXTENDS EdgeIPAM

CONSTANTS n1, n2, n3, b1, b2

MCNodes == {n1, n2, n3}
MCBlocks == {b1, b2}
=============================================================================
