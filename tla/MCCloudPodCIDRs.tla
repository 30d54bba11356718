---------------------------- MODULE MCCloudPodCIDRs ----------------------------
(* Two cloud nodes and two IPAMBlocks; blocks start in any state.          *)
EXTENDS CloudPodCIDRs

CONSTANTS n1, n2, b1, b2

MCNodes == {n1, n2}
MCBlocks == {b1, b2}
=============================================================================
