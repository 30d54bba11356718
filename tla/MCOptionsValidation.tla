------------------------ MODULE MCOptionsValidation ------------------------
(* Addresses of 3 bits, so that every prefix length 0..3, nested and      *)
(* disjoint networks, and host bits after the prefix occur; durations up  *)
(* to 2s, around the 1s and the 1.2 boundaries.                            *)
EXTENDS OptionsValidation

CONSTANTS bad
=============================================================================
