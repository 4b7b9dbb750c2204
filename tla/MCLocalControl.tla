----------------------------- MODULE MCLocalControl -----------------------------
(* Instance of LocalControl: one rolled colour beside the three primaries,      *)
(* one power loss, six taps in a row.                                           *)
EXTENDS LocalControl

CONSTANT rolled

MCRandom == {rolled}
===============================================================================
