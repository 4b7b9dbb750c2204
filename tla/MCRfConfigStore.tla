-------------------------- MODULE MCRfConfigStore --------------------------
(***************************************************************************)
(* A small instance of RfConfigStore: a channel table of two rows, the     *)
(* default being the first, a custom configuration and one that hangs.     *)
(***************************************************************************)
EXTENDS RfConfigStore

CONSTANTS ch1, ch2, phy1, phy2, custom, bad

MCPhy == [c \in {ch1, ch2} |-> IF c = ch1 THEN phy1 ELSE phy2]
=============================================================================
