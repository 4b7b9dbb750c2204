--------------------------- MODULE MCHeadlessNet ---------------------------
(***************************************************************************)
(* Small instances of HeadlessNet.  A budget says how often, in one        *)
(* behaviour, buttons are pressed, power is cycled and the gateway sends.  *)
(***************************************************************************)
EXTENDS HeadlessNet

Budget(p, c, g) == [presses |-> p, cycles |-> c, gateway |-> g]

\* Two promotions, or one with a power failure and a gateway.
MCRoles == {Budget(2, 0, 0), Budget(1, 1, 1)}

\* One master with two slaves and room for one, and a power failure.
MCRegistry == {Budget(1, 1, 0)}

\* A slave of the gateway promotes itself beside another master.
MCDuplicate == {Budget(2, 0, 1)}
=============================================================================
