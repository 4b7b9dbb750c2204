------------------------------- MODULE PanelMirror -------------------------------
(***************************************************************************)
(* What the display promises to those who set its data: after its start    *)
(* screen it shows copies of the data, each of one moment and never older  *)
(* than the one before.  It does not say when, nor that none is left out.  *)
(***************************************************************************)
CONSTANTS
  States,       \* what the data may be between two calls
  Start, None

VARIABLES data, copy, panel

vars == <<data, copy, panel>>

Init == data \in States /\ copy = data /\ panel = None

Set(d) == data' = d /\ UNCHANGED <<copy, panel>>

TakeCopy == copy' = data /\ UNCHANGED <<data, panel>>

ShowStart == panel = None /\ panel' = Start /\ UNCHANGED <<data, copy>>

Draw == panel # None /\ panel' = copy /\ UNCHANGED <<data, copy>>

Next == (\E d \in States : Set(d)) \/ TakeCopy \/ ShowStart \/ Draw

Spec == Init /\ [][Next]_vars
===============================================================================
