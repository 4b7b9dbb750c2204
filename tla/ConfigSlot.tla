------------------------------- MODULE ConfigSlot -------------------------------
(***************************************************************************)
(* What the configuration slot promises to those who load and store it,    *)
(* without magic, CRC or places where power may fail: a node runs on what  *)
(* the slot holds, or on the default; a store replaces a configuration or  *)
(* loses it, and never brings one back that was replaced; and a store that *)
(* is confirmed is there.                                                  *)
(***************************************************************************)
CONSTANTS Configs, Default, None

VARIABLES
  copy,    \* the configuration that stands in the flash complete, or None
  slot,    \* the one a boot would load: copy, or None
  running, \* the one the node works with, None until it is loaded
  asked,   \* the one that is being stored, or None
  stored   \* the store has been confirmed

vars == <<copy, slot, running, asked, stored>>

Init == copy = None /\ slot = None /\ running = None /\ asked = None /\ stored = FALSE

\* An empty slot is filled with the default.
Load ==
  /\ running = None
  /\ IF slot # None THEN running' = slot /\ UNCHANGED asked
     ELSE running' = Default /\ asked' = Default
  /\ UNCHANGED <<copy, slot, stored>>

Ask(c) ==
  /\ running # None /\ asked = None
  /\ asked' = c
  /\ UNCHANGED <<copy, slot, running, stored>>

Storing == asked # None /\ ~stored
Replaced == copy' \in {copy, None, asked} /\ slot' \in {None, copy'}

Write == Storing /\ Replaced /\ UNCHANGED <<running, asked, stored>>

\* A store ends with its last write, confirmed or not.
Confirm ==
  /\ Storing
  /\ copy' = asked /\ slot' = asked /\ stored' = TRUE
  /\ UNCHANGED <<running, asked>>

End == Storing /\ Replaced /\ asked' = None /\ UNCHANGED <<running, stored>>

\* Before the restart that follows a confirmed store.
TakeOver == stored /\ running' = asked /\ UNCHANGED <<copy, slot, asked, stored>>

PowerOff == running' = None /\ asked' = None /\ stored' = FALSE /\ UNCHANGED <<copy, slot>>

\* Before it is loaded, a slot may be wiped, or written by the flasher.
Wipe ==
  /\ running = None
  /\ copy' \in {copy, None} /\ slot' = None
  /\ UNCHANGED <<running, asked, stored>>

Seed(c) ==
  /\ running = None
  /\ copy' = c /\ slot' = c
  /\ UNCHANGED <<running, asked, stored>>

Next ==
  \/ Load \/ Write \/ Confirm \/ End \/ TakeOver \/ PowerOff \/ Wipe
  \/ \E c \in Configs : Ask(c) \/ Seed(c)

Spec == Init /\ [][Next]_vars
===============================================================================
