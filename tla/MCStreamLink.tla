----------------------------- MODULE MCStreamLink -----------------------------
(* Instances of StreamLink: a message of one fragment, and two longer ones   *)
(* of different lengths, so that a count can fit in the wrong place.         *)
EXTENDS StreamLink

CONSTANTS short, medium, long

MCMessages == {short, medium, long}
MCSize == [m \in MCMessages |-> CASE m = short -> 1 [] m = medium -> 3 [] m = long -> 4]
===============================================================================
