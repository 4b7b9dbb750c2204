----------------------------- MODULE StreamDelivery -----------------------------
(***************************************************************************)
(* What a stream promises to the two who use it.  A gateway offers one     *)
(* message at a time; each offer is handed over at most once, at its own   *)
(* last fragment, or lost.  Nothing torn: what is handed over is the       *)
(* message.  Torn: it has the length of a message and this one's end.      *)
(***************************************************************************)
EXTENDS Integers, Sequences

CONSTANTS Messages, Size, None

VARIABLES
  offered,  \* the message being sent
  handed,   \* what was handed over last
  torn      \* a fragment went missing since the start was heard

vars == <<offered, handed, torn>>

Whole(m) == [i \in 1 .. Size[m] |-> [msg |-> m, pos |-> i]]

\* What a torn stream of m may be taken for: fragments that count down to m's
\* last one from the start of another message.
MayPassFor(b, m) ==
  /\ b # <<>> /\ b[1].pos = 1 /\ Len(b) = Size[b[1].msg]
  /\ b[Len(b)].msg = m
  /\ \A i \in 1 .. Len(b) : Size[b[i].msg] - b[i].pos = Len(b) - i

Init == offered = None /\ handed = <<>> /\ torn = FALSE

Offer(m) == offered = None /\ offered' = m /\ UNCHANGED <<handed, torn>>

\* A start is heard, or a fragment is not.
Travel == offered # None /\ torn' \in BOOLEAN /\ UNCHANGED <<offered, handed>>

HandOver ==
  /\ offered # None /\ offered' = None
  /\ torn' \in {torn, FALSE}
  /\ MayPassFor(handed', offered)
  /\ ~torn' => handed' = Whole(offered)

LoseOffer == offered # None /\ offered' = None /\ torn' \in BOOLEAN /\ UNCHANGED handed

Next == (\E m \in Messages : Offer(m)) \/ Travel \/ HandOver \/ LoseOffer

Spec == Init /\ [][Next]_vars
===============================================================================
