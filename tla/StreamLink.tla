------------------------------ MODULE StreamLink ------------------------------
(***************************************************************************)
(* A message of up to 16 fragments on its way from a gateway's core to a   *)
(* node: scheduleStreamSend and queueNextStreamPacket cut it, the radio    *)
(* loses fragments, handleStreamPacket puts it together again.  Fragments  *)
(* carry start, stop and how many are left, and nothing that names their   *)
(* stream; an abandoned reassembly waits for ever.  The radio sends one    *)
(* packet at a time, so none is duplicated or overtaken.                   *)
(*                                                                         *)
(* RadioService has the slot, the interrupts and the watchdogs below this. *)
(***************************************************************************)
EXTENDS Integers, Sequences

CONSTANTS
  Messages,      \* contents a gateway may send
  Size,          \* Size[m]: the fragments of m
  MaxFragments,  \* kMaxPackets, 16 in the code
  MaxFaults,     \* bound: lost fragments and abandoned streams
  None

ASSUME StreamAssumption ==
  /\ MaxFragments \in Nat \ {0}
  /\ Size \in [Messages -> 1 .. MaxFragments]
  /\ MaxFaults \in Nat
  /\ None \notin Messages
  /\ None \notin [msg : Messages, index : 0 .. MaxFragments]
  /\ None \notin [msg : Messages, pos : 1 .. MaxFragments]

VARIABLES
  tx,        \* the core's TX stream: its message, and the fragments queued
  slot,      \* the fragment in the TX slot
  active,    \* streamActive at the node
  lastLeft,  \* streamLastPacketsLeft
  buffer,    \* streamBuf
  complete,  \* the buffer at the last StreamEnd, the one that was ACKed
  gap,       \* history: a fragment went missing since the start was heard
  faults     \* bound: what may still go wrong

senderVars == <<tx, slot>>
receiverVars == <<active, lastLeft, buffer, complete>>
vars == <<senderVars, receiverVars, gap, faults>>

Fragment == [msg : Messages, pos : 1 .. MaxFragments]

\* The control byte of a fragment.
Start(p) == p.pos = 1
Stop(p) == p.pos = Size[p.msg]
PacketsLeft(p) == Size[p.msg] - p.pos

\* The buffer that holds all of m.
Whole(m) == [i \in 1 .. Size[m] |-> [msg |-> m, pos |-> i]]

Init ==
  /\ tx = None /\ slot = None
  /\ active = FALSE /\ lastLeft = 0 /\ buffer = <<>> /\ complete = <<>>
  /\ gap = FALSE /\ faults = MaxFaults

-----------------------------------------------------------------------------
(* The sender.                                                             *)

ScheduleStreamSend(m) ==
  /\ tx = None /\ slot = None
  /\ tx' = [msg |-> m, index |-> 0]
  /\ UNCHANGED <<slot, receiverVars, gap, faults>>

QueueNextStreamPacket ==
  /\ tx # None /\ slot = None
  /\ tx.index < Size[tx.msg]
  /\ slot' = [msg |-> tx.msg, pos |-> tx.index + 1]
  /\ tx' = [tx EXCEPT !.index = @ + 1]
  /\ UNCHANGED <<receiverVars, gap, faults>>

\* Mutant: the stream does not end.
TxDoneStreams ==
  /\ slot # None
  /\ slot' = None
  /\ tx' = tx

\* TX_DONE frees the slot, and ends the stream after its last fragment.
TxDone ==
  /\ slot # None
  /\ slot' = None
  /\ tx' = IF tx.index = Size[tx.msg] THEN None ELSE tx

-----------------------------------------------------------------------------
(* The receiver.                                                           *)

\* Mutant: a start does not interrupt a reassembly.
AcceptsWhenFree(p) ==
  IF Start(p) THEN ~active
  ELSE active /\ PacketsLeft(p) = lastLeft - 1

\* Mutant: the end of a stream needs no count.
AcceptsAnyStop(p) ==
  \/ Start(p)
  \/ active /\ (Stop(p) \/ PacketsLeft(p) = lastLeft - 1)

\* A start always; anything else only in an active stream and with the count
\* that follows.  A sender's Stop is set exactly when nothing is left.
Accepts(p) ==
  \/ Start(p)
  \/ active /\ PacketsLeft(p) = lastLeft - 1

\* A start overwrites the buffer.
Appended(p) == IF Start(p) THEN <<p>> ELSE Append(buffer, p)

\* Store the fragment; StreamEnd hands the buffer over and is ACKed.
HandleStreamPacket(p) ==
  IF Accepts(p)
  THEN /\ buffer' = Appended(p)
       /\ lastLeft' = PacketsLeft(p)
       /\ active' = ~Stop(p)
       /\ complete' = IF Stop(p) THEN buffer' ELSE complete
  ELSE UNCHANGED receiverVars

-----------------------------------------------------------------------------
(* The radio.                                                              *)

Reaches(p) == HandleStreamPacket(p) /\ gap' = (gap /\ ~Start(p))

Hear == TxDone /\ Reaches(slot) /\ UNCHANGED faults

Lose ==
  /\ faults > 0
  /\ TxDone
  /\ gap' = TRUE /\ faults' = faults - 1
  /\ UNCHANGED receiverVars

\* A watchdog gives up the slot and the stream with it, after a fragment that
\* was never sent, or one that was heard and whose TX_DONE was missed.
RecoverToIdle ==
  /\ tx # None /\ faults > 0
  /\ slot' = None /\ tx' = None
  /\ faults' = faults - 1
  /\ \/ gap' = TRUE /\ UNCHANGED receiverVars
     \/ slot # None /\ Reaches(slot)

-----------------------------------------------------------------------------
Sender == QueueNextStreamPacket \/ Hear

Next ==
  \/ \E m \in Messages : ScheduleStreamSend(m)
  \/ Sender \/ Lose \/ RecoverToIdle

Spec == Init /\ [][Next]_vars

\* service() is called from loop() for ever, and TX_DONE comes.
FairSpec == Spec /\ WF_vars(Sender)

-----------------------------------------------------------------------------
(* Properties.                                                             *)

\* Every variable has its type; no buffer grows past its 16 fragments.
TypeOK ==
  /\ tx \in [msg : Messages, index : 0 .. MaxFragments] \cup {None}
  /\ slot \in Fragment \cup {None}
  /\ active \in BOOLEAN /\ lastLeft \in 0 .. MaxFragments - 1
  /\ buffer \in Seq(Fragment) /\ Len(buffer) <= MaxFragments
  /\ complete \in Seq(Fragment) /\ Len(complete) <= MaxFragments
  /\ gap \in BOOLEAN /\ faults \in 0 .. MaxFaults

\* A buffer counts down without a hole from the start that opened it.
Countdown(b) ==
  \A i \in 1 .. Len(b) : Start(b[1]) /\ PacketsLeft(b[i]) = Size[b[1].msg] - i

\* What is ACKed has the length its first fragment announced, and ends with
\* the last fragment of some message: the length parseStartblockV1 works with.
LengthFromStart ==
  complete # <<>> =>
    /\ Countdown(complete)
    /\ Len(complete) = Size[complete[1].msg]
    /\ Stop(complete[Len(complete)])

\* However often a message is retried, and whichever fragments of whichever
\* attempt arrive: what is ACKed is all of it if it is of one message.
OneMessageIsWhole ==
  (\A i, j \in 1 .. Len(complete) : complete[i].msg = complete[j].msg) =>
    (complete = <<>> \/ complete = Whole(complete[1].msg))

\* Nothing lost between start and end: the ACKed message is the one sent,
\* whatever an abandoned stream left in the buffer before.
WithoutGapIsWhole ==
  [][(complete' # complete /\ ~gap') => complete' = Whole(slot.msg)]_vars

\* Once nothing goes wrong any more, a stream arrives: a reassembly that was
\* abandoned does not stand in the way of the next.
StreamArrives ==
  \A m \in Messages :
    (tx # None /\ tx.msg = m /\ tx.index = 0 /\ faults = 0) ~> complete = Whole(m)

\* StreamDelivery over the state of the link.
Delivery == INSTANCE StreamDelivery WITH
  offered <- IF tx = None THEN None ELSE tx.msg, handed <- complete, torn <- gap

\* The link implements what StreamDelivery promises: no offer is handed over
\* twice or after it was given up, and never anything but its own end.
HandsOverOnce == Delivery!Spec

\* What the comments say and the code does not do: a partial stream is
\* rejected, so that an ACKed buffer is one message.
AckedIsOneMessage == complete # <<>> => complete = Whole(complete[1].msg)
===============================================================================
