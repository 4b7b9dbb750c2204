---------------------------- MODULE RadioService ----------------------------
(***************************************************************************)
(* The LoRa transport core: the one-slot transmit queue, the receive       *)
(* requests and the multi-packet stream that service() drives over an      *)
(* SX126x, together with what the chip and its DIO1 interrupt do.          *)
(*                                                                         *)
(* service() is cut where an interrupt makes a difference: PollIrq reads   *)
(* the interrupt flag (part A and the stream queue), the other actions are *)
(* what one call does after that (parts B, C, D).  Callers run between two *)
(* calls; a callback that sends from inside part A is one of them, because *)
(* service() returns right after it.                                       *)
(*                                                                         *)
(* One unit of time is a backoff.  Ages count up from millis() snapshots,  *)
(* waits count down to deadlines.  A record stands for the fields that     *)
(* mean something only while their valid flag is set: slot for txBuf with  *)
(* txPending, stream for the stream fields with streamMode = Tx.           *)
(***************************************************************************)
EXTENDS Integers

CONSTANTS
  Packets,       \* contents of packets other than stream fragments
  MaxFragments,  \* 16 in the code
  DefaultRx,     \* defaultRxKind: Continuous on a node, None on a gateway
  ToA,           \* longest time on air
  InFlightStuck, \* in-flight watchdog, longer than ToA
  SubmitStuck,   \* TX_SUBMIT_STUCK_MS
  Backoff,       \* longest jitter or CAD backoff
  Window,        \* length of a Timed receive window
  Relax,         \* rxLbtTimeout
  None

RxKind == {"None", "Timed", "Continuous"}
Fragment == 1 .. MaxFragments
Age(limit) == 0 .. limit + 1

\* polite remembers whether scheduleSend was called with a jitter.
Slot == [buf : Packets \cup Fragment, arb : {"None", "CadNeeded"},
         wait : 0 .. Backoff, age : Age(SubmitStuck), polite : BOOLEAN]
Stream == [index : 0 .. MaxFragments, total : Fragment, last : BOOLEAN,
           rxWindow : BOOLEAN]

ASSUME RadioAssumption ==
  /\ MaxFragments \in Nat \ {0}
  /\ Packets \cap Int = {}
  /\ DefaultRx \subseteq {"None", "Continuous"}
  /\ {ToA, Backoff, Window, Relax} \subseteq Nat \ {0}
  /\ InFlightStuck \in Nat /\ ToA < InFlightStuck
  /\ SubmitStuck \in Nat
  /\ None \notin Slot \cup Stream \cup Nat \cup Packets

VARIABLES
  rfMode, changeMode, radioStandby, \* the driver's mode and belief
  slot, txArmed, started,           \* the TX slot; started is None or an age
  rxKind, reqRxKind, defaultRx, rxWindow, rxNumWanted, lastRx,
  stream, aired,                    \* aired: history, fragments sent completely
  dio1Flag, inCall,                 \* inCall: between part A and the rest
  chip, fifo, irq                   \* the chip's state, packet RAM and IRQ register

modeVars == <<rfMode, changeMode, radioStandby>>
txVars == <<slot, txArmed, started>>
rxVars == <<rxKind, reqRxKind, defaultRx, rxWindow, rxNumWanted, lastRx>>
streamVars == <<stream, aired>>
chipVars == <<chip, fifo, irq>>
vars == <<modeVars, txVars, rxVars, streamVars, dio1Flag, inCall, chipVars>>

txPending == slot # None
OnAir == chip \in {"TX", "HUNG"}
Older(age, limit) == IF age = None \/ age > limit THEN age ELSE age + 1
Sooner(n) == IF n = None \/ n = 0 THEN n ELSE n - 1

-----------------------------------------------------------------------------
\* After radioInit(): the chip in standby, the first mode still to be entered.
Init ==
  /\ rfMode = "Idle" /\ changeMode = TRUE /\ radioStandby = TRUE
  /\ slot = None /\ txArmed = FALSE /\ started = None
  /\ defaultRx \in DefaultRx
  /\ reqRxKind = defaultRx /\ rxKind = "None"
  /\ rxWindow = None /\ rxNumWanted = -1 /\ lastRx = Relax
  /\ stream = None /\ aired = 0
  /\ dio1Flag = FALSE /\ inCall = FALSE
  /\ chip = "STANDBY" /\ fifo = None /\ irq = {}

-----------------------------------------------------------------------------
(* Callers, between two calls of service().                                *)

NewSlot(buf, jitter, wait) ==
  [buf |-> buf, arb |-> IF jitter THEN "CadNeeded" ELSE "None",
   wait |-> wait, age |-> 0, polite |-> jitter]

\* scheduleSend: with a jitter under LBT, or at once.
Submit(p, jitter, wait) ==
  /\ ~inCall /\ ~txPending
  /\ ~jitter => wait = 0
  /\ slot' = NewSlot(p, jitter, wait)
  /\ txArmed' = FALSE
  /\ UNCHANGED <<modeVars, started, rxVars, streamVars, dio1Flag, inCall, chipVars>>

\* scheduleStreamSend of n fragments, with or without a reply window after it.
StreamSend(n, window) ==
  /\ ~inCall /\ ~txPending /\ stream = None
  /\ stream' = [index |-> 0, total |-> n, last |-> FALSE, rxWindow |-> window]
  /\ aired' = 0
  /\ UNCHANGED <<modeVars, txVars, rxVars, dio1Flag, inCall, chipVars>>

-----------------------------------------------------------------------------
(* The chip.  A hung chip has lost its TX_DONE.                            *)

ChipTxDone ==
  /\ chip = "TX"
  /\ chip' = "STANDBY"
  /\ irq' = irq \cup {"TX_DONE"}
  /\ dio1Flag' = TRUE
  /\ aired' = IF fifo \in Fragment THEN aired + 1 ELSE aired
  /\ UNCHANGED <<modeVars, txVars, rxVars, stream, inCall, fifo>>

\* Reception overwrites the packet RAM; the chip stays in continuous RX.
ChipRx(event) ==
  /\ chip = "RX"
  /\ irq' = irq \cup {event}
  /\ dio1Flag' = TRUE
  /\ fifo' = None
  /\ UNCHANGED <<modeVars, txVars, rxVars, streamVars, inCall, chip>>

\* A healthy chip ends its transmission within ToA.
Tick ==
  /\ ~inCall
  /\ chip = "TX" => started < ToA
  /\ slot' = IF txPending THEN [slot EXCEPT !.wait = Sooner(@), !.age = Older(@, SubmitStuck)]
             ELSE None
  /\ started' = Older(started, InFlightStuck)
  /\ rxWindow' = Sooner(rxWindow)
  /\ lastRx' = IF lastRx < Relax THEN lastRx + 1 ELSE lastRx
  /\ UNCHANGED <<modeVars, txArmed, rxKind, reqRxKind, defaultRx, rxNumWanted,
                 streamVars, dio1Flag, inCall, chipVars>>

-----------------------------------------------------------------------------
(* recoverToIdle(): drops the slot and the stream, keeps reqRxKind.        *)

\* Mutant: the stream survives the loss of its fragment.
RecoverKeepsStream ==
  /\ chip' = "STANDBY" /\ irq' = {} /\ dio1Flag' = FALSE
  /\ slot' = None /\ txArmed' = FALSE /\ started' = None
  /\ rxKind' = "None" /\ rxWindow' = None /\ rxNumWanted' = -1
  /\ rfMode' = "Idle" /\ changeMode' = TRUE /\ radioStandby' = TRUE
  /\ UNCHANGED <<reqRxKind, defaultRx, lastRx, streamVars, fifo>>

\* Mutant: the requested reception is dropped along with the slot.
RecoverForgetsRx ==
  /\ chip' = "STANDBY" /\ irq' = {} /\ dio1Flag' = FALSE
  /\ slot' = None /\ txArmed' = FALSE /\ started' = None
  /\ rxKind' = "None" /\ rxWindow' = None /\ rxNumWanted' = -1
  /\ rfMode' = "Idle" /\ changeMode' = TRUE /\ radioStandby' = TRUE
  /\ stream' = None
  /\ reqRxKind' = "None"
  /\ UNCHANGED <<defaultRx, lastRx, aired, fifo>>

Recover ==
  /\ chip' = "STANDBY" /\ irq' = {} /\ dio1Flag' = FALSE
  /\ slot' = None /\ txArmed' = FALSE /\ started' = None
  /\ rxKind' = "None" /\ rxWindow' = None /\ rxNumWanted' = -1
  /\ rfMode' = "Idle" /\ changeMode' = TRUE /\ radioStandby' = TRUE
  /\ stream' = None
  /\ UNCHANGED <<reqRxKind, defaultRx, lastRx, aired, fifo>>

-----------------------------------------------------------------------------
(* Part A: the interrupt flag.                                             *)

\* A transmission or reception the mode does not expect: chip to standby,
\* modes as they are.
StaleDone ==
  /\ chip' = "STANDBY"
  /\ radioStandby' = TRUE
  /\ UNCHANGED <<rfMode, changeMode, txVars, rxVars, streamVars, fifo>>

\* TX_DONE frees the slot; after the last fragment it ends the stream and
\* opens the reply window.
TxDone ==
  /\ slot' = None /\ txArmed' = FALSE /\ started' = None
  /\ rfMode' = "Idle" /\ changeMode' = TRUE /\ radioStandby' = TRUE
  /\ IF stream # None /\ stream.last
     THEN /\ stream' = None
          /\ reqRxKind' = IF stream.rxWindow THEN "Timed" ELSE reqRxKind
          /\ rxNumWanted' = IF stream.rxWindow THEN 1 ELSE rxNumWanted
     ELSE UNCHANGED <<stream, reqRxKind, rxNumWanted>>
  /\ UNCHANGED <<rxKind, defaultRx, rxWindow, lastRx, aired, chip, fifo>>

\* RX_DONE: a packet for this node, or one that is filtered or unreadable.
RxDone ==
  /\ \/ /\ rxNumWanted' = IF rxNumWanted > 0 THEN rxNumWanted - 1 ELSE rxNumWanted
        /\ lastRx' = 0
     \/ UNCHANGED <<rxNumWanted, lastRx>>
  /\ UNCHANGED <<modeVars, txVars, rxKind, reqRxKind, defaultRx, rxWindow,
                 streamVars, chip, fifo>>

\* The flag is set: dispatch on the IRQ register, which is cleared, and return.
HandleIrq ==
  /\ ~inCall /\ dio1Flag /\ irq # {}
  /\ dio1Flag' = FALSE /\ irq' = {}
  /\ UNCHANGED inCall
  /\ \/ /\ "TX_DONE" \in irq
        /\ IF rfMode = "Tx" THEN TxDone ELSE StaleDone
     \/ /\ "TX_DONE" \notin irq /\ "RX_DONE" \in irq
        /\ IF rfMode = "Rx" THEN RxDone ELSE StaleDone
     \/ /\ {"TX_DONE", "RX_DONE"} \cap irq = {} /\ "TIMEOUT" \in irq
        /\ Recover
     \/ /\ irq = {"RX_ERR"}
        /\ UNCHANGED <<modeVars, txVars, rxVars, streamVars, chip, fifo>>

\* queueNextStreamPacket, when the slot is free.
QueueFragment ==
  IF ~txPending /\ stream # None /\ stream.index < stream.total
  THEN /\ slot' = NewSlot(stream.index + 1, FALSE, 0)
       /\ txArmed' = FALSE
       /\ stream' = [stream EXCEPT !.index = @ + 1, !.last = (stream.index + 1 = stream.total)]
  ELSE UNCHANGED <<slot, txArmed, stream>>

\* No interrupt, or one whose cause has been cleared meanwhile.
NoIrq ==
  /\ ~inCall /\ (dio1Flag => irq = {})
  /\ dio1Flag' = FALSE
  /\ inCall' = TRUE
  /\ QueueFragment
  /\ UNCHANGED <<modeVars, started, rxVars, aired, chipVars>>

-----------------------------------------------------------------------------
(* Part B: idle.                                                           *)

Return == inCall /\ inCall' = FALSE

\* Nothing to send and no reception requested.
IdleConfirm ==
  /\ Return
  /\ rfMode = "Idle" /\ ~txPending /\ reqRxKind = "None"
  /\ IF rxKind # "None" \/ changeMode
     THEN /\ chip' = IF radioStandby THEN chip ELSE "STANDBY"
          /\ radioStandby' = TRUE
          /\ rxKind' = "None"
          /\ changeMode' = FALSE
     ELSE UNCHANGED <<chip, radioStandby, rxKind, changeMode>>
  /\ UNCHANGED <<rfMode, txVars, reqRxKind, defaultRx, rxWindow, rxNumWanted, lastRx,
                 streamVars, dio1Flag, fifo, irq>>

IdleToRx ==
  /\ Return
  /\ rfMode = "Idle" /\ ~txPending /\ reqRxKind # "None"
  /\ rfMode' = "Rx" /\ changeMode' = TRUE
  /\ UNCHANGED <<radioStandby, txVars, rxVars, streamVars, dio1Flag, chipVars>>

-----------------------------------------------------------------------------
(* Part C: transmit.  Entering Tx puts the chip into standby first.        *)

InTx == rfMode = "Tx" \/ (rfMode = "Idle" /\ txPending)
Entering == rfMode = "Idle" \/ changeMode
AtStandby == Entering \/ radioStandby

\* Mutant: the submission watchdog looks only at a radio that is not idle.
SubmitExpiredInFlight == slot.age > SubmitStuck /\ ~radioStandby
SubmitExpired == slot.age > SubmitStuck

\* Entering Tx skips the standby command when the chip is believed to be there.
ChipAtEntry == IF radioStandby THEN chip ELSE "STANDBY"

\* The submission watchdog.
SubmitWatchdog ==
  /\ Return /\ InTx /\ SubmitExpired
  /\ Recover

\* Transmitting: wait for TX_DONE, under the in-flight watchdog.
InFlight ==
  /\ Return /\ InTx /\ ~SubmitExpired /\ ~AtStandby
  /\ IF started > InFlightStuck
     THEN Recover
     ELSE UNCHANGED <<modeVars, txVars, rxVars, streamVars, dio1Flag, chipVars>>

\* The driver is at standby, with the slot's packet in the packet RAM or not.
TxReady ==
  /\ Return /\ InTx /\ ~SubmitExpired /\ AtStandby
  /\ rfMode' = "Tx" /\ changeMode' = FALSE
  /\ UNCHANGED <<rxVars, streamVars>>

\* prepareTxBuffer fails.
PrepareFails ==
  /\ TxReady /\ ~txArmed
  /\ radioStandby' = TRUE /\ chip' = ChipAtEntry
  /\ slot' = [slot EXCEPT !.arb = "CadNeeded"]
  /\ UNCHANGED <<txArmed, started, dio1Flag, fifo, irq>>

\* Mutant: packet RAM that holds something is taken to be loaded.
PreparedOnce == fifo' = IF fifo # None THEN fifo ELSE slot.buf
Prepared == fifo' = IF txArmed THEN fifo ELSE slot.buf

\* Jitter or backoff still running.
TxWait ==
  /\ TxReady /\ slot.wait > 0
  /\ radioStandby' = TRUE /\ chip' = ChipAtEntry
  /\ Prepared /\ txArmed' = TRUE
  /\ UNCHANGED <<slot, started, dio1Flag, irq>>

\* The scan finds the channel busy, or fails.  Its own IRQ is cleared.
CadBusy(wait) ==
  /\ TxReady /\ slot.wait = 0 /\ slot.arb = "CadNeeded"
  /\ radioStandby' = TRUE /\ chip' = "STANDBY"
  /\ Prepared /\ txArmed' = TRUE
  /\ slot' = [slot EXCEPT !.wait = wait]
  /\ dio1Flag' = FALSE /\ irq' = {}
  /\ UNCHANGED started

\* The channel is free, or was not to be scanned: fire the packet RAM.
Fire(state) ==
  /\ TxReady /\ slot.wait = 0
  /\ radioStandby' = FALSE /\ chip' = state
  /\ Prepared /\ txArmed' = FALSE
  /\ started' = 0
  /\ slot' = [slot EXCEPT !.arb = "None"]
  /\ dio1Flag' = FALSE /\ irq' = {}

\* Mutant: a packet that could not be fired is fired again without a scan.
FireFailsUnscanned ==
  /\ TxReady /\ slot.wait = 0
  /\ radioStandby' = TRUE /\ chip' = ChipAtEntry
  /\ Prepared /\ txArmed' = FALSE
  /\ slot' = [slot EXCEPT !.arb = "None"]
  /\ dio1Flag' = FALSE /\ irq' = {}
  /\ UNCHANGED started

\* setTx or one of the commands before it fails: scan again before a retry.
FireFails ==
  /\ TxReady /\ slot.wait = 0
  /\ radioStandby' = TRUE /\ chip' = ChipAtEntry
  /\ Prepared /\ txArmed' = FALSE
  /\ slot' = [slot EXCEPT !.arb = "CadNeeded"]
  /\ dio1Flag' = FALSE /\ irq' = {}
  /\ UNCHANGED started

-----------------------------------------------------------------------------
(* Part D: receive.                                                        *)

InRx == Return /\ rfMode = "Rx"

\* A pending packet ends reception; the next call enters Tx.
RxYields ==
  /\ InRx /\ txPending
  /\ rxKind' = "None" /\ rxWindow' = None /\ rxNumWanted' = -1
  /\ rfMode' = "Idle" /\ changeMode' = TRUE
  /\ chip' = "STANDBY" /\ radioStandby' = TRUE
  /\ UNCHANGED <<txVars, reqRxKind, defaultRx, lastRx, streamVars, dio1Flag, fifo, irq>>

WindowOpen == rxKind = "Timed" /\ rxWindow # None
WindowOver ==
  /\ rxWindow = 0 \/ rxNumWanted = 0
  /\ rxNumWanted # 0 => lastRx >= Relax

\* The window runs, or its end is relaxed because packets keep coming.
WindowRuns ==
  /\ InRx /\ ~txPending /\ WindowOpen /\ ~WindowOver
  /\ UNCHANGED <<modeVars, txVars, rxVars, streamVars, dio1Flag, chipVars>>

\* Mutant: the chip is taken to be in standby when the window closes.
WindowClosesToStandby ==
  /\ InRx /\ ~txPending /\ WindowOpen /\ WindowOver
  /\ rfMode' = "Idle" /\ changeMode' = TRUE /\ radioStandby' = TRUE
  /\ reqRxKind' = defaultRx
  /\ rxWindow' = None /\ rxNumWanted' = -1
  /\ UNCHANGED <<txVars, rxKind, defaultRx, lastRx, streamVars, dio1Flag, chipVars>>

\* Back to the device's default; the chip keeps receiving meanwhile.
WindowCloses ==
  /\ InRx /\ ~txPending /\ WindowOpen /\ WindowOver
  /\ rfMode' = "Idle" /\ changeMode' = TRUE
  /\ reqRxKind' = defaultRx
  /\ rxWindow' = None /\ rxNumWanted' = -1
  /\ UNCHANGED <<radioStandby, txVars, rxKind, defaultRx, lastRx, streamVars, dio1Flag,
                 chipVars>>

\* startReceive clears the IRQ register, but not dio1Flag.
StartReceive ==
  /\ InRx /\ ~txPending /\ ~WindowOpen /\ (changeMode \/ rxKind # reqRxKind)
  /\ IF changeMode
     THEN chip' = "RX" /\ irq' = {} /\ radioStandby' = FALSE
     ELSE UNCHANGED <<chip, irq, radioStandby>>
  /\ rxWindow' = IF reqRxKind = "Timed" THEN Window ELSE None
  /\ rxKind' = reqRxKind
  /\ changeMode' = FALSE
  /\ UNCHANGED <<rfMode, txVars, reqRxKind, defaultRx, rxNumWanted, lastRx, streamVars,
                 dio1Flag, fifo>>

\* startReceive fails, or there is nothing to change.
RxStays ==
  /\ InRx /\ ~txPending /\ ~WindowOpen
  /\ changeMode \/ rxKind = reqRxKind
  /\ UNCHANGED <<modeVars, txVars, rxVars, streamVars, dio1Flag, chipVars>>

-----------------------------------------------------------------------------
PollIrq == HandleIrq \/ NoIrq

Transmit ==
  \/ SubmitWatchdog \/ InFlight \/ PrepareFails \/ TxWait
  \/ \E w \in 1 .. Backoff : CadBusy(w)
  \/ \E s \in {"TX", "HUNG"} : Fire(s)
  \/ FireFails

Receive == RxYields \/ WindowRuns \/ WindowCloses \/ StartReceive \/ RxStays

Service == PollIrq \/ IdleConfirm \/ IdleToRx \/ Transmit \/ Receive

Caller ==
  \/ \E p \in Packets, jitter \in BOOLEAN, w \in 0 .. Backoff : Submit(p, jitter, w)
  \/ \E n \in Fragment, window \in BOOLEAN : StreamSend(n, window)

Chip == ChipTxDone \/ \E e \in {"RX_DONE", "RX_ERR", "TIMEOUT"} : ChipRx(e)

Next == Service \/ Caller \/ Chip \/ Tick

Spec == Init /\ [][Next]_vars

\* loop() runs many times between two interrupts and time goes on; a healthy
\* chip ends what it sends, and startReceive does not fail for ever.
FairSpec ==
  /\ Spec
  /\ WF_vars(Service) /\ SF_vars(NoIrq) /\ SF_vars(Tick) /\ WF_vars(ChipTxDone)
  /\ SF_vars(StartReceive)
-----------------------------------------------------------------------------
(* Properties.                                                             *)

\* Every variable has its type.
TypeOK ==
  /\ rfMode \in {"Idle", "Tx", "Rx"}
  /\ {changeMode, radioStandby, txArmed, dio1Flag, inCall} \subseteq BOOLEAN
  /\ slot \in Slot \cup {None}
  /\ started \in Age(InFlightStuck) \cup {None}
  /\ {rxKind, reqRxKind} \subseteq RxKind /\ defaultRx \in DefaultRx
  /\ rxWindow \in 0 .. Window \cup {None} /\ rxNumWanted \in -1 .. 1 /\ lastRx \in 0 .. Relax
  /\ stream \in Stream \cup {None} /\ aired \in 0 .. MaxFragments
  /\ chip \in {"STANDBY", "RX", "TX", "HUNG"}
  /\ fifo \in Packets \cup Fragment \cup {None}
  /\ irq \subseteq {"TX_DONE", "RX_DONE", "RX_ERR", "TIMEOUT"}

\* The driver skips a standby command only when the chip needs none: what it
\* believes of the chip is true, and only a slot in Tx mode is ever on air.
BeliefMatchesChip ==
  /\ radioStandby => chip = "STANDBY"
  /\ OnAir => txPending /\ rfMode = "Tx" /\ started # None
  /\ chip = "RX" => rfMode # "Tx"

\* What is fired is what is in the slot: a packet RAM marked as loaded holds
\* the slot's packet, and nothing has received over it.
FifoHoldsSlot == txArmed \/ OnAir => txPending /\ fifo = slot.buf

\* A node in receive mode with nothing left to set up is really listening.
RxModeListens == rfMode = "Rx" /\ ~changeMode => chip = "RX"

\* A packet submitted with a jitter is never fired without a scan: however
\* often loading or firing it failed, the scan is due again.
PoliteScans == txPending /\ slot.polite /\ started = None => slot.arb = "CadNeeded"

\* Fragments go out in order and without a gap, whatever else takes the slot
\* between them: none is queued before the one before it was on air.
StreamInOrder ==
  stream # None =>
    /\ stream.last = (stream.index = stream.total)
    /\ IF txPending /\ slot.buf \in Fragment
       THEN slot.buf = stream.index /\ aired \in {stream.index - 1, stream.index}
       ELSE aired = stream.index

\* A stream that ends on TX_DONE has been sent completely.
StreamCompletes ==
  [][stream # None /\ stream' = None /\ ~inCall /\ "TX_DONE" \in irq
       => aired = stream.total]_vars

\* The slot is never occupied for ever, whatever the channel and the chip do.
SlotFrees == txPending ~> ~txPending

\* A device that listens by default, or was asked to listen, never stays deaf:
\* reception starts, or a packet goes first.
ReceptionResumes ==
  defaultRx = "Continuous" \/ reqRxKind # "None" ~> chip = "RX" \/ txPending

\* What a comment says of the submission watchdog: it catches a packet that
\* is never fired, so it does not cut one off that a healthy chip is sending.
SubmitWatchdogSparesFlight == [][SubmitWatchdog => chip # "TX"]_vars
=============================================================================
