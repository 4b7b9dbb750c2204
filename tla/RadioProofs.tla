----------------------------- MODULE RadioProofs -----------------------------
(***************************************************************************)
(* RadioService for any packets, any length of a stream and any timeouts.  *)
(*                                                                         *)
(* The invariant says what a transmission is: from setTx until its end is  *)
(* handled, the slot, the mode, the belief and the chip agree, and the     *)
(* counters of the stream follow from whether TX_DONE is already pending.  *)
(***************************************************************************)
EXTENDS RadioService, TLAPS

\* An interrupt's cause is never pending without its flag.
FlagOK == irq # {} => dio1Flag

\* Either a packet is in flight, or its TX_DONE is pending, or neither.
FlightOK ==
  /\ started # None =>
       /\ rfMode = "Tx" /\ ~radioStandby /\ ~txArmed /\ slot # None
       /\ \/ chip \in {"TX", "HUNG"} /\ irq = {}
          \/ chip = "STANDBY" /\ irq = {"TX_DONE"}
  /\ started = None => chip \in {"STANDBY", "RX"} /\ "TX_DONE" \notin irq

\* What each mode and the belief imply.
ModeOK ==
  /\ radioStandby => chip = "STANDBY"
  /\ rfMode = "Tx" => slot # None /\ ~changeMode /\ chip # "RX"
  /\ rfMode = "Rx" /\ ~changeMode => chip = "RX"

\* A loaded packet RAM holds the slot's packet, in Tx mode.
LoadOK ==
  /\ txArmed => rfMode = "Tx"
  /\ txArmed \/ started # None => slot # None /\ fifo = slot.buf

ScanOK == slot # None /\ slot.polite /\ started = None => slot.arb = "CadNeeded"

\* The slot's fragment is the one the stream has queued last.
StreamOK ==
  /\ stream # None =>
       /\ stream.index <= stream.total
       /\ stream.last <=> stream.index = stream.total
       /\ stream.last => slot # None /\ slot.buf \in Fragment
  /\ slot # None /\ slot.buf \in Fragment =>
       /\ stream # None /\ slot.buf = stream.index
       /\ aired = IF "TX_DONE" \in irq THEN stream.index ELSE stream.index - 1
  /\ stream # None /\ ~(slot # None /\ slot.buf \in Fragment) => aired = stream.index

RadioInv ==
  TypeOK /\ FlagOK /\ FlightOK /\ ModeOK /\ LoadOK /\ ScanOK /\ StreamOK

-----------------------------------------------------------------------------
LEMMA Constants ==
  /\ MaxFragments \in Nat /\ MaxFragments >= 1
  /\ Packets \cap Fragment = {}
  /\ DefaultRx \subseteq RxKind
  /\ ToA \in Nat /\ Backoff \in Nat /\ Window \in Nat /\ Relax \in Nat
  /\ InFlightStuck \in Nat /\ SubmitStuck \in Nat
  /\ None \notin Slot /\ None \notin Stream /\ None \notin Nat /\ None \notin Packets
  BY RadioAssumption DEF Fragment, RxKind

LEMMA InitInv == Init => RadioInv
<1> SUFFICES ASSUME Init PROVE RadioInv OBVIOUS
<1>1. TypeOK
  <2>1. 0 \in 0 .. MaxFragments /\ Relax \in 0 .. Relax /\ -1 \in -1 .. 1 BY Constants
  <2>2. reqRxKind \in RxKind /\ rxKind \in RxKind BY Constants DEF Init, RxKind
  <2> QED BY <2>1, <2>2 DEF Init, TypeOK
<1>2. FlagOK /\ FlightOK /\ ModeOK /\ LoadOK /\ ScanOK /\ StreamOK
  BY Constants DEF Init, FlagOK, FlightOK, ModeOK, LoadOK, ScanOK, StreamOK
<1> QED BY <1>1, <1>2 DEF RadioInv

(* The callers. *)
LEMMA NewSlotOK ==
  ASSUME NEW b \in Packets \cup Fragment, NEW j \in BOOLEAN, NEW w \in 0 .. Backoff
  PROVE  /\ NewSlot(b, j, w) \in Slot /\ NewSlot(b, j, w).buf = b
         /\ NewSlot(b, j, w).polite => NewSlot(b, j, w).arb = "CadNeeded"
  BY Constants DEF NewSlot, Slot, Age

LEMMA SubmitInv ==
  ASSUME RadioInv, NEW p \in Packets, NEW j \in BOOLEAN, NEW w \in 0 .. Backoff, Submit(p, j, w)
  PROVE  RadioInv'
<1>1. slot = None /\ slot' \in Slot /\ slot'.buf = p /\ slot'.buf \notin Fragment
      /\ (slot'.polite => slot'.arb = "CadNeeded") /\ slot' # None
  BY NewSlotOK, Constants DEF Submit, txPending
<1>2. TypeOK' BY <1>1 DEF RadioInv, TypeOK, Submit, modeVars, rxVars, streamVars, chipVars
<1>3. (FlagOK /\ FlightOK /\ ModeOK /\ LoadOK /\ ScanOK /\ StreamOK)'
  BY <1>1 DEF RadioInv, FlagOK, FlightOK, ModeOK, LoadOK, ScanOK, StreamOK,
              Submit, modeVars, rxVars, streamVars, chipVars
<1> QED BY <1>2, <1>3 DEF RadioInv

LEMMA StreamSendInv ==
  ASSUME RadioInv, NEW n \in Fragment, NEW w \in BOOLEAN, StreamSend(n, w) PROVE RadioInv'
<1>0. n \in Nat /\ n >= 1 BY Constants DEF Fragment
<1>1. stream' = [index |-> 0, total |-> n, last |-> FALSE, rxWindow |-> w]
  BY DEF StreamSend
<1>2. stream' \in Stream
  <2>1. 0 \in 0 .. MaxFragments BY Constants
  <2> QED BY <1>1, <2>1 DEF Stream
<1>3. stream'.index = 0 /\ stream'.total = n /\ stream'.last = FALSE /\ stream' # None
  BY <1>1, <1>2, Constants
<1>4. TypeOK'
  BY <1>2, Constants DEF RadioInv, TypeOK, StreamSend, modeVars, txVars, rxVars, chipVars
<1>5. (FlagOK /\ FlightOK /\ ModeOK /\ LoadOK /\ ScanOK)'
  BY DEF RadioInv, FlagOK, FlightOK, ModeOK, LoadOK, ScanOK,
         StreamSend, modeVars, txVars, chipVars
<1>6. StreamOK'
  <2>1. slot' = None /\ aired' = 0 BY DEF StreamSend, txPending, txVars
  <2> QED BY <1>0, <1>3, <2>1 DEF StreamOK
<1> QED BY <1>4, <1>5, <1>6 DEF RadioInv

(* The chip. *)
LEMMA ChipTxDoneInv == ASSUME RadioInv, ChipTxDone PROVE RadioInv'
<1>1. started # None /\ irq = {} /\ slot # None /\ rfMode = "Tx" /\ ~radioStandby
      /\ fifo = slot.buf
  BY DEF RadioInv, FlightOK, LoadOK, ChipTxDone
<1>2. chip' = "STANDBY" /\ irq' = {"TX_DONE"} /\ dio1Flag'
      /\ UNCHANGED <<rfMode, changeMode, radioStandby, slot, txArmed, started, stream, fifo>>
  BY <1>1 DEF ChipTxDone, modeVars, txVars
<1>3. CASE fifo \in Fragment
  <2>1. stream # None /\ aired = stream.index - 1 /\ aired' = aired + 1 /\ stream \in Stream
    BY <1>1, <1>3 DEF RadioInv, StreamOK, ChipTxDone, TypeOK
  <2>2. aired' = stream.index /\ aired' \in 0 .. MaxFragments
    BY <2>1 DEF Stream
  <2>3. TypeOK'
    BY <1>2, <2>2 DEF RadioInv, TypeOK, ChipTxDone, rxVars, modeVars, txVars
  <2>4. StreamOK' BY <1>1, <1>2, <1>3, <2>1, <2>2 DEF RadioInv, StreamOK
  <2>5. (FlagOK /\ FlightOK /\ ModeOK /\ LoadOK /\ ScanOK)'
    BY <1>1, <1>2 DEF RadioInv, FlagOK, FlightOK, ModeOK, LoadOK, ScanOK
  <2> QED BY <2>3, <2>4, <2>5 DEF RadioInv
<1>4. CASE fifo \notin Fragment
  <2>1. aired' = aired BY <1>4 DEF ChipTxDone
  <2>3. TypeOK'
    BY <1>2, <2>1 DEF RadioInv, TypeOK, ChipTxDone, rxVars, modeVars, txVars
  <2>4. StreamOK' BY <1>1, <1>2, <1>4, <2>1 DEF RadioInv, StreamOK
  <2>5. (FlagOK /\ FlightOK /\ ModeOK /\ LoadOK /\ ScanOK)'
    BY <1>1, <1>2 DEF RadioInv, FlagOK, FlightOK, ModeOK, LoadOK, ScanOK
  <2> QED BY <2>3, <2>4, <2>5 DEF RadioInv
<1> QED BY <1>3, <1>4

LEMMA ChipRxInv ==
  ASSUME RadioInv, NEW e \in {"RX_DONE", "RX_ERR", "TIMEOUT"}, ChipRx(e) PROVE RadioInv'
<1>1. started = None /\ ~radioStandby /\ rfMode # "Tx" /\ ~txArmed
  BY DEF RadioInv, FlightOK, ModeOK, LoadOK, ChipRx
<1>2. TypeOK'
  BY DEF RadioInv, TypeOK, ChipRx, rxVars, modeVars, txVars, streamVars
<1>3. (FlagOK /\ FlightOK /\ ModeOK /\ LoadOK /\ ScanOK /\ StreamOK)'
  BY <1>1 DEF RadioInv, FlagOK, FlightOK, ModeOK, LoadOK, ScanOK, StreamOK, ChipRx,
              modeVars, txVars, streamVars
<1> QED BY <1>2, <1>3 DEF RadioInv

LEMMA TickInv == ASSUME RadioInv, Tick PROVE RadioInv'
<1>0. Backoff \in Nat /\ Window \in Nat /\ Relax \in Nat /\ InFlightStuck \in Nat
      /\ SubmitStuck \in Nat /\ None \notin Nat /\ None \notin Slot
  BY Constants
<1>1. \A w \in 0 .. Backoff : Sooner(w) \in 0 .. Backoff
  BY <1>0 DEF Sooner
<1>2. \A a \in Age(SubmitStuck) : Older(a, SubmitStuck) \in Age(SubmitStuck)
  BY <1>0 DEF Older, Age
<1>3. slot # None => slot' \in Slot /\ slot'.buf = slot.buf /\ slot'.arb = slot.arb
                     /\ slot'.polite = slot.polite
  <2> SUFFICES ASSUME slot # None
               PROVE  slot' \in Slot /\ slot'.buf = slot.buf /\ slot'.arb = slot.arb
                      /\ slot'.polite = slot.polite
    OBVIOUS
  <2>1. slot \in Slot BY DEF RadioInv, TypeOK
  <2> DEFINE w == Sooner(slot.wait)
             a == Older(slot.age, SubmitStuck)
  <2>2. w \in 0 .. Backoff /\ a \in Age(SubmitStuck) BY <1>1, <1>2, <2>1 DEF Slot
  <2>3. slot' = [slot EXCEPT !.wait = w, !.age = a] BY DEF Tick, txPending
  <2> HIDE DEF w, a
  <2> QED BY <2>1, <2>2, <2>3 DEF Slot
<1>4. (slot' = None <=> slot = None) /\ slot' \in Slot \cup {None}
  BY <1>0, <1>3 DEF Tick, txPending
<1>5. started' \in Age(InFlightStuck) \cup {None} /\ (started' = None <=> started = None)
  BY <1>0 DEF RadioInv, TypeOK, Tick, Older, Age
<1>6. rxWindow' \in 0 .. Window \cup {None} /\ lastRx' \in 0 .. Relax
  BY <1>0 DEF RadioInv, TypeOK, Tick, Sooner
<1>7. UNCHANGED <<rfMode, changeMode, radioStandby, txArmed, rxKind, reqRxKind, defaultRx,
                  rxNumWanted, stream, aired, dio1Flag, inCall, chip, fifo, irq>>
  BY DEF Tick, modeVars, streamVars, chipVars
<1>8. TypeOK' BY <1>4, <1>5, <1>6, <1>7 DEF RadioInv, TypeOK
<1>9. (FlagOK /\ FlightOK /\ ModeOK /\ LoadOK /\ ScanOK)'
  BY <1>3, <1>4, <1>5, <1>7 DEF RadioInv, FlagOK, FlightOK, ModeOK, LoadOK, ScanOK
<1>10. StreamOK' BY <1>3, <1>4, <1>7 DEF RadioInv, StreamOK
<1> QED BY <1>8, <1>9, <1>10 DEF RadioInv

-----------------------------------------------------------------------------
(* recoverToIdle.                                                          *)
LEMMA RecoverInv == ASSUME RadioInv, Recover, UNCHANGED inCall \/ inCall' = FALSE PROVE RadioInv'
<1>1. TypeOK'
  <2>1. inCall' \in BOOLEAN BY DEF RadioInv, TypeOK
  <2>2. -1 \in -1 .. 1 OBVIOUS
  <2>3. rxKind' \in RxKind BY DEF Recover, RxKind
  <2> QED BY <2>1, <2>2, <2>3 DEF RadioInv, TypeOK, Recover
<1>2. (FlagOK /\ FlightOK /\ ModeOK /\ LoadOK /\ ScanOK /\ StreamOK)'
  BY DEF Recover, FlagOK, FlightOK, ModeOK, LoadOK, ScanOK, StreamOK
<1> QED BY <1>1, <1>2 DEF RadioInv

(* Part A: the interrupt flag and the stream queue. *)
LEMMA TxDoneInv ==
  ASSUME RadioInv, TxDone, "TX_DONE" \in irq, dio1Flag' = FALSE, irq' = {}, UNCHANGED inCall
  PROVE  RadioInv'
<1>1. started # None /\ slot # None /\ chip = "STANDBY" BY DEF RadioInv, FlightOK
<1>2. /\ rxNumWanted' \in -1 .. 1 /\ reqRxKind' \in RxKind
      /\ stream' \in {stream, None}
  BY DEF RadioInv, TypeOK, TxDone, RxKind
<1>3. TypeOK' BY <1>2 DEF RadioInv, TypeOK, TxDone
<1>4. (FlagOK /\ FlightOK /\ ModeOK /\ LoadOK /\ ScanOK)'
  BY <1>1 DEF TxDone, FlagOK, FlightOK, ModeOK, LoadOK, ScanOK
<1>5. StreamOK'
  <2>1. slot' = None /\ aired' = aired BY DEF TxDone
  <2>2. CASE stream # None /\ stream.last
    BY <2>1, <2>2 DEF TxDone, StreamOK
  <2>3. CASE ~(stream # None /\ stream.last)
    BY <1>1, <2>1, <2>3 DEF RadioInv, TxDone, StreamOK
  <2> QED BY <2>2, <2>3
<1> QED BY <1>3, <1>4, <1>5 DEF RadioInv

LEMMA HandleIrqInv == ASSUME RadioInv, HandleIrq PROVE RadioInv'
<1>0. dio1Flag' = FALSE /\ irq' = {} /\ inCall' = inCall BY DEF HandleIrq
<1>1. CASE "TX_DONE" \in irq
  <2>1. rfMode = "Tx" BY <1>1 DEF RadioInv, FlightOK
  <2>2. TxDone BY <1>1, <2>1 DEF HandleIrq
  <2> QED BY <1>0, <1>1, <2>2, TxDoneInv
<1>2. CASE "TX_DONE" \notin irq /\ "RX_DONE" \in irq
  <2>1. started = None BY <1>2 DEF RadioInv, FlightOK
  <2>2. CASE rfMode = "Rx"
    <3>1. RxDone BY <1>2, <2>2 DEF HandleIrq
    <3>2. UNCHANGED <<rfMode, changeMode, radioStandby, slot, txArmed, started, rxKind,
                      reqRxKind, defaultRx, rxWindow, stream, aired, chip, fifo>>
      BY <3>1 DEF RxDone, modeVars, txVars, streamVars
    <3>3. rxNumWanted' \in -1 .. 1 /\ lastRx' \in 0 .. Relax
      <4>1. rxNumWanted \in -1 .. 1 /\ lastRx \in 0 .. Relax BY DEF RadioInv, TypeOK
      <4>2. 0 \in 0 .. Relax BY Constants
      <4> QED BY <3>1, <4>1, <4>2 DEF RxDone
    <3>4. TypeOK' BY <1>0, <3>2, <3>3 DEF RadioInv, TypeOK
    <3>5. (FlagOK /\ FlightOK /\ ModeOK /\ LoadOK /\ ScanOK /\ StreamOK)'
      BY <1>0, <1>2, <2>1, <3>2
      DEF RadioInv, FlagOK, FlightOK, ModeOK, LoadOK, ScanOK, StreamOK
    <3> QED BY <3>4, <3>5 DEF RadioInv
  <2>3. CASE rfMode # "Rx"
    <3>1. StaleDone BY <1>2, <2>3 DEF HandleIrq
    <3>2. TypeOK' BY <1>0, <3>1 DEF RadioInv, TypeOK, StaleDone, txVars, rxVars, streamVars
    <3>3. (FlagOK /\ FlightOK /\ ModeOK /\ LoadOK /\ ScanOK /\ StreamOK)'
      BY <1>0, <1>2, <2>1, <2>3, <3>1
      DEF RadioInv, FlagOK, FlightOK, ModeOK, LoadOK, ScanOK, StreamOK, StaleDone,
          txVars, rxVars, streamVars
    <3> QED BY <3>2, <3>3 DEF RadioInv
  <2> QED BY <2>2, <2>3
<1>3. CASE "TX_DONE" \notin irq /\ "RX_DONE" \notin irq
  <2>1. started = None \/ irq = {} BY <1>3 DEF RadioInv, FlightOK
  <2>2. irq # {} BY DEF HandleIrq
  <2>3. CASE Recover BY <1>0, <2>3, RecoverInv
  <2>4. CASE UNCHANGED <<modeVars, txVars, rxVars, streamVars, chip, fifo>>
    <3>1. TypeOK' BY <1>0, <2>4 DEF RadioInv, TypeOK, modeVars, txVars, rxVars, streamVars
    <3>2. (FlagOK /\ FlightOK /\ ModeOK /\ LoadOK /\ ScanOK /\ StreamOK)'
      BY <1>0, <1>3, <2>1, <2>2, <2>4
      DEF RadioInv, FlagOK, FlightOK, ModeOK, LoadOK, ScanOK, StreamOK,
          modeVars, txVars, rxVars, streamVars
    <3> QED BY <3>1, <3>2 DEF RadioInv
  <2> QED BY <1>3, <2>3, <2>4 DEF HandleIrq
<1> QED BY <1>1, <1>2, <1>3

LEMMA NoIrqInv == ASSUME RadioInv, NoIrq PROVE RadioInv'
<1>1. irq = {} BY DEF RadioInv, FlagOK, NoIrq
<1>2. dio1Flag' = FALSE /\ inCall' = TRUE
      /\ UNCHANGED <<rfMode, changeMode, radioStandby, started, rxKind, reqRxKind, defaultRx,
                     rxWindow, rxNumWanted, lastRx, aired, chip, fifo, irq>>
  BY DEF NoIrq, modeVars, rxVars, chipVars
<1>3. CASE ~txPending /\ stream # None /\ stream.index < stream.total
  <2>0. slot = None /\ ~txArmed /\ started = None /\ aired = stream.index /\ stream \in Stream
    BY <1>3 DEF RadioInv, TypeOK, FlightOK, LoadOK, StreamOK, txPending
  <2> DEFINE i == stream.index + 1
             l == (i = stream.total)
             u == [stream EXCEPT !.index = i]
  <2>1. stream.index \in Nat /\ stream.total \in 1 .. MaxFragments /\ i \in 1 .. MaxFragments
        /\ stream.index = i - 1 /\ i <= stream.total /\ MaxFragments \in Nat
    BY <1>3, <2>0, Constants DEF Stream, Fragment
  <2>2. slot' = NewSlot(i, FALSE, 0) /\ txArmed' = FALSE
        /\ stream' = [stream EXCEPT !.index = i, !.last = l]
    BY <1>3 DEF NoIrq, QueueFragment
  <2>3. l \in BOOLEAN /\ (l <=> i = stream.total) OBVIOUS
  <2> HIDE DEF i, l
  <2>4. i \in 0 .. MaxFragments BY <2>1
  <2>5. stream' \in Stream /\ stream'.index = i /\ stream'.total = stream.total
        /\ (stream'.last <=> i = stream.total)
    BY <2>0, <2>2, <2>3, <2>4 DEF Stream
  <2>6. i \in Fragment /\ 0 \in 0 .. Backoff BY <2>1, Constants DEF Fragment
  <2>7. slot' \in Slot /\ slot'.buf = i
    BY <2>2, <2>6, NewSlotOK
  <2>7a. slot'.polite = FALSE BY <2>2 DEF NewSlot
  <2>8. slot' # None /\ stream' # None BY <2>5, <2>7, Constants
  <2>9. TypeOK' BY <1>2, <2>2, <2>5, <2>7 DEF RadioInv, TypeOK
  <2>10. (FlagOK /\ FlightOK /\ ModeOK /\ LoadOK /\ ScanOK)'
    BY <1>1, <1>2, <2>0, <2>2, <2>7, <2>7a, <2>8
    DEF RadioInv, FlagOK, FlightOK, ModeOK, LoadOK, ScanOK
  <2>11. StreamOK' BY <1>1, <1>2, <2>0, <2>1, <2>5, <2>6, <2>7, <2>8 DEF StreamOK
  <2> QED BY <2>9, <2>10, <2>11 DEF RadioInv
<1>4. CASE ~(~txPending /\ stream # None /\ stream.index < stream.total)
  <2>1. UNCHANGED <<slot, txArmed, stream>> BY <1>4 DEF NoIrq, QueueFragment
  <2>2. TypeOK' BY <1>2, <2>1 DEF RadioInv, TypeOK
  <2>3. (FlagOK /\ FlightOK /\ ModeOK /\ LoadOK /\ ScanOK /\ StreamOK)'
    BY <1>1, <1>2, <2>1 DEF RadioInv, FlagOK, FlightOK, ModeOK, LoadOK, ScanOK, StreamOK
  <2> QED BY <2>2, <2>3 DEF RadioInv
<1> QED BY <1>3, <1>4

-----------------------------------------------------------------------------
(* Part B: idle. *)
LEMMA IdleInv == ASSUME RadioInv, IdleConfirm \/ IdleToRx PROVE RadioInv'
<1>0. inCall' = FALSE /\ slot = None /\ started = None /\ rfMode = "Idle"
  BY DEF RadioInv, FlightOK, IdleConfirm, IdleToRx, Return, txPending
<1>1. CASE IdleConfirm
  <2>0. rxKind' \in RxKind BY <1>1 DEF IdleConfirm, RadioInv, TypeOK, RxKind
  <2>1. TypeOK'
    BY <1>0, <1>1, <2>0 DEF RadioInv, TypeOK, IdleConfirm, txVars, streamVars
  <2>2. (FlagOK /\ FlightOK /\ ModeOK /\ LoadOK /\ ScanOK /\ StreamOK)'
    BY <1>0, <1>1
    DEF RadioInv, FlagOK, FlightOK, ModeOK, LoadOK, ScanOK, StreamOK, IdleConfirm,
        txVars, streamVars
  <2> QED BY <2>1, <2>2 DEF RadioInv
<1>2. CASE IdleToRx
  <2>1. TypeOK'
    BY <1>0, <1>2 DEF RadioInv, TypeOK, IdleToRx, txVars, rxVars, streamVars, chipVars
  <2>2. (FlagOK /\ FlightOK /\ ModeOK /\ LoadOK /\ ScanOK /\ StreamOK)'
    BY <1>0, <1>2
    DEF RadioInv, FlagOK, FlightOK, ModeOK, LoadOK, ScanOK, StreamOK, IdleToRx,
        txVars, streamVars, chipVars
  <2> QED BY <2>1, <2>2 DEF RadioInv
<1> QED BY <1>1, <1>2

(* Part C: transmit. *)
LEMMA WatchdogInv == ASSUME RadioInv, SubmitWatchdog \/ InFlight PROVE RadioInv'
<1>0. inCall' = FALSE BY DEF SubmitWatchdog, InFlight, Return
<1>1. CASE Recover BY <1>0, <1>1, RecoverInv
<1>2. CASE UNCHANGED <<modeVars, txVars, rxVars, streamVars, dio1Flag, chipVars>>
  <2>1. TypeOK'
    BY <1>0, <1>2 DEF RadioInv, TypeOK, modeVars, txVars, rxVars, streamVars, chipVars
  <2>2. (FlagOK /\ FlightOK /\ ModeOK /\ LoadOK /\ ScanOK /\ StreamOK)'
    BY <1>2 DEF RadioInv, FlagOK, FlightOK, ModeOK, LoadOK, ScanOK, StreamOK,
                modeVars, txVars, streamVars, chipVars
  <2> QED BY <2>1, <2>2 DEF RadioInv
<1> QED BY <1>1, <1>2 DEF SubmitWatchdog, InFlight

(* At standby nothing is in flight; the slot's packet is or gets loaded. *)
LEMMA ReadyOK ==
  ASSUME RadioInv, TxReady
  PROVE  /\ inCall' = FALSE /\ slot \in Slot /\ slot # None
         /\ started = None /\ "TX_DONE" \notin irq /\ chip \in {"STANDBY", "RX"}
         /\ ChipAtEntry = "STANDBY"
         /\ rfMode' = "Tx" /\ changeMode' = FALSE
         /\ UNCHANGED <<rxKind, reqRxKind, defaultRx, rxWindow, rxNumWanted, lastRx,
                        stream, aired>>
         /\ Prepared => fifo' = slot.buf
<1>1. slot # None /\ slot \in Slot
  BY DEF RadioInv, TypeOK, ModeOK, TxReady, InTx, txPending
<1>2. started = None
  BY DEF RadioInv, FlightOK, ModeOK, TxReady, AtStandby, Entering
<1>3. "TX_DONE" \notin irq /\ chip \in {"STANDBY", "RX"} BY <1>2 DEF RadioInv, FlightOK
<1>4. ChipAtEntry = "STANDBY" BY DEF ChipAtEntry, RadioInv, ModeOK
<1>5. Prepared => fifo' = slot.buf BY DEF Prepared, RadioInv, LoadOK
<1> QED BY <1>1, <1>2, <1>3, <1>4, <1>5 DEF TxReady, Return, rxVars, streamVars

(* The slot that is left in the queue: same packet, perhaps to be scanned. *)
LEMMA QueuedInv ==
  ASSUME RadioInv, TxReady, NEW u \in Slot, slot' = u, u.buf = slot.buf, u.polite = slot.polite,
         u.arb \in {slot.arb, "CadNeeded"}, started' = started,
         radioStandby' = TRUE, chip' = "STANDBY",
         txArmed' \in BOOLEAN, fifo' \in {fifo, slot.buf}, txArmed' => fifo' = slot.buf,
         \/ irq' = irq /\ dio1Flag' = dio1Flag
         \/ irq' = {} /\ dio1Flag' = FALSE
  PROVE  RadioInv'
<1>1. /\ inCall' = FALSE /\ slot \in Slot /\ slot # None
      /\ started = None /\ "TX_DONE" \notin irq
      /\ rfMode' = "Tx" /\ changeMode' = FALSE
      /\ UNCHANGED <<rxKind, reqRxKind, defaultRx, rxWindow, rxNumWanted, lastRx,
                     stream, aired>>
  BY ReadyOK
<1>2. u # None /\ u.buf \in Packets \cup Fragment BY Constants DEF Slot
<1>3. TypeOK' BY <1>1, <1>2 DEF RadioInv, TypeOK
<1>4. (FlagOK /\ FlightOK /\ ModeOK /\ LoadOK)'
  BY <1>1, <1>2 DEF RadioInv, FlagOK, FlightOK, ModeOK, LoadOK
<1>5. ScanOK' BY <1>1, <1>2 DEF RadioInv, ScanOK
<1>6. StreamOK' BY <1>1, <1>2 DEF RadioInv, StreamOK
<1> QED BY <1>3, <1>4, <1>5, <1>6 DEF RadioInv

LEMMA QueuedSteps ==
  ASSUME RadioInv,
         PrepareFails \/ TxWait \/ (\E w \in 1 .. Backoff : CadBusy(w)) \/ FireFails
  PROVE  RadioInv'
<1>1. CASE PrepareFails
  <2> DEFINE u == [slot EXCEPT !.arb = "CadNeeded"]
  <2>1. TxReady BY <1>1 DEF PrepareFails
  <2>2. slot \in Slot /\ ChipAtEntry = "STANDBY" BY <2>1, ReadyOK
  <2>3. u \in Slot /\ u.buf = slot.buf /\ u.polite = slot.polite /\ u.arb = "CadNeeded"
    BY <2>2 DEF Slot
  <2>4. slot' = u /\ txArmed' = FALSE /\ UNCHANGED <<started, dio1Flag, fifo, irq>>
        /\ radioStandby' = TRUE /\ chip' = "STANDBY"
    BY <1>1, <2>2 DEF PrepareFails, RadioInv, TypeOK
  <2> HIDE DEF u
  <2> QED BY <2>1, <2>3, <2>4, QueuedInv
<1>2. CASE TxWait
  <2>1. TxReady /\ Prepared BY <1>2 DEF TxWait
  <2>2. slot \in Slot /\ ChipAtEntry = "STANDBY" /\ fifo' = slot.buf BY <2>1, ReadyOK
  <2>3. slot' = slot /\ txArmed' = TRUE /\ UNCHANGED <<started, dio1Flag, irq>>
        /\ radioStandby' = TRUE /\ chip' = "STANDBY"
    BY <1>2, <2>2 DEF TxWait
  <2> QED BY <2>1, <2>2, <2>3, QueuedInv
<1>3. ASSUME NEW w \in 1 .. Backoff, CadBusy(w) PROVE RadioInv'
  <2> DEFINE u == [slot EXCEPT !.wait = w]
  <2>1. TxReady /\ Prepared BY <1>3 DEF CadBusy
  <2>2. slot \in Slot /\ fifo' = slot.buf BY <2>1, ReadyOK
  <2>2a. w \in 0 .. Backoff BY Constants
  <2>3. u \in Slot /\ u.buf = slot.buf /\ u.polite = slot.polite /\ u.arb = slot.arb
    BY <2>2, <2>2a DEF Slot
  <2>4. slot' = u /\ txArmed' = TRUE /\ started' = started /\ dio1Flag' = FALSE /\ irq' = {}
        /\ radioStandby' = TRUE /\ chip' = "STANDBY"
    BY <1>3 DEF CadBusy
  <2> HIDE DEF u
  <2> QED BY <2>1, <2>2, <2>3, <2>4, QueuedInv
<1>4. CASE FireFails
  <2> DEFINE u == [slot EXCEPT !.arb = "CadNeeded"]
  <2>1. TxReady /\ Prepared BY <1>4 DEF FireFails
  <2>2. slot \in Slot /\ ChipAtEntry = "STANDBY" /\ fifo' = slot.buf BY <2>1, ReadyOK
  <2>3. u \in Slot /\ u.buf = slot.buf /\ u.polite = slot.polite /\ u.arb = "CadNeeded"
    BY <2>2 DEF Slot
  <2>4. slot' = u /\ txArmed' = FALSE /\ started' = started /\ dio1Flag' = FALSE /\ irq' = {}
        /\ radioStandby' = TRUE /\ chip' = "STANDBY"
    BY <1>4, <2>2 DEF FireFails
  <2> HIDE DEF u
  <2> QED BY <2>1, <2>2, <2>3, <2>4, QueuedInv
<1> QED BY <1>1, <1>2, <1>3, <1>4

LEMMA FireInv == ASSUME RadioInv, NEW s \in {"TX", "HUNG"}, Fire(s) PROVE RadioInv'
<1> DEFINE u == [slot EXCEPT !.arb = "None"]
<1>1. TxReady /\ Prepared BY DEF Fire
<1>2. /\ inCall' = FALSE /\ slot \in Slot /\ slot # None
      /\ started = None /\ "TX_DONE" \notin irq /\ fifo' = slot.buf
      /\ rfMode' = "Tx" /\ changeMode' = FALSE
      /\ UNCHANGED <<rxKind, reqRxKind, defaultRx, rxWindow, rxNumWanted, lastRx,
                     stream, aired>>
  BY <1>1, ReadyOK
<1>3. u \in Slot /\ u.buf = slot.buf BY <1>2 DEF Slot
<1>4. slot' = u /\ txArmed' = FALSE /\ started' = 0 /\ dio1Flag' = FALSE /\ irq' = {}
      /\ radioStandby' = FALSE /\ chip' = s
  BY DEF Fire
<1> HIDE DEF u
<1>5. u # None /\ u.buf \in Packets \cup Fragment /\ 0 \in Age(InFlightStuck) /\ 0 # None
  BY <1>3, Constants DEF Slot, Age
<1>6. TypeOK' BY <1>2, <1>3, <1>4, <1>5 DEF RadioInv, TypeOK
<1>7. (FlagOK /\ FlightOK /\ ModeOK /\ LoadOK /\ ScanOK)'
  BY <1>2, <1>3, <1>4, <1>5 DEF FlagOK, FlightOK, ModeOK, LoadOK, ScanOK
<1>8. StreamOK' BY <1>2, <1>3, <1>4, <1>5 DEF RadioInv, StreamOK
<1> QED BY <1>6, <1>7, <1>8 DEF RadioInv

(* Part D: receive. *)
LEMMA ReceiveInv == ASSUME RadioInv, Receive PROVE RadioInv'
<1>0. rfMode = "Rx" /\ inCall' = FALSE /\ started = None /\ ~txArmed
      /\ chip \in {"STANDBY", "RX"} /\ "TX_DONE" \notin irq
  BY DEF RadioInv, FlightOK, LoadOK, Receive, RxYields, WindowRuns, WindowCloses, StartReceive,
         RxStays, InRx, Return
<1>1. CASE RxYields
  <2>1. -1 \in -1 .. 1 /\ rxKind' \in RxKind BY <1>1 DEF RxYields, RxKind
  <2>2. TypeOK' BY <1>0, <1>1, <2>1 DEF RadioInv, TypeOK, RxYields, txVars, streamVars
  <2>3. (FlagOK /\ FlightOK /\ ModeOK /\ LoadOK /\ ScanOK /\ StreamOK)'
    BY <1>0, <1>1
    DEF RadioInv, FlagOK, FlightOK, ModeOK, LoadOK, ScanOK, StreamOK, RxYields,
        txVars, streamVars
  <2> QED BY <2>2, <2>3 DEF RadioInv
<1>2. CASE WindowCloses
  <2>1. -1 \in -1 .. 1 /\ defaultRx \in RxKind
    BY Constants DEF RadioInv, TypeOK
  <2>2. TypeOK'
    BY <1>0, <1>2, <2>1 DEF RadioInv, TypeOK, WindowCloses, txVars, streamVars, chipVars
  <2>3. (FlagOK /\ FlightOK /\ ModeOK /\ LoadOK /\ ScanOK /\ StreamOK)'
    BY <1>0, <1>2
    DEF RadioInv, FlagOK, FlightOK, ModeOK, LoadOK, ScanOK, StreamOK, WindowCloses,
        txVars, streamVars, chipVars
  <2> QED BY <2>2, <2>3 DEF RadioInv
<1>3. CASE StartReceive
  <2>1. rxWindow' \in 0 .. Window \cup {None}
    <3>1. Window \in 0 .. Window BY Constants
    <3> QED BY <1>3, <3>1 DEF StartReceive
  <2>2. TypeOK'
    BY <1>0, <1>3, <2>1 DEF RadioInv, TypeOK, StartReceive, txVars, streamVars
  <2>3. (FlagOK /\ FlightOK /\ ModeOK /\ LoadOK /\ ScanOK /\ StreamOK)'
    BY <1>0, <1>3
    DEF RadioInv, FlagOK, FlightOK, ModeOK, LoadOK, ScanOK, StreamOK, StartReceive,
        txVars, streamVars
  <2> QED BY <2>2, <2>3 DEF RadioInv
<1>4. CASE WindowRuns \/ RxStays
  <2>1. UNCHANGED <<modeVars, txVars, rxVars, streamVars, dio1Flag, chipVars>>
    BY <1>4 DEF WindowRuns, RxStays
  <2>2. TypeOK'
    BY <1>0, <2>1 DEF RadioInv, TypeOK, modeVars, txVars, rxVars, streamVars, chipVars
  <2>3. (FlagOK /\ FlightOK /\ ModeOK /\ LoadOK /\ ScanOK /\ StreamOK)'
    BY <2>1 DEF RadioInv, FlagOK, FlightOK, ModeOK, LoadOK, ScanOK, StreamOK,
                modeVars, txVars, streamVars, chipVars
  <2> QED BY <2>2, <2>3 DEF RadioInv
<1> QED BY <1>1, <1>2, <1>3, <1>4 DEF Receive

-----------------------------------------------------------------------------
LEMMA NextInv == RadioInv /\ [Next]_vars => RadioInv'
<1> SUFFICES ASSUME RadioInv, [Next]_vars PROVE RadioInv' OBVIOUS
<1>1. CASE PollIrq BY <1>1, HandleIrqInv, NoIrqInv DEF PollIrq
<1>2. CASE IdleConfirm \/ IdleToRx BY <1>2, IdleInv
<1>3. CASE Transmit BY <1>3, WatchdogInv, QueuedSteps, FireInv DEF Transmit
<1>4. CASE Receive BY <1>4, ReceiveInv
<1>5. CASE Caller BY <1>5, SubmitInv, StreamSendInv DEF Caller
<1>6. CASE Chip BY <1>6, ChipTxDoneInv, ChipRxInv DEF Chip
<1>7. CASE Tick BY <1>7, TickInv
<1>8. CASE UNCHANGED vars
  <2>1. TypeOK'
    BY <1>8 DEF RadioInv, TypeOK, vars, modeVars, txVars, rxVars, streamVars, chipVars
  <2>2. (FlagOK /\ FlightOK /\ ModeOK /\ LoadOK /\ ScanOK /\ StreamOK)'
    BY <1>8 DEF RadioInv, FlagOK, FlightOK, ModeOK, LoadOK, ScanOK, StreamOK,
                vars, modeVars, txVars, streamVars, chipVars
  <2> QED BY <2>1, <2>2 DEF RadioInv
<1> QED BY <1>1, <1>2, <1>3, <1>4, <1>5, <1>6, <1>7, <1>8 DEF Next, Service

LEMMA InvHolds == Spec => []RadioInv
  BY InitInv, NextInv, PTL DEF Spec

-----------------------------------------------------------------------------
(* Every variable keeps its type: no counter of service() runs out of its  *)
(* range, whatever the callers, the chip and the clock do.                 *)
THEOREM TypeCorrect == Spec => []TypeOK
<1>1. RadioInv => TypeOK BY DEF RadioInv
<1> QED BY <1>1, InvHolds, PTL

(* What the driver believes of the chip is true in every interleaving of   *)
(* interrupts with the parts of service().                                 *)
THEOREM BeliefIsTrue == Spec => []BeliefMatchesChip
<1>1. RadioInv => BeliefMatchesChip
  BY DEF RadioInv, FlightOK, ModeOK, BeliefMatchesChip, OnAir, txPending
<1> QED BY <1>1, InvHolds, PTL

(* No packet but the one in the slot is ever fired, although reception and *)
(* failed loads share the packet RAM with it.                              *)
THEOREM SlotIsFired == Spec => []FifoHoldsSlot
<1>1. RadioInv => FifoHoldsSlot
  BY DEF RadioInv, FlightOK, LoadOK, FifoHoldsSlot, OnAir, txPending
<1> QED BY <1>1, InvHolds, PTL

(* A node that has set up its receive mode is receiving. *)
THEOREM ListeningIsReal == Spec => []RxModeListens
<1>1. RadioInv => RxModeListens BY DEF RadioInv, ModeOK, RxModeListens
<1> QED BY <1>1, InvHolds, PTL

(* Listen-before-talk survives every failed load, shot and retry. *)
THEOREM PolitePacketsScan == Spec => []PoliteScans
<1>1. RadioInv => PoliteScans BY DEF RadioInv, ScanOK, PoliteScans, txPending
<1> QED BY <1>1, InvHolds, PTL

(* Fragments of a stream of any length go out in order and without a gap. *)
THEOREM FragmentsInOrder == Spec => []StreamInOrder
<1>1. ASSUME RadioInv PROVE StreamInOrder
  <2> SUFFICES ASSUME stream # None PROVE StreamInOrder BY DEF StreamInOrder
  <2>1. stream \in Stream BY <1>1 DEF RadioInv, TypeOK
  <2>2. stream.last \in BOOLEAN /\ stream.index \in Int BY <2>1 DEF Stream
  <2>3. stream.last <=> stream.index = stream.total BY <1>1 DEF RadioInv, StreamOK
  <2>4. stream.last = (stream.index = stream.total) BY <2>2, <2>3
  <2>5. txPending /\ slot.buf \in Fragment =>
          slot.buf = stream.index /\ aired \in {stream.index - 1, stream.index}
    BY <1>1 DEF RadioInv, StreamOK, txPending
  <2>6. ~(txPending /\ slot.buf \in Fragment) => aired = stream.index
    BY <1>1 DEF RadioInv, StreamOK, txPending
  <2> QED BY <2>4, <2>5, <2>6 DEF StreamInOrder
<1> QED BY <1>1, InvHolds, PTL

(* scheduleStreamSend's completion is never reported early: when TX_DONE   *)
(* ends a stream, all its fragments have been on air.                      *)
THEOREM StreamEndsWhole == Spec => StreamCompletes
<1> DEFINE Ends == stream # None /\ stream' = None /\ ~inCall /\ "TX_DONE" \in irq
<1>1. ASSUME RadioInv, [Next]_vars, Ends PROVE aired = stream.total
  <2>1. rfMode = "Tx" /\ dio1Flag /\ slot # None /\ stream \in Stream
    BY <1>1 DEF RadioInv, FlightOK, FlagOK, TypeOK
  <2>2. ~(UNCHANGED stream) BY <1>1
  <2>3. ~Caller
    BY <1>1, <2>2 DEF Caller, Submit, StreamSend, streamVars
  <2>4. ~Chip /\ ~Tick
    BY <2>2 DEF Chip, ChipTxDone, ChipRx, Tick, streamVars
  <2>5. ~NoIrq BY <1>1, <2>1 DEF NoIrq
  <2>6. ~IdleConfirm /\ ~IdleToRx /\ ~Receive
    BY <1>1 DEF IdleConfirm, IdleToRx, Return, Receive, RxYields, WindowRuns, WindowCloses,
                StartReceive, RxStays, InRx
  <2>7. ~Transmit
    BY <1>1 DEF Transmit, SubmitWatchdog, InFlight, PrepareFails, TxWait, CadBusy, Fire,
                FireFails, TxReady, Return
  <2>8. HandleIrq
    BY <1>1, <2>2, <2>3, <2>4, <2>5, <2>6, <2>7 DEF Next, Service, PollIrq, vars, streamVars
  <2>9. TxDone BY <1>1, <2>1, <2>8 DEF HandleIrq
  <2>10. stream.last BY <1>1, <2>9 DEF TxDone
  <2>11. aired = stream.index /\ stream.index = stream.total
    BY <1>1, <2>10 DEF RadioInv, StreamOK
  <2> QED BY <2>11
<1>2. RadioInv /\ [Next]_vars => [Ends => aired = stream.total]_vars BY <1>1
<1> HIDE DEF Ends
<1>3. Spec => [][Ends => aired = stream.total]_vars BY <1>2, InvHolds, PTL DEF Spec
<1> QED BY <1>3 DEF Ends, StreamCompletes
=============================================================================
