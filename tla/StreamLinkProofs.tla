--------------------------- MODULE StreamLinkProofs ---------------------------
(***************************************************************************)
(* What holds of a stream for every set of messages and every number of    *)
(* faults: what is ACKed is a gapless countdown, all of the message when   *)
(* it is of one message, and the message sent when nothing was lost.       *)
(***************************************************************************)
EXTENDS StreamLink, TLAPS

\* The types, without the bounds on the lengths, which follow below.
Typing ==
  /\ tx \in [msg : Messages, index : 0 .. MaxFragments] \cup {None}
  /\ slot \in Fragment \cup {None}
  /\ active \in BOOLEAN /\ lastLeft \in 0 .. MaxFragments - 1
  /\ buffer \in Seq(Fragment)
  /\ complete \in Seq(Fragment)
  /\ gap \in BOOLEAN /\ faults \in 0 .. MaxFaults

\* What the sender has in its slot is the fragment it queued last.
SenderInv ==
  /\ tx # None => tx.index <= Size[tx.msg]
  /\ slot # None => /\ tx # None
                    /\ slot = [msg |-> tx.msg, pos |-> tx.index]

\* A buffer that was opened by a start and never outgrew its count.
Opened(b) == b # <<>> => Countdown(b) /\ Len(b) <= Size[b[1].msg]

\* A buffer that reached its count.
Ended(b) == b # <<>> => Countdown(b) /\ Len(b) = Size[b[1].msg]

\* lastLeft is what the buffer still lacks.
ReceiverInv ==
  /\ Opened(buffer)
  /\ active => /\ buffer # <<>>
               /\ lastLeft = Size[buffer[1].msg] - Len(buffer)
               /\ lastLeft > 0
  /\ Ended(complete)

\* Without a gap, an active reassembly holds the stream's fragments so far; or
\* the stream was given up, and none but a start comes next.
OneMessage(b) == \A i \in 1 .. Len(b) : b[i].msg = b[1].msg
StartNext == tx = None \/ tx.index = 0 \/ (slot # None /\ tx.index = 1)
Follows ==
  /\ tx # None /\ tx.msg = buffer[1].msg
  /\ tx.index = Len(buffer) + (IF slot = None THEN 0 ELSE 1)
GapInv == (active /\ ~gap) => OneMessage(buffer) /\ (StartNext \/ Follows)

StreamInv == Typing /\ SenderInv /\ ReceiverInv /\ GapInv
-----------------------------------------------------------------------------
(* The receiver.                                                           *)

\* The fragment in the slot is one of its message's.
LEMMA SlotIsFragment ==
  ASSUME Typing, SenderInv, slot # None
  PROVE  /\ slot \in Fragment /\ slot.pos \in Nat /\ slot.pos > 0
         /\ Size[slot.msg] \in Nat /\ slot.pos <= Size[slot.msg]
         /\ Size[slot.msg] <= MaxFragments
BY StreamAssumption DEF Typing, SenderInv, Fragment

\* A start opens a buffer of one.
LEMMA StartOpens ==
  ASSUME NEW p \in Fragment, Start(p)
  PROVE  Countdown(<<p>>) /\ OneMessage(<<p>>)
<1>1. p.pos = 1 /\ p.msg \in Messages /\ Size[p.msg] \in Nat
  BY StreamAssumption DEF Start, Fragment
<1>2. Len(<<p>>) = 1 /\ <<p>>[1] = p
  OBVIOUS
<1>3. QED BY <1>1, <1>2 DEF Countdown, OneMessage, Start, PacketsLeft

\* A fragment with the count that follows goes to its place.
LEMMA NextFits ==
  ASSUME Typing, ReceiverInv, active, NEW p \in Fragment,
         PacketsLeft(p) = lastLeft - 1
  PROVE  LET b == Append(buffer, p)
         IN /\ b \in Seq(Fragment) /\ b # <<>> /\ b[1] = buffer[1]
            /\ Len(b) = Len(buffer) + 1
            /\ Countdown(b)
            /\ PacketsLeft(p) = Size[b[1].msg] - Len(b)
            /\ OneMessage(buffer) /\ p.msg = buffer[1].msg => OneMessage(b)
<1> DEFINE b == Append(buffer, p)
<1>1. /\ buffer \in Seq(Fragment) /\ buffer # <<>> /\ Countdown(buffer)
      /\ lastLeft = Size[buffer[1].msg] - Len(buffer)
  BY DEF Typing, ReceiverInv, Opened
<1>2. Len(buffer) \in Nat /\ Len(buffer) > 0 /\ buffer[1] \in Fragment
  BY <1>1
<1>3. Size[buffer[1].msg] \in Nat
  BY <1>2, StreamAssumption DEF Fragment
<1>4. /\ b \in Seq(Fragment) /\ Len(b) = Len(buffer) + 1 /\ b[Len(b)] = p
      /\ \A i \in 1 .. Len(buffer) : b[i] = buffer[i]
  BY <1>1, <1>2
<1>5. b # <<>> /\ b[1] = buffer[1]
  BY <1>2, <1>4
<1>6. PacketsLeft(p) = Size[b[1].msg] - Len(b)
  BY <1>1, <1>2, <1>3, <1>4, <1>5
<1>7. Countdown(b)
  <2> SUFFICES ASSUME NEW i \in 1 .. Len(b)
               PROVE  Start(b[1]) /\ PacketsLeft(b[i]) = Size[b[1].msg] - i
    BY DEF Countdown
  <2>1. Start(b[1])
    BY <1>1, <1>2, <1>5 DEF Countdown
  <2>2. CASE i = Len(b)
    BY <2>1, <2>2, <1>4, <1>6
  <2>3. CASE i \in 1 .. Len(buffer)
    BY <2>1, <2>3, <1>1, <1>4, <1>5 DEF Countdown
  <2>4. QED BY <2>2, <2>3, <1>2, <1>4
<1>8. ASSUME OneMessage(buffer), p.msg = buffer[1].msg
      PROVE  OneMessage(b)
  <2> SUFFICES ASSUME NEW i \in 1 .. Len(b) PROVE b[i].msg = b[1].msg
    BY DEF OneMessage
  <2>1. CASE i = Len(b)
    BY <2>1, <1>4, <1>5, <1>8
  <2>2. CASE i \in 1 .. Len(buffer)
    BY <2>2, <1>4, <1>5, <1>8 DEF OneMessage
  <2>3. QED BY <2>1, <2>2, <1>2, <1>4
<1>9. QED BY <1>4, <1>5, <1>6, <1>7, <1>8

\* handleStreamPacket keeps the receiver's part of the invariant.
LEMMA ReceiverStep ==
  ASSUME Typing, SenderInv, ReceiverInv, slot # None, HandleStreamPacket(slot)
  PROVE  /\ active' \in BOOLEAN /\ lastLeft' \in 0 .. MaxFragments - 1
         /\ buffer' \in Seq(Fragment) /\ complete' \in Seq(Fragment)
         /\ ReceiverInv'
<1> DEFINE p == slot
<1>1. /\ p \in Fragment /\ p.pos \in Nat /\ p.pos > 0 /\ Size[p.msg] \in Nat
      /\ p.pos <= Size[p.msg] /\ Size[p.msg] <= MaxFragments /\ MaxFragments \in Nat
  BY SlotIsFragment, StreamAssumption
<1>2. PacketsLeft(p) \in 0 .. MaxFragments - 1 /\ (Stop(p) <=> PacketsLeft(p) = 0)
  BY <1>1 DEF PacketsLeft, Stop
<1>3. CASE ~Accepts(p)
  BY <1>3 DEF HandleStreamPacket, receiverVars, Typing, ReceiverInv, Opened, Ended, Countdown
<1>4. ASSUME Accepts(p),
             buffer' \in Seq(Fragment), buffer' # <<>>, Countdown(buffer'),
             PacketsLeft(p) = Size[buffer'[1].msg] - Len(buffer')
      PROVE  /\ active' \in BOOLEAN /\ lastLeft' \in 0 .. MaxFragments - 1
             /\ buffer' \in Seq(Fragment) /\ complete' \in Seq(Fragment)
             /\ ReceiverInv'
  <2>1. lastLeft' = PacketsLeft(p) /\ complete' = IF Stop(p) THEN buffer' ELSE complete
    BY <1>4 DEF HandleStreamPacket
  <2>2. active' = ~Stop(p)
    BY <1>4 DEF HandleStreamPacket
  <2>3. active' \in BOOLEAN
    BY <2>2
  <2>4. Len(buffer') \in Nat /\ Len(buffer') > 0 /\ buffer'[1] \in Fragment
    BY <1>4
  <2>5. Size[buffer'[1].msg] \in Nat
    BY <2>4, StreamAssumption DEF Fragment
  <2>6. Opened(buffer')
    BY <1>2, <1>4, <2>4, <2>5 DEF Opened
  <2>7. ASSUME active'
        PROVE  lastLeft' = Size[buffer'[1].msg] - Len(buffer') /\ lastLeft' > 0
    <3>1. ~Stop(p)
      BY <2>2, <2>7
    <3>2. PacketsLeft(p) > 0
      BY <3>1, <1>2
    <3>3. QED BY <3>2, <1>4, <2>1
  <2>8. Ended(complete')
    <3>1. CASE Stop(p)
      BY <3>1, <1>2, <1>4, <2>1, <2>4, <2>5 DEF Ended
    <3>2. CASE ~Stop(p)
      BY <3>2, <2>1 DEF ReceiverInv, Ended
    <3>3. QED BY <3>1, <3>2
  <2>9. complete' \in Seq(Fragment)
    BY <2>1, <1>4 DEF Typing
  <2>10. ReceiverInv'
    BY <1>4, <2>6, <2>7, <2>8 DEF ReceiverInv, Opened, Ended, Countdown
  <2>11. QED BY <1>2, <1>4, <2>1, <2>3, <2>9, <2>10
<1>5. CASE Start(p)
  <2>1. Accepts(p) /\ buffer' = <<p>>
    BY <1>5 DEF HandleStreamPacket, Accepts, Appended
  <2>2. buffer' \in Seq(Fragment) /\ buffer' # <<>> /\ Len(buffer') = 1 /\ buffer'[1] = p
    BY <2>1, <1>1
  <2>3. Countdown(buffer')
    BY <2>1, <1>1, <1>5, StartOpens
  <2>4. PacketsLeft(p) = Size[buffer'[1].msg] - Len(buffer')
    BY <2>2, <1>1, <1>5 DEF Start, PacketsLeft
  <2>5. QED BY <2>1, <2>2, <2>3, <2>4, <1>4
<1>6. CASE Accepts(p) /\ ~Start(p)
  <2>1. active /\ PacketsLeft(p) = lastLeft - 1 /\ buffer' = Append(buffer, p)
    BY <1>6 DEF HandleStreamPacket, Accepts, Appended
  <2>2. QED BY <1>1, <1>4, <1>6, <2>1, NextFits
<1>7. QED BY <1>3, <1>5, <1>6
-----------------------------------------------------------------------------
(* The invariant.                                                          *)

LEMMA InitInv == Init => StreamInv
<1> SUFFICES ASSUME Init PROVE StreamInv
  OBVIOUS
<1>1. active \in BOOLEAN /\ gap \in BOOLEAN
  BY DEF Init
<1>2. Typing
  BY <1>1, StreamAssumption DEF Init, Typing
<1>3. SenderInv /\ ReceiverInv /\ GapInv
  BY DEF Init, SenderInv, ReceiverInv, Opened, Ended, GapInv
<1>4. QED BY <1>2, <1>3 DEF StreamInv

\* A step that does not concern the receiver keeps its part.
LEMMA ReceiverKept ==
  ASSUME ReceiverInv, UNCHANGED receiverVars
  PROVE  ReceiverInv'
BY DEF ReceiverInv, receiverVars, Opened, Ended, Countdown

\* A fragment that is heard keeps the reassembly gapless, or leaves none, or
\* is a start and opens one.
LEMMA HearingKeepsOneMessage ==
  ASSUME StreamInv, slot # None, Reaches(slot), active', ~gap'
  PROVE  /\ OneMessage(buffer')
         /\ buffer'[1].msg = tx.msg /\ tx.index = Len(buffer')
<1>1. /\ slot \in Fragment /\ slot.pos \in Nat /\ slot.pos > 0
      /\ tx # None /\ slot = [msg |-> tx.msg, pos |-> tx.index]
  BY SlotIsFragment DEF StreamInv, SenderInv
<1>2. slot.msg = tx.msg /\ slot.pos = tx.index
  BY <1>1
<1>3. HandleStreamPacket(slot) /\ (gap' <=> gap /\ ~Start(slot))
  BY DEF Reaches
<1>4. CASE Start(slot)
  <2>1. buffer' = <<slot>>
    BY <1>3, <1>4 DEF HandleStreamPacket, Accepts, Appended
  <2>2. QED BY <2>1, <1>1, <1>2, <1>4, StartOpens DEF Start
<1>5. CASE ~Start(slot)
  <2>1. ~gap /\ active
    BY <1>3, <1>5 DEF HandleStreamPacket, Accepts, receiverVars
  <2>2. OneMessage(buffer) /\ (StartNext \/ Follows)
    BY <2>1 DEF StreamInv, GapInv
  <2>3. ~StartNext
    BY <1>1, <1>2, <1>5 DEF StartNext, Start
  <2>4. Follows /\ tx.msg = buffer[1].msg /\ tx.index = Len(buffer) + 1
    BY <2>2, <2>3 DEF Follows
  <2>5. Typing /\ ReceiverInv /\ buffer # <<>> /\ buffer \in Seq(Fragment)
    BY <2>1 DEF StreamInv, ReceiverInv, Typing
  <2>6. buffer[1] \in Fragment /\ Len(buffer) \in Nat
    BY <2>5
  <2>7. Size[tx.msg] \in Nat
    BY <2>4, <2>6, StreamAssumption DEF Fragment
  <2>8. PacketsLeft(slot) = lastLeft - 1
    BY <1>2, <2>1, <2>4, <2>5, <2>6, <2>7 DEF PacketsLeft, ReceiverInv
  <2>9. buffer' = Append(buffer, slot)
    BY <1>3, <1>5, <2>1, <2>8 DEF HandleStreamPacket, Accepts, Appended
  <2>10. /\ buffer'[1] = buffer[1] /\ Len(buffer') = Len(buffer) + 1
         /\ OneMessage(buffer')
    BY <1>1, <1>2, <2>1, <2>2, <2>4, <2>5, <2>8, <2>9, NextFits
  <2>11. QED BY <2>4, <2>10
<1>6. QED BY <1>4, <1>5

LEMMA ScheduleKeepsInv ==
  ASSUME StreamInv, NEW m \in Messages, ScheduleStreamSend(m)
  PROVE  StreamInv'
<1>1. tx' = [msg |-> m, index |-> 0] /\ slot' = None /\ UNCHANGED <<receiverVars, gap, faults>>
  BY DEF ScheduleStreamSend
<1>2. tx' \in [msg : Messages, index : 0 .. MaxFragments] /\ 0 <= Size[m]
  BY <1>1, StreamAssumption
<1>3. Typing'
  BY <1>1, <1>2 DEF StreamInv, Typing, receiverVars
<1>4. SenderInv'
  BY <1>1, <1>2 DEF SenderInv
<1>5. ReceiverInv'
  BY <1>1, ReceiverKept DEF StreamInv
<1>6. GapInv'
  BY <1>1 DEF StreamInv, GapInv, StartNext, OneMessage, receiverVars
<1>7. QED BY <1>3, <1>4, <1>5, <1>6 DEF StreamInv

LEMMA QueueKeepsInv ==
  ASSUME StreamInv, QueueNextStreamPacket
  PROVE  StreamInv'
<1>1. /\ tx # None /\ slot = None /\ tx.index < Size[tx.msg]
      /\ slot' = [msg |-> tx.msg, pos |-> tx.index + 1]
      /\ tx' = [tx EXCEPT !.index = @ + 1]
      /\ UNCHANGED <<receiverVars, gap, faults>>
  BY DEF QueueNextStreamPacket
<1>2. /\ tx \in [msg : Messages, index : 0 .. MaxFragments]
      /\ Size[tx.msg] \in 1 .. MaxFragments /\ MaxFragments \in Nat
  BY <1>1, StreamAssumption DEF StreamInv, Typing
<1>3. /\ tx' \in [msg : Messages, index : 0 .. MaxFragments]
      /\ tx'.msg = tx.msg /\ tx'.index = tx.index + 1
      /\ slot' \in Fragment
  BY <1>1, <1>2 DEF Fragment
<1>4. tx' # None /\ slot' # None
  BY <1>3, StreamAssumption DEF Fragment
<1>5. Typing'
  BY <1>1, <1>3 DEF StreamInv, Typing, receiverVars
<1>6. SenderInv'
  BY <1>1, <1>2, <1>3, <1>4 DEF SenderInv
<1>7. ReceiverInv'
  BY <1>1, ReceiverKept DEF StreamInv
<1>8. GapInv'
  BY <1>1, <1>2, <1>3, <1>4 DEF StreamInv, GapInv, StartNext, Follows, OneMessage, receiverVars
<1>9. QED BY <1>5, <1>6, <1>7, <1>8 DEF StreamInv

LEMMA HearKeepsInv ==
  ASSUME StreamInv, Hear
  PROVE  StreamInv'
<1>1. /\ slot # None /\ slot' = None /\ Reaches(slot) /\ UNCHANGED faults
      /\ tx' = IF tx.index = Size[tx.msg] THEN None ELSE tx
  BY DEF Hear, TxDone
<1>2. HandleStreamPacket(slot) /\ gap' = (gap /\ ~Start(slot))
  BY <1>1 DEF Reaches
<1>3. gap' \in BOOLEAN
  BY <1>2
<1>4. /\ active' \in BOOLEAN /\ lastLeft' \in 0 .. MaxFragments - 1
      /\ buffer' \in Seq(Fragment) /\ complete' \in Seq(Fragment)
      /\ ReceiverInv'
  BY <1>1, <1>2, ReceiverStep DEF StreamInv
<1>5. Typing'
  BY <1>1, <1>3, <1>4 DEF StreamInv, Typing
<1>6. SenderInv'
  BY <1>1 DEF StreamInv, SenderInv
<1>7. ASSUME active', ~gap'
      PROVE  OneMessage(buffer') /\ (StartNext' \/ Follows')
  <2>1. OneMessage(buffer') /\ buffer'[1].msg = tx.msg /\ tx.index = Len(buffer')
    BY <1>1, <1>7, HearingKeepsOneMessage
  <2>2. CASE tx' = None
    BY <2>1, <2>2 DEF StartNext
  <2>3. CASE tx' # None
    <3>1. tx' = tx
      BY <1>1, <2>3
    <3>2. Len(buffer') \in Nat
      BY <1>4
    <3>3. Follows'
      BY <1>1, <2>1, <2>3, <3>1, <3>2 DEF Follows
    <3>4. QED BY <2>1, <3>3
  <2>4. QED BY <2>2, <2>3
<1>8. GapInv'
  BY <1>7 DEF GapInv, OneMessage
<1>9. QED BY <1>4, <1>5, <1>6, <1>8 DEF StreamInv

LEMMA LoseKeepsInv ==
  ASSUME StreamInv, Lose
  PROVE  StreamInv'
<1>1. /\ slot' = None /\ gap' = TRUE /\ UNCHANGED receiverVars
      /\ tx' = (IF tx.index = Size[tx.msg] THEN None ELSE tx)
      /\ faults > 0 /\ faults' = faults - 1
  BY DEF Lose, TxDone
<1>2. faults' \in 0 .. MaxFaults
  BY <1>1, StreamAssumption DEF StreamInv, Typing
<1>3. Typing'
  BY <1>1, <1>2 DEF StreamInv, Typing, receiverVars
<1>4. SenderInv' /\ GapInv'
  BY <1>1 DEF StreamInv, SenderInv, GapInv
<1>5. QED BY <1>1, <1>3, <1>4, ReceiverKept DEF StreamInv

LEMMA RecoverKeepsInv ==
  ASSUME StreamInv, RecoverToIdle
  PROVE  StreamInv'
<1>1. slot' = None /\ tx' = None /\ faults > 0 /\ faults' = faults - 1
  BY DEF RecoverToIdle
<1>2. faults' \in 0 .. MaxFaults
  BY <1>1, StreamAssumption DEF StreamInv, Typing
<1>3. SenderInv'
  BY <1>1 DEF SenderInv
<1>4. CASE gap' = TRUE /\ UNCHANGED receiverVars
  <2>1. Typing'
    BY <1>1, <1>2, <1>4 DEF StreamInv, Typing, receiverVars
  <2>2. GapInv'
    BY <1>4 DEF GapInv
  <2>3. QED BY <1>3, <1>4, <2>1, <2>2, ReceiverKept DEF StreamInv
<1>5. CASE slot # None /\ Reaches(slot)
  <2>1. HandleStreamPacket(slot) /\ gap' = (gap /\ ~Start(slot))
    BY <1>5 DEF Reaches
  <2>2. gap' \in BOOLEAN
    BY <2>1
  <2>3. /\ active' \in BOOLEAN /\ lastLeft' \in 0 .. MaxFragments - 1
        /\ buffer' \in Seq(Fragment) /\ complete' \in Seq(Fragment)
        /\ ReceiverInv'
    BY <1>5, <2>1, ReceiverStep DEF StreamInv
  <2>4. Typing'
    BY <1>1, <1>2, <2>2, <2>3 DEF StreamInv, Typing
  <2>5. ASSUME active', ~gap' PROVE OneMessage(buffer') /\ StartNext'
    BY <1>1, <1>5, <2>5, HearingKeepsOneMessage DEF StartNext
  <2>6. GapInv'
    BY <2>5 DEF GapInv, OneMessage
  <2>7. QED BY <1>3, <2>3, <2>4, <2>6 DEF StreamInv
<1>6. QED BY <1>4, <1>5 DEF RecoverToIdle

LEMMA NextKeepsInv == StreamInv /\ [Next]_vars => StreamInv'
<1> SUFFICES ASSUME StreamInv, [Next]_vars PROVE StreamInv'
  OBVIOUS
<1>1. CASE UNCHANGED vars
  BY <1>1 DEF vars, senderVars, receiverVars, StreamInv, Typing, SenderInv, ReceiverInv,
              GapInv, Opened, Ended, Countdown, OneMessage, StartNext, Follows
<1>2. CASE Next
  BY <1>2, ScheduleKeepsInv, QueueKeepsInv, HearKeepsInv, LoseKeepsInv, RecoverKeepsInv
     DEF Next, Sender
<1>3. QED BY <1>1, <1>2

LEMMA StreamInvariant == Spec => []StreamInv
BY InitInv, NextKeepsInv, PTL DEF Spec
-----------------------------------------------------------------------------
(* The theorems.                                                           *)

\* A countdown of fragments of one message that reached its count is all of it.
LEMMA CountdownOfOneIsWhole ==
  ASSUME NEW b \in Seq(Fragment), b # <<>>, Ended(b), OneMessage(b)
  PROVE  b = Whole(b[1].msg)
<1> DEFINE m == b[1].msg
<1>1. Len(b) = Size[m] /\ Countdown(b)
  BY DEF Ended
<1>2. Len(b) \in Nat /\ \A i \in 1 .. Len(b) : b[i] \in Fragment
  OBVIOUS
<1>3. ASSUME NEW i \in 1 .. Len(b)
      PROVE  b[i] = [msg |-> m, pos |-> i]
  <2>1. b[i] \in Fragment /\ b[i].msg = m
    BY <1>2 DEF OneMessage
  <2>2. PacketsLeft(b[i]) = Size[m] - i
    BY <1>1 DEF Countdown
  <2>3. b[i].pos = i
    BY <1>1, <1>2, <2>1, <2>2 DEF PacketsLeft, Fragment
  <2>4. QED BY <2>1, <2>3 DEF Fragment
<1>4. b = [i \in 1 .. Len(b) |-> b[i]]
  OBVIOUS
<1>5. QED BY <1>1, <1>3, <1>4 DEF Whole

\* The types hold, and neither the reassembly nor what it hands over outgrows
\* the 16 fragments of streamBuf.
THEOREM TypeCorrect == Spec => []TypeOK
<1>1. ASSUME NEW b \in Seq(Fragment), Opened(b) \/ Ended(b)
      PROVE  Len(b) <= MaxFragments
  <2>1. CASE b = <<>>
    BY <2>1, StreamAssumption
  <2>2. CASE b # <<>>
    <3>1. b[1] \in Fragment /\ Len(b) \in Nat
      BY <2>2
    <3>2. Size[b[1].msg] \in 1 .. MaxFragments /\ MaxFragments \in Nat
      BY <3>1, StreamAssumption DEF Fragment
    <3>3. Len(b) <= Size[b[1].msg]
      BY <1>1, <2>2, <3>1, <3>2 DEF Opened, Ended
    <3>4. QED BY <3>1, <3>2, <3>3
  <2>3. QED BY <2>1, <2>2
<1>2. StreamInv => TypeOK
  BY <1>1 DEF StreamInv, Typing, ReceiverInv, TypeOK
<1>3. QED BY <1>2, StreamInvariant, PTL

\* handleStreamPacket ACKs only buffers that count down without a hole from
\* their start to the last fragment of a message.
THEOREM AckedHasItsLength == Spec => []LengthFromStart
<1>1. ASSUME StreamInv, complete # <<>>
      PROVE  Stop(complete[Len(complete)])
  <2>1. /\ complete \in Seq(Fragment) /\ Countdown(complete)
        /\ Len(complete) = Size[complete[1].msg]
    BY <1>1 DEF StreamInv, Typing, ReceiverInv, Ended
  <2>2. Len(complete) \in 1 .. Len(complete) /\ complete[Len(complete)] \in Fragment
    BY <1>1, <2>1
  <2>3. PacketsLeft(complete[Len(complete)]) = 0
    BY <2>1, <2>2 DEF Countdown
  <2>4. Size[complete[Len(complete)].msg] \in Nat
    BY <2>2, StreamAssumption DEF Fragment
  <2>5. QED BY <2>2, <2>3, <2>4 DEF PacketsLeft, Stop, Fragment
<1>2. StreamInv => LengthFromStart
  BY <1>1 DEF StreamInv, ReceiverInv, Ended, LengthFromStart
<1>3. QED BY <1>2, StreamInvariant, PTL

\* Retries and losses in any order never make anything but the message out of
\* the fragments of one message.
THEOREM RetriesAreWhole == Spec => []OneMessageIsWhole
<1>1. ASSUME StreamInv, complete # <<>>,
             \A i, j \in 1 .. Len(complete) : complete[i].msg = complete[j].msg
      PROVE  complete = Whole(complete[1].msg)
  <2>1. complete \in Seq(Fragment) /\ Ended(complete)
    BY <1>1 DEF StreamInv, Typing, ReceiverInv
  <2>2. 1 \in 1 .. Len(complete)
    BY <1>1, <2>1
  <2>3. OneMessage(complete)
    BY <1>1, <2>2 DEF OneMessage
  <2>4. QED BY <1>1, <2>1, <2>3, CountdownOfOneIsWhole
<1>2. StreamInv => OneMessageIsWhole
  BY <1>1 DEF OneMessageIsWhole
<1>3. QED BY <1>2, StreamInvariant, PTL

\* A fragment that ends a reassembly without a gap ends the message it is of.
LEMMA EndingWithoutGap ==
  ASSUME StreamInv, slot # None, Reaches(slot), complete' # complete, ~gap'
  PROVE  complete' = Whole(slot.msg)
<1>1. /\ Typing /\ SenderInv /\ ReceiverInv
      /\ HandleStreamPacket(slot) /\ (gap' <=> gap /\ ~Start(slot))
  BY DEF StreamInv, Reaches
<1>2. Accepts(slot) /\ Stop(slot) /\ complete' = buffer' /\ buffer' = Appended(slot)
  BY <1>1 DEF HandleStreamPacket, receiverVars
<1>3. complete' \in Seq(Fragment) /\ ReceiverInv'
  BY <1>1, ReceiverStep
<1>4. /\ slot \in Fragment /\ slot.pos \in Nat /\ slot.pos > 0
      /\ tx # None /\ slot.msg = tx.msg /\ slot.pos = tx.index
  BY <1>1, SlotIsFragment DEF SenderInv
<1>5. complete' # <<>> /\ OneMessage(complete') /\ complete'[1].msg = slot.msg
  <2>1. CASE Start(slot)
    <3>1. complete' = <<slot>>
      BY <1>2, <2>1 DEF Appended
    <3>2. QED BY <3>1, <1>4, <2>1, StartOpens
  <2>2. CASE ~Start(slot)
    <3>1. active /\ PacketsLeft(slot) = lastLeft - 1 /\ ~gap /\ complete' = Append(buffer, slot)
      BY <1>1, <1>2, <2>2 DEF Accepts, Appended
    <3>2. OneMessage(buffer) /\ (StartNext \/ Follows)
      BY <3>1 DEF StreamInv, GapInv
    <3>3. Follows
      BY <1>4, <2>2, <3>2 DEF StartNext, Start
    <3>4. slot.msg = buffer[1].msg
      BY <1>4, <3>3 DEF Follows
    <3>5. QED BY <1>1, <1>4, <3>1, <3>2, <3>4, NextFits
  <2>3. QED BY <2>1, <2>2
<1>6. Ended(complete')
  BY <1>3 DEF ReceiverInv, Ended, Countdown
<1>7. QED BY <1>3, <1>5, <1>6, CountdownOfOneIsWhole

\* A stream of which nothing is lost arrives as it was sent, whatever an
\* abandoned stream had left in the buffer.
THEOREM GaplessIsWhole == Spec => WithoutGapIsWhole
<1>1. ASSUME StreamInv, [Next]_vars, complete' # complete, ~gap'
      PROVE  complete' = Whole(slot.msg)
  <2>1. CASE UNCHANGED vars
    BY <1>1, <2>1 DEF vars, receiverVars
  <2>2. CASE Next
    <3>1. CASE Hear
      BY <1>1, <3>1, EndingWithoutGap DEF Hear, TxDone
    <3>2. CASE RecoverToIdle
      BY <1>1, <3>2, EndingWithoutGap DEF RecoverToIdle, receiverVars
    <3>3. CASE Lose
      BY <1>1, <3>3 DEF Lose
    <3>4. CASE (\E m \in Messages : ScheduleStreamSend(m)) \/ QueueNextStreamPacket
      BY <1>1, <3>4 DEF ScheduleStreamSend, QueueNextStreamPacket, receiverVars
    <3>5. QED BY <2>2, <3>1, <3>2, <3>3, <3>4 DEF Next, Sender
  <2>3. QED BY <1>1, <2>1, <2>2
<1>2. StreamInv /\ [Next]_vars => [(complete' # complete /\ ~gap') => complete' = Whole(slot.msg)]_vars
  BY <1>1
<1>3. QED BY <1>2, StreamInvariant, PTL DEF Spec, WithoutGapIsWhole
-----------------------------------------------------------------------------
(* The refinement.                                                         *)

\* A fragment that ends a reassembly is the last of its message, and what is
\* handed over counts down to it.
LEMMA EndingPassesForMessage ==
  ASSUME StreamInv, slot # None, Reaches(slot), complete' # complete
  PROVE  /\ Delivery!MayPassFor(complete', tx.msg)
         /\ tx # None /\ tx.index = Size[tx.msg]
<1>1. /\ Typing /\ SenderInv /\ ReceiverInv /\ HandleStreamPacket(slot)
  BY DEF StreamInv, Reaches
<1>2. Accepts(slot) /\ Stop(slot) /\ complete' = buffer' /\ buffer' = Appended(slot)
  BY <1>1 DEF HandleStreamPacket, receiverVars
<1>3. complete' \in Seq(Fragment) /\ Ended(complete')
  <2>1. complete' \in Seq(Fragment) /\ ReceiverInv'
    BY <1>1, ReceiverStep
  <2>2. QED BY <2>1 DEF ReceiverInv, Ended, Countdown
<1>4. /\ slot \in Fragment /\ tx # None /\ slot.msg = tx.msg /\ slot.pos = tx.index
      /\ Size[tx.msg] \in Nat
  BY <1>1, SlotIsFragment DEF SenderInv
<1>5. tx.index = Size[tx.msg]
  BY <1>2, <1>4 DEF Stop
<1>6. complete' # <<>> /\ complete'[Len(complete')] = slot
  <2>1. CASE Start(slot)
    BY <1>2, <1>4, <2>1 DEF Appended
  <2>2. CASE ~Start(slot)
    BY <1>1, <1>2, <1>4, <2>2 DEF Appended, Typing
  <2>3. QED BY <2>1, <2>2
<1>7. /\ Countdown(complete') /\ Len(complete') = Size[complete'[1].msg]
      /\ Len(complete') \in Nat /\ Len(complete') > 0
  BY <1>3, <1>6 DEF Ended
<1>8. /\ complete'[1].pos = 1
      /\ \A i \in 1 .. Len(complete') :
           Size[complete'[i].msg] - complete'[i].pos = Len(complete') - i
  BY <1>7 DEF Countdown, Start, PacketsLeft
<1>9. QED BY <1>4, <1>5, <1>6, <1>7, <1>8 DEF Delivery!MayPassFor

\* TX_DONE or a watchdog: the offer goes on, is handed over, or is lost.
LEMMA FragmentRefines ==
  ASSUME StreamInv, slot # None, Reaches(slot),
         (tx' = tx /\ ~(tx.index = Size[tx.msg])) \/ tx' = None
  PROVE  Delivery!Next
<1>1. tx # None /\ slot.msg = tx.msg /\ tx.msg \in Messages /\ tx.msg # None
  BY StreamAssumption DEF StreamInv, SenderInv, Typing
<1>2. gap' \in BOOLEAN /\ gap' \in {gap, FALSE}
  BY DEF Reaches, StreamInv, Typing
<1>3. CASE complete' # complete
  <2>1. Delivery!MayPassFor(complete', tx.msg) /\ tx' = None
    BY <1>3, EndingPassesForMessage
  <2>2. ~gap' => complete' = Delivery!Whole(tx.msg)
    BY <1>1, <1>3, EndingWithoutGap DEF Whole, Delivery!Whole
  <2>3. Delivery!HandOver
    BY <1>1, <1>2, <2>1, <2>2 DEF Delivery!HandOver
  <2>4. QED BY <2>3 DEF Delivery!Next
<1>4. CASE complete' = complete /\ tx' = None
  BY <1>1, <1>2, <1>4 DEF Delivery!LoseOffer, Delivery!Next
<1>5. CASE complete' = complete /\ tx' = tx
  BY <1>1, <1>2, <1>5 DEF Delivery!Travel, Delivery!Next
<1>6. QED BY <1>3, <1>4, <1>5

LEMMA StepRefines ==
  StreamInv /\ [Next]_vars => [Delivery!Next]_(Delivery!vars)
<1> SUFFICES ASSUME StreamInv, [Next]_vars
             PROVE  [Delivery!Next]_(Delivery!vars)
  OBVIOUS
<1>1. ASSUME NEW m \in Messages, ScheduleStreamSend(m) PROVE Delivery!Next
  <2>1. tx = None /\ tx' = [msg |-> m, index |-> 0] /\ complete' = complete /\ gap' = gap
    BY <1>1 DEF ScheduleStreamSend, receiverVars
  <2>2. tx' \in [msg : Messages, index : 0 .. MaxFragments] /\ tx'.msg = m
    BY <2>1, StreamAssumption
  <2>3. tx' # None
    BY <2>2, StreamAssumption
  <2>4. Delivery!Offer(m)
    BY <2>1, <2>2, <2>3 DEF Delivery!Offer
  <2>5. QED BY <2>4 DEF Delivery!Next
<1>2. CASE QueueNextStreamPacket
  <2>1. /\ tx # None /\ tx' = [tx EXCEPT !.index = @ + 1]
        /\ complete' = complete /\ gap' = gap
        /\ tx \in [msg : Messages, index : 0 .. MaxFragments]
        /\ Size[tx.msg] \in 1 .. MaxFragments /\ tx.index < Size[tx.msg]
    BY <1>2, StreamAssumption DEF QueueNextStreamPacket, receiverVars, StreamInv, Typing
  <2>2. tx' \in [msg : Messages, index : 0 .. MaxFragments] /\ tx'.msg = tx.msg
    BY <2>1, StreamAssumption
  <2>3. tx' # None
    BY <2>2, StreamAssumption
  <2>4. QED BY <2>1, <2>2, <2>3 DEF Delivery!vars
<1>3. CASE Hear
  <2>1. /\ slot # None /\ Reaches(slot)
        /\ tx' = IF tx.index = Size[tx.msg] THEN None ELSE tx
    BY <1>3 DEF Hear, TxDone
  <2>2. QED BY <2>1, FragmentRefines
<1>4. ASSUME tx # None, UNCHANGED receiverVars, gap' = TRUE, tx' = None \/ tx' = tx
      PROVE  Delivery!Next
  <2>1. tx.msg \in Messages /\ tx.msg # None /\ complete' = complete
    BY <1>4, StreamAssumption DEF StreamInv, Typing, receiverVars
  <2>2. CASE tx' = None
    BY <1>4, <2>1, <2>2 DEF Delivery!LoseOffer, Delivery!Next
  <2>3. CASE tx' = tx
    BY <1>4, <2>1, <2>3 DEF Delivery!Travel, Delivery!Next
  <2>4. QED BY <1>4, <2>2, <2>3
<1>5. CASE Lose
  <2>1. tx # None /\ UNCHANGED receiverVars /\ gap' = TRUE /\ (tx' = None \/ tx' = tx)
    BY <1>5 DEF Lose, TxDone, StreamInv, SenderInv
  <2>2. QED BY <1>4, <2>1
<1>6. CASE RecoverToIdle
  <2>1. tx # None /\ tx' = None
    BY <1>6 DEF RecoverToIdle
  <2>2. CASE gap' = TRUE /\ UNCHANGED receiverVars
    BY <1>4, <2>1, <2>2
  <2>3. CASE slot # None /\ Reaches(slot)
    BY <2>1, <2>3, FragmentRefines
  <2>4. QED BY <1>6, <2>2, <2>3 DEF RecoverToIdle
<1>7. CASE UNCHANGED vars
  BY <1>7 DEF vars, senderVars, receiverVars, Delivery!vars
<1>8. QED BY <1>1, <1>2, <1>3, <1>5, <1>6, <1>7 DEF Next, Sender

\* The link implements the abstract delivery: an offered message is handed over
\* at most once, whole or with a gap seen, or lost.
THEOREM StreamImplementsDelivery == Spec => HandsOverOnce
<1>1. Init => Delivery!Init
  BY DEF Init, Delivery!Init
<1>2. QED BY <1>1, StepRefines, StreamInvariant, PTL
       DEF Spec, HandsOverOnce, Delivery!Spec
===============================================================================
