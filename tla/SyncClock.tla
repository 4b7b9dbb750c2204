-------------------------------- MODULE SyncClock --------------------------------
(***************************************************************************)
(* The clock of handleSync: a SYNC carries the low 24 bits of the master's *)
(* milliseconds, and the node completes them to 32 bits by what it expects *)
(* from its own clock since the last SYNC.                                 *)
(***************************************************************************)
EXTENDS Integers

CONSTANTS
  Half,    \* 2^23
  Windows  \* 2^8: windows of 2 * Half in the 32-bit clock

ASSUME SyncClockAssumption == Half \in Nat \ {0} /\ Windows \in Nat \ {0, 1}

Low == 2 * Half
Full == Windows * Low

\* The time the SYNC is placed at first: in the window of the prediction.
Candidate(pred, ts) == pred - (pred % Low) + ts

\* masterAbsMs: the candidate, or a window later or earlier; all sums are
\* of 32 bits.
Unwrap(pred, ts) ==
  LET cand == Candidate(pred, ts)
  IN IF (cand + Half) % Full < pred THEN (cand + Low) % Full
     ELSE IF cand > (pred + Half) % Full THEN (cand - Low) % Full
     ELSE cand

\* The prediction: the last master time and the local time since.
Predicted(epoch, now, last) == (epoch + (now - last)) % Full

\* What the node takes the master's time for after a SYNC.
MasterTime(haveSync, epoch, now, last, ts) ==
  IF haveSync THEN Unwrap(Predicted(epoch, now, last), ts) ELSE ts

\* The prediction p may be off by d, less than half a window, and is not in
\* the last window of the 32 bits: the SYNC is placed where the master is.
TracksFrom(p, d) == Unwrap(p, (p + d) % Low) = (p + d) % Full

UnwrapTracks ==
  \A p \in 0 .. Full - Low - 1, d \in 1 - Half .. Half - 1 : TracksFrom(p, d)

\* In the last half window the 32-bit sums overflow, and the SYNC is placed
\* one window on, past the end of the clock, even when the prediction is exact.
UnwrapFails == \A p \in Full - Half .. Full - 1 : ~TracksFrom(p, 0)

===============================================================================
