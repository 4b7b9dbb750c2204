------------------------------ MODULE LocalControl ------------------------------
(***************************************************************************)
(* The button of a node and what it may change without any master: taps    *)
(* counted into gestures, the access point, the colour cycle, and the boot *)
(* colour, which is saved when the clicks have stopped for a while and     *)
(* shown again at power-up and by a scene.                                 *)
(*                                                                         *)
(* A colour is its place in the cycle, or a token for one that was rolled. *)
(* What waits for a time to pass may happen at any moment after.  Whether  *)
(* a master locks the button, and what five clicks and the clicks of a     *)
(* headless master do, is in HeadlessNet: a click may find it either way.  *)
(***************************************************************************)
EXTENDS Integers

CONSTANTS
  Random,    \* colours setRandomColor may roll
  MaxTaps,   \* bound: taps in a row
  MaxLosses, \* bound: power losses
  Unset      \* no boot colour in cfg.json yet, mode 0xFF

Primary == 0 .. 2
Color == Primary \cup Random

ASSUME LocalAssumption ==
  /\ Random \cap Primary = {} /\ Unset \notin Color
  /\ MaxTaps \in Nat /\ MaxTaps >= 6 /\ MaxLosses \in Nat

VARIABLES
  button,  \* down, longHandled, pendingShortClicks
  ap,      \* apActive
  color,   \* the colour cycle and the boot colour, see Booted
  file,    \* the boot colour in cfg.json
  page,    \* the boot colour in a settings page somebody has open
  losses,  \* bound: power losses to come
  taps,    \* history: clean taps since the last gesture
  seen,    \* history: primaries shown in this round of the cycle
  dropped  \* history: the last colour clicked is not to be saved

vars == <<button, ap, color, file, page, losses, taps, seen, dropped>>
gestureVars == <<button, ap, taps>>

-----------------------------------------------------------------------------
(* Power-up.                                                               *)

Released == [down |-> FALSE, long |-> FALSE, clicks |-> 0]

\* applyBootColor: it replays the runtime mirror and goes on from there.
Shown(s) ==
  IF s.boot \in Primary
  THEN [s EXCEPT !.shown = 1, !.next = (s.boot + 1) % 3, !.pending = FALSE]
  ELSE [s EXCEPT !.shown = 3, !.next = 0, !.pending = FALSE]

\* What counts as shown in a round that begins like that.
SeenAt(c) == IF c \in Primary THEN {c} ELSE Primary

\* setup() with boot colour c: boot is btn.bootColor*, saved overrides.bootColor*,
\* shown and next the place in the cycle, idle that no click came for RESET_MS.
Booted(c, write) ==
  [boot |-> c, saved |-> c, write |-> write, pending |-> FALSE, shown |-> 0, next |-> 0,
   idle |-> FALSE]

\* The very first boot rolls a primary and writes it.
BootColors(c) == IF c = Unset THEN Primary ELSE {c}

\* A boot preset suppresses the boot colour.
Starts(c, write, preset) == IF preset THEN Booted(c, write) ELSE Shown(Booted(c, write))

Init ==
  /\ file = Unset /\ page = Unset /\ losses = MaxLosses
  /\ button = Released /\ ap = FALSE /\ taps = 0 /\ dropped = FALSE
  /\ \E c \in Primary, preset \in BOOLEAN :
       /\ color = Starts(c, TRUE, preset)
       /\ seen = IF preset THEN {} ELSE SeenAt(c)

PowerLoss ==
  /\ losses > 0 /\ losses' = losses - 1
  /\ button' = Released /\ ap' = FALSE /\ taps' = 0 /\ dropped' = FALSE
  /\ \E c \in BootColors(file), preset \in BOOLEAN :
       /\ color' = Starts(c, file = Unset, preset)
       /\ seen' = IF preset THEN {} ELSE SeenAt(c)
  /\ UNCHANGED <<file, page>>

-----------------------------------------------------------------------------
(* handleRaceLinkButton: edges of the button.                              *)

Button(b) == button' = b /\ UNCHANGED <<ap, color, file, page, losses, seen, dropped>>

Press ==
  /\ ~button.down /\ taps < MaxTaps
  /\ Button([button EXCEPT !.down = TRUE, !.long = FALSE])
  /\ UNCHANGED taps

\* Down and up again within 50 ms is no tap.
Bounce ==
  /\ button.down /\ ~button.long
  /\ Button([button EXCEPT !.down = FALSE])
  /\ UNCHANGED taps

Tap ==
  /\ button.down /\ ~button.long
  /\ Button([button EXCEPT !.down = FALSE, !.clicks = @ + 1])
  /\ taps' = taps + 1

\* Mutant: the taps before a hold are counted on after it.
HoldKeepsTaps == [button EXCEPT !.long = TRUE]

\* A hold fades the brightness and is no part of a multi-tap.
Held == [button EXCEPT !.long = TRUE, !.clicks = 0]

Hold == button.down /\ ~button.long /\ Button(Held) /\ taps' = 0

EndHold ==
  /\ button.down /\ button.long
  /\ Button([button EXCEPT !.down = FALSE, !.long = FALSE])
  /\ UNCHANGED taps

-----------------------------------------------------------------------------
(* Gestures, once the multi-tap window is over.                            *)

\* Mutant: a round that was left goes on where it was.
RoundGoesOn(s) == {s}

\* After RESET_MS without a click a new round begins, at any primary.
Rounds(s) == IF s.idle THEN {[s EXCEPT !.shown = 0, !.next = i] : i \in Primary} ELSE {s}

\* applyColorCycleStep from round s: the next primary, or any colour after three.
Stepped(s) ==
  {[s EXCEPT !.boot = c, !.idle = FALSE, !.pending = TRUE,
             !.shown = IF @ < 3 THEN @ + 1 ELSE @,
             !.next = IF s.shown < 3 THEN (@ + 1) % 3 ELSE @] :
     c \in IF s.shown < 3 THEN {s.next} ELSE Random}

ColorCycleStep ==
  /\ \E s \in Rounds(color) : color' \in Stepped(s)
  /\ seen' = (IF color.idle THEN {} ELSE seen) \cup (Primary \cap {color'.boot})
  /\ dropped' = FALSE

Three(n) == n = 3

\* Four taps, and six or more, are slips and do nothing; two are reserved; one
\* is locked while a master is heard, and means something else to a headless
\* master; five are for HeadlessNet.
Gesture ==
  /\ ~button.down /\ button.clicks > 0
  /\ button' = [button EXCEPT !.clicks = 0] /\ taps' = 0
  /\ ap' = IF Three(button.clicks) THEN ~ap ELSE ap
  /\ \/ button.clicks = 1 /\ ColorCycleStep
     \/ UNCHANGED <<color, seen, dropped>>
  /\ UNCHANGED <<file, page, losses>>

\* OPC_CONFIG 0x04.
ApOption(on) ==
  /\ ap' = on
  /\ UNCHANGED <<button, color, file, page, losses, taps, seen, dropped>>

-----------------------------------------------------------------------------
(* The boot colour.                                                        *)

Quiet ==
  /\ ~color.idle
  /\ color' = [color EXCEPT !.idle = TRUE]
  /\ UNCHANGED <<gestureVars, file, page, losses, seen, dropped>>

\* The scene SCENE_RESTORE_BOOT_COLOR.
RestoreBootColor ==
  /\ color' = Shown(color)
  /\ seen' = SeenAt(color.boot) /\ dropped' = (dropped \/ color.pending)
  /\ UNCHANGED <<gestureVars, file, page, losses>>

\* Mutant: the colour is saved and not written.
SavedUnwritten(s) == [s EXCEPT !.saved = s.boot, !.pending = FALSE]

Saved(s) == [s EXCEPT !.saved = s.boot, !.write = TRUE, !.pending = FALSE]

\* serviceBootColorSave
ServiceBootColorSave ==
  /\ color.pending /\ color.idle
  /\ color' = Saved(color)
  /\ UNCHANGED <<gestureVars, file, page, losses, seen, dropped>>

\* WLED's writing of cfg.json.
WriteConfig ==
  /\ color.write
  /\ file' = color.saved /\ color' = [color EXCEPT !.write = FALSE]
  /\ UNCHANGED <<gestureVars, page, losses, seen, dropped>>

\* The settings page is rendered, and posts what it rendered when it is saved,
\* perhaps long after.
OpenPage ==
  /\ page' = color.saved
  /\ UNCHANGED <<gestureVars, color, file, losses, seen, dropped>>

Posted(s) == [s EXCEPT !.saved = page, !.write = TRUE]

SavePage ==
  /\ page # Unset
  /\ color' = Posted(color) /\ page' = Unset
  /\ dropped' = (dropped \/ (~color.pending /\ page # color.boot))
  /\ UNCHANGED <<gestureVars, file, losses, seen>>

-----------------------------------------------------------------------------
Edge == Press \/ Bounce \/ Tap \/ Hold \/ EndHold
Service == Quiet \/ ServiceBootColorSave \/ WriteConfig
Remote == RestoreBootColor \/ OpenPage \/ SavePage \/ \E on \in BOOLEAN : ApOption(on)

Next == Edge \/ Gesture \/ Service \/ Remote \/ PowerLoss

Spec == Init /\ [][Next]_vars

\* loop() and WLED run; clicks come to an end now and then.
FairSpec ==
  /\ Spec
  /\ WF_vars(Quiet) /\ SF_vars(ServiceBootColorSave) /\ WF_vars(WriteConfig)

-----------------------------------------------------------------------------
(* Properties.                                                             *)

\* Every variable has its type.
TypeOK ==
  /\ button \in [down : BOOLEAN, long : BOOLEAN, clicks : 0 .. MaxTaps + 1]
  /\ ap \in BOOLEAN
  /\ color \in [boot : Color, saved : Color, write : BOOLEAN, pending : BOOLEAN,
                shown : 0 .. 3, next : Primary, idle : BOOLEAN]
  /\ file \in Color \cup {Unset} /\ page \in Color \cup {Unset} /\ losses \in 0 .. MaxLosses
  /\ taps \in 0 .. MaxTaps + 1 /\ seen \subseteq Primary /\ dropped \in BOOLEAN

\* The button opens or closes the access point only by three clean taps with
\* no hold among them: no slip of four or six, no bounce, no tap before or
\* after a fade makes a recovery of it.
ApByThreeTaps ==
  [][button # button' /\ ap # ap' => taps = 3 \/ PowerLoss]_vars

\* The clicks show no rolled colour before all three primaries have been shown
\* in this round, wherever boot, scene or idle time let it begin.
RandomAfterAll == [][ColorCycleStep /\ color'.boot \notin Primary => seen = Primary]_vars

\* The colour to come back to is the one that is saved or about to be, unless
\* a scene or a stale settings page has come between.
MirrorIsSaved == color.pending \/ dropped \/ color.saved = color.boot

\* What is saved is in cfg.json or will be.
SavedIsWritten == color.write \/ file = color.saved

\* A colour that is neither waiting to be saved nor to be written, and was not
\* dropped, is the one that comes up after a power loss.
SettledSurvives ==
  [][PowerLoss /\ ~(color.pending \/ color.write \/ dropped) => color'.boot = color.boot]_vars

\* A colour that is clicked and left alone, with no settings page open, comes
\* back after a power cycle.
ClickIsSaved ==
  \A c \in Color :
    (color.pending /\ color.boot = c) ~>
      ((file = c /\ color.saved = c) \/ color.boot # c \/ dropped \/ page # Unset)

\* What the comment in applyBootColor says and the code does not do: the
\* persisted colour is the one that it shows.
RestoreInSync == [][RestoreBootColor => color.saved = color.boot]_vars
===============================================================================
