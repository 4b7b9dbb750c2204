------------------------------- MODULE NodeConfig -------------------------------
(***************************************************************************)
(* The settings RaceLink holds over WLED's: an override slot each, WLED's  *)
(* own live value, and cfg.json.  Three slots stand for all: the stop of   *)
(* segment 0, segment 1, which may be absent, and one WLED setting (FPS,   *)
(* for ABL, briS and transition alike).  With them the LED layout that the *)
(* flasher seeds in NVS, adopted once, and the bus rebuild it needs, which *)
(* rewrites the segments behind RaceLink's back.                           *)
(*                                                                         *)
(* A layout is its number of pixels, a segment the stop it is given: WLED  *)
(* clips it to the strip.  Power may fail between any two steps; a reboot  *)
(* by OPC_CONFIG 0x81 is no different here.                                *)
(***************************************************************************)
EXTENDS Integers

CONSTANTS
  Totals,   \* pixel totals
  Standard, \* the compile-time total, and RACELINK_DEFAULT_SEG0_STOP
  Fps, StandardFps,
  Extra,    \* stops of segment 1
  Absent,   \* of segment 1: start = stop
  Unusable, \* a seed whose type or pin is refused when it is applied
  None,
  MaxLosses, MaxFlashes, MaxEdits \* bounds: power losses, seeds, edits in WLED's pages

ASSUME ConfigAssumption ==
  /\ Standard \in Totals /\ StandardFps \in Fps
  /\ Totals \cup Extra \subseteq Nat \ {0} /\ Absent \notin Totals \cup Extra
  /\ Unusable \notin Totals /\ None \notin Totals \cup {Unusable}
  /\ {MaxLosses, MaxFlashes, MaxEdits} \subseteq Nat

Overrides == [stop : Totals, seg1 : Extra \cup {Absent}, fps : Fps]
Defaults == [stop |-> Standard, seg1 |-> Absent, fps |-> StandardFps]

VARIABLES
  seed,    \* the slot in NVS
  file,    \* cfg.json: layout, WLED's setting, overrides
  ov,      \* overrides
  live,    \* busses, segments and the setting as WLED runs them
  rebuild, \* the layout in busConfigs while doInitBusses is set
  reapply, \* ledSeedApplyPending
  write,   \* configNeedsWrite
  pc,      \* where setup() is, or "Loop"
  left,    \* bounds: losses, seeds and edits to come
  strip,   \* history: the layout that was last seeded, edited or left by a power loss
  drift    \* history: WLED's pages changed something since the last enforcement

vars == <<seed, file, ov, live, rebuild, reapply, write, pc, left, strip, drift>>
history == <<left, strip, drift>>

-----------------------------------------------------------------------------
(* Power-up.                                                               *)

\* What WLED makes of cfg.json before setup(): one segment over the whole strip.
Deserialised(f) == [leds |-> f.leds, stop |-> f.leds, seg1 |-> Absent, fps |-> f.fps]

Init ==
  /\ file = [leds |-> Standard, fps |-> StandardFps, ov |-> Defaults]
  /\ seed \in Totals \cup {None, Unusable}
  /\ ov = file.ov /\ live = Deserialised(file)
  /\ rebuild = None /\ reapply = FALSE /\ write = FALSE /\ pc = "Seed"
  /\ left = [losses |-> MaxLosses, flashes |-> MaxFlashes, edits |-> MaxEdits]
  /\ strip = IF seed \in Totals THEN seed ELSE Standard
  /\ drift = FALSE

Boots ==
  /\ pc' = "Seed"
  /\ ov' = file.ov /\ live' = Deserialised(file)
  /\ rebuild' = None /\ reapply' = FALSE /\ write' = FALSE /\ drift' = FALSE
  /\ UNCHANGED file

\* Mutant: the seed stays for the next boot.
SeedStays == UNCHANGED seed

\* wipe(): the seed is consumed, usable or not.
Wiped == seed' = None

Adopts(s) == s \in Totals

\* applySeededLedConfig: stage the rebuild and move the override with it.
ApplySeededLedConfig ==
  /\ pc = "Seed" /\ pc' = "Defaults"
  /\ Wiped
  /\ IF Adopts(seed)
     THEN rebuild' = seed /\ reapply' = TRUE /\ ov' = [ov EXCEPT !.stop = seed]
     ELSE UNCHANGED <<rebuild, reapply, ov>>
  /\ UNCHANGED <<file, live, write, history>>

-----------------------------------------------------------------------------
(* applyRaceLinkDefaults.                                                  *)

Clipped(stop, leds) == IF stop <= leds THEN stop ELSE leds

\* WLED: bounds that are there already stay, an empty segment goes, another
\* one ends with the strip.
SetGeometry(was, stop, leds) == IF stop \in {was, Absent} THEN stop ELSE Clipped(stop, leds)

\* Segment 1: appendSegment clips nothing, and later WLED may.
Placed(was, stop, leds) ==
  {SetGeometry(was, stop, leds)} \cup (IF was = Absent THEN {stop} ELSE {})

\* What becomes of l when every slot is put into its live value; a segment 1
\* that is not configured stays.
Enforced(l, o) ==
  {[l EXCEPT !.stop = SetGeometry(l.stop, o.stop, l.leds), !.fps = o.fps, !.seg1 = s] :
     s \in IF o.seg1 = Absent THEN {l.seg1} ELSE Placed(l.seg1, o.seg1, l.leds)}

Differs(l, o) == l.stop # o.stop \/ l.fps # o.fps \/ o.seg1 \notin {Absent, l.seg1}

\* A save is due when a slot differs from the live value, also where WLED then
\* clips it back to what it was.
Apply(l, o) ==
  /\ live' \in Enforced(l, o)
  /\ write' = (write \/ Differs(l, o))
  /\ drift' = FALSE

ApplyAtSetup ==
  /\ pc = "Defaults" /\ pc' = "Loop"
  /\ Apply(live, ov)
  /\ UNCHANGED <<seed, file, ov, rebuild, reapply, left, strip>>

\* Mutant: the geometry is not asserted again.
ReapplyNothing ==
  /\ pc = "Loop" /\ reapply /\ rebuild = None
  /\ reapply' = FALSE
  /\ UNCHANGED <<seed, file, ov, live, rebuild, write, pc, history>>

\* loop(), once WLED has rebuilt the busses for the seed.
Reapply ==
  /\ pc = "Loop" /\ reapply /\ rebuild = None
  /\ reapply' = FALSE
  /\ Apply(live, ov)
  /\ UNCHANGED <<seed, file, ov, rebuild, pc, left, strip>>

-----------------------------------------------------------------------------
(* OPC_CONFIG.                                                             *)

\* 0x05 to 0x0A: the slot and its live value.
SetSlot(slot, v, lives) ==
  /\ pc = "Loop"
  /\ ov' = [ov EXCEPT ![slot] = v] /\ live' \in lives
  /\ write' = TRUE
  /\ UNCHANGED <<seed, file, rebuild, reapply, pc, history>>

SetSegment0(v) ==
  SetSlot("stop", v, {[live EXCEPT !.stop = SetGeometry(live.stop, v, live.leds)]})

SetSegment1(v) ==
  SetSlot("seg1", v, {[live EXCEPT !.seg1 = s] : s \in Placed(live.seg1, v, live.leds)})

SetFps(v) == SetSlot("fps", v, {[live EXCEPT !.fps = v]})

\* 0x0F: segments as WLED makes them, then the defaults over them.
ResetOverrides ==
  /\ pc = "Loop"
  /\ ov' = Defaults
  /\ Apply([live EXCEPT !.stop = live.leds, !.seg1 = Absent], Defaults)
  /\ UNCHANGED <<seed, file, rebuild, reapply, pc, left, strip>>

-----------------------------------------------------------------------------
(* The usermod's settings page.                                            *)

\* Somebody at one of the settings pages.
Edit == pc = "Loop" /\ left.edits > 0 /\ left' = [left EXCEPT !.edits = @ - 1]

\* Saving it reads all slots, some perhaps as they were when it was opened.
SavePage(o) ==
  /\ Edit
  /\ ov' = o
  /\ live' \in Enforced(live, o) /\ drift' = FALSE /\ write' = TRUE
  /\ UNCHANGED <<seed, file, rebuild, reapply, pc, strip>>

-----------------------------------------------------------------------------
(* WLED and the world.                                                     *)

\* Mutant: the layout is built and not saved.
RebuiltUnsaved == UNCHANGED write

Rebuilt == write' = TRUE

\* The busses are built from busConfigs, segment 0 becomes the whole strip and
\* segment 1 may go, stay or be clipped.
RebuildBusses ==
  /\ pc = "Loop" /\ rebuild # None
  /\ \E s \in {Absent, live.seg1, SetGeometry(Absent, live.seg1, rebuild)} :
       live' = [live EXCEPT !.leds = rebuild, !.stop = rebuild, !.seg1 = s]
  /\ rebuild' = None /\ Rebuilt
  /\ drift' = (drift \/ ~reapply)
  /\ UNCHANGED <<seed, file, ov, reapply, pc, left, strip>>

WriteConfig ==
  /\ pc = "Loop" /\ write
  /\ file' = [leds |-> live.leds, fps |-> live.fps, ov |-> ov]
  /\ write' = FALSE
  /\ UNCHANGED <<seed, ov, live, rebuild, reapply, pc, history>>

\* WLED's LED settings page.
EditLeds(t) ==
  /\ Edit
  /\ rebuild' = t /\ strip' = t
  /\ UNCHANGED <<seed, file, ov, live, reapply, write, pc, drift>>

\* WLED's page of the setting.
EditFps(v) ==
  /\ Edit
  /\ live' = [live EXCEPT !.fps = v] /\ write' = TRUE /\ drift' = TRUE
  /\ UNCHANGED <<seed, file, ov, rebuild, reapply, pc, strip>>

PowerLoss ==
  /\ left.losses > 0 /\ left' = [left EXCEPT !.losses = @ - 1]
  /\ Boots
  /\ strip' = IF pc = "Seed" THEN strip ELSE file.leds
  /\ UNCHANGED seed

\* The flasher writes a seed and keeps cfg.json.
Flash(t) ==
  /\ left.flashes > 0 /\ left' = [left EXCEPT !.flashes = @ - 1]
  /\ Boots
  /\ seed' = t /\ strip' = IF t \in Totals THEN t ELSE file.leds

-----------------------------------------------------------------------------
Setup == ApplySeededLedConfig \/ ApplyAtSetup
SetSlots ==
  \/ \E t \in Totals : SetSegment0(t)
  \/ \E e \in Extra \cup {Absent} : SetSegment1(e)
  \/ \E v \in Fps : SetFps(v)
Pages ==
  \/ \E o \in Overrides : SavePage(o)
  \/ \E t \in Totals : EditLeds(t)
  \/ \E v \in Fps : EditFps(v)

Next ==
  \/ Setup \/ Reapply \/ SetSlots \/ ResetOverrides \/ Pages
  \/ RebuildBusses \/ WriteConfig
  \/ PowerLoss \/ \E t \in Totals \cup {Unusable} : Flash(t)

Spec == Init /\ [][Next]_vars

\* setup() ends and WLED's loop runs.
FairSpec == Spec /\ WF_vars(Setup) /\ WF_vars(Reapply) /\ WF_vars(RebuildBusses) /\ WF_vars(WriteConfig)

-----------------------------------------------------------------------------
(* Properties.                                                             *)

\* Every variable has its type.
TypeOK ==
  /\ seed \in Totals \cup {None, Unusable}
  /\ file \in [leds : Totals, fps : Fps, ov : Overrides] /\ ov \in Overrides
  /\ live \in [leds : Totals, stop : Totals, seg1 : Extra \cup Totals \cup {Absent}, fps : Fps]
  /\ rebuild \in Totals \cup {None} /\ {reapply, write, drift} \subseteq BOOLEAN
  /\ pc \in {"Seed", "Defaults", "Loop"} /\ strip \in Totals
  /\ left \in [losses : 0 .. MaxLosses, flashes : 0 .. MaxFlashes, edits : 0 .. MaxEdits]

Settled == pc = "Loop" /\ rebuild = None /\ ~reapply

\* The seed is a default that acts once: the strip is the one last seeded or
\* edited, or after a power loss the one that had reached cfg.json, and no
\* later boot brings the seed back.
StripIsKept == Settled => live.leds = strip

\* What GET_CONFIG reports is the override slot as far as the strip goes, in
\* whatever order boot, seed, bus rebuild, options and settings page come,
\* until WLED's own pages change it.
LiveFollowsOverride ==
  Settled /\ ~drift =>
    /\ live.fps = ov.fps /\ live.stop = Clipped(ov.stop, live.leds)
    /\ ov.seg1 # Absent => live.seg1 \in {ov.seg1, Clipped(ov.seg1, live.leds)}

\* Overrides differ from cfg.json without a save to come only after a reset:
\* at the next boot an option that was set is back.
UnsavedIsReset == pc = "Loop" /\ rebuild = None /\ ~write => ov = file.ov \/ ov = Defaults

\* A seed whose node stays on power, and whose strip nobody edits, gets into
\* cfg.json.
SeedIsAdopted ==
  \A t \in Totals :
    (seed = t /\ left = [losses |-> 0, flashes |-> 0, edits |-> 0]) ~> (file.leds = t)

\* What the comment at OPC_CONFIG 0x0F says and the code does not do: a reset
\* of the overrides is saved like any other change of them.
OverridesAreSaved == pc = "Loop" /\ rebuild = None /\ ~write => ov = file.ov

\* What the comment at OPC_GET_CONFIG says and the code does not do: the live
\* value is always in sync with the override slot.  WLED clips a segment that
\* the strip is too short for.
LiveIsOverride ==
  Settled /\ ~drift =>
    /\ live.stop = ov.stop /\ live.fps = ov.fps
    /\ ov.seg1 # Absent => live.seg1 = ov.seg1
===============================================================================
