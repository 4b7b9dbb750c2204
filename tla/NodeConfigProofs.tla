---------------------------- MODULE NodeConfigProofs ----------------------------
(***************************************************************************)
(* What a node keeps for itself.  NodeConfig for any sets of layouts,      *)
(* settings and segments, and any number of power losses, seeds and edits; *)
(* then LocalControl, as an instance, for any rolled colours and any       *)
(* number of taps and power losses.                                        *)
(***************************************************************************)
EXTENDS NodeConfig, TLAPS

\* Before applySeededLedConfig the node is what cfg.json made of it; after
\* it, no seed is left.
SeedPhase ==
  /\ pc # "Seed" => seed = None
  /\ pc = "Seed" => /\ strip = IF seed \in Totals THEN seed ELSE file.leds
                    /\ live.leds = file.leds /\ ov = file.ov /\ rebuild = None

\* The strip last seeded or edited is built, or is about to be.
StripOnItsWay == pc # "Seed" => strip = IF rebuild # None THEN rebuild ELSE live.leds

\* UnsavedIsReset, during setup() too.
Unsaved == rebuild = None /\ ~write => ov = file.ov \/ ov = Defaults

\* Segment 0 is within the strip.
Within(l) == l.stop <= l.leds

ConfigInv == /\ TypeOK /\ SeedPhase /\ StripOnItsWay /\ LiveFollowsOverride /\ Unsaved
             /\ Within(live)

(* The defaults are overrides, and booting and enforcing keep the types.   *)
LEMMA DefaultsType == Defaults \in Overrides /\ Defaults.stop = Standard /\ None \notin Totals
  BY ConfigAssumption DEF Defaults, Overrides

Live == [leds : Totals, stop : Totals, seg1 : Extra \cup Totals \cup {Absent}, fps : Fps]

(* A segment ends where it was asked to, or with the strip.                *)
LEMMA Geometry ==
  ASSUME NEW leds \in Totals, NEW was, NEW stop \in Totals \cup Extra \cup {Absent}
  PROVE  /\ SetGeometry(was, stop, leds) \in {stop, leds}
         /\ stop # Absent => Clipped(stop, leds) \in {stop, leds}
         /\ stop # Absent => SetGeometry(was, stop, leds) \in {stop, Clipped(stop, leds)}
         /\ stop # Absent /\ (was = stop => stop <= leds) =>
              SetGeometry(was, stop, leds) = Clipped(stop, leds)
  BY DEF SetGeometry, Clipped

LEMMA PlacedType ==
  ASSUME NEW leds \in Totals, NEW was, NEW stop \in Totals \cup Extra \cup {Absent},
         NEW s \in Placed(was, stop, leds)
  PROVE  /\ s \in {stop, leds}
         /\ stop # Absent => s \in {stop, Clipped(stop, leds)}
  BY Geometry DEF Placed

LEMMA EnforcedType ==
  ASSUME NEW l \in Live, Within(l), NEW o \in Overrides, NEW e \in Enforced(l, o)
  PROVE  /\ e \in Live /\ e.leds = l.leds /\ Within(e)
         /\ e.stop = Clipped(o.stop, l.leds) /\ e.fps = o.fps
         /\ o.seg1 # Absent => e.seg1 \in {o.seg1, Clipped(o.seg1, l.leds)}
<1>0. /\ l.leds \in Totals /\ l.stop \in Totals /\ l.seg1 \in Extra \cup Totals \cup {Absent}
      /\ o.stop \in Totals /\ o.fps \in Fps /\ o.seg1 \in Extra \cup {Absent}
      /\ l.leds \in Nat /\ o.stop \in Nat /\ Absent \notin Totals
  BY ConfigAssumption DEF Live, Overrides
<1>1. PICK s \in IF o.seg1 = Absent THEN {l.seg1} ELSE Placed(l.seg1, o.seg1, l.leds) :
        e = [l EXCEPT !.stop = SetGeometry(l.stop, o.stop, l.leds), !.fps = o.fps, !.seg1 = s]
  BY DEF Enforced
<1>2. /\ s \in Extra \cup Totals \cup {Absent}
      /\ o.seg1 # Absent => s \in {o.seg1, Clipped(o.seg1, l.leds)}
  BY <1>0, <1>1, PlacedType
<1>3. SetGeometry(l.stop, o.stop, l.leds) = Clipped(o.stop, l.leds)
  BY <1>0, Geometry DEF Within
<1>4. Clipped(o.stop, l.leds) \in Totals /\ Clipped(o.stop, l.leds) <= l.leds
  <2>1. l.leds <= l.leds BY <1>0
  <2> QED BY <1>0, <2>1 DEF Clipped
<1>5. /\ e \in Live /\ e.leds = l.leds /\ e.stop = Clipped(o.stop, l.leds)
      /\ e.fps = o.fps /\ e.seg1 = s
  BY <1>0, <1>1, <1>2, <1>3, <1>4 DEF Live
<1> QED BY <1>2, <1>4, <1>5 DEF Within

(* A budget that is used stays a budget.                                   *)
LEMMA LeftType ==
  ASSUME left \in [losses : 0 .. MaxLosses, flashes : 0 .. MaxFlashes, edits : 0 .. MaxEdits],
         \/ left.losses > 0 /\ left' = [left EXCEPT !.losses = @ - 1]
         \/ left.flashes > 0 /\ left' = [left EXCEPT !.flashes = @ - 1]
         \/ left.edits > 0 /\ left' = [left EXCEPT !.edits = @ - 1]
  PROVE  left' \in [losses : 0 .. MaxLosses, flashes : 0 .. MaxFlashes, edits : 0 .. MaxEdits]
<1>1. MaxLosses \in Nat /\ MaxFlashes \in Nat /\ MaxEdits \in Nat BY ConfigAssumption
<1>2. CASE left.losses > 0 /\ left' = [left EXCEPT !.losses = @ - 1] BY <1>1, <1>2
<1>3. CASE left.flashes > 0 /\ left' = [left EXCEPT !.flashes = @ - 1] BY <1>1, <1>3
<1>4. CASE left.edits > 0 /\ left' = [left EXCEPT !.edits = @ - 1] BY <1>1, <1>4
<1> QED BY <1>2, <1>3, <1>4

LEMMA InitInv == Init => ConfigInv
<1> SUFFICES ASSUME Init PROVE ConfigInv OBVIOUS
<1>1. TypeOK
  <2>1. file = [leds |-> Standard, fps |-> StandardFps, ov |-> Defaults] BY DEF Init
  <2>2. file \in [leds : Totals, fps : Fps, ov : Overrides] /\ ov \in Overrides
    BY <2>1, ConfigAssumption, DefaultsType DEF Init
  <2>3. live \in Live BY <2>1, ConfigAssumption DEF Init, Deserialised, Live
  <2>4. left \in [losses : 0 .. MaxLosses, flashes : 0 .. MaxFlashes, edits : 0 .. MaxEdits]
    BY ConfigAssumption DEF Init
  <2>5. strip \in Totals /\ seed \in Totals \cup {None, Unusable} BY ConfigAssumption DEF Init
  <2> QED BY <2>2, <2>3, <2>4, <2>5 DEF Init, TypeOK, Live
<1>2. SeedPhase BY DEF Init, SeedPhase, Deserialised
<1>3. StripOnItsWay /\ LiveFollowsOverride /\ Unsaved
  BY DEF Init, StripOnItsWay, LiveFollowsOverride, Settled, Unsaved
<1>4. Within(live)
  BY <1>1, ConfigAssumption DEF Init, Deserialised, Within, TypeOK
<1> QED BY <1>1, <1>2, <1>3, <1>4 DEF ConfigInv

(* A boot, with whatever is in NVS.                                        *)
LEMMA BootsInv ==
  ASSUME ConfigInv, Boots, seed' \in Totals \cup {None, Unusable}, strip' \in Totals,
         strip' = IF seed' \in Totals THEN seed' ELSE file.leds,
         left' \in [losses : 0 .. MaxLosses, flashes : 0 .. MaxFlashes, edits : 0 .. MaxEdits]
  PROVE  ConfigInv'
<1>1. TypeOK' BY ConfigAssumption DEF ConfigInv, TypeOK, Boots, Deserialised, Overrides
<1>2. SeedPhase' BY DEF Boots, SeedPhase, Deserialised
<1>3. StripOnItsWay' /\ LiveFollowsOverride' /\ Unsaved'
  BY DEF Boots, StripOnItsWay, LiveFollowsOverride, Settled, Unsaved
<1>4. Within(live)'
  BY <1>1, ConfigAssumption DEF Boots, Deserialised, Within, TypeOK
<1> QED BY <1>1, <1>2, <1>3, <1>4 DEF ConfigInv

(* A step that enforces the overrides o, on segments l.                    *)
LEMMA ApplyInv ==
  ASSUME ConfigInv, pc # "Seed", pc' = "Loop", seed' = seed, file' = file, rebuild' = rebuild,
         reapply' \in BOOLEAN, strip' = strip,
         left' \in [losses : 0 .. MaxLosses, flashes : 0 .. MaxFlashes, edits : 0 .. MaxEdits],
         NEW o \in Overrides, ov' = o,
         NEW l \in Live, l.leds = live.leds, Within(l), live' \in Enforced(l, o),
         write' \in BOOLEAN, ~write' => o \in {file.ov, Defaults} \/ rebuild # None,
         drift' = FALSE
  PROVE  ConfigInv'
<1>1. TypeOK' BY EnforcedType DEF ConfigInv, TypeOK, Live
<1>2. SeedPhase' BY DEF ConfigInv, SeedPhase
<1>3. StripOnItsWay' BY EnforcedType DEF ConfigInv, StripOnItsWay
<1>4. LiveFollowsOverride' BY EnforcedType DEF LiveFollowsOverride
<1>5. Unsaved' BY DEF Unsaved
<1>6. Within(live)' BY EnforcedType DEF Within
<1> QED BY <1>1, <1>2, <1>3, <1>4, <1>5, <1>6 DEF ConfigInv

(* An option: one slot and its live value.                                 *)
LEMMA SetInv ==
  ASSUME ConfigInv, pc = "Loop",
         UNCHANGED <<seed, file, rebuild, reapply, pc, left, strip, drift>>, write' = TRUE,
         ov' \in Overrides, live' \in Live, live'.leds = live.leds, live'.stop <= live.leds,
         \/ ov'.stop = ov.stop /\ live'.stop = live.stop
         \/ live'.stop = Clipped(ov'.stop, live.leds),
         \/ ov'.fps = ov.fps /\ live'.fps = live.fps
         \/ live'.fps = ov'.fps,
         \/ ov'.seg1 = ov.seg1 /\ live'.seg1 = live.seg1
         \/ ov'.seg1 # Absent => live'.seg1 \in {ov'.seg1, Clipped(ov'.seg1, live.leds)}
  PROVE  ConfigInv'
<1>1. TypeOK' BY DEF ConfigInv, TypeOK, Live
<1>2. SeedPhase' /\ StripOnItsWay' BY DEF ConfigInv, SeedPhase, StripOnItsWay
<1>3. LiveFollowsOverride' BY DEF ConfigInv, LiveFollowsOverride, Settled
<1>4. Unsaved' /\ Within(live)' BY DEF Unsaved, Within
<1> QED BY <1>1, <1>2, <1>3, <1>4 DEF ConfigInv

LEMMA NextInv == ConfigInv /\ [Next]_vars => ConfigInv'
<1> SUFFICES ASSUME ConfigInv, [Next]_vars PROVE ConfigInv' OBVIOUS
<1> USE DEF ConfigInv
<1>t. live \in Live /\ ov \in Overrides /\ file.ov \in Overrides /\ Within(live)
  BY DEF TypeOK, Live
<1>1. CASE ApplySeededLedConfig
  <2>1. TypeOK' BY <1>1 DEF ApplySeededLedConfig, TypeOK, Wiped, Adopts, Overrides, history
  <2>2. SeedPhase' BY <1>1 DEF ApplySeededLedConfig, SeedPhase, Wiped
  <2>3. StripOnItsWay'
    BY <1>1, ConfigAssumption
    DEF ApplySeededLedConfig, SeedPhase, StripOnItsWay, Adopts, history
  <2>4. LiveFollowsOverride' BY <1>1 DEF ApplySeededLedConfig, LiveFollowsOverride, Settled
  <2>5. Unsaved'
    BY <1>1, ConfigAssumption DEF ApplySeededLedConfig, SeedPhase, Unsaved, Adopts
  <2>6. Within(live)' BY <1>1 DEF ApplySeededLedConfig, Within
  <2> QED BY <2>1, <2>2, <2>3, <2>4, <2>5, <2>6
<1>2. CASE ApplyAtSetup \/ Reapply
  <2>1. ~write' => ov \in {file.ov, Defaults} \/ rebuild # None
    BY <1>2 DEF ApplyAtSetup, Reapply, Apply, Unsaved
  <2>2. write' \in BOOLEAN BY <1>2 DEF ApplyAtSetup, Reapply, Apply, TypeOK
  <2> QED
    BY <1>2, <1>t, <2>1, <2>2, ApplyInv DEF ApplyAtSetup, Reapply, Apply, TypeOK
<1>3. CASE SetSlots
  <2> DEFINE SetBy(slot, v) == /\ pc = "Loop" /\ ov' = [ov EXCEPT ![slot] = v] /\ write' = TRUE
                               /\ UNCHANGED <<seed, file, rebuild, reapply, pc, left, strip, drift>>
  <2>t. /\ live.leds \in Totals /\ live.leds \in Nat /\ live.stop <= live.leds
        /\ ov.stop \in Totals /\ ov.seg1 \in Extra \cup {Absent} /\ ov.fps \in Fps
    BY <1>t, ConfigAssumption DEF Live, Overrides, Within
  <2>1. CASE \E v \in Totals : SetSegment0(v)
    <3>1. PICK v \in Totals : SetSegment0(v) BY <2>1
    <3>2. /\ SetBy("stop", v)
          /\ live' = [live EXCEPT !.stop = SetGeometry(live.stop, v, live.leds)]
      BY <3>1 DEF SetSegment0, SetSlot, history
    <3>3. ov' \in Overrides /\ ov'.stop = v /\ ov'.seg1 = ov.seg1 /\ ov'.fps = ov.fps
      BY <3>2, <1>t DEF Overrides
    <3>4. /\ SetGeometry(live.stop, v, live.leds) = Clipped(v, live.leds)
          /\ Clipped(v, live.leds) \in Totals /\ Clipped(v, live.leds) <= live.leds
      <4>1. v # Absent /\ v \in Nat /\ live.leds <= live.leds BY <2>t, ConfigAssumption
      <4> QED BY <2>t, <4>1, Geometry DEF Clipped
    <3>5. /\ live' \in Live /\ live'.leds = live.leds /\ live'.stop = Clipped(v, live.leds)
          /\ live'.seg1 = live.seg1 /\ live'.fps = live.fps
      BY <3>2, <3>4, <1>t DEF Live
    <3> QED BY <3>2, <3>3, <3>4, <3>5, SetInv
  <2>2. CASE \E v \in Extra \cup {Absent} : SetSegment1(v)
    <3>1. PICK v \in Extra \cup {Absent} : SetSegment1(v) BY <2>2
    <3>2. PICK s \in Placed(live.seg1, v, live.leds) :
            SetBy("seg1", v) /\ live' = [live EXCEPT !.seg1 = s]
      BY <3>1 DEF SetSegment1, SetSlot, history
    <3>3. ov' \in Overrides /\ ov'.stop = ov.stop /\ ov'.seg1 = v /\ ov'.fps = ov.fps
      BY <3>2, <1>t DEF Overrides
    <3>4. /\ s \in Extra \cup Totals \cup {Absent}
          /\ v # Absent => s \in {v, Clipped(v, live.leds)}
      BY <2>t, PlacedType
    <3>5. /\ live' \in Live /\ live'.leds = live.leds /\ live'.stop = live.stop
          /\ live'.seg1 = s /\ live'.fps = live.fps
      BY <3>2, <3>4, <1>t DEF Live
    <3> QED BY <2>t, <3>2, <3>3, <3>4, <3>5, SetInv
  <2>3. CASE \E v \in Fps : SetFps(v)
    <3>1. PICK v \in Fps : SetFps(v) BY <2>3
    <3>2. SetBy("fps", v) /\ live' = [live EXCEPT !.fps = v]
      BY <3>1 DEF SetFps, SetSlot, history
    <3>3. ov' \in Overrides /\ ov'.stop = ov.stop /\ ov'.seg1 = ov.seg1 /\ ov'.fps = v
      BY <3>2, <1>t DEF Overrides
    <3>4. /\ live' \in Live /\ live'.leds = live.leds /\ live'.stop = live.stop
          /\ live'.seg1 = live.seg1 /\ live'.fps = v
      BY <3>2, <1>t DEF Live
    <3> QED BY <2>t, <3>2, <3>3, <3>4, SetInv
  <2> QED BY <1>3, <2>1, <2>2, <2>3 DEF SetSlots
<1>4. CASE ResetOverrides
  <2> DEFINE l == [live EXCEPT !.stop = live.leds, !.seg1 = Absent]
  <2>1. l \in Live /\ l.leds = live.leds /\ Within(l)
    <3>1. live.leds \in Nat /\ live.leds <= live.leds BY <1>t, ConfigAssumption DEF Live
    <3> QED BY <1>t, <3>1 DEF Live, Within
  <2> HIDE DEF l
  <2>2. live' \in Enforced(l, Defaults) BY <1>4 DEF ResetOverrides, Apply, l
  <2>3. write' \in BOOLEAN BY <1>4 DEF ResetOverrides, Apply, TypeOK
  <2> QED
    BY <1>4, <2>1, <2>2, <2>3, DefaultsType, ApplyInv DEF ResetOverrides, Apply, TypeOK
<1>5. CASE \E o \in Overrides : SavePage(o)
  <2>1. PICK o \in Overrides : SavePage(o) BY <1>5
  <2>2. left' \in [losses : 0 .. MaxLosses, flashes : 0 .. MaxFlashes, edits : 0 .. MaxEdits]
    BY <2>1, LeftType DEF SavePage, Edit, TypeOK
  <2> QED BY <2>1, <2>2, <1>t, ApplyInv DEF SavePage, Edit, TypeOK
<1>6. CASE \E t \in Totals : EditLeds(t)
  <2>1. TypeOK' BY <1>6, LeftType DEF EditLeds, Edit, TypeOK
  <2>2. SeedPhase' BY <1>6 DEF EditLeds, Edit, SeedPhase
  <2>3. StripOnItsWay' BY <1>6, ConfigAssumption DEF EditLeds, Edit, StripOnItsWay
  <2>4. LiveFollowsOverride' /\ Unsaved'
    BY <1>6, ConfigAssumption DEF EditLeds, Edit, LiveFollowsOverride, Settled, Unsaved
  <2>w. Within(live)' BY <1>6, <1>t DEF EditLeds, Edit, Within, Live
  <2> QED BY <2>1, <2>2, <2>3, <2>4, <2>w
<1>7. CASE \E v \in Fps : EditFps(v)
  <2>1. TypeOK' BY <1>7, LeftType DEF EditFps, Edit, TypeOK
  <2>2. SeedPhase' /\ StripOnItsWay' BY <1>7, <1>t DEF EditFps, Edit, SeedPhase, StripOnItsWay, Live
  <2>3. LiveFollowsOverride' /\ Unsaved' BY <1>7 DEF EditFps, Edit, LiveFollowsOverride, Settled, Unsaved
  <2>w. Within(live)' BY <1>7, <1>t DEF EditFps, Edit, Within, Live
  <2> QED BY <2>1, <2>2, <2>3, <2>w
<1>8. CASE RebuildBusses
  <2>t. rebuild \in Totals /\ rebuild \in Nat /\ rebuild <= rebuild
    BY <1>8, ConfigAssumption DEF RebuildBusses, TypeOK
  <2>s. PICK s \in {Absent, live.seg1, SetGeometry(Absent, live.seg1, rebuild)} :
          live' = [live EXCEPT !.leds = rebuild, !.stop = rebuild, !.seg1 = s]
    BY <1>8 DEF RebuildBusses
  <2>l. /\ live' \in Live /\ live'.leds = rebuild /\ live'.stop = rebuild
    <3>1. s \in Extra \cup Totals \cup {Absent} BY <1>t, <2>t, <2>s, Geometry DEF Live
    <3> QED BY <1>t, <2>t, <2>s, <3>1 DEF Live
  <2>1. TypeOK' BY <1>8, <2>l, ConfigAssumption DEF RebuildBusses, Rebuilt, TypeOK, Live
  <2>2. SeedPhase' /\ StripOnItsWay'
    BY <1>8, <1>t DEF RebuildBusses, SeedPhase, StripOnItsWay, Live
  <2>3. LiveFollowsOverride' /\ Unsaved'
    BY <1>8 DEF RebuildBusses, Rebuilt, LiveFollowsOverride, Settled, Unsaved, TypeOK
  <2>w. Within(live)' BY <2>t, <2>l DEF Within
  <2> QED BY <2>1, <2>2, <2>3, <2>w
<1>9. CASE WriteConfig
  <2>1. TypeOK' BY <1>9 DEF WriteConfig, TypeOK, history
  <2>2. SeedPhase' /\ StripOnItsWay' BY <1>9 DEF WriteConfig, SeedPhase, StripOnItsWay, history
  <2>3. LiveFollowsOverride' /\ Unsaved'
    BY <1>9 DEF WriteConfig, LiveFollowsOverride, Settled, Unsaved, history
  <2>w. Within(live)' BY <1>9, <1>t DEF WriteConfig, Within, Live
  <2> QED BY <2>1, <2>2, <2>3, <2>w
<1>10. CASE PowerLoss
  <2>1. left' \in [losses : 0 .. MaxLosses, flashes : 0 .. MaxFlashes, edits : 0 .. MaxEdits]
    BY <1>10, LeftType DEF PowerLoss, TypeOK
  <2>2. strip' = IF seed' \in Totals THEN seed' ELSE file.leds
    BY <1>10, ConfigAssumption DEF PowerLoss, SeedPhase
  <2>3. strip' \in Totals /\ seed' \in Totals \cup {None, Unusable}
    BY <1>10 DEF PowerLoss, TypeOK
  <2> QED BY <1>10, <2>1, <2>2, <2>3, BootsInv DEF PowerLoss
<1>11. CASE \E t \in Totals \cup {Unusable} : Flash(t)
  <2>1. left' \in [losses : 0 .. MaxLosses, flashes : 0 .. MaxFlashes, edits : 0 .. MaxEdits]
    BY <1>11, LeftType DEF Flash, TypeOK
  <2>2. strip' \in Totals /\ seed' \in Totals \cup {None, Unusable}
    BY <1>11 DEF Flash, TypeOK
  <2> QED BY <1>11, <2>1, <2>2, BootsInv DEF Flash
<1>12. CASE UNCHANGED vars
  BY <1>12
  DEF vars, TypeOK, SeedPhase, StripOnItsWay, LiveFollowsOverride, Settled, Unsaved, Within
<1> QED
  BY <1>1, <1>2, <1>3, <1>4, <1>5, <1>6, <1>7, <1>8, <1>9, <1>10, <1>11, <1>12
  DEF Next, Setup, Pages

LEMMA InvHolds == Spec => []ConfigInv
  BY InitInv, NextInv, PTL DEF Spec

(* Every variable keeps its type. *)
THEOREM TypeCorrect == Spec => []TypeOK
  BY InvHolds, PTL DEF ConfigInv

(* applySeededLedConfig acts once: no power loss, edit or later seed in any *)
(* order brings an older layout back.                                      *)
THEOREM SeedActsOnce == Spec => []StripIsKept
<1>1. ConfigInv => StripIsKept
  BY DEF ConfigInv, StripOnItsWay, StripIsKept, Settled
<1> QED BY <1>1, InvHolds, PTL

(* GET_CONFIG tells the override slots of a node whose setup and seed are   *)
(* done, segments as far as the strip goes.                                *)
THEOREM OptionsAreLive == Spec => []LiveFollowsOverride
  BY InvHolds, PTL DEF ConfigInv

(* Besides the defaults of a reset, no override in RAM is ever different   *)
(* from cfg.json without a save to come.                                   *)
THEOREM OnlyResetsUnsaved == Spec => []UnsavedIsReset
<1>1. ConfigInv => UnsavedIsReset
  BY DEF ConfigInv, Unsaved, UnsavedIsReset
<1> QED BY <1>1, InvHolds, PTL

-----------------------------------------------------------------------------
(* LocalControl.  Its assumption on the constants is a hypothesis here.    *)

CONSTANTS Random, MaxTaps, Unset

VARIABLES button, ap, color, colorFile, page, losses, taps, seen, dropped

L == INSTANCE LocalControl WITH file <- colorFile

Cycle == [boot : L!Color, saved : L!Color, write : BOOLEAN, pending : BOOLEAN,
          shown : 0 .. 3, next : L!Primary, idle : BOOLEAN]

\* The taps counted are the clean taps since the last gesture.
Counted == button.clicks = taps /\ (button.down => taps < MaxTaps)

\* A round knows what it has shown: the primaries before the next one.
RoundKept(s, shownBefore) ==
  /\ s.shown = 3 => shownBefore = L!Primary
  /\ s.shown \in {1, 2} => (s.next + 2) % 3 \in shownBefore
  /\ s.shown = 2 => (s.next + 1) % 3 \in shownBefore

LocalInv ==
  /\ L!TypeOK /\ Counted /\ RoundKept(color, seen)
  /\ L!MirrorIsSaved /\ L!SavedIsWritten

(* The place in the cycle goes round.                                      *)
LEMMA PlacesGoRound ==
  ASSUME NEW n \in L!Primary
  PROVE  /\ (n + 1) % 3 \in L!Primary /\ (((n + 1) % 3) + 2) % 3 = n
         /\ (((n + 1) % 3) + 1) % 3 = (n + 2) % 3
         /\ L!Primary = {n, (n + 1) % 3, (n + 2) % 3}
<1>1. L!Primary = {0, 1, 2}
  BY DEF L!Primary
<1>2. /\ 0 % 3 = 0 /\ 1 % 3 = 1 /\ 2 % 3 = 2 /\ 3 % 3 = 0 /\ 4 % 3 = 1
  OBVIOUS
<1>3. CASE n = 0
  BY <1>1, <1>2, <1>3
<1>4. CASE n = 1
  BY <1>1, <1>2, <1>4
<1>5. CASE n = 2
  BY <1>1, <1>2, <1>5
<1> QED BY <1>1, <1>3, <1>4, <1>5

(* Power-up with colour c: the boot colour and the saved one are c, and    *)
(* the round begins with it, or with nothing under a boot preset.          *)
LEMMA ShownRound ==
  ASSUME L!LocalAssumption, NEW s \in Cycle
  PROVE  LET t == L!Shown(s)
         IN /\ t \in Cycle /\ t.boot = s.boot /\ t.saved = s.saved /\ t.write = s.write
            /\ ~t.pending /\ RoundKept(t, L!SeenAt(s.boot)) /\ L!SeenAt(s.boot) \subseteq L!Primary
<1> DEFINE t == L!Shown(s)
<1>1. CASE s.boot \in L!Primary
  <2>1. /\ t \in Cycle /\ t.boot = s.boot /\ t.saved = s.saved /\ t.write = s.write /\ ~t.pending
        /\ t.shown = 1 /\ t.next = (s.boot + 1) % 3
    <3>1. t = [s EXCEPT !.shown = 1, !.next = (s.boot + 1) % 3, !.pending = FALSE]
      BY <1>1 DEF L!Shown
    <3>2. (s.boot + 1) % 3 \in L!Primary /\ 1 \in 0 .. 3
      BY <1>1, PlacesGoRound
    <3> HIDE DEF t
    <3> QED BY <3>1, <3>2 DEF Cycle
  <2>2. L!SeenAt(s.boot) = {s.boot}
    BY <1>1 DEF L!SeenAt
  <2>3. (t.next + 2) % 3 = s.boot
    BY <1>1, <2>1, PlacesGoRound
  <2> QED BY <1>1, <2>1, <2>2, <2>3 DEF RoundKept
<1>2. CASE s.boot \notin L!Primary
  <2>1. 0 \in L!Primary /\ 3 \in 0 .. 3
    BY DEF L!Primary
  <2>2. t = [s EXCEPT !.shown = 3, !.next = 0, !.pending = FALSE]
    BY <1>2 DEF L!Shown
  <2>3. L!SeenAt(s.boot) = L!Primary
    BY <1>2 DEF L!SeenAt
  <2> HIDE DEF t
  <2>4. /\ t \in Cycle /\ t.boot = s.boot /\ t.saved = s.saved /\ t.write = s.write
        /\ ~t.pending /\ t.shown = 3
    BY <2>1, <2>2 DEF Cycle
  <2>5. RoundKept(t, L!SeenAt(s.boot))
    BY <2>3, <2>4 DEF RoundKept
  <2> QED BY <2>3, <2>4, <2>5 DEF t
<1> QED BY <1>1, <1>2

LEMMA StartsRound ==
  ASSUME L!LocalAssumption, NEW c \in L!Color, NEW w \in BOOLEAN, NEW preset \in BOOLEAN
  PROVE  LET s == L!Starts(c, w, preset)
             now == IF preset THEN {} ELSE L!SeenAt(c)
         IN /\ s \in Cycle /\ s.boot = c /\ s.saved = c /\ s.write = w
            /\ RoundKept(s, now) /\ now \subseteq L!Primary
<1> DEFINE b == L!Booted(c, w)
<1>1. b \in Cycle /\ b.boot = c /\ b.saved = c /\ b.write = w /\ b.shown = 0
  BY DEF L!Booted, Cycle, L!Primary
<1>2. CASE preset
  BY <1>1, <1>2 DEF L!Starts, RoundKept
<1>3. CASE ~preset
  <2>1. L!Starts(c, w, preset) = L!Shown(b)
    BY <1>3 DEF L!Starts
  <2> HIDE DEF b
  <2> QED BY <1>1, <1>3, <2>1, ShownRound
<1> QED BY <1>2, <1>3

(* A click takes the next primary, or after all three a rolled colour.     *)
LEMMA ClickSteps ==
  ASSUME L!LocalAssumption, color \in Cycle, seen \subseteq L!Primary, RoundKept(color, seen),
         L!ColorCycleStep
  PROVE  /\ color' \in Cycle /\ seen' \subseteq L!Primary /\ RoundKept(color', seen')
         /\ color'.pending /\ color'.saved = color.saved /\ color'.write = color.write
         /\ color'.boot \notin L!Primary => seen = L!Primary
<1> PICK s \in L!Rounds(color) : color' \in L!Stepped(s)
  BY DEF L!ColorCycleStep
<1> DEFINE before == IF color.idle THEN {} ELSE seen
<1>1. /\ s \in Cycle /\ RoundKept(s, before) /\ before \subseteq L!Primary
      /\ s.saved = color.saved /\ s.write = color.write
      /\ s.shown = 3 => seen = L!Primary
  <2>1. CASE color.idle
    <3>1. PICK i \in L!Primary : s = [color EXCEPT !.shown = 0, !.next = i]
      BY <2>1, Zenon DEF L!Rounds
    <3>2. 0 \in 0 .. 3 /\ before = {}
      BY <2>1
    <3>3. s \in Cycle /\ s.saved = color.saved /\ s.write = color.write /\ s.shown = 0
      BY <3>1, <3>2 DEF Cycle
    <3> QED BY <3>2, <3>3 DEF RoundKept
  <2>2. CASE ~color.idle
    <3>1. s = color
      BY <2>2 DEF L!Rounds
    <3> QED BY <2>2, <3>1 DEF RoundKept
  <2> QED BY <2>1, <2>2
<1>2. seen' = before \cup (L!Primary \cap {color'.boot})
  BY DEF L!ColorCycleStep
<1> HIDE DEF before
<1>3. PICK c \in (IF s.shown < 3 THEN {s.next} ELSE Random) :
        color' = [s EXCEPT !.boot = c, !.idle = FALSE, !.pending = TRUE,
                           !.shown = IF s.shown < 3 THEN s.shown + 1 ELSE s.shown,
                           !.next = IF s.shown < 3 THEN (s.next + 1) % 3 ELSE s.next]
  BY DEF L!Stepped
<1>4. CASE s.shown < 3
  <2>1. s.next \in L!Primary /\ s.next \in L!Color /\ s.shown \in 0 .. 2 /\ s.shown + 1 \in 0 .. 3
    BY <1>1, <1>4 DEF Cycle, L!Color
  <2>2. (s.next + 1) % 3 \in L!Primary
    BY <2>1, PlacesGoRound
  <2>3. color' = [s EXCEPT !.boot = s.next, !.idle = FALSE, !.pending = TRUE,
                           !.shown = s.shown + 1, !.next = (s.next + 1) % 3]
    BY <1>3, <1>4
  <2>4. /\ color'.boot = s.next /\ color'.shown = s.shown + 1 /\ color'.next = (s.next + 1) % 3
        /\ color'.pending /\ color'.saved = s.saved /\ color'.write = s.write
        /\ color' \in Cycle
    BY <1>1, <2>1, <2>2, <2>3 DEF Cycle
  <2>5. seen' = before \cup {s.next}
    BY <1>2, <2>1, <2>4
  <2>6. RoundKept(color', seen')
    <3> DEFINE n == s.next
    <3>1. /\ (color'.next + 2) % 3 = n /\ (color'.next + 1) % 3 = (n + 2) % 3
          /\ L!Primary = {n, (n + 1) % 3, (n + 2) % 3}
      BY <2>1, <2>4, PlacesGoRound
    <3>2. s.shown \in {1, 2} => (n + 2) % 3 \in before
      BY <1>1 DEF RoundKept
    <3>3. s.shown = 2 => (n + 1) % 3 \in before
      BY <1>1 DEF RoundKept
    <3> HIDE DEF n
    <3>4. n \in seen' /\ before \subseteq seen' /\ seen' \subseteq L!Primary
      BY <1>1, <2>1, <2>5 DEF n
    <3>5. CASE s.shown = 0
      BY <2>4, <3>1, <3>4, <3>5 DEF RoundKept
    <3>6. CASE s.shown = 1
      BY <2>4, <3>1, <3>2, <3>4, <3>6 DEF RoundKept
    <3>7. CASE s.shown = 2
      <4>1. seen' = L!Primary
        BY <3>1, <3>2, <3>3, <3>4, <3>7
      <4>2. color'.shown = 3
        BY <2>4, <3>7
      <4> QED BY <4>1, <4>2 DEF RoundKept
    <3> QED BY <2>1, <3>5, <3>6, <3>7
  <2> QED BY <1>1, <2>1, <2>4, <2>5, <2>6
<1>5. CASE s.shown = 3
  <2>1. c \in Random /\ c \notin L!Primary
    BY <1>3, <1>5 DEF L!LocalAssumption
  <2>2. color' = [s EXCEPT !.boot = c, !.idle = FALSE, !.pending = TRUE,
                           !.shown = s.shown, !.next = s.next]
    BY <1>3, <1>5
  <2>3. /\ color'.boot = c /\ color'.shown = 3 /\ color'.next = s.next
        /\ color'.pending /\ color'.saved = s.saved /\ color'.write = s.write
        /\ color' \in Cycle
    BY <1>1, <1>5, <2>1, <2>2 DEF Cycle, L!Color
  <2>4. seen' = before
    BY <1>2, <2>1, <2>3
  <2> QED BY <1>1, <1>5, <2>3, <2>4 DEF RoundKept
<1>6. s.shown \in 0 .. 3
  BY <1>1 DEF Cycle
<1> QED BY <1>4, <1>5, <1>6

LEMMA LocalInit == ASSUME L!LocalAssumption PROVE L!Init => LocalInv
<1> SUFFICES ASSUME L!Init PROVE LocalInv
  OBVIOUS
<1>1. PICK c \in L!Primary, preset \in BOOLEAN :
        /\ color = L!Starts(c, TRUE, preset)
        /\ seen = IF preset THEN {} ELSE L!SeenAt(c)
  BY DEF L!Init
<1>2. c \in L!Color
  BY DEF L!Color
<1>3. /\ color \in Cycle /\ seen \subseteq L!Primary /\ RoundKept(color, seen)
      /\ color.boot = c /\ color.saved = c /\ color.write
  BY <1>1, <1>2, StartsRound
<1>4. /\ button \in [down : BOOLEAN, long : BOOLEAN, clicks : 0 .. MaxTaps + 1]
      /\ Counted /\ taps \in 0 .. MaxTaps + 1 /\ losses \in 0 .. MaxLosses
  <2>1. 0 \in 0 .. MaxTaps + 1 /\ MaxLosses \in 0 .. MaxLosses
    BY DEF L!LocalAssumption
  <2> QED BY <2>1 DEF L!Init, L!Released, Counted
<1>5. L!TypeOK
  BY <1>3, <1>4 DEF L!Init, L!TypeOK, Cycle
<1> QED BY <1>3, <1>4, <1>5 DEF LocalInv, L!MirrorIsSaved, L!SavedIsWritten

(* What the button does without a gesture touches its own state only.      *)
LEMMA EdgeKeeps ==
  ASSUME L!LocalAssumption, LocalInv, L!Edge
  PROVE  LocalInv' /\ ap' = ap
<1> DEFINE Buttons == [down : BOOLEAN, long : BOOLEAN, clicks : 0 .. MaxTaps + 1]
<1>1. /\ UNCHANGED <<ap, color, colorFile, page, losses, seen, dropped>>
  BY DEF L!Edge, L!Press, L!Bounce, L!Tap, L!Hold, L!EndHold, L!Button
<1>2. button \in Buttons /\ taps \in 0 .. MaxTaps + 1
  BY DEF LocalInv, L!TypeOK
<1>3. MaxTaps \in Nat /\ MaxTaps >= 6 /\ 0 \in 0 .. MaxTaps + 1
  BY DEF L!LocalAssumption
<1>4. Counted
  BY DEF LocalInv
<1>5. button' \in Buttons /\ taps' \in 0 .. MaxTaps + 1 /\ Counted'
  <2>1. CASE L!Press
    BY <2>1, <1>2, <1>4 DEF L!Press, L!Button, Counted
  <2>2. CASE L!Bounce
    BY <2>2, <1>2, <1>4 DEF L!Bounce, L!Button, Counted
  <2>3. CASE L!Tap
    <3>1. button.clicks + 1 \in 0 .. MaxTaps + 1 /\ button.clicks = taps
      BY <2>3, <1>2, <1>3, <1>4 DEF L!Tap, Counted
    <3> QED BY <2>3, <3>1, <1>2 DEF L!Tap, L!Button, Counted
  <2>4. CASE L!Hold
    <3>1. button' = [button EXCEPT !.long = TRUE, !.clicks = 0] /\ taps' = 0
      BY <2>4 DEF L!Hold, L!Held, L!Button
    <3>2. 0 < MaxTaps
      BY <1>3
    <3> QED BY <3>1, <3>2, <1>2, <1>3 DEF Counted
  <2>5. CASE L!EndHold
    BY <2>5, <1>2, <1>4 DEF L!EndHold, L!Button, Counted
  <2> QED BY <2>1, <2>2, <2>3, <2>4, <2>5 DEF L!Edge
<1>6. L!TypeOK'
  BY <1>1, <1>5 DEF LocalInv, L!TypeOK
<1> QED BY <1>1, <1>5, <1>6 DEF LocalInv, RoundKept, L!MirrorIsSaved, L!SavedIsWritten

LEMMA GestureKeeps ==
  ASSUME L!LocalAssumption, LocalInv, L!Gesture
  PROVE  LocalInv' /\ (ap # ap' => taps = 3)
<1>1. /\ button' = [button EXCEPT !.clicks = 0] /\ taps' = 0 /\ ~button.down
      /\ UNCHANGED <<colorFile, page, losses>>
  BY DEF L!Gesture
<1>2. /\ button' \in [down : BOOLEAN, long : BOOLEAN, clicks : 0 .. MaxTaps + 1]
      /\ taps' \in 0 .. MaxTaps + 1 /\ Counted'
  <2>1. 0 \in 0 .. MaxTaps + 1
    BY DEF L!LocalAssumption
  <2> QED BY <1>1, <2>1 DEF LocalInv, L!TypeOK, Counted
<1>3. ap' \in BOOLEAN /\ (ap # ap' => taps = 3)
  BY DEF L!Gesture, L!Three, LocalInv, L!TypeOK, Counted
<1>4. /\ color' \in Cycle /\ seen' \subseteq L!Primary /\ RoundKept(color', seen')
      /\ L!MirrorIsSaved' /\ L!SavedIsWritten' /\ dropped' \in BOOLEAN
  <2>1. color \in Cycle /\ seen \subseteq L!Primary /\ RoundKept(color, seen) /\ dropped \in BOOLEAN
    BY DEF LocalInv, L!TypeOK, Cycle
  <2>2. CASE L!ColorCycleStep
    <3>1. dropped' = FALSE
      BY <2>2 DEF L!ColorCycleStep
    <3>2. /\ color' \in Cycle /\ seen' \subseteq L!Primary /\ RoundKept(color', seen')
          /\ color'.pending /\ color'.saved = color.saved /\ color'.write = color.write
      BY <2>1, <2>2, ClickSteps
    <3> QED BY <1>1, <3>1, <3>2 DEF LocalInv, L!MirrorIsSaved, L!SavedIsWritten
  <2>3. CASE UNCHANGED <<color, seen, dropped>>
    BY <1>1, <2>1, <2>3 DEF LocalInv, L!MirrorIsSaved, L!SavedIsWritten
  <2> QED BY <2>2, <2>3 DEF L!Gesture
<1>5. L!TypeOK'
  BY <1>1, <1>2, <1>3, <1>4 DEF LocalInv, L!TypeOK, Cycle
<1> QED BY <1>2, <1>3, <1>4, <1>5 DEF LocalInv

(* A power-up takes the colour in cfg.json, or rolls and writes one.       *)
LEMMA PowerUp ==
  ASSUME L!LocalAssumption, LocalInv, L!PowerLoss
  PROVE  LocalInv' /\ (colorFile # Unset => color'.boot = colorFile)
<1>1. PICK c \in L!BootColors(colorFile), preset \in BOOLEAN :
        /\ color' = L!Starts(c, colorFile = Unset, preset)
        /\ seen' = IF preset THEN {} ELSE L!SeenAt(c)
  BY DEF L!PowerLoss
<1>2. /\ button' = L!Released /\ ap' = FALSE /\ taps' = 0 /\ dropped' = FALSE
      /\ UNCHANGED <<colorFile, page>> /\ losses > 0 /\ losses' = losses - 1
  BY DEF L!PowerLoss
<1>3. colorFile \in L!Color \cup {Unset} /\ page \in L!Color \cup {Unset} /\ losses \in 0 .. MaxLosses
  BY DEF LocalInv, L!TypeOK
<1>4. c \in L!Color /\ (colorFile # Unset => c = colorFile)
  BY <1>3 DEF L!BootColors, L!Color
<1>5. /\ color' \in Cycle /\ seen' \subseteq L!Primary /\ RoundKept(color', seen')
      /\ color'.boot = c /\ color'.saved = c /\ color'.write = (colorFile = Unset)
  <2> DEFINE w == (colorFile = Unset)
             s == L!Starts(c, w, preset)
             now == IF preset THEN {} ELSE L!SeenAt(c)
  <2>1. w \in BOOLEAN
    OBVIOUS
  <2>2. color' = s /\ seen' = now
    BY <1>1
  <2> HIDE DEF w
  <2>3. /\ s \in Cycle /\ s.boot = c /\ s.saved = c /\ s.write = w
        /\ RoundKept(s, now) /\ now \subseteq L!Primary
    BY <1>4, <2>1, StartsRound
  <2> HIDE DEF s, now
  <2>4. color'.write = w
    BY <2>2, <2>3
  <2> QED BY <2>2, <2>3, <2>4 DEF w
<1>6. /\ button' \in [down : BOOLEAN, long : BOOLEAN, clicks : 0 .. MaxTaps + 1]
      /\ taps' \in 0 .. MaxTaps + 1 /\ Counted' /\ losses' \in 0 .. MaxLosses
  <2>1. 0 \in 0 .. MaxTaps + 1 /\ losses - 1 \in 0 .. MaxLosses
    BY <1>2, <1>3 DEF L!LocalAssumption
  <2> QED BY <1>2, <2>1 DEF L!Released, Counted
<1>7. L!TypeOK'
  BY <1>2, <1>3, <1>5, <1>6 DEF L!TypeOK, Cycle
<1> QED BY <1>2, <1>4, <1>5, <1>6, <1>7 DEF LocalInv, L!MirrorIsSaved, L!SavedIsWritten

(* Saving, writing, the settings page and the scene leave the button be.   *)
LEMMA ColorKeeps ==
  ASSUME L!LocalAssumption, LocalInv,
         L!Service \/ L!RestoreBootColor \/ L!OpenPage \/ L!SavePage
  PROVE  LocalInv' /\ ap' = ap
<1>1. UNCHANGED <<button, ap, taps, losses>>
  BY DEF L!Service, L!Quiet, L!ServiceBootColorSave, L!WriteConfig, L!RestoreBootColor,
         L!OpenPage, L!SavePage, L!gestureVars
<1>2. /\ color \in Cycle /\ colorFile \in L!Color \cup {Unset} /\ page \in L!Color \cup {Unset}
      /\ seen \subseteq L!Primary /\ dropped \in BOOLEAN /\ RoundKept(color, seen)
      /\ L!MirrorIsSaved /\ L!SavedIsWritten
  BY DEF LocalInv, L!TypeOK, Cycle
<1>3. /\ color' \in Cycle /\ colorFile' \in L!Color \cup {Unset}
      /\ page' \in L!Color \cup {Unset}
      /\ seen' \subseteq L!Primary /\ dropped' \in BOOLEAN /\ RoundKept(color', seen')
      /\ L!MirrorIsSaved' /\ L!SavedIsWritten'
  <2>1. CASE L!Quiet
    <3>1. color' = [color EXCEPT !.idle = TRUE] /\ UNCHANGED <<colorFile, page, seen, dropped>>
      BY <2>1 DEF L!Quiet
    <3> QED BY <1>2, <3>1 DEF Cycle, RoundKept, L!MirrorIsSaved, L!SavedIsWritten
  <2>2. CASE L!ServiceBootColorSave
    <3>1. /\ color' = [color EXCEPT !.saved = color.boot, !.write = TRUE, !.pending = FALSE]
          /\ UNCHANGED <<colorFile, page, seen, dropped>>
      BY <2>2 DEF L!ServiceBootColorSave, L!Saved
    <3> QED BY <1>2, <3>1 DEF Cycle, RoundKept, L!MirrorIsSaved, L!SavedIsWritten
  <2>3. CASE L!WriteConfig
    <3>1. /\ color' = [color EXCEPT !.write = FALSE] /\ colorFile' = color.saved
          /\ UNCHANGED <<page, seen, dropped>>
      BY <2>3 DEF L!WriteConfig
    <3> QED BY <1>2, <3>1 DEF Cycle, RoundKept, L!MirrorIsSaved, L!SavedIsWritten
  <2>4. CASE L!RestoreBootColor
    <3>1. /\ color' = L!Shown(color) /\ seen' = L!SeenAt(color.boot)
          /\ dropped' = (dropped \/ color.pending) /\ UNCHANGED <<colorFile, page>>
      BY <2>4 DEF L!RestoreBootColor
    <3>2. /\ color' \in Cycle /\ color'.boot = color.boot /\ color'.saved = color.saved
          /\ color'.write = color.write /\ ~color'.pending
          /\ RoundKept(color', seen') /\ seen' \subseteq L!Primary
      BY <1>2, <3>1, ShownRound
    <3>3. dropped' \in BOOLEAN
      BY <3>1
    <3> QED BY <1>2, <3>1, <3>2, <3>3 DEF L!MirrorIsSaved, L!SavedIsWritten
  <2>5. CASE L!OpenPage
    <3>1. page' = color.saved /\ UNCHANGED <<color, colorFile, seen, dropped>>
      BY <2>5 DEF L!OpenPage
    <3> QED BY <1>2, <3>1 DEF Cycle, L!MirrorIsSaved, L!SavedIsWritten
  <2>6. CASE L!SavePage
    <3>1. /\ page # Unset /\ page' = Unset
          /\ color' = [color EXCEPT !.saved = page, !.write = TRUE]
          /\ dropped' = (dropped \/ (~color.pending /\ page # color.boot))
          /\ UNCHANGED <<colorFile, seen>>
      BY <2>6 DEF L!SavePage, L!Posted
    <3>2. /\ color' \in Cycle /\ color'.boot = color.boot /\ color'.saved = page /\ color'.write
          /\ color'.pending = color.pending /\ RoundKept(color', seen')
      BY <1>2, <3>1 DEF Cycle, RoundKept
    <3>3. dropped' \in BOOLEAN
      BY <3>1
    <3> QED BY <1>2, <3>1, <3>2, <3>3 DEF L!MirrorIsSaved, L!SavedIsWritten
  <2> QED BY <2>1, <2>2, <2>3, <2>4, <2>5, <2>6 DEF L!Service
<1>4. L!TypeOK' /\ Counted'
  BY <1>1, <1>3 DEF LocalInv, L!TypeOK, Cycle, Counted
<1> QED BY <1>1, <1>3, <1>4 DEF LocalInv

LEMMA LocalNext ==
  ASSUME L!LocalAssumption PROVE LocalInv /\ [L!Next]_(L!vars) => LocalInv'
<1> SUFFICES ASSUME LocalInv, [L!Next]_(L!vars) PROVE LocalInv'
  OBVIOUS
<1>1. CASE \E on \in BOOLEAN : L!ApOption(on)
  BY <1>1 DEF L!ApOption, LocalInv, L!TypeOK, Counted, RoundKept, L!MirrorIsSaved,
              L!SavedIsWritten
<1>2. CASE UNCHANGED L!vars
  BY <1>2 DEF L!vars, LocalInv, L!TypeOK, Counted, RoundKept, L!MirrorIsSaved,
              L!SavedIsWritten
<1> QED BY <1>1, <1>2, EdgeKeeps, GestureKeeps, PowerUp, ColorKeeps DEF L!Next, L!Remote

LEMMA LocalHolds == ASSUME L!LocalAssumption PROVE L!Spec => []LocalInv
  BY LocalInit, LocalNext, PTL DEF L!Spec

(* The button and the boot colour keep their types, for any number of taps *)
(* and power losses.                                                       *)
THEOREM LocalTypeCorrect == ASSUME L!LocalAssumption PROVE L!Spec => []L!TypeOK
<1>1. LocalInv => L!TypeOK
  BY DEF LocalInv
<1> QED BY <1>1, LocalHolds, PTL

(* The boot colour is the saved one or about to be saved, but for a scene  *)
(* or a stale settings page; the saved one is in cfg.json or about to be.  *)
THEOREM BootColorIsSaved ==
  ASSUME L!LocalAssumption PROVE L!Spec => [](L!MirrorIsSaved /\ L!SavedIsWritten)
<1>1. LocalInv => L!MirrorIsSaved /\ L!SavedIsWritten
  BY DEF LocalInv
<1> QED BY <1>1, LocalHolds, PTL

(* So a colour that has settled is the one that a power loss brings back.  *)
THEOREM ColorSurvives == ASSUME L!LocalAssumption PROVE L!Spec => L!SettledSurvives
<1>1. ASSUME LocalInv
      PROVE  [L!PowerLoss /\ ~(color.pending \/ color.write \/ dropped)
                => color'.boot = color.boot]_(L!vars)
  <2> SUFFICES ASSUME L!PowerLoss, ~(color.pending \/ color.write \/ dropped)
               PROVE  color'.boot = color.boot
    OBVIOUS
  <2>1. colorFile = color.boot
    BY <1>1 DEF LocalInv, L!MirrorIsSaved, L!SavedIsWritten
  <2>2. color.boot # Unset
    BY <1>1 DEF LocalInv, L!TypeOK, L!LocalAssumption
  <2> QED BY <1>1, <2>1, <2>2, PowerUp
<1> QED BY <1>1, LocalHolds, PTL DEF L!SettledSurvives

(* No sequence of clicks, scenes, power losses and idle times shows a      *)
(* rolled colour before the three primaries of its round.                  *)
THEOREM PrimariesFirst == ASSUME L!LocalAssumption PROVE L!Spec => L!RandomAfterAll
<1>1. ASSUME LocalInv
      PROVE  [L!ColorCycleStep /\ color'.boot \notin L!Primary => seen = L!Primary]_(L!vars)
  <2>1. color \in Cycle /\ seen \subseteq L!Primary /\ RoundKept(color, seen)
    BY <1>1 DEF LocalInv, L!TypeOK, Cycle
  <2> QED BY <2>1, ClickSteps
<1> QED BY <1>1, LocalHolds, PTL DEF L!RandomAfterAll

(* No sequence of taps, bounces and holds but three clean taps makes the   *)
(* button open or close the access point.                                  *)
THEOREM ThreeTapsOnly == ASSUME L!LocalAssumption PROVE L!Spec => L!ApByThreeTaps
<1>1. ASSUME LocalInv, [L!Next]_(L!vars)
      PROVE  [button # button' /\ ap # ap' => taps = 3 \/ L!PowerLoss]_(L!vars)
  <2> SUFFICES ASSUME button # button', ap # ap', ~L!PowerLoss PROVE taps = 3
    OBVIOUS
  <2>1. ~ \E on \in BOOLEAN : L!ApOption(on)
    BY DEF L!ApOption
  <2>2. L!Next
    BY <1>1 DEF L!vars
  <2> QED BY <1>1, <2>1, <2>2, EdgeKeeps, GestureKeeps, ColorKeeps DEF L!Next, L!Remote
<1> QED BY <1>1, LocalHolds, PTL DEF L!Spec, L!ApByThreeTaps
=============================================================================
