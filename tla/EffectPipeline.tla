--------------------------- MODULE EffectPipeline ---------------------------
(***************************************************************************)
(* How one node turns OPC_CONTROL, OPC_PRESET, OPC_OFFSET, OPC_SYNC and    *)
(* OPC_HEADLESS packets into what its strip shows: immediate effects,      *)
(* effects armed until a trigger SYNC, and fired effects that wait for the *)
(* per-device offset of their group.                                       *)
(*                                                                         *)
(* A packet handler runs to completion inside loop(), so each handler is   *)
(* one action.  WLED's stateUpdated() is external; it calls                *)
(* onStateChange() before it returns.  The fields of an effect are one     *)
(* token, times are in units of the offsets a run uses, and timebase is    *)
(* an unbounded integer: the wrap of SYNC's 24-bit time is left out.       *)
(***************************************************************************)
EXTENDS Integers

CONSTANTS
  Effects,        \* what a CONTROL or PRESET puts on the segment
  BootEffect,     \* the segment showing the device's boot color
  Brightness,     \* brightness values, 0 = dark
  BriS,           \* WLED's boot brightness, the default of a scene packet
  Groups,         \* group ids a node can have
  ControlFlags,   \* flag bytes that occur in CONTROL packets
  PresetFlags,    \* flag bytes that occur in PRESET packets
  OffsetConfigs,  \* formulas that occur in OFFSET packets
  Scenes,         \* rows of the headless scene catalog
  MasterTimebases,\* timebases the master's clock asks for in a SYNC
  MaxOffset,      \* 0xFFFF, the clamp of computeOffsetMs
  HardResync,     \* RACELINK_SYNC_HARD_RESYNC_MS
  MaxStep,        \* RACELINK_SYNC_MAX_STEP_MS
  None            \* "no such packet", the FALSE of the valid flags

Flag == {"POWER_ON", "ARM_ON_SYNC", "HAS_BRI", "OFFSET_MODE"}
OffsetMode == {"NONE", "EXPLICIT", "LINEAR", "VSHAPE", "MODULO"}

\* arg is explicit_ms, center or cycle, whichever the mode has.
OffsetConfig == [mode : OffsetMode, base : Int, step : Int, arg : Nat]
NoOffset == [mode |-> "NONE", base |-> 0, step |-> 0, arg |-> 0]

SceneKind == {"EFFECT", "ALL_OFF", "RESTORE_LOCAL"}
Scene == [kind : SceneKind, fx : Effects, offset : OffsetConfigs \cup {NoOffset}]

Fields == [fx : Effects, bri : Brightness \cup {None}]
Offset == 0 .. MaxOffset
Broadcast == 255

\* The armed CONTROL, the fired effect, and what is remembered of a CONTROL.
PendingRec == [f : Fields, offset : Offset]
DeferredRec == [f : Fields, flags : SUBSET Flag, bri : Brightness,
                offset : Offset, wait : Offset]
AcceptedRec == [f : Fields, flags : SUBSET Flag, offset : Offset]

ASSUME ConstantsAssumption ==
  /\ Brightness \subseteq Nat /\ 0 \in Brightness /\ BriS \in Brightness
  /\ Groups \subseteq 0 .. 254 /\ 0 \in Groups
  /\ ControlFlags \subseteq SUBSET Flag /\ PresetFlags \subseteq SUBSET Flag
  /\ OffsetConfigs \subseteq OffsetConfig
  /\ \A c \in OffsetConfigs : c.mode = "MODULO" => c.arg > 0
  /\ Scenes \subseteq Scene
  /\ MasterTimebases \subseteq Int
  /\ MaxOffset \in Nat /\ HardResync \in Nat /\ MaxStep \in Nat
  /\ None \notin Brightness \cup OffsetConfig \cup PendingRec \cup DeferredRec \cup AcceptedRec

VARIABLES
  groupId,       \* current.groupId
  flags,         \* current.flags
  fx, bri,       \* what the segment shows, and how bright
  haveControl,   \* a PRESET or CONTROL has been accepted since boot
  active,        \* the materialised offset configuration
  pendingChange, \* the OFFSET not yet materialised, or None
  pending,       \* the armed CONTROL, or None
  deferred,      \* the fired effect waiting for its offset, or None
  phase,         \* activePhaseOffsetMs
  timebase,      \* strip.timebase
  indicator,     \* an indicator overlay is running
  accepted       \* history: the last accepted CONTROL and its offset

offsetVars == <<active, pendingChange>>
stripVars == <<flags, fx, bri>>
clockVars == <<phase, timebase>>
vars == <<groupId, flags, fx, bri, haveControl, active, pendingChange,
          pending, deferred, phase, timebase, indicator, accepted>>

Abs(n) == IF n < 0 THEN -n ELSE n
Clamp(n, lo, hi) == IF n < lo THEN lo ELSE IF n > hi THEN hi ELSE n

-----------------------------------------------------------------------------
(* Offset formula and acceptance gate.                                     *)

RawOffset(cfg, g) ==
  CASE cfg.mode = "NONE"     -> 0
    [] cfg.mode = "EXPLICIT" -> cfg.arg
    [] cfg.mode = "LINEAR"   -> cfg.base + g * cfg.step
    [] cfg.mode = "VSHAPE"   -> cfg.base + Abs(g - cfg.arg) * cfg.step
    [] cfg.mode = "MODULO"   -> cfg.base + (g % cfg.arg) * cfg.step

ComputeOffset(cfg, g) == Clamp(RawOffset(cfg, g), 0, MaxOffset)

Effective == IF pendingChange # None THEN pendingChange ELSE active

GateAccepts(fl) == ("OFFSET_MODE" \in fl) <=> (Effective.mode # "NONE")

GroupMatch(g) == g = groupId \/ g = Broadcast

OffsetFor(fl, cfg) == IF "OFFSET_MODE" \in fl THEN ComputeOffset(cfg, groupId) ELSE 0

-----------------------------------------------------------------------------
(* Pieces of the handlers.                                                 *)

\* Mutant: going dark clears the whole flag byte.
WithPowerOrNothing(fl, b) == IF b > 0 THEN fl \cup {"POWER_ON"} ELSE {}

\* onStateChange: POWER_ON follows the brightness WLED now has.
WithPower(fl, b) == IF b > 0 THEN fl \cup {"POWER_ON"} ELSE fl \ {"POWER_ON"}

\* The brightness applyAdvancedFields leaves, starting from b.
AppliedBri(fl, f, b) ==
  IF "POWER_ON" \notin fl THEN 0
  ELSE IF "HAS_BRI" \in fl /\ f.bri # None THEN f.bri
  ELSE b

\* An effect without a brightness of its own takes the SYNC packet's.
TakesSyncBri(fl) == "POWER_ON" \in fl /\ "HAS_BRI" \notin fl

\* Mutant: the timebase does not take up the change of the offset.
SetPhaseOnly(n) == phase' = n /\ UNCHANGED timebase

SetPhase(n) ==
  /\ phase' = n
  /\ timebase' = timebase + (phase - n)

Materialise ==
  /\ active' = Effective
  /\ pendingChange' = None

\* current.flags and bri become what onStateChange leaves for brightness b.
Show(x, fl, b) ==
  /\ fx' = x
  /\ bri' = b
  /\ flags' = WithPower(fl, b)

-----------------------------------------------------------------------------
Init ==
  /\ groupId = 0
  /\ flags = WithPower({}, BriS)
  /\ fx = BootEffect
  /\ bri = BriS
  /\ haveControl = FALSE
  /\ active = NoOffset
  /\ pendingChange = None
  /\ pending = None
  /\ deferred = None
  /\ phase = 0
  /\ timebase = 0
  /\ indicator = FALSE
  /\ accepted = None

\* OPC_CONTROL with ARM_ON_SYNC: remember it, with the offset of the
\* effective configuration; drop whatever still waits for its offset.
ArmControl(g, fl, f) ==
  /\ GroupMatch(g) /\ GateAccepts(fl)
  /\ "ARM_ON_SYNC" \in fl
  /\ LET off == OffsetFor(fl, Effective)
     IN /\ pending' = [f |-> f, offset |-> off]
        /\ accepted' = [f |-> f, flags |-> fl, offset |-> off]
  /\ flags' = fl
  /\ haveControl' = TRUE
  /\ indicator' = FALSE
  /\ deferred' = None
  /\ UNCHANGED <<groupId, fx, bri, offsetVars, clockVars>>

\* Mutant: an immediate effect leaves the fired one waiting.
ImmediateKeepsFired(g, fl, f) ==
  /\ GroupMatch(g) /\ GateAccepts(fl)
  /\ "ARM_ON_SYNC" \notin fl
  /\ Show(f.fx, fl, AppliedBri(fl, f, bri))
  /\ SetPhase(OffsetFor(fl, active))
  /\ haveControl' = TRUE
  /\ indicator' = FALSE
  /\ pending' = None
  /\ accepted' = [f |-> f, flags |-> fl, offset |-> OffsetFor(fl, active)]
  /\ UNCHANGED <<groupId, offsetVars, deferred>>

\* OPC_CONTROL without ARM_ON_SYNC: show it and drop everything queued.
\* The configuration of a not yet materialised OFFSET stays where it is.
ImmediateControl(g, fl, f) ==
  /\ GroupMatch(g) /\ GateAccepts(fl)
  /\ "ARM_ON_SYNC" \notin fl
  /\ Show(f.fx, fl, AppliedBri(fl, f, bri))
  /\ SetPhase(OffsetFor(fl, active))
  /\ haveControl' = TRUE
  /\ indicator' = FALSE
  /\ pending' = None
  /\ deferred' = None
  /\ accepted' = [f |-> f, flags |-> fl, offset |-> OffsetFor(fl, active)]
  /\ UNCHANGED <<groupId, offsetVars>>

\* OPC_PRESET: materialise the pending configuration, then show the preset.
Preset(g, fl, x, b) ==
  /\ GroupMatch(g) /\ GateAccepts(fl)
  /\ Materialise
  /\ Show(x, flags, b)
  /\ SetPhase(OffsetFor(fl, Effective))
  /\ haveControl' = TRUE
  /\ indicator' = FALSE
  /\ UNCHANGED <<groupId, pending, deferred, accepted>>

\* OPC_OFFSET
HandleOffset(g, cfg) ==
  /\ GroupMatch(g)
  /\ pendingChange' = cfg
  /\ UNCHANGED <<groupId, stripVars, haveControl, active, pending, deferred,
                 clockVars, indicator, accepted>>

\* Mutant: the drift is measured against the shifted timebase.
CorrectedUnshifted(desired) ==
  LET err == desired - timebase
  IN IF pending # None \/ Abs(err) > HardResync
     THEN desired - phase
     ELSE timebase + Clamp(err, -MaxStep, MaxStep)

\* The timebase after the drift correction of a SYNC that asks for desired.
Corrected(desired) ==
  LET err == desired - (timebase + phase)
  IN IF pending # None \/ Abs(err) > HardResync
     THEN desired - phase
     ELSE timebase + Clamp(err, -MaxStep, MaxStep)

\* OPC_SYNC that fires an armed effect of offset 0: it shows at once.
FireNow(desired, b) ==
  /\ pending # None /\ pending.offset = 0
  /\ LET b1  == AppliedBri(flags, pending.f, bri)
         fl1 == WithPower(flags, b1)
     IN Show(pending.f.fx, fl1, IF TakesSyncBri(fl1) THEN b ELSE b1)
  /\ Materialise
  /\ phase' = 0
  /\ timebase' = Corrected(desired) + phase
  /\ pending' = None
  /\ UNCHANGED <<groupId, haveControl, deferred, indicator, accepted>>

\* Mutant: the offset is computed again when the effect is fired.
FiredWithNewOffset(b) ==
  LET off == OffsetFor(flags, Effective)
  IN [f |-> pending.f, flags |-> flags, bri |-> b, offset |-> off, wait |-> off]

\* What serviceDeferredApply will need, the SYNC's brightness included.
Fired(b) ==
  [f |-> pending.f, flags |-> flags, bri |-> b,
   offset |-> pending.offset, wait |-> pending.offset]

\* OPC_SYNC that fires an armed effect with an offset: it waits.
FireLater(desired, b) ==
  /\ pending # None /\ pending.offset # 0
  /\ deferred' = Fired(b)
  /\ Materialise
  /\ timebase' = Corrected(desired)
  /\ pending' = None
  /\ UNCHANGED <<groupId, stripVars, haveControl, phase, indicator, accepted>>

\* OPC_SYNC that fires nothing: it corrects the timebase and, when the last
\* CONTROL had no brightness of its own, drives the brightness.
ClockTick(desired, b) ==
  /\ timebase' = Corrected(desired)
  /\ LET b1 == IF "POWER_ON" \in flags THEN b ELSE 0
     IN IF haveControl /\ "HAS_BRI" \notin flags /\ b1 # bri
        THEN Show(fx, flags, b1)
        ELSE UNCHANGED stripVars
  /\ UNCHANGED <<groupId, haveControl, offsetVars, pending, deferred, phase,
                 indicator, accepted>>

HandleSync(desired, b, trigger) ==
  \/ trigger /\ FireNow(desired, b)
  \/ trigger /\ FireLater(desired, b)
  \/ ~(trigger /\ pending # None) /\ ClockTick(desired, b)

\* Mutant: a running indicator overlay holds the effect back.
DeferredApplyUnlessOverlay ==
  /\ deferred # None /\ deferred.wait = 0 /\ ~indicator
  /\ LET b1 == AppliedBri(deferred.flags, deferred.f, bri)
     IN Show(deferred.f.fx, WithPower(flags, b1),
             IF TakesSyncBri(deferred.flags) THEN deferred.bri ELSE b1)
  /\ SetPhase(deferred.offset)
  /\ deferred' = None
  /\ UNCHANGED <<groupId, haveControl, offsetVars, pending, indicator, accepted>>

\* serviceDeferredApply, once the offset has elapsed.
DeferredApply ==
  /\ deferred # None /\ deferred.wait = 0
  /\ LET b1 == AppliedBri(deferred.flags, deferred.f, bri)
     IN Show(deferred.f.fx, WithPower(flags, b1),
             IF TakesSyncBri(deferred.flags) THEN deferred.bri ELSE b1)
  /\ SetPhase(deferred.offset)
  /\ deferred' = None
  /\ UNCHANGED <<groupId, haveControl, offsetVars, pending, indicator, accepted>>

\* millis() moves while a fired effect waits for its deadline.
Tick ==
  /\ deferred # None /\ deferred.wait > 0
  /\ deferred' = [deferred EXCEPT !.wait = @ - 1]
  /\ UNCHANGED <<groupId, stripVars, haveControl, offsetVars, pending, clockVars,
                 indicator, accepted>>

\* applyLocalScene (an OPC_HEADLESS packet, or this node's own scene when it
\* is the headless master).
HeadlessScene(s, b) ==
  /\ LET b1 == IF b # 0 THEN b ELSE BriS
     IN CASE s.kind = "ALL_OFF"       -> Show(fx, flags, 0)
          [] s.kind = "RESTORE_LOCAL" -> Show(BootEffect, flags, b1)
          [] s.kind = "EFFECT"        -> Show(s.fx, flags, b1)
  /\ SetPhase(ComputeOffset(s.offset, groupId))
  /\ UNCHANGED <<groupId, haveControl, offsetVars, pending, deferred, indicator,
                 accepted>>

\* OPC_SET_GROUP, as far as effects are concerned.
SetGroup(g) ==
  /\ groupId' = g
  /\ indicator' = TRUE
  /\ UNCHANGED <<stripVars, haveControl, offsetVars, pending, deferred, clockVars,
                 accepted>>

\* OPC_INDICATE with and without a duration, or the overlay running out.
Indicate(on) ==
  /\ indicator # on
  /\ indicator' = on
  /\ UNCHANGED <<groupId, stripVars, haveControl, offsetVars, pending, deferred,
                 clockVars, accepted>>

\* The WLED web UI, its JSON API or the node's button set the strip.
LocalChange(x, b) ==
  /\ Show(x, flags, b)
  /\ UNCHANGED <<groupId, haveControl, offsetVars, pending, deferred, clockVars,
                 indicator, accepted>>

-----------------------------------------------------------------------------
Control(g, fl, f) == ArmControl(g, fl, f) \/ ImmediateControl(g, fl, f)

Packet ==
  \/ \E g \in Groups \cup {Broadcast} :
       \/ \E fl \in ControlFlags, f \in Fields :
            ArmControl(g, fl, f) \/ ImmediateControl(g, fl, f)
       \/ \E fl \in PresetFlags, x \in Effects, b \in Brightness : Preset(g, fl, x, b)
       \/ \E cfg \in OffsetConfigs : HandleOffset(g, cfg)
  \/ \E d \in MasterTimebases, b \in Brightness, t \in BOOLEAN : HandleSync(d, b, t)
  \/ \E s \in Scenes, b \in Brightness : HeadlessScene(s, b)
  \/ \E g \in Groups : SetGroup(g)
  \/ \E on \in BOOLEAN : Indicate(on)

Local == \E x \in Effects, b \in Brightness : LocalChange(x, b)

Next == Packet \/ Local \/ DeferredApply \/ Tick

Spec == Init /\ [][Next]_vars

\* loop() keeps running and millis() keeps moving.
FairSpec == Spec /\ WF_vars(DeferredApply) /\ WF_vars(Tick)
-----------------------------------------------------------------------------
(* Properties.                                                             *)

\* Every variable has its type.
TypeOK ==
  /\ groupId \in Groups
  /\ flags \in SUBSET Flag
  /\ fx \in Effects \cup {BootEffect} /\ bri \in Brightness
  /\ haveControl \in BOOLEAN /\ indicator \in BOOLEAN
  /\ active \in OffsetConfigs \cup {NoOffset}
  /\ pendingChange \in OffsetConfigs \cup {None}
  /\ pending \in PendingRec \cup {None}
  /\ deferred \in DeferredRec \cup {None}
  /\ phase \in Offset /\ timebase \in Int
  /\ accepted \in AcceptedRec \cup {None}

WithoutPower(fl) == fl \ {"POWER_ON"}

\* Of all the CONTROLs a node was sent, only the last one accepted is still
\* queued, once, as an armed or as a fired effect: a newer CONTROL cancels
\* both, and a SYNC moves the one into the other.
OneQueuedEffect ==
  /\ pending = None \/ deferred = None
  /\ pending # None =>
       accepted # None /\ pending.f = accepted.f /\ "ARM_ON_SYNC" \in accepted.flags
  /\ deferred # None =>
       accepted # None /\ deferred.f = accepted.f /\ "ARM_ON_SYNC" \in accepted.flags

\* The offset of a queued effect is the one computed when it was armed,
\* whatever OFFSET, SET_GROUP and PRESET packets have come since.
OffsetFixedAtArm ==
  /\ pending # None => pending.offset = accepted.offset
  /\ deferred # None => deferred.offset = accepted.offset /\ deferred.wait <= deferred.offset

\* Of the flag byte of the last CONTROL only the power bit is ever rewritten;
\* a fired effect runs under the bits it was sent with.
FlagsFromControl ==
  /\ accepted # None => WithoutPower(flags) = WithoutPower(accepted.flags)
  /\ deferred # None => WithoutPower(deferred.flags) = WithoutPower(accepted.flags)

\* Only OPC_OFFSET moves a node into or out of offset mode: materialising a
\* pending configuration, early or late, does not change what the gate sees.
EffectiveOnlyByOffset ==
  [][Effective' # Effective =>
       \E g \in Groups \cup {Broadcast}, cfg \in OffsetConfigs : HandleOffset(g, cfg)]_vars

AnySync == \E d \in MasterTimebases, b \in Brightness, t \in BOOLEAN : HandleSync(d, b, t)

\* The master-aligned timebase, timebase + phase, is moved by SYNC alone:
\* showing an effect with another offset does not unsettle the next SYNC.
LogicalTimeOnlyBySync ==
  [][timebase' + phase' # timebase + phase => AnySync]_vars

\* Every SYNC brings the master-aligned timebase nearer to the master's, by
\* at most MaxStep when the error is small and no effect is armed, and all
\* the way otherwise; it never overshoots, whatever the phase offset is.
SyncNeverDiverges ==
  [][\A d \in MasterTimebases, b \in Brightness, t \in BOOLEAN :
       HandleSync(d, b, t) =>
         LET before == Abs(d - (timebase + phase))
             after  == Abs(d - (timebase' + phase'))
         IN \/ after = 0
            \/ pending = None /\ before <= HardResync /\ after = before - MaxStep]_vars

AcceptedControl ==
  \E g \in Groups \cup {Broadcast}, fl \in ControlFlags, f \in Fields : Control(g, fl, f)

\* A fired effect is neither lost nor replaced while it waits: it stays as it
\* was fired until it shows with its own offset or a CONTROL cancels it.
FiredEffectKept ==
  [][deferred # None =>
       \/ deferred' # None /\ [deferred' EXCEPT !.wait = 0] = [deferred EXCEPT !.wait = 0]
       \/ AcceptedControl
       \/ deferred.wait = 0 /\ fx' = deferred.f.fx /\ phase' = deferred.offset]_vars

\* What has been fired shows or is cancelled.
FiredEffectLeaves == deferred # None ~> deferred = None

\* What comments in the code say and it does not do.

\* An immediate CONTROL in offset mode takes the offset of the effective
\* configuration, the one the gate accepted it under.
ImmediateUsesEffective ==
  [][\A g \in Groups \cup {Broadcast}, fl \in ControlFlags, f \in Fields :
       ImmediateControl(g, fl, f) => phase' = OffsetFor(fl, Effective)]_vars

\* When the last CONTROL was POWER_ON without a brightness and nothing is
\* queued, a SYNC drives the brightness.
SyncDrivesBrightness ==
  [][\A d \in MasterTimebases, b \in Brightness, t \in BOOLEAN :
       /\ HandleSync(d, b, t)
       /\ accepted # None /\ TakesSyncBri(accepted.flags)
       /\ pending = None /\ deferred = None
       => bri' = b]_vars
=============================================================================
