------------------------ MODULE EffectPipelineProofs ------------------------
(***************************************************************************)
(* What holds of a node's effect pipeline for every set of effects,        *)
(* groups, flag bytes and offset formulas; and which predictions let       *)
(* handleSync complete a timestamp, for any width of the timestamp and of  *)
(* the clock.                                                              *)
(***************************************************************************)
EXTENDS EffectPipeline, SyncClock, TLAPS

-----------------------------------------------------------------------------
(* Lemmas about the operators.                                             *)

\* Clamping to an interval yields a member of it.
LEMMA ClampInRange ==
  ASSUME NEW n \in Int, NEW lo \in Int, NEW hi \in Int, lo <= hi
  PROVE  Clamp(n, lo, hi) \in lo .. hi
BY DEF Clamp

\* Every formula a node may hold evaluates to an integer.
LEMMA RawOffsetInt ==
  ASSUME NEW cfg \in OffsetConfigs \cup {NoOffset}, NEW g \in Groups
  PROVE  RawOffset(cfg, g) \in Int
<1>1. cfg \in OffsetConfig /\ g \in Int /\ (cfg.mode = "MODULO" => cfg.arg > 0)
  BY ConstantsAssumption DEF NoOffset, OffsetConfig, OffsetMode
<1>2. cfg.mode \in OffsetMode /\ cfg.base \in Int /\ cfg.step \in Int /\ cfg.arg \in Nat
  BY <1>1 DEF OffsetConfig
<1>3. CASE cfg.mode = "NONE"
  BY <1>2, <1>3 DEF RawOffset
<1>4. CASE cfg.mode = "EXPLICIT"
  BY <1>2, <1>4 DEF RawOffset
<1>5. CASE cfg.mode = "LINEAR"
  <2>1. RawOffset(cfg, g) = cfg.base + g * cfg.step
    BY <1>5 DEF RawOffset
  <2>2. QED BY <2>1, <1>1, <1>2
<1>6. CASE cfg.mode = "VSHAPE"
  <2>1. RawOffset(cfg, g) = cfg.base + Abs(g - cfg.arg) * cfg.step
    BY <1>6 DEF RawOffset
  <2>2. Abs(g - cfg.arg) \in Int
    BY <1>1, <1>2 DEF Abs
  <2>3. QED BY <2>1, <2>2, <1>1, <1>2
<1>7. CASE cfg.mode = "MODULO"
  <2>1. RawOffset(cfg, g) = cfg.base + (g % cfg.arg) * cfg.step
    BY <1>7 DEF RawOffset
  <2>2. g % cfg.arg \in Int
    BY <1>1, <1>2, <1>7
  <2>3. QED BY <2>1, <2>2, <1>1, <1>2
<1>8. QED BY <1>2, <1>3, <1>4, <1>5, <1>6, <1>7 DEF OffsetMode

\* computeOffsetMs never leaves 0 .. 0xFFFF.
LEMMA ComputeOffsetInRange ==
  ASSUME NEW cfg \in OffsetConfigs \cup {NoOffset}, NEW g \in Groups
  PROVE  ComputeOffset(cfg, g) \in Offset
<1>1. RawOffset(cfg, g) \in Int
  BY RawOffsetInt
<1>2. 0 \in Int /\ MaxOffset \in Int /\ 0 <= MaxOffset
  BY ConstantsAssumption
<1>3. Clamp(RawOffset(cfg, g), 0, MaxOffset) \in 0 .. MaxOffset
  BY <1>1, <1>2, ClampInRange
<1>4. QED BY <1>3 DEF ComputeOffset, Offset

\* The effective configuration is one of the formulas in use.
LEMMA EffectiveType ==
  ASSUME TypeOK
  PROVE  Effective \in OffsetConfigs \cup {NoOffset}
BY DEF TypeOK, Effective

\* The offset a CONTROL or PRESET asks for is in range.
LEMMA OffsetForInRange ==
  ASSUME TypeOK, NEW fl, NEW cfg \in OffsetConfigs \cup {NoOffset}
  PROVE  OffsetFor(fl, cfg) \in Offset
BY ComputeOffsetInRange, ConstantsAssumption DEF OffsetFor, TypeOK, Offset

\* The brightness an effect leaves is a brightness.
LEMMA AppliedBriType ==
  ASSUME NEW fl, NEW f \in Fields, NEW b \in Brightness
  PROVE  AppliedBri(fl, f, b) \in Brightness
BY ConstantsAssumption DEF AppliedBri, Fields

\* onStateChange rewrites the power bit and nothing else.
LEMMA WithPowerKeepsRest ==
  ASSUME NEW fl \in SUBSET Flag, NEW b
  PROVE  /\ WithPower(fl, b) \in SUBSET Flag
         /\ WithoutPower(WithPower(fl, b)) = WithoutPower(fl)
BY DEF WithPower, WithoutPower, Flag

\* The corrected timebase is an integer.
LEMMA CorrectedType ==
  ASSUME TypeOK, NEW d \in MasterTimebases
  PROVE  Corrected(d) \in Int
<1> DEFINE err == d - (timebase + phase)
<1>1. d \in Int /\ timebase \in Int /\ phase \in Int /\ err \in Int
  BY ConstantsAssumption DEF TypeOK, Offset
<1>2. Clamp(err, -MaxStep, MaxStep) \in Int
  BY <1>1, ConstantsAssumption DEF Clamp
<1>3. QED BY <1>1, <1>2 DEF Corrected
-----------------------------------------------------------------------------
(* Type correctness.                                                       *)

\* The initial state is well typed.
LEMMA InitTypeOK == Init => TypeOK
<1>1. WithPower({}, BriS) \in SUBSET Flag
  BY WithPowerKeepsRest
<1>2. BriS \in Brightness /\ 0 \in Groups /\ 0 \in Offset
  BY ConstantsAssumption DEF Offset
<1>3. Init => haveControl \in BOOLEAN /\ indicator \in BOOLEAN
  BY DEF Init
<1>4. Init => groupId \in Groups /\ flags \in SUBSET Flag /\ fx \in Effects \cup {BootEffect}
              /\ bri \in Brightness /\ phase \in Offset /\ timebase \in Int
  BY <1>1, <1>2 DEF Init
<1>5. Init => /\ active \in OffsetConfigs \cup {NoOffset}
              /\ pendingChange \in OffsetConfigs \cup {None}
              /\ pending \in PendingRec \cup {None}
              /\ deferred \in DeferredRec \cup {None}
              /\ accepted \in AcceptedRec \cup {None}
  BY DEF Init
<1>6. QED BY <1>3, <1>4, <1>5 DEF TypeOK

\* Showing an effect leaves the strip's variables well typed.
LEMMA ShowType ==
  ASSUME NEW x \in Effects \cup {BootEffect}, NEW fl \in SUBSET Flag,
         NEW b \in Brightness, Show(x, fl, b)
  PROVE  /\ fx' \in Effects \cup {BootEffect} /\ bri' \in Brightness
         /\ flags' \in SUBSET Flag
BY WithPowerKeepsRest DEF Show

\* Switching the phase offset keeps it in range.
LEMMA SetPhaseType ==
  ASSUME TypeOK, NEW n \in Offset, SetPhase(n)
  PROVE  phase' \in Offset /\ timebase' \in Int
BY ConstantsAssumption DEF SetPhase, TypeOK, Offset

\* Arming an effect keeps the types.
LEMMA ArmControlType ==
  ASSUME TypeOK, NEW g, NEW fl \in ControlFlags, NEW f \in Fields, ArmControl(g, fl, f)
  PROVE  TypeOK'
<1>1. OffsetFor(fl, Effective) \in Offset
  BY EffectiveType, OffsetForInRange
<1>2. fl \in SUBSET Flag
  BY ConstantsAssumption
<1>3. pending' \in PendingRec /\ accepted' \in AcceptedRec
  BY <1>1, <1>2 DEF ArmControl, PendingRec, AcceptedRec
<1>4. QED BY <1>2, <1>3 DEF ArmControl, TypeOK, offsetVars, clockVars

\* An immediate effect keeps the types.
LEMMA ImmediateControlType ==
  ASSUME TypeOK, NEW g, NEW fl \in ControlFlags, NEW f \in Fields,
         ImmediateControl(g, fl, f)
  PROVE  TypeOK'
<1>1. OffsetFor(fl, active) \in Offset
  BY OffsetForInRange DEF TypeOK
<1>2. fl \in SUBSET Flag
  BY ConstantsAssumption
<1>3. fx' \in Effects \cup {BootEffect} /\ bri' \in Brightness /\ flags' \in SUBSET Flag
  <2>1. f.fx \in Effects /\ AppliedBri(fl, f, bri) \in Brightness
    BY AppliedBriType DEF Fields, TypeOK
  <2>2. QED BY <1>2, <2>1, ShowType DEF ImmediateControl
<1>4. phase' \in Offset /\ timebase' \in Int
  BY <1>1, SetPhaseType DEF ImmediateControl
<1>5. accepted' \in AcceptedRec
  BY <1>1, <1>2 DEF ImmediateControl, AcceptedRec
<1>6. QED BY <1>3, <1>4, <1>5 DEF ImmediateControl, TypeOK, offsetVars

\* A preset keeps the types.
LEMMA PresetType ==
  ASSUME TypeOK, NEW g, NEW fl \in PresetFlags, NEW x \in Effects, NEW b \in Brightness,
         Preset(g, fl, x, b)
  PROVE  TypeOK'
<1>1. OffsetFor(fl, Effective) \in Offset
  BY EffectiveType, OffsetForInRange
<1>2. fx' \in Effects \cup {BootEffect} /\ bri' \in Brightness /\ flags' \in SUBSET Flag
  BY ShowType DEF Preset, TypeOK
<1>3. phase' \in Offset /\ timebase' \in Int
  BY <1>1, SetPhaseType DEF Preset
<1>4. active' \in OffsetConfigs \cup {NoOffset}
  BY EffectiveType DEF Preset, Materialise
<1>5. QED BY <1>2, <1>3, <1>4 DEF Preset, Materialise, TypeOK

\* Firing an effect without an offset keeps the types.
LEMMA FireNowType ==
  ASSUME TypeOK, NEW d \in MasterTimebases, NEW b \in Brightness, FireNow(d, b)
  PROVE  TypeOK'
<1> DEFINE b1  == AppliedBri(flags, pending.f, bri)
           fl1 == WithPower(flags, b1)
<1>1. pending \in PendingRec
  BY DEF FireNow, TypeOK
<1>2. pending.f \in Fields /\ pending.f.fx \in Effects
  BY <1>1 DEF PendingRec, Fields
<1>3. b1 \in Brightness /\ fl1 \in SUBSET Flag
  BY <1>2, AppliedBriType, WithPowerKeepsRest DEF TypeOK
<1>4. Show(pending.f.fx, fl1, IF TakesSyncBri(fl1) THEN b ELSE b1)
  BY DEF FireNow
<1>5. fx' \in Effects \cup {BootEffect} /\ bri' \in Brightness /\ flags' \in SUBSET Flag
  <2> HIDE DEF b1, fl1
  <2>1. (IF TakesSyncBri(fl1) THEN b ELSE b1) \in Brightness
    BY <1>3
  <2>2. QED BY <1>2, <1>3, <1>4, <2>1, ShowType
<1>6. phase' \in Offset /\ timebase' \in Int
  BY CorrectedType, ConstantsAssumption DEF FireNow, TypeOK, Offset
<1>7. active' \in OffsetConfigs \cup {NoOffset}
  BY EffectiveType DEF FireNow, Materialise
<1>8. QED BY <1>5, <1>6, <1>7 DEF FireNow, Materialise, TypeOK

\* Firing an effect with an offset keeps the types.
LEMMA FireLaterType ==
  ASSUME TypeOK, NEW d \in MasterTimebases, NEW b \in Brightness, FireLater(d, b)
  PROVE  TypeOK'
<1>1. pending \in PendingRec
  BY DEF FireLater, TypeOK
<1>2. deferred' \in DeferredRec
  BY <1>1 DEF FireLater, Fired, TypeOK, PendingRec, DeferredRec
<1>3. timebase' \in Int
  BY CorrectedType DEF FireLater
<1>4. active' \in OffsetConfigs \cup {NoOffset}
  BY EffectiveType DEF FireLater, Materialise
<1>5. QED BY <1>2, <1>3, <1>4 DEF FireLater, Materialise, TypeOK, stripVars

\* A SYNC that fires nothing keeps the types.
LEMMA ClockTickType ==
  ASSUME TypeOK, NEW d \in MasterTimebases, NEW b \in Brightness, ClockTick(d, b)
  PROVE  TypeOK'
<1>1. timebase' \in Int
  BY CorrectedType DEF ClockTick
<1>2. fx' \in Effects \cup {BootEffect} /\ bri' \in Brightness /\ flags' \in SUBSET Flag
  <2> DEFINE b1 == IF "POWER_ON" \in flags THEN b ELSE 0
             drives == haveControl /\ "HAS_BRI" \notin flags /\ b1 # bri
  <2>1. CASE drives
    <3>1. Show(fx, flags, IF "POWER_ON" \in flags THEN b ELSE 0)
      BY <2>1 DEF ClockTick
    <3>2. (IF "POWER_ON" \in flags THEN b ELSE 0) \in Brightness
      BY ConstantsAssumption
    <3>3. QED BY <3>1, <3>2, ShowType DEF TypeOK
  <2>2. CASE ~drives
    BY <2>2 DEF ClockTick, stripVars, TypeOK
  <2>3. QED BY <2>1, <2>2
<1>3. QED BY <1>1, <1>2 DEF ClockTick, TypeOK, offsetVars

\* Showing a fired effect keeps the types.
LEMMA DeferredApplyType ==
  ASSUME TypeOK, DeferredApply
  PROVE  TypeOK'
<1> DEFINE b1 == AppliedBri(deferred.flags, deferred.f, bri)
           b2 == IF TakesSyncBri(deferred.flags) THEN deferred.bri ELSE b1
<1>1. deferred \in DeferredRec
  BY DEF DeferredApply, TypeOK
<1>2. deferred.f \in Fields /\ deferred.f.fx \in Effects /\ deferred.offset \in Offset
      /\ deferred.bri \in Brightness
  BY <1>1 DEF DeferredRec, Fields
<1>3. b1 \in Brightness
  BY <1>2, AppliedBriType DEF TypeOK
<1>4. Show(deferred.f.fx, WithPower(flags, b1), b2)
  BY DEF DeferredApply
<1>5. fx' \in Effects \cup {BootEffect} /\ bri' \in Brightness /\ flags' \in SUBSET Flag
  <2>1. WithPower(flags, b1) \in SUBSET Flag
    BY WithPowerKeepsRest DEF TypeOK
  <2>2. b2 \in Brightness
    BY <1>2, <1>3
  <2>3. QED BY <1>2, <1>4, <2>1, <2>2, ShowType
<1>6. phase' \in Offset /\ timebase' \in Int
  BY <1>2, SetPhaseType DEF DeferredApply
<1>7. QED BY <1>5, <1>6 DEF DeferredApply, TypeOK, offsetVars

\* A headless scene keeps the types.
LEMMA HeadlessSceneType ==
  ASSUME TypeOK, NEW s \in Scenes, NEW b \in Brightness, HeadlessScene(s, b)
  PROVE  TypeOK'
<1>1. s.kind \in SceneKind /\ s.fx \in Effects /\ s.offset \in OffsetConfigs \cup {NoOffset}
  BY ConstantsAssumption DEF Scene
<1>2. fx' \in Effects \cup {BootEffect} /\ bri' \in Brightness /\ flags' \in SUBSET Flag
  <2> DEFINE b1 == IF b # 0 THEN b ELSE BriS
  <2>1. b1 \in Brightness /\ 0 \in Brightness
    BY ConstantsAssumption
  <2>2. \/ Show(fx, flags, 0)
        \/ Show(BootEffect, flags, b1)
        \/ Show(s.fx, flags, b1)
    BY <1>1 DEF HeadlessScene, SceneKind
  <2> HIDE DEF b1
  <2>3. QED BY <1>1, <2>1, <2>2, ShowType DEF TypeOK
<1>3. phase' \in Offset /\ timebase' \in Int
  <2>1. ComputeOffset(s.offset, groupId) \in Offset
    BY <1>1, ComputeOffsetInRange DEF TypeOK
  <2>2. QED BY <2>1, SetPhaseType DEF HeadlessScene
<1>4. QED BY <1>2, <1>3 DEF HeadlessScene, TypeOK, offsetVars

\* The node's variables keep their types.
THEOREM TypeCorrect == Spec => []TypeOK
<1>1. TypeOK /\ [Next]_vars => TypeOK'
  <2> SUFFICES ASSUME TypeOK, [Next]_vars
               PROVE  TypeOK'
    OBVIOUS
  <2>1. ASSUME NEW g \in Groups \cup {Broadcast}, NEW fl \in ControlFlags, NEW f \in Fields,
               ArmControl(g, fl, f) \/ ImmediateControl(g, fl, f)
        PROVE  TypeOK'
    BY <2>1, ArmControlType, ImmediateControlType
  <2>2. ASSUME NEW g \in Groups \cup {Broadcast}, NEW fl \in PresetFlags, NEW x \in Effects,
               NEW b \in Brightness, Preset(g, fl, x, b)
        PROVE  TypeOK'
    BY <2>2, PresetType
  <2>3. ASSUME NEW g \in Groups \cup {Broadcast}, NEW cfg \in OffsetConfigs, HandleOffset(g, cfg)
        PROVE  TypeOK'
    BY <2>3 DEF HandleOffset, TypeOK, stripVars, clockVars
  <2>4. ASSUME NEW d \in MasterTimebases, NEW b \in Brightness, NEW t \in BOOLEAN,
               HandleSync(d, b, t)
        PROVE  TypeOK'
    BY <2>4, FireNowType, FireLaterType, ClockTickType DEF HandleSync
  <2>5. ASSUME NEW s \in Scenes, NEW b \in Brightness, HeadlessScene(s, b)
        PROVE  TypeOK'
    BY <2>5, HeadlessSceneType
  <2>6. ASSUME NEW g \in Groups, SetGroup(g)
        PROVE  TypeOK'
    BY <2>6 DEF SetGroup, TypeOK, stripVars, offsetVars, clockVars
  <2>7. ASSUME NEW on \in BOOLEAN, Indicate(on)
        PROVE  TypeOK'
    BY <2>7 DEF Indicate, TypeOK, stripVars, offsetVars, clockVars
  <2>8. ASSUME NEW x \in Effects, NEW b \in Brightness, LocalChange(x, b)
        PROVE  TypeOK'
    <3>1. fx' \in Effects \cup {BootEffect} /\ bri' \in Brightness /\ flags' \in SUBSET Flag
      BY <2>8, ShowType DEF LocalChange, TypeOK
    <3>2. QED BY <2>8, <3>1 DEF LocalChange, TypeOK, offsetVars, clockVars
  <2>9. CASE DeferredApply
    BY <2>9, DeferredApplyType
  <2>10. CASE Tick
    <3>1. deferred \in DeferredRec /\ deferred.wait - 1 \in Offset
      BY <2>10, ConstantsAssumption DEF Tick, TypeOK, DeferredRec, Offset
    <3>2. deferred' \in DeferredRec
      BY <2>10, <3>1 DEF Tick, DeferredRec
    <3>3. QED BY <2>10, <3>2 DEF Tick, TypeOK, stripVars, offsetVars, clockVars
  <2>11. CASE UNCHANGED vars
    BY <2>11 DEF vars, TypeOK
  <2>12. QED
    BY <2>1, <2>2, <2>3, <2>4, <2>5, <2>6, <2>7, <2>8, <2>9, <2>10, <2>11
       DEF Next, Packet, Local
<1>2. QED BY <1>1, InitTypeOK, PTL DEF Spec
-----------------------------------------------------------------------------
(* What is queued.                                                         *)

\* The conjuncts hold each other up: a SYNC moves a pending effect into
\* deferred, so what is known of the one must be known of the other.
QueueInv == OneQueuedEffect /\ OffsetFixedAtArm /\ FlagsFromControl

\* Steps that show an effect, or nothing, and queue nothing: the queue only
\* shrinks and flags changes by its power bit.
LEMMA QuietQueue ==
  ASSUME TypeOK, QueueInv,
         pending' \in {pending, None}, deferred' \in {deferred, None},
         accepted' = accepted, flags' \in SUBSET Flag,
         WithoutPower(flags') = WithoutPower(flags)
  PROVE  QueueInv'
BY DEF QueueInv, OneQueuedEffect, OffsetFixedAtArm, FlagsFromControl, WithoutPower

\* Showing an effect changes flags by its power bit.
LEMMA ShowKeepsRest ==
  ASSUME TypeOK, NEW x, NEW fl \in SUBSET Flag, NEW b, Show(x, fl, b),
         WithoutPower(fl) = WithoutPower(flags)
  PROVE  flags' \in SUBSET Flag /\ WithoutPower(flags') = WithoutPower(flags)
BY WithPowerKeepsRest DEF Show

\* A newly armed effect is the only one queued.
LEMMA ArmControlQueue ==
  ASSUME TypeOK, QueueInv, NEW g, NEW fl \in ControlFlags, NEW f \in Fields,
         ArmControl(g, fl, f)
  PROVE  QueueInv'
<1> DEFINE off == OffsetFor(fl, Effective)
<1>1. /\ pending' = [f |-> f, offset |-> off]
      /\ accepted' = [f |-> f, flags |-> fl, offset |-> off]
      /\ deferred' = None /\ flags' = fl /\ "ARM_ON_SYNC" \in fl
  BY DEF ArmControl
<1>2. off \in Offset /\ fl \in SUBSET Flag
  BY EffectiveType, OffsetForInRange, ConstantsAssumption
<1> HIDE DEF off
<1>3. accepted' # None
  BY <1>1, <1>2, ConstantsAssumption DEF AcceptedRec
<1>4. QED
  BY <1>1, <1>3 DEF QueueInv, OneQueuedEffect, OffsetFixedAtArm, FlagsFromControl

\* An immediate effect leaves nothing queued.
LEMMA ImmediateControlQueue ==
  ASSUME TypeOK, QueueInv, NEW g, NEW fl \in ControlFlags, NEW f \in Fields,
         ImmediateControl(g, fl, f)
  PROVE  QueueInv'
<1>1. /\ pending' = None /\ deferred' = None
      /\ accepted'.flags = fl
      /\ flags' = WithPower(fl, AppliedBri(fl, f, bri))
  BY DEF ImmediateControl, Show
<1>2. WithoutPower(flags') = WithoutPower(fl)
  BY <1>1, WithPowerKeepsRest, ConstantsAssumption
<1>3. QED
  BY <1>1, <1>2 DEF QueueInv, OneQueuedEffect, OffsetFixedAtArm, FlagsFromControl, WithoutPower

\* What is known of the armed effect carries over to the fired one.
LEMMA FireLaterQueue ==
  ASSUME TypeOK, QueueInv, NEW d, NEW b, FireLater(d, b)
  PROVE  QueueInv'
<1>1. /\ pending \in PendingRec /\ pending # None /\ pending' = None
      /\ deferred' = [f |-> pending.f, flags |-> flags, bri |-> b,
                      offset |-> pending.offset, wait |-> pending.offset]
      /\ accepted' = accepted /\ flags' = flags
  BY DEF FireLater, Fired, stripVars, TypeOK
<1>2. /\ accepted # None /\ pending.f = accepted.f /\ pending.offset = accepted.offset
      /\ "ARM_ON_SYNC" \in accepted.flags
      /\ WithoutPower(flags) = WithoutPower(accepted.flags)
  BY <1>1 DEF QueueInv, OneQueuedEffect, OffsetFixedAtArm, FlagsFromControl
<1>3. pending.offset <= pending.offset
  BY <1>1, ConstantsAssumption DEF PendingRec, Offset
<1>4. QED
  BY <1>1, <1>2, <1>3
     DEF QueueInv, OneQueuedEffect, OffsetFixedAtArm, FlagsFromControl, WithoutPower

\* Waiting changes nothing but the wait.
LEMMA TickQueue ==
  ASSUME TypeOK, QueueInv, Tick
  PROVE  QueueInv'
<1>1. /\ deferred \in DeferredRec /\ deferred # None
      /\ deferred' = [deferred EXCEPT !.wait = deferred.wait - 1]
      /\ pending' = pending /\ accepted' = accepted /\ flags' = flags
  BY DEF Tick, TypeOK, stripVars
<1>2. /\ deferred'.f = deferred.f /\ deferred'.flags = deferred.flags
      /\ deferred'.offset = deferred.offset /\ deferred'.wait = deferred.wait - 1
  BY <1>1 DEF DeferredRec
<1>3. deferred.wait \in Nat /\ deferred.offset \in Nat
  BY <1>1, ConstantsAssumption DEF DeferredRec, Offset
<1>4. deferred.wait <= deferred.offset
  BY <1>1 DEF QueueInv, OffsetFixedAtArm
<1>5. deferred'.wait <= deferred'.offset
  BY <1>2, <1>3, <1>4
<1>6. OneQueuedEffect'
  BY <1>1, <1>2 DEF QueueInv, OneQueuedEffect
<1>7. OffsetFixedAtArm'
  BY <1>1, <1>2, <1>5 DEF QueueInv, OffsetFixedAtArm
<1>8. FlagsFromControl'
  BY <1>1, <1>2 DEF QueueInv, FlagsFromControl, WithoutPower
<1>9. QED BY <1>6, <1>7, <1>8 DEF QueueInv

\* The remaining steps are quiet.
LEMMA QuietSteps ==
  ASSUME TypeOK, [Next]_vars,
         ~ \E g \in Groups \cup {Broadcast}, fl \in ControlFlags, f \in Fields :
             ArmControl(g, fl, f) \/ ImmediateControl(g, fl, f),
         ~ \E d \in MasterTimebases, b \in Brightness : FireLater(d, b),
         ~ Tick
  PROVE  /\ pending' \in {pending, None} /\ deferred' \in {deferred, None}
         /\ accepted' = accepted
         /\ flags' \in SUBSET Flag /\ WithoutPower(flags') = WithoutPower(flags)
<1> USE DEF TypeOK
<1>1. ASSUME NEW g \in Groups \cup {Broadcast}, NEW fl \in PresetFlags, NEW x \in Effects,
             NEW b \in Brightness, Preset(g, fl, x, b)
      PROVE  /\ pending' = pending /\ deferred' = deferred /\ accepted' = accepted
             /\ flags' \in SUBSET Flag /\ WithoutPower(flags') = WithoutPower(flags)
  BY <1>1, ShowKeepsRest DEF Preset
<1>2. ASSUME NEW g \in Groups \cup {Broadcast}, NEW cfg \in OffsetConfigs, HandleOffset(g, cfg)
      PROVE  pending' = pending /\ deferred' = deferred /\ accepted' = accepted /\ flags' = flags
  BY <1>2 DEF HandleOffset, stripVars
<1>3. ASSUME NEW d \in MasterTimebases, NEW b \in Brightness, FireNow(d, b)
      PROVE  /\ pending' = None /\ deferred' = deferred /\ accepted' = accepted
             /\ flags' \in SUBSET Flag /\ WithoutPower(flags') = WithoutPower(flags)
  <2> DEFINE b1  == AppliedBri(flags, pending.f, bri)
             fl1 == WithPower(flags, b1)
             b2  == IF TakesSyncBri(fl1) THEN b ELSE b1
  <2>1. Show(pending.f.fx, fl1, b2) /\ pending' = None /\ deferred' = deferred
        /\ accepted' = accepted
    BY <1>3 DEF FireNow
  <2>2. fl1 \in SUBSET Flag /\ WithoutPower(fl1) = WithoutPower(flags)
    BY WithPowerKeepsRest
  <2> HIDE DEF b1, fl1, b2
  <2>3. QED BY <2>1, <2>2, ShowKeepsRest
<1>4. ASSUME NEW d \in MasterTimebases, NEW b \in Brightness, ClockTick(d, b)
      PROVE  /\ pending' = pending /\ deferred' = deferred /\ accepted' = accepted
             /\ flags' \in SUBSET Flag /\ WithoutPower(flags') = WithoutPower(flags)
  <2>1. pending' = pending /\ deferred' = deferred /\ accepted' = accepted
    BY <1>4 DEF ClockTick
  <2>2. flags' = flags \/ Show(fx, flags, IF "POWER_ON" \in flags THEN b ELSE 0)
    BY <1>4 DEF ClockTick, stripVars
  <2>3. QED BY <2>1, <2>2, ShowKeepsRest
<1>5. ASSUME NEW s \in Scenes, NEW b \in Brightness, HeadlessScene(s, b)
      PROVE  /\ pending' = pending /\ deferred' = deferred /\ accepted' = accepted
             /\ flags' \in SUBSET Flag /\ WithoutPower(flags') = WithoutPower(flags)
  <2>1. s.kind \in SceneKind
    BY ConstantsAssumption DEF Scene
  <2>2. \E x, b1 : Show(x, flags, b1)
    BY <1>5, <2>1 DEF HeadlessScene, SceneKind
  <2>3. QED BY <1>5, <2>2, ShowKeepsRest DEF HeadlessScene
<1>6. ASSUME NEW g \in Groups, SetGroup(g)
      PROVE  pending' = pending /\ deferred' = deferred /\ accepted' = accepted /\ flags' = flags
  BY <1>6 DEF SetGroup, stripVars
<1>7. ASSUME NEW on \in BOOLEAN, Indicate(on)
      PROVE  pending' = pending /\ deferred' = deferred /\ accepted' = accepted /\ flags' = flags
  BY <1>7 DEF Indicate, stripVars
<1>8. ASSUME NEW x \in Effects, NEW b \in Brightness, LocalChange(x, b)
      PROVE  /\ pending' = pending /\ deferred' = deferred /\ accepted' = accepted
             /\ flags' \in SUBSET Flag /\ WithoutPower(flags') = WithoutPower(flags)
  BY <1>8, ShowKeepsRest DEF LocalChange
<1>9. CASE DeferredApply
  <2> DEFINE b1 == AppliedBri(deferred.flags, deferred.f, bri)
             b2 == IF TakesSyncBri(deferred.flags) THEN deferred.bri ELSE b1
  <2>1. Show(deferred.f.fx, WithPower(flags, b1), b2) /\ pending' = pending
        /\ deferred' = None /\ accepted' = accepted
    BY <1>9 DEF DeferredApply
  <2>2. WithPower(flags, b1) \in SUBSET Flag /\ WithoutPower(WithPower(flags, b1)) = WithoutPower(flags)
    BY WithPowerKeepsRest
  <2> HIDE DEF b1, b2
  <2>3. QED BY <2>1, <2>2, ShowKeepsRest
<1>10. CASE UNCHANGED vars
  BY <1>10 DEF vars
<1> HIDE DEF TypeOK
<1>11. QED
  BY <1>1, <1>2, <1>3, <1>4, <1>5, <1>6, <1>7, <1>8, <1>9, <1>10
     DEF TypeOK, Next, Packet, Local, HandleSync

\* The queue invariant is inductive relative to the types.
LEMMA QueueInductive == TypeOK /\ QueueInv /\ [Next]_vars => QueueInv'
<1> SUFFICES ASSUME TypeOK, QueueInv, [Next]_vars
             PROVE  QueueInv'
  OBVIOUS
<1>1. CASE \E g \in Groups \cup {Broadcast}, fl \in ControlFlags, f \in Fields :
             ArmControl(g, fl, f) \/ ImmediateControl(g, fl, f)
  BY <1>1, ArmControlQueue, ImmediateControlQueue
<1>2. CASE \E d \in MasterTimebases, b \in Brightness : FireLater(d, b)
  BY <1>2, FireLaterQueue
<1>3. CASE Tick
  BY <1>3, TickQueue
<1>4. QED BY <1>1, <1>2, <1>3, QuietSteps, QuietQueue

\* It holds in every reachable state.
LEMMA SpecQueueInv == Spec => []QueueInv
<1>1. Init => QueueInv
  BY DEF Init, QueueInv, OneQueuedEffect, OffsetFixedAtArm, FlagsFromControl
<1>2. QED BY <1>1, QueueInductive, TypeCorrect, PTL DEF Spec

\* Only the CONTROL accepted last is queued, and only once (handleControl,
\* handleSync).  A PRESET is no newer CONTROL: handlePreset leaves it queued.
THEOREM QueueHoldsLastControl == Spec => []OneQueuedEffect
BY SpecQueueInv, PTL DEF QueueInv

\* No later packet shifts the offset of an armed or fired effect.
THEOREM ArmedOffsetIsFixed == Spec => []OffsetFixedAtArm
BY SpecQueueInv, PTL DEF QueueInv

\* Nothing but the power bit of the last CONTROL's flags is ever rewritten.
THEOREM FlagsComeFromControl == Spec => []FlagsFromControl
BY SpecQueueInv, PTL DEF QueueInv
-----------------------------------------------------------------------------
(* What a step may not do.                                                 *)

\* Only OPC_OFFSET changes the configuration the gate looks at.
THEOREM GateMovedByOffsetOnly == Spec => EffectiveOnlyByOffset
<1> DEFINE ByOffset == \E g \in Groups \cup {Broadcast}, cfg \in OffsetConfigs :
                         HandleOffset(g, cfg)
<1>1. [Next]_vars => [Effective' # Effective => ByOffset]_vars
  <2> SUFFICES ASSUME [Next]_vars, ~ ByOffset
               PROVE  Effective' = Effective
    OBVIOUS
  <2>1. CASE \/ \E g, fl, x, b : Preset(g, fl, x, b)
             \/ \E d, b : FireNow(d, b) \/ FireLater(d, b)
    <3>1. active' = Effective /\ pendingChange' = None
      BY <2>1 DEF Preset, Materialise, FireNow, FireLater
    <3>2. QED BY <3>1 DEF Effective
  <2>2. CASE ~ \/ \E g, fl, x, b : Preset(g, fl, x, b)
               \/ \E d, b : FireNow(d, b) \/ FireLater(d, b)
    <3>1. UNCHANGED offsetVars
      BY <2>2 DEF Next, Packet, Local, HandleSync, ArmControl, ImmediateControl, ClockTick,
                  HeadlessScene, SetGroup, Indicate, LocalChange, DeferredApply, Tick, vars,
                  offsetVars
    <3>2. QED BY <3>1 DEF Effective, offsetVars
  <2>3. QED BY <2>1, <2>2
<1>2. QED BY <1>1, PTL DEF Spec, EffectiveOnlyByOffset

\* Only SYNC moves the master-aligned timebase.
THEOREM LogicalTimeMovedBySyncOnly == Spec => LogicalTimeOnlyBySync
<1>1. TypeOK /\ [Next]_vars => [timebase' + phase' # timebase + phase => AnySync]_vars
  <2> SUFFICES ASSUME TypeOK, [Next]_vars, ~ AnySync
               PROVE  timebase' + phase' = timebase + phase
    OBVIOUS
  <2>1. ASSUME NEW n \in Offset, SetPhase(n)
        PROVE  timebase' + phase' = timebase + phase
    BY <2>1, ConstantsAssumption DEF SetPhase, TypeOK, Offset
  <2>2. ASSUME NEW g \in Groups \cup {Broadcast}, NEW fl \in ControlFlags, NEW f \in Fields,
               ImmediateControl(g, fl, f)
        PROVE  timebase' + phase' = timebase + phase
    <3>1. OffsetFor(fl, active) \in Offset
      BY OffsetForInRange DEF TypeOK
    <3>2. QED BY <2>1, <2>2, <3>1 DEF ImmediateControl
  <2>3. ASSUME NEW g \in Groups \cup {Broadcast}, NEW fl \in PresetFlags, NEW x \in Effects,
               NEW b \in Brightness, Preset(g, fl, x, b)
        PROVE  timebase' + phase' = timebase + phase
    <3>1. OffsetFor(fl, Effective) \in Offset
      BY OffsetForInRange, EffectiveType
    <3>2. QED BY <2>1, <2>3, <3>1 DEF Preset
  <2>4. ASSUME NEW s \in Scenes, NEW b \in Brightness, HeadlessScene(s, b)
        PROVE  timebase' + phase' = timebase + phase
    <3>1. ComputeOffset(s.offset, groupId) \in Offset
      BY ComputeOffsetInRange, ConstantsAssumption DEF Scene, TypeOK
    <3>2. QED BY <2>1, <2>4, <3>1 DEF HeadlessScene
  <2>5. CASE DeferredApply
    <3>1. deferred.offset \in Offset
      BY <2>5 DEF DeferredApply, TypeOK, DeferredRec
    <3>2. QED BY <2>1, <2>5, <3>1 DEF DeferredApply
  <2>6. ASSUME UNCHANGED clockVars
        PROVE  timebase' + phase' = timebase + phase
    BY <2>6 DEF clockVars
  <2>7. CASE \/ \E g \in Groups \cup {Broadcast}, fl \in ControlFlags, f \in Fields :
                  ArmControl(g, fl, f)
             \/ \E g \in Groups \cup {Broadcast}, cfg \in OffsetConfigs : HandleOffset(g, cfg)
             \/ \E g \in Groups : SetGroup(g)
             \/ \E on \in BOOLEAN : Indicate(on)
             \/ Local
             \/ Tick
             \/ UNCHANGED vars
    <3>1. UNCHANGED clockVars
      BY <2>7 DEF ArmControl, HandleOffset, SetGroup, Indicate, Local, LocalChange, Tick,
                  vars, clockVars
    <3>2. QED BY <2>6, <3>1
  <2>8. QED
    BY <2>2, <2>3, <2>4, <2>5, <2>7 DEF Next, Packet, AnySync
<1>2. QED BY <1>1, TypeCorrect, PTL DEF Spec, LogicalTimeOnlyBySync

\* A fired effect waits unchanged until it shows or a CONTROL cancels it.
THEOREM FiredEffectIsKept == Spec => FiredEffectKept
<1> DEFINE Kept == deferred' # None
                   /\ [deferred' EXCEPT !.wait = 0] = [deferred EXCEPT !.wait = 0]
           Shown == deferred.wait = 0 /\ fx' = deferred.f.fx /\ phase' = deferred.offset
<1>1. TypeOK /\ QueueInv /\ [Next]_vars
        => [deferred # None => Kept \/ AcceptedControl \/ Shown]_vars
  <2> SUFFICES ASSUME TypeOK, QueueInv, [Next]_vars, deferred # None, ~ AcceptedControl
               PROVE  Kept \/ Shown
    OBVIOUS
  <2>1. pending = None
    BY DEF QueueInv, OneQueuedEffect
  <2>2. CASE DeferredApply
    BY <2>2 DEF DeferredApply, Show, SetPhase
  <2>3. CASE Tick
    <3>1. deferred \in DeferredRec /\ deferred' = [deferred EXCEPT !.wait = deferred.wait - 1]
      BY <2>3 DEF Tick, TypeOK
    <3>2. [deferred' EXCEPT !.wait = 0] = [deferred EXCEPT !.wait = 0]
      BY <3>1 DEF DeferredRec
    <3>3. deferred.wait - 1 \in Offset
      BY <2>3, <3>1, ConstantsAssumption DEF Tick, DeferredRec, Offset
    <3>4. deferred' \in DeferredRec
      BY <3>1, <3>3 DEF DeferredRec
    <3>5. deferred' # None
      BY <3>4, ConstantsAssumption
    <3>6. QED BY <3>2, <3>5
  <2>4. CASE ~ DeferredApply /\ ~ Tick
    <3>1. deferred' = deferred
      BY <2>1, <2>4 DEF Next, Packet, Local, HandleSync, AcceptedControl, Control, Preset,
                        HandleOffset, FireNow, FireLater, ClockTick, HeadlessScene, SetGroup,
                        Indicate, LocalChange, vars
    <3>2. QED BY <3>1
  <2>5. QED BY <2>2, <2>3, <2>4
<1>2. QED BY <1>1, TypeCorrect, SpecQueueInv, PTL DEF Spec, FiredEffectKept

\* The error a corrected timebase leaves.
LEMMA CorrectedError ==
  ASSUME TypeOK, NEW d \in MasterTimebases
  PROVE  LET before == Abs(d - (timebase + phase))
             after  == Abs(d - (Corrected(d) + phase))
         IN \/ after = 0
            \/ pending = None /\ before <= HardResync /\ after = before - MaxStep
<1> DEFINE err == d - (timebase + phase)
<1>1. d \in Int /\ timebase \in Int /\ phase \in Int /\ MaxStep \in Nat /\ HardResync \in Nat
  BY ConstantsAssumption DEF TypeOK, Offset
<1>2. CASE pending # None \/ Abs(err) > HardResync
  <2>1. Corrected(d) = d - phase
    BY <1>2 DEF Corrected
  <2>2. d - (Corrected(d) + phase) = 0
    BY <1>1, <2>1
  <2>3. QED BY <2>2 DEF Abs
<1>3. CASE pending = None /\ ~(Abs(err) > HardResync)
  <2>1. Corrected(d) = timebase + Clamp(err, -MaxStep, MaxStep)
    BY <1>3 DEF Corrected
  <2>2. Clamp(err, -MaxStep, MaxStep) = IF err < -MaxStep THEN -MaxStep
                                        ELSE IF err > MaxStep THEN MaxStep ELSE err
    BY DEF Clamp
  <2>3. Abs(err) <= HardResync
    BY <1>1, <1>3 DEF Abs
  <2>4. d - (Corrected(d) + phase) = err - Clamp(err, -MaxStep, MaxStep)
    BY <1>1, <2>1, <2>2
  <2>5. \/ Abs(err - Clamp(err, -MaxStep, MaxStep)) = 0
        \/ Abs(err - Clamp(err, -MaxStep, MaxStep)) = Abs(err) - MaxStep
    BY <1>1, <2>2 DEF Abs
  <2>6. QED BY <1>3, <2>3, <2>4, <2>5
<1>4. QED BY <1>2, <1>3

\* A SYNC brings the master-aligned timebase nearer to the master's.
THEOREM SyncConverges == Spec => SyncNeverDiverges
<1>1. TypeOK /\ [Next]_vars =>
        [\A d \in MasterTimebases, b \in Brightness, t \in BOOLEAN :
           HandleSync(d, b, t) =>
             LET before == Abs(d - (timebase + phase))
                 after  == Abs(d - (timebase' + phase'))
             IN \/ after = 0
                \/ pending = None /\ before <= HardResync /\ after = before - MaxStep]_vars
  <2> SUFFICES ASSUME TypeOK, NEW d \in MasterTimebases, NEW b \in Brightness,
                      NEW t \in BOOLEAN, HandleSync(d, b, t)
               PROVE  LET before == Abs(d - (timebase + phase))
                          after  == Abs(d - (timebase' + phase'))
                      IN \/ after = 0
                         \/ pending = None /\ before <= HardResync /\ after = before - MaxStep
    OBVIOUS
  <2>1. timebase' + phase' = Corrected(d) + phase
    <3>1. Corrected(d) \in Int /\ phase \in Int
      BY CorrectedType, ConstantsAssumption DEF TypeOK, Offset
    <3>2. \/ timebase' = Corrected(d) + phase /\ phase' = 0
          \/ timebase' = Corrected(d) /\ phase' = phase
      BY DEF HandleSync, FireNow, FireLater, ClockTick
    <3>3. QED BY <3>1, <3>2
  <2>2. QED BY <2>1, CorrectedError
<1>2. QED BY <1>1, TypeCorrect, PTL DEF Spec, SyncNeverDiverges

-----------------------------------------------------------------------------
(* The clock of a SYNC.                                                    *)

\* The widths of the timestamp and of the clock.
LEMMA LowIsPositive == Low \in Nat \ {0} /\ Full \in Nat /\ Low = Half + Half /\ Full >= Low
<1>1. Low \in Nat \ {0} /\ Low = Half + Half BY SyncClockAssumption DEF Low
<1>2. Full \in Nat /\ Full >= Low BY <1>1, SyncClockAssumption DEF Full
<1> QED BY <1>1, <1>2

(* A negative multiple of L is at most -L. *)
LEMMA NegativeMultiple ==
  ASSUME NEW L \in Nat \ {0}, NEW m \in Int, m <= -1
  PROVE  L * m <= -L
  OBVIOUS

(* A multiple of L strictly between -L and L is 0. *)
LEMMA MultipleInside ==
  ASSUME NEW L \in Nat \ {0}, NEW m \in Int, L * m < L, -L < L * m
  PROVE  m = 0
<1> DEFINE p == L * m
<1>0. p \in Int OBVIOUS
<1>1. CASE m >= 1
  <2>1. p >= L BY <1>1
  <2> HIDE DEF p
  <2>2. p < L BY DEF p
  <2> QED BY <2>1, <2>2, <1>0
<1>2. CASE m <= -1
  <2>1. p <= -L BY <1>2, NegativeMultiple
  <2> HIDE DEF p
  <2>2. -L < p BY DEF p
  <2> QED BY <2>1, <2>2, <1>0
<1> QED BY <1>1, <1>2

(* Quotient and remainder. *)
LEMMA Division ==
  ASSUME NEW L \in Nat \ {0}, NEW a \in Int
  PROVE  a \div L \in Int /\ a % L \in 0 .. L - 1 /\ a = L * (a \div L) + (a % L)
  OBVIOUS

(* The remainder of a sum of a multiple of L and something less than L. *)
LEMMA Remainder ==
  ASSUME NEW L \in Nat \ {0}, NEW q \in Int, NEW r \in 0 .. L - 1
  PROVE  (L * q + r) % L = r
<1> DEFINE a == L * q + r
           k == a \div L
           s == a % L
<1>0. a \in Int OBVIOUS
<1>1. k \in Int /\ s \in 0 .. L - 1 /\ a = L * k + s BY <1>0, Division
<1>2. L * (q - k) = L * q - L * k BY <1>1
<1>3. L * q \in Int /\ L * k \in Int BY <1>1
<1> HIDE DEF k, s
<1>4. L * (q - k) = s - r BY <1>1, <1>2, <1>3
<1>5. q - k = 0 BY <1>1, <1>4, MultipleInside
<1>6. L * k = L * q BY <1>5, <1>1
<1> QED BY <1>1, <1>3, <1>6 DEF s
(* What is known of a prediction p: its window starts at base, and the one  *)
(* after it lies within the clock.                                         *)
LEMMA Window ==
  ASSUME NEW p \in 0 .. Full - Low - 1
  PROVE  \E w \in Nat : /\ p - Low * w \in 0 .. Low - 1
                        /\ p % Low = p - Low * w
                        /\ Low * w + Low + Low <= Full
<1> DEFINE w == p \div Low
           r == p % Low
<1>0. p \in Int /\ p >= 0 /\ p < Full - Low BY LowIsPositive
<1>1. w \in Int /\ r \in 0 .. Low - 1 /\ p = Low * w + r BY <1>0, Division, LowIsPositive
<1>2. w >= 0
  <2>1. SUFFICES ASSUME w <= -1 PROVE FALSE BY <1>1
  <2>2. Low * w <= -Low BY <2>1, <1>1, LowIsPositive, NegativeMultiple
  <2>3. Low * w \in Int BY <1>1, LowIsPositive
  <2> HIDE DEF w, r
  <2> QED BY <2>2, <2>3, <1>0, <1>1, LowIsPositive
<1>3. w <= Windows - 2
  <2>1. SUFFICES ASSUME w >= Windows - 1 PROVE FALSE BY <1>1, SyncClockAssumption
  <2>2. Low * w >= Low * (Windows - 1) BY <2>1, <1>1, LowIsPositive, SyncClockAssumption
  <2>3. Low * (Windows - 1) = Full - Low BY LowIsPositive, SyncClockAssumption DEF Full
  <2>4. Low * w \in Int BY <1>1, LowIsPositive
  <2> HIDE DEF w, r
  <2> QED BY <2>2, <2>3, <2>4, <1>0, <1>1, LowIsPositive
<1>4. Low * w + Low + Low <= Full
  <2>1. Low * w <= Low * (Windows - 2) BY <1>3, <1>1, LowIsPositive, SyncClockAssumption
  <2>2. Low * (Windows - 2) = Full - Low - Low BY LowIsPositive, SyncClockAssumption DEF Full
  <2>3. Low * w \in Int BY <1>1, LowIsPositive
  <2> HIDE DEF w, r
  <2> QED BY <2>1, <2>2, <2>3, LowIsPositive
<1>5. Low * w \in Int BY <1>1, LowIsPositive
<1>6. w \in Nat BY <1>1, <1>2
<1>7. p - Low * w = r
  <2> HIDE DEF w, r
  <2> QED BY <1>1, <1>5, LowIsPositive
<1> HIDE DEF w
<1> QED BY <1>1, <1>4, <1>6, <1>7

(* The timestamp of a master that is d off the prediction: it is completed  *)
(* in the window of the prediction, e beside the master's time.            *)
LEMMA Timestamp ==
  ASSUME NEW w \in Int, NEW r \in 0 .. Low - 1, NEW d \in 1 - Half .. Half - 1
  PROVE  \E e \in {0, Low, -Low} :
            /\ (Low * w + r + d) % Low = r + d + e
            /\ r + d + e \in 0 .. Low - 1
<1>0. Low * w \in Int /\ Low \in Nat \ {0} /\ Half \in Nat /\ Low = Half + Half
  BY LowIsPositive, SyncClockAssumption
<1>1. CASE r + d \in 0 .. Low - 1
  <2>1. (Low * w + (r + d)) % Low = r + d BY <1>1, <1>0, Remainder
  <2>2. Low * w + (r + d) = Low * w + r + d BY <1>0
  <2> QED BY <2>1, <2>2, <1>0, <1>1
<1>2. CASE r + d < 0
  <2>1. r + d + Low \in 0 .. Low - 1 BY <1>2, <1>0
  <2>2. (Low * (w - 1) + (r + d + Low)) % Low = r + d + Low BY <2>1, <1>0, Remainder
  <2>3. Low * (w - 1) = Low * w - Low BY <1>0
  <2>4. Low * (w - 1) + (r + d + Low) = Low * w + r + d BY <2>3, <1>0
  <2> QED BY <2>1, <2>2, <2>4, <1>0
<1>3. CASE r + d >= Low
  <2>1. r + d - Low \in 0 .. Low - 1 BY <1>3, <1>0
  <2>2. (Low * (w + 1) + (r + d - Low)) % Low = r + d - Low BY SMTT(30), <2>1, <1>0, Remainder
  <2>3. Low * (w + 1) = Low * w + Low BY <1>0
  <2>4. Low * (w + 1) + (r + d - Low) = Low * w + r + d BY <2>3, <1>0
  <2>5. r + d + (-Low) = r + d - Low BY <1>0
  <2> QED BY <2>1, <2>2, <2>4, <2>5, <1>0
<1> QED BY <1>0, <1>1, <1>2, <1>3

(* Below the full clock, the 32-bit sum is the sum. *)
LEMMA NoOverflow == ASSUME NEW a \in 0 .. Full - 1 PROVE a % Full = a
  BY LowIsPositive

(* handleSync places a SYNC where the master is, when the prediction is off *)
(* by less than half a window and not in the last window of the clock.     *)
THEOREM ClockTracksMaster == UnwrapTracks
<1> SUFFICES ASSUME NEW p \in 0 .. Full - Low - 1, NEW d \in 1 - Half .. Half - 1
             PROVE  TracksFrom(p, d)
  BY DEF UnwrapTracks
<1>0. /\ Low \in Nat \ {0} /\ Full \in Nat /\ Low = Half + Half /\ Full >= Low
      /\ Half \in Nat \ {0} /\ p \in Int /\ d \in Int /\ p >= 0 /\ p < Full - Low
      /\ -Half < d /\ d < Half
  BY LowIsPositive, SyncClockAssumption
<1>1. PICK w \in Nat : /\ p - Low * w \in 0 .. Low - 1
                       /\ p % Low = p - Low * w
                       /\ Low * w + Low + Low <= Full
  BY Window
<1> DEFINE base == Low * w
           r == p - base
<1>2. base \in Int /\ base >= 0 /\ r \in 0 .. Low - 1 /\ p = base + r /\ p % Low = r
  <2>1. base \in Int /\ base >= 0 BY <1>0
  <2> QED BY <1>0, <1>1, <2>1
<1>3. PICK e \in {0, Low, -Low} : /\ (base + r + d) % Low = r + d + e
                                  /\ r + d + e \in 0 .. Low - 1
  BY <1>2, Timestamp
<1> DEFINE ts == (p + d) % Low
           cand == Candidate(p, ts)
<1>4. base + Low + Low <= Full BY <1>1
<1> HIDE DEF base
<1>5. ts = r + d + e /\ ts \in 0 .. Low - 1
  <2>1. p + d = base + r + d BY <1>2, <1>0
  <2> QED BY <1>3, <2>1
<1>6. cand = base + ts
  BY <1>0, <1>2, <1>5 DEF Candidate
<1> HIDE DEF ts, r, cand
<1>7. cand = p + d + e /\ cand \in Int /\ cand >= 0 /\ cand + Half < Full /\ p + Half < Full
  BY <1>0, <1>2, <1>4, <1>5, <1>6, <1>3
<1>8. (cand + Half) % Full = cand + Half /\ (p + Half) % Full = p + Half
  <2>1. cand + Half \in 0 .. Full - 1 /\ p + Half \in 0 .. Full - 1 BY <1>0, <1>7
  <2> QED BY <2>1, NoOverflow
<1>9. Unwrap(p, ts) = IF cand + Half < p THEN (cand + Low) % Full
                      ELSE IF cand > p + Half THEN (cand - Low) % Full ELSE cand
  BY <1>8 DEF Unwrap, cand
<1>10. CASE e = 0
  <2>1. Unwrap(p, ts) = cand /\ cand = p + d /\ cand \in 0 .. Full - 1 BY <1>10, <1>9, <1>7, <1>0
  <2> QED BY <2>1, NoOverflow DEF TracksFrom, ts
<1>11. CASE e = Low
  <2>1. ~(cand + Half < p) /\ cand > p + Half BY <1>11, <1>7, <1>0
  <2>2. Unwrap(p, ts) = (cand - Low) % Full BY <2>1, <1>9
  <2>3. cand - Low = p + d BY <1>11, <1>7, <1>0
  <2> QED BY <2>2, <2>3 DEF TracksFrom, ts
<1>12. CASE e = -Low
  <2>1. cand + Half < p BY <1>12, <1>7, <1>0
  <2>2. Unwrap(p, ts) = (cand + Low) % Full BY <2>1, <1>9
  <2>3. cand + Low = p + d BY <1>12, <1>7, <1>0
  <2> QED BY <2>2, <2>3 DEF TracksFrom, ts
<1> QED BY <1>3, <1>10, <1>11, <1>12

(* In the last half window of the clock handleSync places a SYNC one window *)
(* too late, whatever the master's clock says: the sum that is compared has *)
(* overflown.                                                              *)
THEOREM ClockLosesMaster == UnwrapFails
<1> SUFFICES ASSUME NEW p \in Full - Half .. Full - 1 PROVE ~TracksFrom(p, 0)
  BY DEF UnwrapFails
<1>0. /\ Low \in Nat \ {0} /\ Full \in Nat \ {0} /\ Low = Half + Half /\ Full >= Low + Low
      /\ Half \in Nat \ {0} /\ p \in Int /\ p >= Full - Half /\ p < Full
  BY LowIsPositive, SyncClockAssumption DEF Full
<1> DEFINE ts == (p + 0) % Low
<1>1. Candidate(p, ts) = p
  <2>1. ts = p % Low /\ ts \in Int BY <1>0
  <2> HIDE DEF ts
  <2> QED BY <2>1, <1>0 DEF Candidate
<1>2. ASSUME NEW x \in {Half, Low} PROVE (p + x) % Full = p + x - Full
  <2>1. p + x - Full \in 0 .. Full - 1 BY <1>0
  <2>2. (Full * 1 + (p + x - Full)) % Full = p + x - Full BY <2>1, <1>0, Remainder
  <2>3. Full * 1 + (p + x - Full) = p + x BY <1>0
  <2> QED BY <2>2, <2>3
<1>3. (p + Half) % Full < p BY <1>0, <1>2
<1>4. Unwrap(p, ts) = p + Low - Full BY <1>1, <1>2, <1>3 DEF Unwrap
<1>5. (p + 0) % Full = p
  <2>1. p \in 0 .. Full - 1 /\ p + 0 = p BY <1>0
  <2> QED BY <2>1, NoOverflow
<1> HIDE DEF ts
<1> QED BY <1>0, <1>4, <1>5 DEF TracksFrom, ts

(* So a node that has heard a SYNC takes the next one for the master's time, *)
(* however long ago the last one was.                                      *)
COROLLARY NextSyncIsPlaced ==
  ASSUME NEW epoch \in Nat, NEW now \in Nat, NEW last \in Nat, NEW d \in 1 - Half .. Half - 1,
         Predicted(epoch, now, last) \in 0 .. Full - Low - 1
  PROVE  MasterTime(TRUE, epoch, now, last, (Predicted(epoch, now, last) + d) % Low)
           = (Predicted(epoch, now, last) + d) % Full
  BY ClockTracksMaster DEF UnwrapTracks, TracksFrom, MasterTime
=============================================================================
