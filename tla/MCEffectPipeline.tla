------------------------- MODULE MCEffectPipeline -------------------------
(***************************************************************************)
(* Small instances of EffectPipeline.  One unit of time is the smallest    *)
(* offset in use.                                                          *)
(***************************************************************************)
EXTENDS EffectPipeline, SyncClock

CONSTANTS e1, boot

\* The clock of handleSync, for every prediction and timestamp of a small one.
ASSUME ClockTracks == UnwrapTracks /\ UnwrapFails

Linear(base, step) == [mode |-> "LINEAR", base |-> base, step |-> step, arg |-> 0]

\* Powered-on CONTROLs, armed or not, in and out of offset mode.
MCControlFlags ==
  {{"POWER_ON"} \cup a \cup o : a \in {{}, {"ARM_ON_SYNC"}}, o \in {{}, {"OFFSET_MODE"}}}
MCPresetFlags == {{}, {"OFFSET_MODE"}}

\* Leaving offset mode, and a formula that is clamped for group 0.
MCOffsetConfigs == {NoOffset, Linear(-1, 2)}

MCScenes ==
  {[kind |-> "EFFECT", fx |-> e1, offset |-> Linear(-1, 2)],
   [kind |-> "ALL_OFF", fx |-> e1, offset |-> NoOffset],
   [kind |-> "RESTORE_LOCAL", fx |-> e1, offset |-> NoOffset]}

\* Near enough for a small step, and far enough for a hard one.
MCMasterTimebases == {0, 2, 5}

\* CONTROLs with and without a brightness, power off included.
MCBrightnessFlags == {{"POWER_ON"}, {"POWER_ON", "HAS_BRI"}, {}, {"POWER_ON", "ARM_ON_SYNC"}}

\* The node as packets alone drive it.
PacketSpec == Init /\ [][Packet \/ DeferredApply \/ Tick]_vars
=============================================================================
