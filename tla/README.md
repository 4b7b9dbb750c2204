# RaceLink for WLED: formal specification

TLA+ modules for the firmware of a RaceLink node (a WLED usermod that drives
gates and start blocks over LoRa), with TLC configurations and TLAPS proofs.
Everything here is translated from the sources next to this directory; line
numbers of each definition are in `PROJECT.json` ("map"). W is
`racelink_wled.cpp`, C is `racelink_transport_core.h`.

## 1. The system

A node runs one thread, WLED's `loop()`, and one interrupt (DIO1 of the SX126x
radio); a start block has a second thread, the task of its e-paper display. `loop()` calls the transport's `service()` and then the services of the
usermod. A received packet is handled to completion inside `service()`, in
`handlePacket`. The hard behaviours come from what lies between two calls: the
interrupt, the display task, lost packets, power failures between flash writes,
timers, and two nodes that take the same role.

| Component | State | Operations | Talks to | Correct when |
|---|---|---|---|---|
| Effect pipeline (W 2677-3205, 3673-3806) | `current`, `pending`, `pendingDeferred*`, `active`, `pendingChange`, `activePhaseOffsetMs`, `strip.timebase`, `bri` | CONTROL, PRESET, OFFSET, SYNC, HEADLESS, INDICATE, SET_GROUP, deferred apply | WLED `stateUpdated()`, which calls back `onStateChange()` | only the last CONTROL is queued, with the offset computed when armed; only OFFSET moves the gate, only SYNC the clock |
| LoRa transport core (C) | `rfMode`, `changeMode`, `radioStandby`, one TX slot, RX request, TX stream, IRQ flag | `scheduleSend`, `scheduleStreamSend`, `service`, `recoverToIdle` | RadioLib/SX126x, ISR | belief and chip agree; what is fired is what was submitted; the slot frees; the node listens again |
| Stream transfer (C 340-393, `racelink_transport_common.h` 89-146) | TX stream, `streamBuf`, `streamLastPacketsLeft` | cut, send, reassemble, ACK | core's slot | an ACKed buffer is a message |
| Headless network (`racelink_headless.h`, W 3207-3671) | `headless`, slave table, group counter, sweep cursor, `resume` flag, persisted overrides | enter, exit, assign, sweep, keepalive, rebroadcast, persist, resume | radio, cfg.json, button | one master; roles cleaned up; registry survives power cycles |
| RF configuration store (`rf_config_nvs.h`, W 1054-1204, 1377-1424, 2396-2477) | NVS slot (magic, config, CRC, identity, strikes), cfg.json, learned and persisted master | boot, store, wipe, move by radio or settings page | flash, radio, settings page | a node comes up on the channel it ran on, and never with the old channel's master |
| Button and boot color (W 1540-1877) | tap counter, colour cycle, delayed save, access point | gestures, OPC_CONFIG 0x04, restore scene | headless network, cfg.json, settings page | only three clean taps move the access point; a chosen colour comes back |
| Local indicators (`racelink_indicators.h`) | one overlay | start, service, end | effect pipeline | visible effects come back |
| Fleet defaults, OPC_CONFIG, AP mode (W 1222-1336, 2160-2372) | overrides, filter flags | enforce, set, reset, report | WLED's live values, cfg.json | what GET_CONFIG reports is what runs |
| LED layout seed (`led_config_nvs.h`, W 1451-1521) | NVS seed | load, apply, wipe | WLED busses, cfg.json | a default that acts once |
| Ethernet transport (`racelink_transport_eth.h`, `racelink_w5500_udp.h`) | DHCP client, lease, one socket, host endpoint | service, negotiate, renew, read | W5500, DHCP servers, host | one user of the socket; the node answers under its lease and serves again |
| E-paper (`racelink_epaper.cpp` 479-768) | names, layout, requests, panel | set data, ask for a refresh, draw | stream handler, second thread | data that is set is shown, whole, in bounded time |
| Channel table, wire codec | constants, packet layouts | identify, build, parse | all | inverse of each other |
| Release tooling (Python) | none at run time | build | - | out of scope |

The list of hazards, each at its line with the properties that watch it, is
`PROJECT.json` "hazards".

## 2. Modules

### EffectPipeline
One node. A packet handler is one action, since nothing runs between its
statements except `onStateChange`, which is part of the action (`WithPower`).
`pending` is the armed CONTROL, `deferred` the fired one that waits for its
offset, `pendingChange`/`active` the offset formulas, `timebase + phase` the
master-aligned clock. `accepted` is history: the last accepted CONTROL with the
offset it was armed with. The effect's parameters are one token, brightness is
dark or lit, and the power-of-two flag byte is a set of flags. `handleSync` is
`Corrected` (the slew), then `FireNow`, `FireLater` or `ClockTick`. The formulas
NONE, EXPLICIT, LINEAR, VSHAPE and MODULO with their clamp are in `RawOffset`
and `ComputeOffset`.

### RadioService
One core over the chip. `service()` is cut where an interrupt can matter:
`HandleIrq` and `NoIrq` are part A, every other action under `Service` is one
branch of parts B, C, D, which one call takes after `NoIrq`. The chip is its own
actor: it ends a transmission, receives, or (`HUNG`) never raises TX_DONE.
Commands that may fail (prepare, scan, setTx, startReceive) have an action for
the failure. Ages and waits are counted in backoffs.

### StreamLink
A sender and a receiver of a stream over a link that loses fragments; above
RadioService, whose `StreamInOrder` and `StreamCompletes` say that the slot
carries the fragments in order. A fragment is its message and its place; its
control byte is `Start`, `Stop`, `PacketsLeft`. `RecoverToIdle` gives a stream up
after a fragment that was not sent, or was sent and heard although its TX_DONE
was missed. StreamEnd, when the node ACKs, sets `complete`. `gap` is history.

### HeadlessNet
A handful of nodes, an external gateway and a radio on which each packet reaches
any subset of the nodes. The state of a node is a record `node[n]`; a handler is
a function from record to record, so that `handlePacket` is a composition that
reads like the code: `StepsDown`, `SenderAllowed`, `NoteMaster`, the opcode. `disk`
is cfg.json. Each node has one transmit slot, and a send while it is taken is
dropped, as `scheduleSend` does. Times are abstracted: a timer may fire at any
moment after it was armed.

### RfConfigStore
One node. `pc` is the place in the boot and store sequences: each flash write is
an action, and power may fail before each. `nvs`, `file` and `ram` are the three
stores. A configuration is a token, `Phy` the generated channel table, `Bad` the
configurations on which the radio does not start (it hangs, or `begin` fails).
`gap` and `boots` are history. store() has three points at which power may fail
(`PutMagic`, `PutConfig`, `PutCrc`), wipe() five (`WipeMagic` to `WipeCount`). Writes
whose result nobody looks at (identity, cleared counter) may fail silently (`Try`).
A master is the configuration it is heard on. cfg.json alone tells a boot to forget
it, either with persistence off, which a complete move writes last, or by naming
another channel than NVS. `gap` marks where neither is so: a move cut off or refused
half-way, a wipe or a reseed onto the channel cfg.json names (or while it names none),
and persistence switched on again over an older pin. `MasterIsHeard` holds outside
them; each of the five is needed, and `CutMove.cfg` shows the first.

### ConfigSlot
What the slot promises to those who load and store it, without magic, CRC and places
where power may fail: it holds a configuration or none; a store replaces the old one,
or loses it, and never brings it back once the new one stands; a move is carried out
only when the new one is confirmed to be there. RfConfigStore implements it
(`SlotIsAtomic`) with `copy <- ` the configuration whose CRC fits, `slot <- ` the same
if load() accepts it, `running <- ram.active`, `asked <- ` what is being stored and
`stored <- ` the places after a store that reported success. `copy` and `slot`
differ when the magic alone could not be written: the magic of the next store then
makes that configuration loadable, though its own store reported a failure.

### StreamDelivery
What a stream promises its users, without fragments or radio: one message is
offered at a time, and each offer is handed over at most once or lost. As long as
nothing went missing since the start was heard, what is handed over is the
message; after that it has the length of a message and this one's end
(`MayPassFor`), which is as much as fragments without a stream id allow.
StreamLink implements it (`HandsOverOnce`) with the refinement mapping
`offered <- tx.msg, handed <- complete, torn <- gap`.

### SyncClock
The arithmetic of `handleSync` that completes the 24-bit time of a SYNC to 32
bits, with the width as a constant and all sums modulo the clock. A pure module:
`MCEffectPipeline` evaluates its two claims on a small clock, the proofs hold for
every width.

### EthLink
The DHCP client of the driver (`drv`), the core above it (`net`) and the datagrams
in the one socket. A call of `service()` is an action; which reply a poll finds is
chosen from all that servers may send, so retransmission is left out: a reply needs
no cause. `parseDhcp` overwrites the offered address with every reply, used or not,
as `WithAddress` does. Ages are differences to millis() that stop where nothing
compares further; the age of the lease is not, since 85 % of it are computed modulo
2^32. `held` and `lapsed` are history: what a server last acknowledged, and whether
a renewal has failed since.

### Epaper
Two threads: `mpc` is the place in loop(), `wpc` in the task. Each access to a flag
that the other thread can see is an action, the mutex and the binary semaphore are
modelled as such, and time is four ages. `full` is the choice the task has taken
over, `snap` its copy. The stream handler above sets only rows 1
to 4 (W 1919); the module allows any row of the layout.

### PanelMirror
What the display promises to those who set its data, without threads: after the
start screen the panel shows copies, each of the data of one moment and none older
than the one before. Epaper implements it (`ShowsOneMoment`) with
`data <- ` the data, the rows beyond a new layout cleared already while loop() is
about to clear them, and `copy <- ` the data while the task copies under the mutex.

### LocalControl
The button as a machine of edges, the gestures they make, and the life of the boot
colour from the click to cfg.json, with a scene, an old settings page and a power
loss in between. Times are abstracted. A click may find the button locked by a
master or not, a question HeadlessNet answers.

### NodeConfig
An override slot per setting, WLED's own live value, cfg.json and the seed; `pc`
walks through setup(). WLED's bus rebuild is an action of the environment that
rewrites the segments. WLED's `setGeometry` is not in this repository and is modelled
by what it does to a stop: one beyond the strip ends with it, unless the segment had
that bound already (`SetGeometry`); `appendSegment` clips nothing, and WLED may later
(`Placed`). What runs is therefore the override as far as the strip goes
(`LiveFollowsOverride`). `strip` and `drift` are history.

### Proof modules
Each `*Proofs` module extends its component. `EffectPipelineProofs` has SyncClock
too, and `NodeConfigProofs` has LocalControl as the instance `L`, whose assumption on
the constants is a hypothesis of its theorems. `MC*` modules hold the instances TLC
uses; NodeConfig and RadioService need none.

## 3. Runs

| Run | Instance | Shows |
|---|---|---|
| `effect_pipeline` | two groups, one effect besides the boot color, two formulas (one that clamps), three master times | queueing, offsets, flags, clock; a fired effect leaves its queue |
| `radio_service` | one packet, streams of two fragments, listening node and idle gateway | belief and chip agree, packet RAM, scans, streams; slot frees, reception resumes |
| `stream_link` | messages of 1, 3 and 4 fragments, 6 faults | what an ACKed buffer can be; a fresh stream gets through an abandoned one; the refinement of StreamDelivery |
| `headless_roles` | two nodes, a gateway, one power cycle or two promotions | roles, take-over, resume, the registry in cfg.json |
| `rf_config_store` | two channels, a custom and a hanging configuration, 3 power losses, 1 failing write, 1 reseed | boot, recovery, moves; the refinement of ConfigSlot |
| `eth_link` | two servers, leases without end, in time and past the word, socket that may fail, 2 datagrams | who has the socket, which address; serves, reads, renews again |
| `epaper` | two rows, one name, one partial refresh in a row | nothing forgotten, data shown; partial refreshes are bounded; the refinement of PanelMirror |
| `local_control` | one rolled colour, six taps in a row, one power loss | gestures, rounds of the colour cycle, the saved colour |
| `node_config` | two layouts, two values of a setting, one segment, 2 power losses, 1 seed, 1 edit | the strip, what runs against what is reported, adoption of a seed |
| `immediate_offset` (violation) | as `effect_pipeline` | an immediate CONTROL takes the offset of the old formula |
| `spliced_stream` (violation) | as `stream_link` | two messages are ACKed as one |
| `duplicate_group` (violation) | three nodes | a group id is handed out twice |

A violation run checks one statement of a comment or document, quoted in
`PROJECT.json` "findings", that the code does not fulfil.

**Properties.** Each is stated in words above its definition in the module.

- `effect_pipeline`: `OneQueuedEffect`, `OffsetFixedAtArm`, `FlagsFromControl`, `LogicalTimeOnlyBySync`, `SyncNeverDiverges`, `FiredEffectLeaves`.
- `radio_service`: `BeliefMatchesChip`, `FifoHoldsSlot`, `PoliteScans`, `StreamInOrder`, `SlotFrees`, `ReceptionResumes`.
- `stream_link`: `OneMessageIsWhole`, `StreamArrives`, `HandsOverOnce`.
- `headless_roles`: `RoleIsCoherent`, `OffMeansOff`, `CleanMeansSaved`, `ResumeOnlyUnclaimed`, `NoLastingRivals`, `ResumeDecided`.
- `rf_config_store`: `WipeNeedsStrikes`, `MasterIsHeard`, `SlotIsAtomic`, `BootReachesRun`.
- `eth_link`: `SocketHasOneUser`, `AnswersUnderLease`, `ServesAgain`, `InboxIsRead`, `LeaseIsRenewed`.
- `epaper`: `GhostingBounded`, `NothingForgotten`, `ShowsOneMoment`, `DataIsShown`.
- `local_control`: `ApByThreeTaps`, `RandomAfterAll`, `ClickIsSaved`.
- `node_config`: `StripIsKept`, `LiveFollowsOverride`, `SeedIsAdopted`.
- `immediate_offset` refutes `ImmediateUsesEffective`.
- `duplicate_group` refutes `ReservedIdIsFree`.
- `spliced_stream` refutes `AckedIsOneMessage`.

**Further configurations.** They are run like the others
(`tlc -config X.cfg Module`), on the same instances unless said.

| Configuration | Module | Outcome |
|---|---|---|
| `HeadlessRegistry.cfg` | MCHeadlessNet, three nodes, table of one row | types, registry against cfg.json: holds |
| `EpaperPace.cfg` | MCEpaper | types; no row is drawn beyond its layout; a refresh that comes early is a full one; new data do not hold up a refresh for ever: holds |
| `LocalColor.cfg` | MCLocalControl | types; the boot colour is saved and the saved one in cfg.json, or on its way; a settled colour survives a power loss: holds |
| `LiveBrightness.cfg` | MCEffectPipeline, packets only | violated: a CONTROL without brightness on a dark strip clears POWER_ON |
| `SubmitWatchdog.cfg` | RadioService | violated: the submission watchdog cuts off a packet in flight |
| `RfBoot.cfg` | MCRfConfigStore | types; unless a write failed, a running node comes up on the same configuration again: holds |
| `ShownChannel.cfg` | MCRfConfigStore, no faults | violated: after a move by radio the old channel is shown |
| `CutMove.cfg` | MCRfConfigStore, one power loss | violated: power lost between NVS and cfg.json boots the node on the new channel with the old one's master |
| `KeptLease.cfg` | MCEthLink | violated: after a failed renewal and a socket that does not open, the node serves under an address it was not given |
| `ResetUnsaved.cfg` | NodeConfig | violated: a reset of the overrides that changes nothing live is not saved |
| `ReportedStop.cfg` | NodeConfig | violated: on a strip made shorter than the override, what runs is not the override |
| `RestoreInSync.cfg` | MCLocalControl | violated: a scene between a click and its save cancels the save |
| `MinimumInterval.cfg` | MCEpaper | violated: a maintenance refresh may follow another refresh at once |

**Bounds.** Effects, brightness and groups have two values because no guard
compares more than equal and dark. `MaxOffset = 2` lets an offset be clamped below
and above; hard and small clock steps are both reached. In RadioService the
in-flight limit exceeds the time on air and the submission limit exceeds both,
the order that holds in the code; two fragments have a first, a last and a place
between. StreamLink's sizes differ by more than one position, so that a count can
fit in the wrong place; six faults allow a splice and two more failures. In the
headless runs `MaxGroup = 3` exhausts the counter (254 in the code) and one row
fills the table (40); budgets of presses, cycles and gateway packets bound a
behaviour, and a behaviour may stop when they are used up, hence
CHECK_DEADLOCK FALSE in those configurations (HeadlessRoles, HeadlessRegistry,
DuplicateGroup) and nowhere else. In RfConfigStore `BootCounterMax = 3` is smaller than `Saturation`, as in the code.
In EthLink the word is eight seconds and the factor three, so that one lease is
renewed in time and one overflows; the timeout is shorter than a lease, and a retry
of a renewal comes after it, as 16 s, 30 s and usual leases do. In Epaper the four
limits stand in the order of the code (1.5, 4, 10 and 360 s; the proofs need only
that the first three are not 0, which makes a request wait for time to pass), and a smaller layout
clears a row, so that one name makes old and new data differ. LocalControl counts
to six taps, one more than any gesture. NodeConfig has the losses for a boot that
fails between wipe and save and one after it.

**Fairness.** EffectPipeline: `loop()` calls `serviceDeferredApply` for ever, and time
passes; nothing ends an overlay but the code. RadioService: `service()` is called again and again (weak
fairness of `Service`); strong fairness of `NoIrq` and `Tick`, since interrupts
come no faster than loop iterations for ever; a healthy chip ends what it sends;
startReceive does not fail for ever. StreamLink: the sender's service goes on;
faults are bounded, so liveness speaks of streams started after the last one.
HeadlessNet: the slot is freed (what RadioService's `SlotFrees` shows), services
that retry find it free, and what a master sends is now and then heard by all.
RfConfigStore: the boot runs, and an operator power-cycles a node that hangs.
EthLink: `loop()` calls `service()`, millis() runs, the chip does open its socket
again some time, and `service()` comes often enough to see that a renewal is due,
which on a wrapped product lasts only until the age wraps too; no server and no host
need answer. Epaper: both threads run, loop() comes to `service_epaper` between
messages, a mutex that is given back goes to the task that waits for it, as FreeRTOS
does, and time passes. LocalControl: the operator pauses now and then, and WLED
writes cfg.json. NodeConfig: setup ends, WLED rebuilds and writes.
Nothing the operator, gateway or flasher might do is assumed to happen.

**Mutants.** Next to a definition stands, for many of them, a variant with a
plausible bug (dropped reset, missing check, wrong order), marked "Mutant". Each
property of a passing run is violated by one of them.

## 4. Proofs

Proved for every value of the constants that fulfils the named ASSUME of the
module, with TLAPS (SMT, Zenon, LS4):

- `EffectPipelineProofs`: `TypeCorrect`, `QueueHoldsLastControl`,
  `ArmedOffsetIsFixed`, `FlagsComeFromControl`, `GateMovedByOffsetOnly`,
  `LogicalTimeMovedBySyncOnly`, `FiredEffectIsKept`, `SyncConverges`. The inductive
  invariant is `QueueInv`: the four invariants do not imply themselves, since
  firing an effect copies the flag byte and the offset from the armed record
  while onStateChange rewrites the power bit, so the record's relation to
  `accepted` has to be carried through `pending`, `deferred` and `flags` together.
  Lemmas say what the operators return (`ComputeOffsetInRange`: every formula ends
  in 0..0xFFFF; `WithPowerKeepsRest`; `CorrectedType`). The offset formulas, the
  thresholds and the number of groups are arbitrary.
- `StreamLinkProofs`: `TypeCorrect`, `AckedHasItsLength`, `RetriesAreWhole`,
  `GaplessIsWhole`, for all messages, sizes and numbers of faults. The inductive
  invariant `StreamInv` says that an active buffer counts down from its start and
  `lastLeft` is what it lacks (`ReceiverInv`), that the slot holds the fragment
  queued last (`SenderInv`), and that without a gap the buffer follows the stream
  being sent, or the stream was given up and only a start can come next
  (`GapInv`). `NextFits` is the lemma about the append, `CountdownOfOneIsWhole`
  turns a countdown within one message into the message.

  `StreamImplementsDelivery` is the refinement: `StepRefines` maps each step to a
  step of StreamDelivery or a stutter, from `StreamInv` and `EndingPassesForMessage`.
- `RadioProofs`: `TypeCorrect`, `BeliefIsTrue`, `SlotIsFired`, `ListeningIsReal`,
  `PolitePacketsScan`, `FragmentsInOrder`, `StreamEndsWhole`. None of the invariants
  is inductive: an interrupt that is late finds another mode. `RadioInv` therefore
  says what a transmission is from setTx until its end is handled (`FlightOK`): in
  flight, or ended with its TX_DONE pending, or neither, and what slot, mode and the
  stream's counters are in each case (`ModeOK`, `LoadOK`, `ScanOK`, `StreamOK`).
- `HeadlessProofs`: `TypeCorrect`, `RolesAreCoherent`, `OffIsOff`, `SweepsAsMaster`,
  `CleanIsSaved`, `ResumesUnclaimed`, for any number of nodes. `Good` speaks of one record: each
  operator of the module that changes a record has a lemma that it keeps it, and a
  handler, which composes them, follows from those. `PacketOK` is what makes it
  inductive: a received group is in range because whoever sent it kept `Good`.
  `ResumesUnclaimed` goes through all other ways to change a role:
  `PacketMakesNoMaster`, `ServicesKeepRole`, and what operator and power do is counted.
- `RfConfigProofs`: `TypeCorrect`, `StoredIsRun`, `WipeHasStrikes`,
  `OnlyHeardMaster`, `StoreImplementsSlot`. `RfInv` adds what each place of the boot and store sequences
  may rely on, since power may fail at any of them: `StoreInv` which of magic,
  configuration and CRC have been written, `StrikeInv` that strikes count boots.
  `MasterInv` is for the master: `FlashInv` what the firmware has of cfg.json and a store
  has written, `WipeInv` how far a wipe is, and `Bound`, as long as there is no gap, that
  what NVS would boot on now adopts nobody out of reach, unless a move or a wipe is going
  on, and that what runs already has not.

  `StoreImplementsSlot` is the refinement of ConfigSlot: `SlotStep` maps each step to a
  step of the slot or a stutter. It needs `SlotInv`, which holds whatever writes failed:
  nothing runs before it is loaded, and a store that still counts on success (`job.ok`)
  has written what it passed. `StoreInv` does not do here: it speaks only while no write
  has failed.
- `EthLinkProofs`: `TypeCorrect`, `OneUserOfTheSocket`, `UnderLease`,
  `FallbackInBoth`, `RequestsName`. `LeaseInv` ties the client to the core: a node
  that serves is bound or given up, renewals are for leases, and what `dhcpResult`
  copies is what was acknowledged.
- `NodeConfigProofs`: `TypeCorrect`, `SeedActsOnce`, `OptionsAreLive`,
  `OnlyResetsUnsaved`. `ConfigInv` adds that no seed is left once setup has looked
  (`SeedPhase`), that the layout wanted is running or being built, and that segment
  0 lies within the strip (`Within`): else setGeometry could find the override there
  already and leave it unclipped.

  The same module proves of LocalControl `LocalTypeCorrect`, `ThreeTapsOnly`,
  `PrimariesFirst`, `BootColorIsSaved` and `ColorSurvives`, for any rolled colours and
  any number of taps and power losses. `LocalInv` adds that the tap counter is the
  history of clean taps (`Counted`) and that a round knows what it has shown
  (`RoundKept`): the primaries shown are the ones before the next, so that the third
  step completes them wherever the round began. `ColorSurvives` is not an invariant
  of its own: it follows from `MirrorIsSaved` and `SavedIsWritten` together.
- `EpaperProofs`: `TypeCorrect`, `NothingIsForgotten`, `RowsFitLayout`,
  `GhostingIsBounded`, `EarlyRefreshIsFull`, `DisplayImplementsMirror`, for any number
  of rows, names, limits and intervals of at least one tick. None is inductive: what
  loop() chose may be carried out long after, when another request has been served.
  `EpaperInv` follows both program counters: `Locked` (who holds the mutex), `Started`
  (the start screen comes before any request), `Woken` (a request has a wake-up with
  it), `NotAgain` and `SecondIsFull` (a second request while one is being served can
  only be one of maintenance, hence full), from which `MayBePartial` and `InTime` say
  that the choice is still right when it is drawn, and `Remembered` that accepted data
  are pending, asked for, copied or shown. `StepMirrors` maps each step to a step of
  PanelMirror or a stutter.
- `EffectPipelineProofs` on SyncClock: `ClockTracksMaster`, `ClockLosesMaster`,
  `NextSyncIsPlaced`: arithmetic only, by cases of where the prediction lies in its
  window.

The invariants `EffectiveOnlyByOffset`, `FiredEffectKept`, `RxModeListens`,
`StreamCompletes`, `SweepOnlyAsMaster`, `LengthFromStart`, `WithoutGapIsWhole`,
`StaticIsFallback`, `RequestsAnOffer`, `RunningIsStored`, `UnsavedIsReset`, `DrawnAsOne`, `EarlyIsFull`,
`MirrorIsSaved`, `SavedIsWritten`, `SettledSurvives` and the type invariants are proved
and not repeated in a run.

Every safety property of a passing run is a theorem. Only model-checked: liveness,
since it rests on fairness and needs ENABLED.

## 5. What is not modelled

Byte layouts, CRC and length checks of packets and the table of response rules;
WLED itself, its presets and palettes; range validation of radio settings; the
settings page's copies of headless fields; the times of the headless throttles; the
brightness fade during a hold and its broadcast; indicator patterns; drawing on the
panel, its pins and its hibernation; SPI registers of the W5500 and the build
without DHCP; the wire format of GET_CONFIG; release scripts, which run on a build
machine. In RfConfigStore region and channel number, two writes in the code, are one
token; a settings save on a node whose radio did not start is left out, and so are a
namespace that does not open when the boot counts, loads or wipes, and a removal or a
counter write that fails there; a radio that reports a failure is taken to hang, where
the code goes on without it. In RadioService a standby command does not fail, so that
no TX_DONE is late: recoverToIdle clears what has come, and the branch for late ones
(C 599) is modelled and never taken. In NodeConfig
segments begin at 0 or behind segment 0, and stop 0 and starts beyond the strip are left
out. The
first SYNC after power-up takes the 24 bits as they are (`MasterTime`): nodes that
heard theirs in different windows of 4.7 hours keep absolute times that differ by
whole windows, which EffectPipeline, one node and differences, does not see. The
gateway is not in this repository: it appears as an environment that may send any
of its packets.

## 6. Plan

Every component with control flow of its own has a module. What would come next:

1. `RfConfigStore` composed with RadioService, for the ACK of OPC_RF_CONFIG that is
   queued and lost by the restart; the persistence switch that is not saved.
2. The settings page as an actor of HeadlessNet: it posts headless fields that were
   rendered before.
