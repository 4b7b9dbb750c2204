---------------------------- MODULE RfConfigStore ----------------------------
(***************************************************************************)
(* Which LoRa channel a node is on: the configuration slot and the channel *)
(* identity in NVS, the copy of the identity in cfg.json, the boot that    *)
(* loads them, the strike counter that throws a configuration away which   *)
(* keeps the node from booting, and the two ways to move a running node,   *)
(* OPC_RF_CONFIG and the settings page.                                    *)
(*                                                                         *)
(* Every write to flash is a step of its own, and power may fail between   *)
(* any two.  A configuration is a token; the CRC is the configuration it   *)
(* was computed from; region and channel number are one token.  A master   *)
(* is the configuration it is heard on: on another one it is out of reach. *)
(***************************************************************************)
EXTENDS Integers

CONSTANTS
  Configs,     \* PHY configurations that pass validate()
  Default,     \* the compile-time configuration
  Bad,         \* configurations that hang or fail radio.begin()
  Channels,    \* rows of the channel table
  Phy,         \* the configuration of each row
  BootCounterMax, \* BOOT_COUNTER_MAX
  Saturation,  \* 255, where the strike counter stops
  MaxLosses, MaxFailures, MaxSeeds, \* bounds: power losses, failing writes, reseeds
  None

ASSUME StoreAssumption ==
  /\ Default \in Configs /\ Bad \subseteq Configs /\ Default \notin Bad
  /\ Phy \in [Channels -> Configs]
  /\ \A c, d \in Channels : Phy[c] = Phy[d] => c = d
  /\ BootCounterMax \in Nat /\ Saturation \in Nat /\ BootCounterMax < Saturation
  /\ {MaxLosses, MaxFailures, MaxSeeds} \subseteq Nat
  /\ None \notin Configs \cup Channels

Identity == Channels \cup {None}  \* None: CHANNEL_NONE, a custom configuration
Masters == Configs \cup {None}

VARIABLES
  nvs,   \* the NVS namespace rl_rf
  file,  \* cfg.json, as far as channel and master go
  ram,   \* the running firmware's copies
  pc,    \* where boot or a move is, or "Run"
  job,   \* the configuration being stored, and who stores it
  left,  \* bound: losses, failing writes and reseeds to come
  boots, \* history: boots begun since the counter was last cleared
  gap    \* history: since the last complete move the node was put on another
         \* channel in a way that cfg.json does not tell it, see MasterIsHeard

vars == <<nvs, file, ram, pc, job, left, boots, gap>>
environment == <<left, boots, gap>>

Booting == {"ReadConfig", "Count", "WipeSlot", "WipeConfig", "WipeCrc", "WipeIdentity",
            "WipeCount", "Load", "Identify", "Begin", "Clear"}
Storing == {"PutMagic", "PutConfig", "PutCrc"}
Point == Booting \cup Storing \cup {"PutIdentity", "Save", "Restart", "Hung", "Run"}

NoJob == [cfg |-> None, ident |-> None, by |-> "Boot", ok |-> TRUE]
Off == [active |-> None, ident |-> None, persist |-> FALSE, pinned |-> None,
        master |-> None, configNeedsWrite |-> FALSE]

Init ==
  /\ nvs = [magic |-> FALSE, cfg |-> None, crc |-> None, ident |-> None, strikes |-> 0]
  /\ file = [ident |-> None, persist |-> FALSE, pinned |-> None]
  /\ ram = Off /\ pc = "ReadConfig" /\ job = NoJob
  /\ left = [losses |-> MaxLosses, failures |-> MaxFailures, seeds |-> MaxSeeds]
  /\ boots = 0 /\ gap = FALSE

\* Mutant: load() does not check the CRC.
ValidUnchecked(slot) == slot.magic /\ slot.cfg # None

\* load() accepts the slot.
Valid(slot) == slot.magic /\ slot.cfg # None /\ slot.crc = slot.cfg

\* The row of the channel table with this configuration, or None.
IdentityOf(cfg) ==
  IF \E c \in Channels : Phy[c] = cfg THEN CHOOSE c \in Channels : Phy[c] = cfg ELSE None

\* What the next boot runs on, and the channel it takes itself to be on.
BootsOn(slot) == IF Valid(slot) THEN slot.cfg ELSE Default

IdentifiedAs(slot, cfg) == IF slot.ident # None THEN slot.ident ELSE IdentityOf(cfg)

\* A boot on cfg as channel id adopts a master out of reach: cfg.json pins one
\* of another configuration, and names no channel other than id.
Strands(cfg, id) ==
  file.persist /\ file.pinned \notin {None, cfg} /\ file.ident \in {None, id}

\* A write whose result nobody looks at.
Try(written) ==
  \/ nvs' = written /\ UNCHANGED left
  \/ /\ left.failures > 0
     /\ left' = [left EXCEPT !.failures = @ - 1]
     /\ UNCHANGED nvs

\* One step from one control point to another.
At(from, to) == pc = from /\ pc' = to

-----------------------------------------------------------------------------
(* Boot.                                                                   *)

ReadConfig ==
  /\ At("ReadConfig", "Count")
  /\ ram' = [Off EXCEPT !.ident = file.ident, !.persist = file.persist, !.pinned = file.pinned,
                        !.master = IF file.persist THEN file.pinned ELSE None]
  /\ UNCHANGED <<nvs, file, job, environment>>

CountBoot ==
  /\ pc = "Count"
  /\ nvs' = [nvs EXCEPT !.strikes = IF @ < Saturation THEN @ + 1 ELSE @]
  /\ pc' = IF nvs'.strikes > BootCounterMax THEN "WipeSlot" ELSE "Load"
  /\ boots' = IF boots < Saturation THEN boots + 1 ELSE boots
  /\ UNCHANGED <<file, ram, job, left, gap>>

\* Mutant: the wipe forgets the configuration itself.
WipeSlotNothing ==
  /\ At("WipeSlot", "WipeIdentity")
  /\ gap' = TRUE
  /\ UNCHANGED <<nvs, file, ram, job, left, boots>>

\* wipe(): magic, configuration and CRC go one by one; when power fails
\* between, the next boot finds the strikes and wipes again.
WipeMagic ==
  /\ At("WipeSlot", "WipeConfig")
  /\ nvs' = [nvs EXCEPT !.magic = FALSE]
  /\ gap' = (gap \/ Strands(Default, IdentityOf(Default)))
  /\ UNCHANGED <<file, ram, job, left, boots>>

WipeConfig ==
  /\ At("WipeConfig", "WipeCrc")
  /\ nvs' = [nvs EXCEPT !.cfg = None]
  /\ UNCHANGED <<file, ram, job, environment>>

WipeCrc ==
  /\ At("WipeCrc", "WipeIdentity")
  /\ nvs' = [nvs EXCEPT !.crc = None]
  /\ UNCHANGED <<file, ram, job, environment>>

WipeIdentity ==
  /\ At("WipeIdentity", "WipeCount")
  /\ nvs' = [nvs EXCEPT !.ident = None]
  /\ UNCHANGED <<file, ram, job, environment>>

WipeCount ==
  /\ At("WipeCount", "Load")
  /\ nvs' = [nvs EXCEPT !.strikes = 0]
  /\ boots' = 1
  /\ UNCHANGED <<file, ram, job, left, gap>>

LoadStored ==
  /\ At("Load", "Identify") /\ Valid(nvs)
  /\ ram' = [ram EXCEPT !.active = nvs.cfg]
  /\ UNCHANGED <<nvs, file, job, environment>>

\* No usable slot: run on the default and store it.
LoadDefault ==
  /\ At("Load", "PutMagic") /\ ~Valid(nvs)
  /\ ram' = [ram EXCEPT !.active = Default]
  /\ job' = [NoJob EXCEPT !.cfg = Default]
  /\ UNCHANGED <<nvs, file, environment>>

\* The stored identity, or the one that fits, which is stored then.  When
\* cfg.json names another channel the node was moved, and forgets its master.
Identify ==
  /\ At("Identify", "Begin")
  /\ LET id == IdentifiedAs(nvs, ram.active)
         wasMoved == ram.ident # None /\ ram.ident # id
     IN /\ Try([nvs EXCEPT !.ident = id])
        /\ ram' = IF wasMoved
                  THEN [ram EXCEPT !.ident = id, !.persist = FALSE, !.master = None,
                                   !.configNeedsWrite = TRUE]
                  ELSE [ram EXCEPT !.ident = id]
  /\ UNCHANGED <<file, job, boots, gap>>

Begin ==
  /\ pc = "Begin"
  /\ pc' = IF ram.active \in Bad THEN "Hung" ELSE "Clear"
  /\ UNCHANGED <<nvs, file, ram, job, environment>>

\* Mutant: a successful boot leaves its strike.
ClearNothing ==
  /\ At("Clear", "Run")
  /\ boots' = 0
  /\ UNCHANGED <<nvs, file, ram, job, left, gap>>

\* bootCounterClear: a failing write leaves the strikes to the next boot.
Clear ==
  /\ At("Clear", "Run")
  /\ Try([nvs EXCEPT !.strikes = 0])
  /\ boots' = IF left' = left THEN 0 ELSE boots
  /\ UNCHANGED <<file, ram, job, gap>>

-----------------------------------------------------------------------------
(* store(): three writes, of which each may fail without stopping it.      *)

Put(written) ==
  \/ /\ nvs' = written
     /\ UNCHANGED <<job, left>>
  \/ /\ left.failures > 0
     /\ left' = [left EXCEPT !.failures = @ - 1]
     /\ job' = [job EXCEPT !.ok = FALSE]
     /\ UNCHANGED nvs

PutMagic ==
  /\ At("PutMagic", "PutConfig")
  /\ Put([nvs EXCEPT !.magic = TRUE])
  /\ UNCHANGED <<file, ram, boots, gap>>

PutConfig ==
  /\ At("PutConfig", "PutCrc")
  /\ Put([nvs EXCEPT !.cfg = job.cfg])
  /\ UNCHANGED <<file, ram, boots, gap>>

\* Boot goes on whatever the result; a move that failed is refused.
PutCrc ==
  /\ pc = "PutCrc"
  /\ Put([nvs EXCEPT !.crc = job.cfg])
  /\ pc' = CASE job.by = "Boot" -> "Identify"
             [] job.by = "Air" -> IF job'.ok THEN "Save" ELSE "Run"
             [] job.by = "Settings" -> IF job'.ok THEN "PutIdentity" ELSE "Run"
  /\ gap' = (gap \/ (job.by # "Boot" /\ ~job'.ok))
  /\ UNCHANGED <<file, ram, boots>>

-----------------------------------------------------------------------------
(* Moving a running node.                                                  *)

\* OPC_RF_CONFIG, unicast and within the ranges.
RfConfigPacket(cfg) ==
  /\ At("Run", "PutMagic")
  /\ job' = [NoJob EXCEPT !.cfg = cfg, !.by = "Air"]
  /\ UNCHANGED <<nvs, file, ram, environment>>

\* The settings page names another channel than the one it showed.
ChannelSetting(c) ==
  /\ At("Run", "PutMagic") /\ c # ram.ident
  /\ job' = [NoJob EXCEPT !.cfg = Phy[c], !.ident = c, !.by = "Settings"]
  /\ UNCHANGED <<nvs, file, ram, environment>>

PutIdentity ==
  /\ At("PutIdentity", "Save")
  /\ Try([nvs EXCEPT !.ident = job.ident])
  /\ UNCHANGED <<file, ram, job, boots, gap>>

\* What serializeConfigToFS writes of r.
FileOf(r) == [ident |-> r.ident, persist |-> r.persist, pinned |-> r.pinned]

\* Mutant: the node keeps to its persisted master.
SaveKeepsPersist ==
  /\ At("Save", "Restart")
  /\ ram' = [ram EXCEPT !.active = job.cfg, !.configNeedsWrite = TRUE]
  /\ file' = FileOf(ram') /\ gap' = FALSE
  /\ UNCHANGED <<nvs, job, left, boots>>

\* The master belongs to the old channel: do not adopt it at the next boot.
Save ==
  /\ At("Save", "Restart")
  /\ ram' = [ram EXCEPT !.active = job.cfg, !.persist = FALSE, !.configNeedsWrite = TRUE]
  /\ file' = FileOf(ram') /\ gap' = FALSE
  /\ UNCHANGED <<nvs, job, left, boots>>

Reboots ==
  /\ pc' = "ReadConfig" /\ ram' = Off /\ job' = NoJob
  /\ UNCHANGED file

Restart == pc = "Restart" /\ Reboots /\ UNCHANGED <<nvs, environment>>

-----------------------------------------------------------------------------
(* The master of a running node.                                           *)

Running(r) == pc = "Run" /\ ram' = r /\ UNCHANGED <<nvs, file, pc, job, left, boots>>

Pinned(r) ==
  IF r.persist /\ r.master # None
  THEN [r EXCEPT !.pinned = r.master, !.configNeedsWrite = TRUE] ELSE r

\* OPC_SET_GROUP: learnMasterFromSender.
LearnMaster == Running(Pinned([ram EXCEPT !.master = ram.active])) /\ UNCHANGED gap

\* OPC_CONFIG 0x02.
ClearMaster == Running([ram EXCEPT !.master = None]) /\ UNCHANGED gap

\* OPC_CONFIG 0x03; switched on while no master is known, it takes the one
\* pinned earlier for the next boot, whatever channel that was on.
SetPersist(on) ==
  /\ Running(IF on /\ ~ram.persist
             THEN Pinned([ram EXCEPT !.persist = TRUE])
             ELSE [ram EXCEPT !.persist = on, !.configNeedsWrite = TRUE])
  /\ gap' = (gap \/ (on /\ ~ram.persist /\ ram.master = None
                      /\ ram.pinned \notin {None, ram.active}))

WriteConfig ==
  /\ pc = "Run" /\ ram.configNeedsWrite
  /\ file' = FileOf(ram)
  /\ ram' = [ram EXCEPT !.configNeedsWrite = FALSE]
  /\ UNCHANGED <<nvs, pc, job, environment>>

-----------------------------------------------------------------------------
(* Power, the operator, the flasher.                                       *)

\* A move has begun to write, and has not yet told cfg.json.
Moving == job.by # "Boot" /\ pc \in Storing \cup {"PutIdentity", "Save"}

PowerLoss ==
  /\ left.losses > 0 /\ pc # "ReadConfig"
  /\ left' = [left EXCEPT !.losses = @ - 1]
  /\ Reboots
  /\ gap' = (gap \/ (Moving /\ Strands(BootsOn(nvs), IdentifiedAs(nvs, BootsOn(nvs)))))
  /\ UNCHANGED <<nvs, boots>>

\* A node that hangs is switched off and on again.
OperatorCycles == pc = "Hung" /\ Reboots /\ UNCHANGED <<nvs, environment>>

\* The flasher writes the slot and the identity of a channel, and not cfg.json.
Reseed(c) ==
  /\ left.seeds > 0 /\ pc = "ReadConfig"
  /\ left' = [left EXCEPT !.seeds = @ - 1]
  /\ nvs' = [magic |-> TRUE, cfg |-> Phy[c], crc |-> Phy[c], ident |-> c, strikes |-> nvs.strikes]
  /\ gap' = (gap \/ Strands(Phy[c], c))
  /\ UNCHANGED <<file, ram, pc, job, boots>>

-----------------------------------------------------------------------------
Boot ==
  \/ ReadConfig \/ CountBoot
  \/ WipeMagic \/ WipeConfig \/ WipeCrc \/ WipeIdentity \/ WipeCount
  \/ LoadStored \/ LoadDefault \/ Identify \/ Begin \/ Clear
Store == PutMagic \/ PutConfig \/ PutCrc
Move == Store \/ PutIdentity \/ Save \/ Restart
Command ==
  \/ \E cfg \in Configs : RfConfigPacket(cfg)
  \/ \E c \in Channels : ChannelSetting(c)
  \/ LearnMaster \/ ClearMaster \/ \E on \in BOOLEAN : SetPersist(on)
Outside == WriteConfig \/ PowerLoss \/ OperatorCycles \/ \E c \in Channels : Reseed(c)

Next == Boot \/ Move \/ Command \/ Outside

Spec == Init /\ [][Next]_vars

\* The firmware runs, and somebody power-cycles a node that hangs.
FairSpec == Spec /\ WF_vars(Boot) /\ WF_vars(Move) /\ WF_vars(OperatorCycles)
-----------------------------------------------------------------------------
(* Properties.                                                             *)

\* Every variable has its type; from Load on the node has a configuration.
TypeOK ==
  /\ nvs \in [magic : BOOLEAN, cfg : Configs \cup {None}, crc : Configs \cup {None},
              ident : Identity, strikes : 0 .. Saturation]
  /\ file \in [ident : Identity, persist : BOOLEAN, pinned : Masters]
  /\ ram \in [active : Configs \cup {None}, ident : Identity, persist : BOOLEAN,
              pinned : Masters, master : Masters, configNeedsWrite : BOOLEAN]
  /\ pc \in Point /\ boots \in 0 .. Saturation /\ gap \in BOOLEAN
  /\ job \in [cfg : Configs \cup {None}, ident : Identity,
              by : {"Boot", "Air", "Settings"}, ok : BOOLEAN]
  /\ left \in [losses : Nat, failures : Nat, seeds : Nat]
  /\ pc \in {"Identify", "Begin", "Clear", "Hung", "Run"} => ram.active # None

\* A running node comes up on the same channel again: what it runs on is what
\* NVS holds, however often power failed, unless a write to NVS failed.
RunningIsStored ==
  pc = "Run" /\ left.failures = MaxFailures => Valid(nvs) /\ nvs.cfg = ram.active

\* A configuration is thrown away only after more than BootCounterMax boots
\* in a row that did not clear the counter: the radio never came up, power
\* failed first, or the write did.
WipeNeedsStrikes == pc = "WipeSlot" => boots > BootCounterMax

\* A running node has no master, or one it can hear: moves, boots, power losses,
\* failing writes, wipes and reseeds never leave it bound to the master of
\* another channel.  gap marks the four ways in which the code does: power lost
\* between the store of a move and cfg.json, a store refused half-way, a wipe
\* or a reseed onto the channel that cfg.json names already (or names none),
\* and persistence switched on again over an older pin.  The next complete
\* move ends each of them.
MasterIsHeard == pc = "Run" /\ ~gap => ram.master \in {None, ram.active}

\* Every boot ends in a running node, also from a configuration that hangs it.
BootReachesRun == pc \in Booting ~> pc = "Run"

\* ConfigSlot over the flash and the firmware: a configuration with its CRC,
\* which load() accepts if the magic is there too; what is being stored; and
\* from the last successful write on, that it is stored.
Confirmed == pc \in {"PutIdentity", "Save", "Restart"}

Slot == INSTANCE ConfigSlot WITH
  copy <- IF nvs.crc = nvs.cfg THEN nvs.cfg ELSE None,
  slot <- IF Valid(nvs) THEN nvs.cfg ELSE None,
  running <- ram.active,
  asked <- IF pc \in Storing \/ Confirmed THEN job.cfg ELSE None,
  stored <- Confirmed

\* The three writes, each of which may fail or be the last before a power loss,
\* implement one slot: no boot loads a configuration that nobody stored, none
\* comes back that was replaced, and a node moves only to what the slot holds.
SlotIsAtomic == Slot!Spec

\* What the comments say and the code does not do: the channel shown on the
\* settings page is the one the node is really on.
ShownChannelIsReal == pc = "Run" /\ ram.ident # None => ram.active = Phy[ram.ident]

\* And: the master of the old channel is not adopted at the next boot, whatever
\* cut the move short.
OldMasterIsDropped == pc = "Run" => ram.master \in {None, ram.active}
=============================================================================
