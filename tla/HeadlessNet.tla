----------------------------- MODULE HeadlessNet -----------------------------
(***************************************************************************)
(* Who is master of whom: nodes that any operator may promote to headless  *)
(* master, slaves that look for a master after power-up, a gateway that    *)
(* comes and goes, a radio that loses packets, and power cycles.           *)
(*                                                                         *)
(* A node is one record; the operators on records are the functions of the *)
(* code that change it, and an action is one handler or one service step   *)
(* of loop() at one node.  The transmit queue is the single slot of        *)
(* RadioService: a send that finds it occupied is dropped.  Timers are     *)
(* abstract: what waits for one may happen at any moment.  The MAC filter  *)
(* is on and not persisted (the defaults), and the radio works.  What a    *)
(* packet makes the strip show is in EffectPipeline.                       *)
(***************************************************************************)
EXTENDS Integers, Sequences

CONSTANTS
  Node,
  Gateway,      \* the external gateway, a master that is no node
  All,          \* FF:FF:FF, the broadcast receiver
  None,
  GatewayGroups,\* groups the gateway gives to a node
  MaxGroup,     \* HEADLESS_MAX_GROUP_ID
  MaxSlaves,    \* HEADLESS_MAX_SLAVES
  Budgets       \* bounds: what the environment may do in one behaviour

ASSUME HeadlessAssumption ==
  /\ Gateway \notin Node /\ All \notin Node \cup {Gateway} /\ None \notin Node \cup {Gateway}
  /\ MaxGroup \in Nat /\ MaxGroup >= 2 /\ MaxSlaves \in Nat \ {0}
  /\ GatewayGroups \subseteq 0 .. MaxGroup
  /\ Budgets \subseteq [presses : Nat, cycles : Nat, gateway : Nat]

MasterGroup == 1
FirstGroup == 2
AnyGroup == 255
Group == 0 .. MaxGroup
Idle == 0       \* cursor 0xFF

Row == [node : Node, group : 1 .. MaxGroup]
Table == {t \in Seq(Row) : Len(t) <= MaxSlaves}
Packet == [type : {"DEVICES", "SET_GROUP", "SYNC", "HEADLESS", "IDENTIFY", "ACK"},
           from : Node \cup {Gateway}, to : Node \cup {Gateway, All},
           group : Group \cup {AnyGroup}]
FromMaster == {"DEVICES", "SET_GROUP", "SYNC", "HEADLESS"}

\* What cfg.json keeps; counter and table are the pairing context.
Config == [headless : BOOLEAN, counter : 0 .. MaxGroup + 1, scene : BOOLEAN, table : Table]

VARIABLES
  node,   \* the state of every node
  left    \* bound: presses, power cycles and gateway packets to come

vars == <<node, left>>

-----------------------------------------------------------------------------
(* Power-up: setup() with what cfg.json holds.                             *)

Fresh == [headless |-> FALSE, counter |-> 0, scene |-> FALSE, table |-> <<>>]

Booted(disk) ==
  [active |-> FALSE, groupId |-> 0, master |-> None, contacted |-> FALSE,
   stage |-> 0, btnUsed |-> FALSE, resume |-> disk.headless,
   headless |-> disk.headless, counter |-> disk.counter, scene |-> disk.scene,
   table |-> disk.table, dirty |-> FALSE, configNeedsWrite |-> FALSE, disk |-> disk,
   cursor |-> Idle, rebroadcast |-> FALSE, slot |-> None]

Init ==
  /\ node = [n \in Node |-> Booted(Fresh)]
  /\ left \in Budgets

-----------------------------------------------------------------------------
(* Packets and the transmit slot.                                          *)

Msg(type, from, to, group) == [type |-> type, from |-> from, to |-> to, group |-> group]

\* scheduleSend; its result is ignored except where SlotFree guards an action.
Send(s, p) == IF s.slot = None THEN [s EXCEPT !.slot = p] ELSE s
SlotFree(s) == s.slot = None

IdentifyReply(s, n, to) == Msg("IDENTIFY", n, to, s.groupId)

-----------------------------------------------------------------------------
(* The slave registry and the group counter.                               *)

Known(s, x) == \E i \in DOMAIN s.table : s.table[i].node = x
RowOf(s, x) == CHOOSE i \in DOMAIN s.table : s.table[i].node = x
CanUpsert(s, x) == Known(s, x) \/ Len(s.table) < MaxSlaves

Upsert(s, x, g) ==
  IF Known(s, x)
  THEN [s EXCEPT !.table[RowOf(s, x)].group = g]
  ELSE [s EXCEPT !.table = Append(@, [node |-> x, group |-> g])]

\* The id reserveNextGroupId returns; beyond MaxGroup means exhausted.
NextId(s) == IF s.counter < FirstGroup THEN FirstGroup ELSE s.counter

\* Mutant: a new pairing is not marked for writing.
BindUnmarked(s, n, x, g) ==
  [Send(s, Msg("SET_GROUP", n, x, g)) EXCEPT !.rebroadcast = @ \/ s.scene]

\* headlessSendTx of a SET_GROUP and what follows it in headlessAssignGroupTo.
Bind(s, n, x, g) ==
  [Send(s, Msg("SET_GROUP", n, x, g)) EXCEPT
     !.dirty = TRUE, !.rebroadcast = @ \/ s.scene]

\* headlessAssignGroupTo: a slave reports group g, 0 when it has none.
AssignGroupTo(s, n, x, g) ==
  IF g # 0
  THEN IF CanUpsert(s, x) THEN [Upsert(s, x, g) EXCEPT !.dirty = TRUE] ELSE s
  ELSE IF Known(s, x) THEN Bind(s, n, x, s.table[RowOf(s, x)].group)
  ELSE IF NextId(s) > MaxGroup THEN s
  ELSE IF CanUpsert(s, x)
       THEN Bind(Upsert([s EXCEPT !.counter = NextId(s) + 1], x, NextId(s)), n, x, NextId(s))
       ELSE [s EXCEPT !.counter = NextId(s)]

-----------------------------------------------------------------------------
(* Becoming and ceasing to be headless master.                             *)

BroadcastScene(s, n) == IF s.scene THEN Send(s, Msg("HEADLESS", n, All, 0)) ELSE s
BroadcastSync(s, n) == Send(s, Msg("SYNC", n, All, 0))

\* Mutant: the learned master survives the promotion.
EnterKeepsMaster(s, n) ==
  LET e == [s EXCEPT !.active = TRUE, !.groupId = MasterGroup,
              !.headless = TRUE, !.configNeedsWrite = @ \/ ~s.headless,
              !.cursor = IF s.table = <<>> THEN Idle ELSE 1]
  IN IF e.scene THEN BroadcastScene(e, n) ELSE BroadcastSync(e, n)

\* enterHeadlessMode
Enter(s, n) ==
  LET e == [s EXCEPT !.active = TRUE, !.groupId = MasterGroup,
              !.headless = TRUE, !.configNeedsWrite = @ \/ ~s.headless,
              !.master = None, !.contacted = FALSE,
              !.cursor = IF s.table = <<>> THEN Idle ELSE 1]
  IN IF e.scene THEN BroadcastScene(e, n) ELSE BroadcastSync(e, n)

\* Mutant: the registry is kept for the next promotion.
ExitKeepsTable(s) ==
  [s EXCEPT !.active = FALSE, !.cursor = Idle, !.counter = 0, !.groupId = 0,
            !.dirty = FALSE, !.headless = FALSE, !.configNeedsWrite = TRUE]

\* exitHeadlessMode, which is only called while active.
Exit(s) ==
  [s EXCEPT !.active = FALSE, !.cursor = Idle, !.counter = 0, !.groupId = 0,
            !.table = <<>>, !.dirty = FALSE, !.headless = FALSE,
            !.configNeedsWrite = TRUE]

\* tryStartHeadless; a master heard of late makes it refuse.
TryStart(s, n) ==
  IF s.active THEN Exit(s)
  ELSE IF s.contacted THEN s
  ELSE Enter(Send(s, IdentifyReply(s, n, All)), n)

-----------------------------------------------------------------------------
(* handlePacket at node n in state s, one operator per kind of packet.     *)

\* Only a headless master listens to nodes; their ACKs are logged only.
OnIdentify(s, n, p) == IF s.active THEN AssignGroupTo(s, n, p.from, p.group) ELSE s

\* Mutant: a headless master ignores other masters.
StandsFast(s) == s

\* The master-alive detector: any packet of another master ends this one.
StepsDown(s) == IF s.active THEN Exit(s) ELSE s

SenderAllowed(s, p) ==
  IF s.master = None THEN p.type \in {"DEVICES", "SET_GROUP"} ELSE s.master = p.from

NoteMaster(s, p) == IF s.master = p.from THEN [s EXCEPT !.contacted = TRUE] ELSE s

OnSetGroup(s, n, p) ==
  Send([s EXCEPT !.groupId = p.group, !.master = p.from, !.contacted = TRUE],
       Msg("ACK", n, p.from, 0))

OnDevices(s, n, p) ==
  IF p.group \in {s.groupId, AnyGroup} THEN Send(s, IdentifyReply(s, n, p.from)) ELSE s

\* A packet of a master.  SYNC, scene and all other packets only count as a
\* sign of life here.
OnMaster(s, n, p) ==
  LET t == NoteMaster(s, p)
  IN CASE ~SenderAllowed(s, p)   -> s
       [] SenderAllowed(s, p) /\ p.type = "SET_GROUP" -> OnSetGroup(t, n, p)
       [] SenderAllowed(s, p) /\ p.type = "DEVICES"   -> OnDevices(t, n, p)
       [] SenderAllowed(s, p) /\ p.type \in {"SYNC", "HEADLESS"} -> t

HandlePacket(s, n, p) ==
  CASE p.type = "IDENTIFY"    -> OnIdentify(s, n, p)
    [] p.type = "ACK"         -> s
    [] p.type \in FromMaster -> OnMaster(StepsDown(s), n, p)

-----------------------------------------------------------------------------
(* loop() and the button.                                                  *)

Step(n, s) ==
  /\ node' = [node EXCEPT ![n] = s]
  /\ UNCHANGED left

\* Mutant: an adopted node leaves the start-up sequence unfinished.
StartupSettledNotAdopted(s) == s.stage = 1 /\ s.btnUsed

\* The start-up replies end when a master adopts the node or, after the
\* first, when its button has been used.
StartupSettled(s) == s.groupId # 0 \/ (s.stage = 1 /\ s.btnUsed)

\* serviceStartupIdentifyReplies
StartupIdentify(n) ==
  LET s == node[n]
  IN /\ s.stage < 2
     /\ IF StartupSettled(s) THEN Step(n, [s EXCEPT !.stage = 2])
        ELSE /\ s.groupId = 0 /\ SlotFree(s)
             /\ Step(n, [Send(s, IdentifyReply(s, n, All)) EXCEPT !.stage = @ + 1])

\* Mutant: the deferred resume does not look whether a master came first.
AlwaysUnclaimed(s) == TRUE
Unclaimed(s) == s.groupId = 0

\* The deferred resume, once the start-up replies are done.
Resume(n) ==
  LET s == [node[n] EXCEPT !.resume = FALSE]
  IN /\ node[n].resume /\ s.stage = 2
     /\ Step(n, IF Unclaimed(s) THEN TryStart(s, n) ELSE s)

\* serviceHeadless
Keepalive(n) == node[n].active /\ SlotFree(node[n]) /\ Step(n, BroadcastSync(node[n], n))

Persist(n) ==
  /\ node[n].dirty
  /\ Step(n, [node[n] EXCEPT !.dirty = FALSE, !.configNeedsWrite = TRUE])

\* serviceHeadlessReassign: one slave after the other; the last one is
\* followed by a scene rebroadcast.
Reassign(n) ==
  LET s == node[n]
      row == s.table[s.cursor]
  IN /\ s.cursor # Idle
     /\ IF s.cursor > Len(s.table)
        THEN Step(n, [s EXCEPT !.cursor = Idle, !.rebroadcast = @ \/ s.scene])
        ELSE IF ~s.active THEN Step(n, [s EXCEPT !.cursor = Idle])
        ELSE /\ SlotFree(s)
             /\ Step(n, [Send(s, Msg("SET_GROUP", n, row.node, row.group)) EXCEPT !.cursor = @ + 1])

\* serviceSceneRebroadcast
Rebroadcast(n) ==
  LET s == [node[n] EXCEPT !.rebroadcast = FALSE]
  IN /\ node[n].rebroadcast
     /\ Step(n, IF s.active THEN BroadcastScene(s, n) ELSE s)

Press(n, s) ==
  /\ left.presses > 0
  /\ left' = [left EXCEPT !.presses = @ - 1]
  /\ node' = [node EXCEPT ![n] = [s EXCEPT !.btnUsed = TRUE]]

\* Five clicks, one click of a master (headlessAdvanceScene), other clicks.
FiveClicks(n) == Press(n, TryStart(node[n], n))
OneClick(n) ==
  /\ node[n].active
  /\ Press(n, BroadcastScene([node[n] EXCEPT !.scene = TRUE, !.configNeedsWrite = TRUE], n))
OtherClicks(n) == ~node[n].btnUsed /\ Press(n, node[n])

\* RACELINK_MASTER_QUIET_MS without a packet of the master.
MasterQuiet(n) == node[n].contacted /\ Step(n, [node[n] EXCEPT !.contacted = FALSE])

-----------------------------------------------------------------------------
(* Outside the usermod: WLED's writing of cfg.json, power, the air.        *)

ConfigOf(s) == [headless |-> s.headless, counter |-> s.counter, scene |-> s.scene, table |-> s.table]

WriteConfig(n) ==
  /\ node[n].configNeedsWrite
  /\ Step(n, [node[n] EXCEPT !.configNeedsWrite = FALSE, !.disk = ConfigOf(node[n])])

PowerCycle(n) ==
  /\ left.cycles > 0
  /\ left' = [left EXCEPT !.cycles = @ - 1]
  /\ node' = [node EXCEPT ![n] = Booted(@.disk)]

\* The nodes of R that p addresses handle it, each in a loop() of its own.
Delivered(p, R) ==
  [r \in Node |-> IF r \in R /\ r # p.from /\ p.to \in {r, All}
                  THEN HandlePacket(node[r], r, p)
                  ELSE node[r]]

\* The slot is empty once its packet is sent, or given up (R empty).
Transmit(n, R) ==
  /\ ~SlotFree(node[n])
  /\ node' = [Delivered(node[n].slot, R) EXCEPT ![n].slot = None]
  /\ UNCHANGED left

GatewaySends(p, R) ==
  /\ left.gateway > 0
  /\ left' = [left EXCEPT !.gateway = @ - 1]
  /\ node' = Delivered(p, R)

GatewayPacket ==
  {Msg("SET_GROUP", Gateway, x, g) : x \in Node, g \in GatewayGroups}
    \cup {Msg("DEVICES", Gateway, All, g) : g \in {0, AnyGroup}}
    \cup {Msg("SYNC", Gateway, All, 0)}

-----------------------------------------------------------------------------
Loop(n) == StartupIdentify(n) \/ Resume(n) \/ Keepalive(n) \/ Persist(n) \/ Reassign(n) \/ Rebroadcast(n)

Operator(n) == FiveClicks(n) \/ OneClick(n) \/ OtherClicks(n)

Next ==
  \/ \E n \in Node : Loop(n) \/ Operator(n)
  \/ \E n \in Node : MasterQuiet(n) \/ WriteConfig(n) \/ PowerCycle(n)
  \/ \E n \in Node, R \in SUBSET Node : Transmit(n, R)
  \/ \E p \in GatewayPacket, R \in SUBSET Node : GatewaySends(p, R)

Spec == Init /\ [][Next]_vars

\* What a master sends is heard by everybody now and then.
MasterHeard(n) == ~SlotFree(node[n]) /\ node[n].slot.type \in FromMaster /\ Transmit(n, Node)

\* loop() keeps running; RadioService shows that the slot is freed again and
\* again, and the services that need it retry, so that they find it free.
Fairness ==
  \A n \in Node :
    /\ WF_vars(\E R \in SUBSET Node : Transmit(n, R))
    /\ WF_vars(Resume(n)) /\ SF_vars(StartupIdentify(n))
    /\ SF_vars(Keepalive(n)) /\ SF_vars(MasterHeard(n))

FairSpec == Spec /\ Fairness
-----------------------------------------------------------------------------
(* Properties.                                                             *)

NodeState ==
  [active : BOOLEAN, groupId : Group, master : Node \cup {Gateway, None},
   contacted : BOOLEAN, stage : 0 .. 2, btnUsed : BOOLEAN, resume : BOOLEAN,
   headless : BOOLEAN, counter : 0 .. MaxGroup + 1, scene : BOOLEAN,
   table : Table, dirty : BOOLEAN, configNeedsWrite : BOOLEAN,
   disk : Config, cursor : 0 .. MaxSlaves + 1, rebroadcast : BOOLEAN,
   slot : Packet \cup {None}]

\* Every variable has its type; no slave is ever registered without a group.
TypeOK ==
  /\ node \in [Node -> NodeState]
  /\ left \in [presses : Nat, cycles : Nat, gateway : Nat]

\* A headless master is in group 1 and has no master, so that the button of
\* a master is never locked; whoever else has a group has a master for it.
\* This survives every order of promotions, take-overs and resumes.
RoleIsCoherent ==
  \A n \in Node : LET s == node[n] IN
    /\ s.active => s.groupId = MasterGroup /\ s.master = None /\ ~s.contacted /\ s.headless
    /\ ~s.active /\ s.groupId # 0 => s.master # None
    /\ s.contacted => s.master # None

\* "Off means off": a node whose headless flag is off is no master and sweeps
\* no registry, and where the flag is off, in RAM or in cfg.json, no slave and
\* no counter is kept that a power cycle or the next promotion would revive.
OffMeansOff ==
  \A n \in Node :
    /\ ~node[n].headless => ~node[n].active /\ node[n].cursor = Idle
    /\ \A c \in {ConfigOf(node[n]), node[n].disk} :
         ~c.headless => c.table = <<>> /\ c.counter = 0

\* The sweep over the registry runs only at a headless master, and never
\* beyond the row after the last one.
SweepOnlyAsMaster ==
  \A n \in Node :
    node[n].cursor # Idle => node[n].active /\ node[n].cursor <= Len(node[n].table) + 1

SameContext(c, d) ==
  /\ c.headless = d.headless /\ c.scene = d.scene /\ c.table = d.table
  /\ NextId(c) = NextId(d)

\* When nothing is marked for writing, a power cycle loses nothing: cfg.json
\* has the registry, the role and the next group id of the node.
CleanMeansSaved ==
  \A n \in Node :
    ~node[n].dirty /\ ~node[n].configNeedsWrite => SameContext(ConfigOf(node[n]), node[n].disk)

\* A node that resumes its role by itself, not by its button, has not been
\* given a group since it booted and has heard no master of its own.
ResumeOnlyUnclaimed ==
  [][\A n \in Node :
       ~node[n].active /\ node'[n].active /\ left' = left
         => node[n].resume /\ node[n].groupId = 0 /\ ~node[n].contacted]_vars

Rivals == \E n, m \in Node : n # m /\ node[n].active /\ node[m].active

\* Two headless masters in range of each other do not last.
NoLastingRivals == Rivals ~> ~Rivals

\* A deferred resume is decided in the end, whether or not a master adopts
\* the node, its button is used, or its radio is busy.
ResumeDecided == \A n \in Node : node[n].resume ~> ~node[n].resume

\* What a comment says of reserveNextGroupId: the id it gives to a new slave
\* is free, no other slave of this master has it.
ReservedIdIsFree ==
  [][\A n \in Node :
       node'[n].counter > node[n].counter =>
         \A i \in DOMAIN node[n].table : node[n].table[i].group # node'[n].counter - 1]_vars
=============================================================================
