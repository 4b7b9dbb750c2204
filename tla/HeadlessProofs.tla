---------------------------- MODULE HeadlessProofs ----------------------------
(***************************************************************************)
(* HeadlessNet for any nodes, any size of the slave table, any last group  *)
(* and any number of presses, power cycles and gateway packets.            *)
(*                                                                         *)
(* The invariant speaks of one record at a time; each operator of the      *)
(* model that changes a record has a lemma that it keeps it.               *)
(***************************************************************************)
EXTENDS HeadlessNet, TLAPS

\* Nodes alone send IDENTIFY, and a real group travels with it and with
\* SET_GROUP.
PacketOK(p) ==
  /\ p \in Packet
  /\ p.type = "IDENTIFY" => p.from \in Node
  /\ p.type \in {"IDENTIFY", "SET_GROUP"} => p.group \in Group

SlotOK(s) == s.slot # None => PacketOK(s.slot)

RoleOK(s) ==
  /\ s.active => s.groupId = MasterGroup /\ s.master = None /\ ~s.contacted /\ s.headless
  /\ ~s.active /\ s.groupId # 0 => s.master # None
  /\ s.contacted => s.master # None

OffOK(c) == ~c.headless => c.table = <<>> /\ c.counter = 0

SweepOK(s) == s.cursor # Idle => s.active /\ s.cursor <= Len(s.table) + 1

SavedOK(s) == ~s.dirty /\ ~s.configNeedsWrite => SameContext(s, s.disk)

\* All but what only holds when the registry is marked for writing.
Fit(s) ==
  s \in NodeState /\ SlotOK(s) /\ RoleOK(s) /\ OffOK(s) /\ OffOK(s.disk) /\ SweepOK(s)

Good(s) == Fit(s) /\ SavedOK(s)

HeadlessInv ==
  /\ node \in [Node -> NodeState] /\ left \in [presses : Nat, cycles : Nat, gateway : Nat]
  /\ \A n \in Node : Good(node[n])

-----------------------------------------------------------------------------
LEMMA ConstantTypes ==
  /\ Gateway \notin Node /\ None \notin Node /\ None # Gateway
  /\ MaxGroup \in Nat /\ MaxGroup >= 2 /\ MaxSlaves \in Nat /\ MaxSlaves >= 1
  /\ MasterGroup \in Group /\ 0 \in Group
  /\ GatewayGroups \subseteq Group
  BY HeadlessAssumption DEF MasterGroup, Group

LEMMA EmptyTable == <<>> \in Table /\ Len(<<>>) = 0
  BY ConstantTypes DEF Table

LEMMA MsgOK ==
  ASSUME NEW t \in {"DEVICES", "SET_GROUP", "SYNC", "HEADLESS", "IDENTIFY", "ACK"},
         NEW n \in Node, NEW to \in Node \cup {Gateway, All}, NEW g \in Group
  PROVE  PacketOK(Msg(t, n, to, g))
  BY DEF Msg, PacketOK, Packet

(* A send changes the slot and nothing else.                               *)
LEMMA SendOK ==
  ASSUME NEW s, s \in NodeState, SlotOK(s), NEW p, PacketOK(p)
  PROVE  /\ Send(s, p) \in NodeState /\ SlotOK(Send(s, p))
         /\ Send(s, p) = [s EXCEPT !.slot = Send(s, p).slot]
<1>1. CASE s.slot = None
  <2>1. Send(s, p) = [s EXCEPT !.slot = p] BY <1>1 DEF Send
  <2>2. p \in Packet BY DEF PacketOK
  <2>3. [s EXCEPT !.slot = p] \in NodeState BY <2>2 DEF NodeState
  <2>4. [s EXCEPT !.slot = p].slot = p BY DEF NodeState
  <2> QED BY <2>1, <2>3, <2>4 DEF SlotOK
<1>2. CASE s.slot # None
  <2>1. Send(s, p) = s BY <1>2 DEF Send
  <2>2. s = [s EXCEPT !.slot = s.slot] BY DEF NodeState
  <2> QED BY <2>1, <2>2
<1> QED BY <1>1, <1>2

LEMMA SendFit ==
  ASSUME NEW s, Fit(s), NEW p, PacketOK(p)
  PROVE  /\ Fit(Send(s, p))
         /\ SavedOK(s) => SavedOK(Send(s, p))
         /\ Send(s, p) = [s EXCEPT !.slot = Send(s, p).slot]
<1> DEFINE t == Send(s, p)
<1>1. t \in NodeState /\ SlotOK(t) /\ t = [s EXCEPT !.slot = t.slot] BY SendOK DEF Fit
<1> HIDE DEF t
<1>2. /\ t.active = s.active /\ t.groupId = s.groupId /\ t.master = s.master
      /\ t.contacted = s.contacted /\ t.headless = s.headless /\ t.counter = s.counter
      /\ t.scene = s.scene /\ t.table = s.table /\ t.dirty = s.dirty
      /\ t.configNeedsWrite = s.configNeedsWrite /\ t.disk = s.disk /\ t.cursor = s.cursor
  BY <1>1 DEF Fit, NodeState
<1>3. RoleOK(t) /\ OffOK(t) /\ OffOK(t.disk) /\ SweepOK(t)
  BY <1>2 DEF Fit, RoleOK, OffOK, SweepOK
<1>4. SavedOK(s) => SavedOK(t) BY <1>2 DEF SavedOK, SameContext, NextId
<1>5. Fit(t) BY <1>1, <1>3 DEF Fit
<1> QED BY <1>1, <1>4, <1>5 DEF t

-----------------------------------------------------------------------------
(* The registry of a master: a row is written, a group is reserved.        *)

LEMMA RowIsThere ==
  ASSUME NEW s, NEW x, Known(s, x)
  PROVE  RowOf(s, x) \in DOMAIN s.table /\ s.table[RowOf(s, x)].node = x
  BY DEF Known, RowOf

(* The table after Upsert, which only grows. *)
LEMMA UpsertTable ==
  ASSUME NEW s \in NodeState, NEW x \in Node, NEW g \in 1 .. MaxGroup, CanUpsert(s, x)
  PROVE  \E t \in Table : Len(t) >= Len(s.table) /\ Upsert(s, x, g) = [s EXCEPT !.table = t]
<1>0. s.table \in Seq(Row) /\ Len(s.table) <= MaxSlaves BY DEF NodeState, Table
<1>1. CASE Known(s, x)
  <2> DEFINE i == RowOf(s, x)
             t == [s.table EXCEPT ![i].group = g]
  <2>1. i \in DOMAIN s.table BY <1>1, RowIsThere
  <2>2. i \in 1 .. Len(s.table) /\ s.table[i] \in Row BY <1>0, <2>1
  <2>3. [s.table[i] EXCEPT !.group = g] \in Row BY <2>2 DEF Row
  <2>4. t = [s.table EXCEPT ![i] = [s.table[i] EXCEPT !.group = g]] BY <2>2
  <2>5. t \in Seq(Row) /\ Len(t) = Len(s.table) BY <1>0, <2>2, <2>3, <2>4
  <2>6. Upsert(s, x, g) = [s EXCEPT !.table = t] BY <1>1 DEF Upsert
  <2>7. t \in Table BY <1>0, <2>5 DEF Table
  <2>8. Len(t) >= Len(s.table) BY <1>0, <2>5
  <2> HIDE DEF t
  <2> QED BY <2>6, <2>7, <2>8
<1>2. CASE ~Known(s, x)
  <2> DEFINE t == Append(s.table, [node |-> x, group |-> g])
  <2>1. [node |-> x, group |-> g] \in Row BY DEF Row
  <2>2. t \in Seq(Row) /\ Len(t) = Len(s.table) + 1 BY <1>0, <2>1
  <2>3. Len(s.table) < MaxSlaves BY <1>2 DEF CanUpsert
  <2>4. t \in Table /\ Len(t) >= Len(s.table) BY <1>0, <2>2, <2>3, ConstantTypes DEF Table
  <2>5. Upsert(s, x, g) = [s EXCEPT !.table = t] BY <1>2 DEF Upsert
  <2> HIDE DEF t
  <2> QED BY <2>4, <2>5
<1> QED BY <1>1, <1>2

(* A master may write a longer table and move its counter.                 *)
LEMMA RegistryFit ==
  ASSUME NEW s, Fit(s), s.active, NEW t \in Table, Len(t) >= Len(s.table),
         NEW c \in 0 .. MaxGroup + 1
  PROVE  Fit([s EXCEPT !.table = t]) /\ Fit([s EXCEPT !.counter = c])
<1>0. s \in NodeState /\ s.headless /\ Len(s.table) \in Nat /\ Len(t) \in Nat
      /\ s.cursor \in Nat
  BY ConstantTypes DEF Fit, RoleOK, NodeState, Table
<1>1. [s EXCEPT !.table = t] \in NodeState /\ [s EXCEPT !.counter = c] \in NodeState
  BY <1>0 DEF NodeState
<1>2. ASSUME NEW u, u = [s EXCEPT !.table = t] \/ u = [s EXCEPT !.counter = c]
      PROVE  Fit(u)
  <2>1. /\ u.active = s.active /\ u.groupId = s.groupId /\ u.master = s.master
        /\ u.contacted = s.contacted /\ u.headless = s.headless /\ u.slot = s.slot
        /\ u.disk = s.disk /\ u.cursor = s.cursor
    BY <1>0, <1>2 DEF NodeState
  <2>2. Len(u.table) >= Len(s.table) /\ Len(u.table) \in Nat
    <3>1. u.table = t \/ u.table = s.table BY <1>0, <1>2 DEF NodeState
    <3> QED BY <3>1, <1>0
  <2>3. u \in NodeState BY <1>1, <1>2
  <2>4. SlotOK(u) /\ RoleOK(u) /\ OffOK(u.disk) BY <2>1 DEF Fit, SlotOK, RoleOK
  <2>5. OffOK(u) BY <2>1, <1>0 DEF OffOK
  <2>6. SweepOK(u) BY <1>0, <2>1, <2>2 DEF Fit, SweepOK
  <2> QED BY <2>3, <2>4, <2>5, <2>6 DEF Fit
<1> QED BY <1>2

(* Bind sends the group, and marks the registry.                           *)
LEMMA BindGood ==
  ASSUME NEW s, Fit(s), NEW n \in Node, NEW x \in Node, NEW g \in Group
  PROVE  Good(Bind(s, n, x, g))
<1> DEFINE p == Msg("SET_GROUP", n, x, g)
           t == Send(s, p)
           b == [t EXCEPT !.dirty = TRUE, !.rebroadcast = @ \/ s.scene]
<1>1. Fit(t)
  <2>1. PacketOK(p) BY MsgOK
  <2> QED BY <2>1, SendFit
<1>2. Bind(s, n, x, g) = b BY DEF Bind
<1>3. s.scene \in BOOLEAN BY DEF Fit, NodeState
<1> HIDE DEF p, t
<1>4. b \in NodeState BY ZenonT(40), <1>1, <1>3 DEF Fit, NodeState
<1>5. /\ b.active = t.active /\ b.groupId = t.groupId /\ b.master = t.master
      /\ b.contacted = t.contacted /\ b.headless = t.headless /\ b.slot = t.slot
      /\ b.disk = t.disk /\ b.cursor = t.cursor /\ b.table = t.table /\ b.counter = t.counter
      /\ b.dirty
  BY <1>1 DEF Fit, NodeState
<1> HIDE DEF b
<1>6. Fit(b) BY <1>1, <1>4, <1>5 DEF Fit, SlotOK, RoleOK, OffOK, SweepOK
<1> QED BY <1>2, <1>5, <1>6 DEF Good, SavedOK

(* A slave that reports itself to a master.                                *)
LEMMA AssignGood ==
  ASSUME NEW s, Good(s), s.active, NEW n \in Node, NEW x \in Node, NEW g \in Group
  PROVE  Good(AssignGroupTo(s, n, x, g))
<1>0. Fit(s) /\ s \in NodeState BY DEF Good, Fit
<1>1. ASSUME NEW r, Fit(r), r.active, NEW h \in 1 .. MaxGroup, CanUpsert(r, x)
      PROVE  Fit(Upsert(r, x, h)) /\ Upsert(r, x, h) = [r EXCEPT !.table = Upsert(r, x, h).table]
  <2>1. r \in NodeState BY <1>1 DEF Fit
  <2>2. PICK t \in Table : Len(t) >= Len(r.table) /\ Upsert(r, x, h) = [r EXCEPT !.table = t]
    BY <1>1, <2>1, UpsertTable
  <2>3. Fit([r EXCEPT !.table = t])
    <3>1. 0 \in 0 .. MaxGroup + 1 BY ConstantTypes
    <3> QED BY <1>1, <2>2, <3>1, RegistryFit
  <2>4. [r EXCEPT !.table = t].table = t BY <2>1 DEF NodeState
  <2> QED BY <2>2, <2>3, <2>4
<1>2. CASE g # 0 /\ CanUpsert(s, x)
  <2> DEFINE u == Upsert(s, x, g)
             d == [u EXCEPT !.dirty = TRUE]
  <2>1. g \in 1 .. MaxGroup BY <1>2, ConstantTypes DEF Group
  <2>2. Fit(u) BY <1>0, <1>1, <1>2, <2>1
  <2> HIDE DEF u
  <2>3. d \in NodeState BY <2>2 DEF Fit, NodeState
  <2>4. /\ d.active = u.active /\ d.groupId = u.groupId /\ d.master = u.master
        /\ d.contacted = u.contacted /\ d.headless = u.headless /\ d.slot = u.slot
        /\ d.disk = u.disk /\ d.cursor = u.cursor /\ d.table = u.table /\ d.counter = u.counter
        /\ d.dirty
    BY <2>2 DEF Fit, NodeState
  <2>5. AssignGroupTo(s, n, x, g) = d BY <1>2 DEF AssignGroupTo, u
  <2> HIDE DEF d
  <2>6. Fit(d) BY <2>2, <2>3, <2>4 DEF Fit, SlotOK, RoleOK, OffOK, SweepOK
  <2> QED BY <2>4, <2>5, <2>6 DEF Good, SavedOK
<1>3. CASE g # 0 /\ ~CanUpsert(s, x) BY <1>3 DEF AssignGroupTo
<1>4. CASE g = 0 /\ Known(s, x)
  <2>1. s.table \in Seq(Row) BY <1>0 DEF NodeState, Table
  <2>2. s.table[RowOf(s, x)] \in Row BY <1>4, <2>1, RowIsThere
  <2>3. s.table[RowOf(s, x)].group \in Group BY <2>2, ConstantTypes DEF Row, Group
  <2>4. AssignGroupTo(s, n, x, g) = Bind(s, n, x, s.table[RowOf(s, x)].group)
    BY <1>4 DEF AssignGroupTo
  <2> QED BY <1>0, <2>3, <2>4, BindGood
<1>5. CASE g = 0 /\ ~Known(s, x) /\ NextId(s) > MaxGroup BY <1>5 DEF AssignGroupTo
<1>6. CASE g = 0 /\ ~Known(s, x) /\ ~(NextId(s) > MaxGroup)
  <2>0. NextId(s) \in 2 .. MaxGroup
    BY <1>0, <1>6, ConstantTypes DEF NextId, FirstGroup, NodeState
  <2>1. CASE CanUpsert(s, x)
    <3> DEFINE r == [s EXCEPT !.counter = NextId(s) + 1]
               u == Upsert(r, x, NextId(s))
    <3>1. NextId(s) + 1 \in 0 .. MaxGroup + 1 /\ NextId(s) \in 1 .. MaxGroup /\ NextId(s) \in Group
      BY <2>0, ConstantTypes DEF Group
    <3>2. s.table \in Table /\ Len(s.table) >= Len(s.table) BY <1>0, ConstantTypes DEF NodeState, Table
    <3>3. Fit(r) BY <1>0, <3>1, <3>2, RegistryFit
    <3>4. r.active /\ r.table = s.table BY <1>0 DEF NodeState
    <3>5. CanUpsert(r, x) BY <2>1, <3>4 DEF CanUpsert, Known
    <3>6. AssignGroupTo(s, n, x, g) = Bind(u, n, x, NextId(s)) BY <1>6, <2>1 DEF AssignGroupTo
    <3> HIDE DEF r
    <3>7. Fit(u) BY <1>1, <3>1, <3>3, <3>4, <3>5
    <3> HIDE DEF u
    <3> QED BY <3>1, <3>6, <3>7, BindGood
  <2>2. CASE ~CanUpsert(s, x)
    <3> DEFINE r == [s EXCEPT !.counter = NextId(s)]
    <3>1. NextId(s) \in 0 .. MaxGroup + 1 BY <2>0, ConstantTypes
    <3>2. s.table \in Table /\ Len(s.table) >= Len(s.table) BY <1>0, ConstantTypes DEF NodeState, Table
    <3>3. Fit(r) BY <1>0, <3>1, <3>2, RegistryFit
    <3>4. /\ r.headless = s.headless /\ r.scene = s.scene /\ r.table = s.table
          /\ r.dirty = s.dirty /\ r.configNeedsWrite = s.configNeedsWrite /\ r.disk = s.disk
          /\ r.counter = NextId(s)
      BY <1>0 DEF NodeState
    <3>5. NextId(r) = NextId(s) BY <2>0, <3>4 DEF NextId, FirstGroup
    <3>6. AssignGroupTo(s, n, x, g) = r BY <1>6, <2>2 DEF AssignGroupTo
    <3> HIDE DEF r
    <3>7. SavedOK(r) BY <3>4, <3>5 DEF Good, SavedOK, SameContext
    <3> QED BY <3>3, <3>6, <3>7 DEF Good
  <2> QED BY <2>1, <2>2
<1> QED BY <1>2, <1>3, <1>4, <1>5, <1>6

-----------------------------------------------------------------------------
(* Becoming and ceasing to be master.                                      *)

LEMMA BroadcastGood ==
  ASSUME NEW s, Fit(s), NEW n \in Node
  PROVE  /\ Fit(BroadcastScene(s, n)) /\ Fit(BroadcastSync(s, n))
         /\ SavedOK(s) => SavedOK(BroadcastScene(s, n)) /\ SavedOK(BroadcastSync(s, n))
<1> DEFINE p == Msg("HEADLESS", n, All, 0)
           q == Msg("SYNC", n, All, 0)
<1>1. PacketOK(p) /\ PacketOK(q) BY MsgOK, ConstantTypes
<1>2. BroadcastScene(s, n) = IF s.scene THEN Send(s, p) ELSE s BY DEF BroadcastScene
<1>3. BroadcastSync(s, n) = Send(s, q) BY DEF BroadcastSync
<1> HIDE DEF p, q
<1>4. /\ Fit(Send(s, p)) /\ Fit(Send(s, q))
      /\ SavedOK(s) => SavedOK(Send(s, p)) /\ SavedOK(Send(s, q))
  BY <1>1, SendFit
<1> QED BY <1>2, <1>3, <1>4

LEMMA EnterGood ==
  ASSUME NEW s, Good(s), ~s.active, NEW n \in Node
  PROVE  Good(Enter(s, n))
<1> DEFINE e == [s EXCEPT !.active = TRUE, !.groupId = MasterGroup,
                   !.headless = TRUE, !.configNeedsWrite = @ \/ ~s.headless,
                   !.master = None, !.contacted = FALSE,
                   !.cursor = IF s.table = <<>> THEN Idle ELSE 1]
<1>0. s \in NodeState /\ Len(s.table) \in Nat BY DEF Good, Fit, NodeState, Table
<1>1. e \in NodeState
  <2>1. /\ (IF s.table = <<>> THEN Idle ELSE 1) \in 0 .. MaxSlaves + 1
        /\ (s.configNeedsWrite \/ ~s.headless) \in BOOLEAN
        /\ None \in Node \cup {Gateway, None}
    BY ConstantTypes DEF Idle
  <2> DEFINE w == s.configNeedsWrite \/ ~s.headless
             u == [s EXCEPT !.active = TRUE, !.groupId = MasterGroup, !.headless = TRUE,
                            !.configNeedsWrite = w]
  <2>2. w \in BOOLEAN BY <2>1
  <2>3. e = [u EXCEPT !.master = None, !.contacted = FALSE,
                      !.cursor = IF s.table = <<>> THEN Idle ELSE 1]
    BY <1>0 DEF NodeState
  <2> HIDE DEF w
  <2>4. u \in NodeState BY <1>0, <2>2, ConstantTypes DEF NodeState
  <2> HIDE DEF u, e
  <2> QED BY <2>1, <2>3, <2>4 DEF NodeState
<1>2. /\ e.active /\ e.groupId = MasterGroup /\ e.headless /\ e.master = None /\ ~e.contacted
      /\ e.table = s.table /\ e.disk = s.disk /\ e.slot = s.slot /\ e.dirty = s.dirty
      /\ e.scene = s.scene /\ e.counter = s.counter
      /\ e.configNeedsWrite = (s.configNeedsWrite \/ ~s.headless)
      /\ e.cursor \in {Idle, 1}
  BY <1>0 DEF NodeState
<1>3. Enter(s, n) = IF e.scene THEN BroadcastScene(e, n) ELSE BroadcastSync(e, n) BY DEF Enter
<1> HIDE DEF e
<1>4. Fit(e)
  <2>1. SlotOK(e) /\ OffOK(e.disk) BY <1>2 DEF Good, Fit, SlotOK
  <2>2. RoleOK(e) /\ OffOK(e) BY <1>2 DEF RoleOK, OffOK
  <2>3. SweepOK(e) BY <1>0, <1>2 DEF SweepOK, Idle
  <2> QED BY <1>1, <2>1, <2>2, <2>3 DEF Fit
<1>5. SavedOK(e)
  <2>1. SUFFICES ASSUME ~e.dirty, ~e.configNeedsWrite PROVE SameContext(e, e.disk)
    BY DEF SavedOK
  <2>2. s.headless /\ ~s.dirty /\ ~s.configNeedsWrite BY <2>1, <1>2
  <2>3. SameContext(s, s.disk) BY <2>2 DEF Good, SavedOK
  <2>4. s.headless \in BOOLEAN /\ e.headless \in BOOLEAN BY <1>0, <1>1 DEF NodeState
  <2>5. e.headless = s.headless BY <2>2, <2>4, <1>2
  <2> QED BY <1>2, <2>3, <2>5 DEF SameContext, NextId
<1> QED BY <1>3, <1>4, <1>5, BroadcastGood DEF Good

LEMMA ExitGood ==
  ASSUME NEW s, Good(s), s.active
  PROVE  Good(Exit(s)) /\ ~Exit(s).active
<1> DEFINE e == Exit(s)
<1>0. s \in NodeState BY DEF Good, Fit
<1>1. e \in NodeState
  <2>1. Idle \in 0 .. MaxSlaves + 1 /\ 0 \in 0 .. MaxGroup + 1 BY ConstantTypes DEF Idle
  <2> DEFINE u == [s EXCEPT !.active = FALSE, !.groupId = 0, !.dirty = FALSE,
                            !.headless = FALSE, !.configNeedsWrite = TRUE]
  <2>2. u \in NodeState BY <1>0, ConstantTypes DEF NodeState
  <2>3. e = [u EXCEPT !.cursor = Idle, !.counter = 0, !.table = <<>>]
    BY <1>0 DEF Exit, NodeState
  <2> HIDE DEF u, e
  <2> QED BY <2>1, <2>2, <2>3, EmptyTable DEF NodeState
<1>2. /\ ~e.active /\ e.groupId = 0 /\ e.master = s.master /\ e.contacted = s.contacted
      /\ e.table = <<>> /\ e.counter = 0 /\ e.cursor = Idle /\ e.slot = s.slot
      /\ e.disk = s.disk /\ e.configNeedsWrite
  BY <1>0 DEF Exit, NodeState
<1> HIDE DEF e
<1>3. SlotOK(e) /\ RoleOK(e) /\ OffOK(e) /\ OffOK(e.disk) /\ SweepOK(e)
  BY <1>2 DEF Good, Fit, SlotOK, RoleOK, OffOK, SweepOK
<1>4. SavedOK(e) BY <1>2 DEF SavedOK
<1> QED BY <1>1, <1>2, <1>3, <1>4 DEF Good, Fit, e

LEMMA TryStartGood ==
  ASSUME NEW s, Good(s), NEW n \in Node
  PROVE  Good(TryStart(s, n))
<1> DEFINE p == IdentifyReply(s, n, All)
           t == Send(s, p)
<1>1. PacketOK(p) BY MsgOK DEF Good, Fit, NodeState, IdentifyReply
<1> HIDE DEF p
<1>2. Fit(t) /\ SavedOK(t) /\ t = [s EXCEPT !.slot = t.slot] BY <1>1, SendFit DEF Good
<1> HIDE DEF t
<1>3. t.active = s.active BY <1>2 DEF Good, Fit, NodeState
<1>4. CASE ~s.active /\ ~s.contacted
  <2>1. TryStart(s, n) = Enter(t, n) BY <1>4 DEF TryStart, t, p
  <2>2. Good(t) /\ ~t.active BY <1>2, <1>3, <1>4 DEF Good
  <2> QED BY <2>1, <2>2, EnterGood
<1>5. CASE s.active BY <1>5, ExitGood DEF TryStart
<1>6. CASE ~s.active /\ s.contacted BY <1>6 DEF TryStart
<1> QED BY <1>4, <1>5, <1>6

-----------------------------------------------------------------------------
(* handlePacket.                                                           *)

(* Updates of the fields that only RoleOK and the button read.             *)
LEMMA OnSetGroupGood ==
  ASSUME NEW s, Good(s), ~s.active, NEW n \in Node, NEW p, PacketOK(p), p.type = "SET_GROUP"
  PROVE  Good(OnSetGroup(s, n, p))
<1> DEFINE e == [s EXCEPT !.groupId = p.group, !.master = p.from, !.contacted = TRUE]
           q == Msg("ACK", n, p.from, 0)
<1>0. s \in NodeState /\ p.group \in Group /\ p.from \in Node \cup {Gateway}
  BY DEF Good, Fit, PacketOK, Packet
<1>1. e \in NodeState BY <1>0 DEF NodeState
<1>2. /\ e.groupId = p.group /\ e.master = p.from /\ e.contacted /\ e.active = s.active
      /\ e.headless = s.headless /\ e.table = s.table /\ e.counter = s.counter
      /\ e.cursor = s.cursor /\ e.slot = s.slot /\ e.disk = s.disk /\ e.dirty = s.dirty
      /\ e.configNeedsWrite = s.configNeedsWrite /\ e.scene = s.scene
  BY <1>0 DEF NodeState
<1>3. p.from # None BY <1>0, ConstantTypes
<1>4. PacketOK(q) BY <1>0, MsgOK, ConstantTypes
<1>5. OnSetGroup(s, n, p) = Send(e, q) BY DEF OnSetGroup
<1> HIDE DEF e, q
<1>6. RoleOK(e) BY <1>2, <1>3 DEF RoleOK
<1>7. SlotOK(e) /\ OffOK(e) /\ OffOK(e.disk) /\ SweepOK(e)
  BY <1>2 DEF Good, Fit, SlotOK, OffOK, SweepOK
<1>8. SavedOK(e) BY <1>2 DEF Good, SavedOK, SameContext, NextId
<1> QED BY <1>1, <1>4, <1>5, <1>6, <1>7, <1>8, SendFit DEF Good, Fit

LEMMA NoteMasterGood ==
  ASSUME NEW s, Good(s), ~s.active, NEW p, PacketOK(p)
  PROVE  Good(NoteMaster(s, p)) /\ ~NoteMaster(s, p).active
<1> DEFINE e == [s EXCEPT !.contacted = TRUE]
<1>0. s \in NodeState BY DEF Good, Fit
<1>1. CASE s.master = p.from
  <2>1. e \in NodeState BY <1>0 DEF NodeState
  <2>2. /\ e.contacted /\ e.active = s.active /\ e.groupId = s.groupId /\ e.master = p.from
        /\ e.headless = s.headless /\ e.table = s.table /\ e.counter = s.counter
        /\ e.cursor = s.cursor /\ e.slot = s.slot /\ e.disk = s.disk /\ e.dirty = s.dirty
        /\ e.configNeedsWrite = s.configNeedsWrite /\ e.scene = s.scene
    BY <1>0, <1>1 DEF NodeState
  <2>3. p.from # None BY ConstantTypes DEF PacketOK, Packet
  <2>4. NoteMaster(s, p) = e BY <1>1 DEF NoteMaster
  <2> HIDE DEF e
  <2>5. RoleOK(e) BY <2>2, <2>3 DEF RoleOK
  <2>6. SlotOK(e) /\ OffOK(e) /\ OffOK(e.disk) /\ SweepOK(e)
    BY <2>2 DEF Good, Fit, SlotOK, OffOK, SweepOK
  <2>7. SavedOK(e) BY <2>2 DEF Good, SavedOK, SameContext, NextId
  <2> QED BY <2>1, <2>2, <2>4, <2>5, <2>6, <2>7 DEF Good, Fit
<1>2. CASE s.master # p.from BY <1>2 DEF NoteMaster
<1> QED BY <1>1, <1>2

LEMMA OnDevicesGood ==
  ASSUME NEW s, Good(s), NEW n \in Node, NEW p, PacketOK(p)
  PROVE  Good(OnDevices(s, n, p))
<1> DEFINE q == IdentifyReply(s, n, p.from)
<1>1. PacketOK(q) BY MsgOK DEF Good, Fit, NodeState, IdentifyReply, PacketOK, Packet
<1>2. OnDevices(s, n, p) \in {Send(s, q), s} BY DEF OnDevices
<1> HIDE DEF q
<1> QED BY <1>1, <1>2, SendFit DEF Good

LEMMA OnMasterGood ==
  ASSUME NEW s, Good(s), ~s.active, NEW n \in Node, NEW p, PacketOK(p), p.type \in FromMaster
  PROVE  Good(OnMaster(s, n, p))
<1> DEFINE t == NoteMaster(s, p)
<1>1. Good(t) /\ ~t.active BY NoteMasterGood
<1> HIDE DEF t
<1>2. CASE ~SenderAllowed(s, p) BY <1>2 DEF OnMaster
<1>3. CASE SenderAllowed(s, p) /\ p.type = "SET_GROUP"
  <2>1. OnMaster(s, n, p) = OnSetGroup(t, n, p) BY <1>3 DEF OnMaster, t
  <2> QED BY <1>1, <1>3, <2>1, OnSetGroupGood
<1>4. CASE SenderAllowed(s, p) /\ p.type = "DEVICES"
  <2>1. OnMaster(s, n, p) = OnDevices(t, n, p) BY <1>4 DEF OnMaster, t
  <2> QED BY <1>1, <2>1, OnDevicesGood
<1>5. CASE SenderAllowed(s, p) /\ p.type \in {"SYNC", "HEADLESS"}
  <2>1. OnMaster(s, n, p) = t BY <1>5 DEF OnMaster, t
  <2> QED BY <1>1, <2>1
<1> QED BY <1>2, <1>3, <1>4, <1>5 DEF FromMaster

LEMMA HandlePacketGood ==
  ASSUME NEW s, Good(s), NEW n \in Node, NEW p, PacketOK(p)
  PROVE  Good(HandlePacket(s, n, p))
<1>1. CASE p.type = "IDENTIFY"
  <2>1. HandlePacket(s, n, p) = OnIdentify(s, n, p) BY <1>1 DEF HandlePacket, FromMaster
  <2>2. p.from \in Node /\ p.group \in Group BY <1>1 DEF PacketOK
  <2>3. CASE s.active BY <2>1, <2>2, <2>3, AssignGood DEF OnIdentify
  <2>4. CASE ~s.active BY <2>1, <2>4 DEF OnIdentify
  <2> QED BY <2>3, <2>4
<1>2. CASE p.type = "ACK"
  <2>1. HandlePacket(s, n, p) = s BY <1>2 DEF HandlePacket, FromMaster
  <2> QED BY <2>1
<1>3. CASE p.type \in FromMaster
  <2>1. HandlePacket(s, n, p) = OnMaster(StepsDown(s), n, p)
    BY <1>3 DEF HandlePacket, FromMaster
  <2>2. Good(StepsDown(s)) /\ ~StepsDown(s).active BY ExitGood DEF StepsDown
  <2> QED BY <1>3, <2>1, <2>2, OnMasterGood
<1> QED BY <1>1, <1>2, <1>3 DEF PacketOK, Packet, FromMaster

-----------------------------------------------------------------------------
(* The steps.                                                              *)

LEMMA InitInv == Init => HeadlessInv
<1> SUFFICES ASSUME Init PROVE HeadlessInv OBVIOUS
<1>1. Fresh \in Config BY ConstantTypes, EmptyTable DEF Fresh, Config
<1>2. Booted(Fresh) \in NodeState BY <1>1, ConstantTypes, EmptyTable DEF Booted, Fresh, NodeState, Idle
<1>3. Good(Booted(Fresh))
  BY <1>2 DEF Good, Fit, SlotOK, RoleOK, OffOK, SweepOK, SavedOK, SameContext, NextId, Booted, Fresh
<1>4. left \in [presses : Nat, cycles : Nat, gateway : Nat] BY HeadlessAssumption DEF Init
<1> QED BY <1>2, <1>3, <1>4 DEF Init, HeadlessInv

(* A step of one node that leaves it with a good record.                   *)
LEMMA StepInv ==
  ASSUME HeadlessInv, NEW n \in Node, NEW s, Good(s), node' = [node EXCEPT ![n] = s],
         left' \in [presses : Nat, cycles : Nat, gateway : Nat]
  PROVE  HeadlessInv'
<1>1. s \in NodeState BY DEF Good, Fit
<1>2. node' \in [Node -> NodeState] BY <1>1 DEF HeadlessInv
<1>3. \A m \in Node : node'[m] = IF m = n THEN s ELSE node[m] BY DEF HeadlessInv
<1>4. \A m \in Node : Good(node'[m]) BY <1>3 DEF HeadlessInv
<1> QED BY <1>2, <1>4 DEF HeadlessInv

(* Records in which only fields changed that the invariant does not read.  *)
LEMMA SameGood ==
  ASSUME NEW s, Good(s), NEW t, t \in NodeState,
         t.active = s.active, t.groupId = s.groupId, t.master = s.master,
         t.contacted = s.contacted, t.headless = s.headless, t.counter = s.counter,
         t.scene = s.scene, t.table = s.table, t.dirty = s.dirty,
         t.configNeedsWrite = s.configNeedsWrite, t.disk = s.disk, t.cursor = s.cursor,
         t.slot \in {s.slot, None}
  PROVE  Good(t)
<1>1. SlotOK(t) BY DEF Good, Fit, SlotOK
<1>2. RoleOK(t) /\ OffOK(t) /\ OffOK(t.disk) /\ SweepOK(t)
  BY DEF Good, Fit, RoleOK, OffOK, SweepOK
<1>3. SavedOK(t) BY DEF Good, SavedOK, SameContext, NextId
<1> QED BY <1>1, <1>2, <1>3 DEF Good, Fit

(* The services of loop(). *)
LEMMA LoopInv ==
  ASSUME HeadlessInv, NEW n \in Node, Loop(n) PROVE HeadlessInv'
<1> DEFINE s == node[n]
<1>0. Good(s) /\ Fit(s) /\ s \in NodeState /\ Len(s.table) \in 0 .. MaxSlaves
      /\ s.table \in Seq(Row)
  BY ConstantTypes DEF HeadlessInv, Good, Fit, NodeState, Table
<1>L. left \in [presses : Nat, cycles : Nat, gateway : Nat] BY DEF HeadlessInv
<1>1. CASE StartupIdentify(n)
  <2> DEFINE u == [s EXCEPT !.stage = 2]
             p == IdentifyReply(s, n, All)
             t == Send(s, p)
             v == [t EXCEPT !.stage = @ + 1]
  <2>1. u \in NodeState BY <1>0 DEF NodeState
  <2>2. Good(u) BY <1>0, <2>1, SameGood DEF NodeState
  <2>3. PacketOK(p) BY <1>0, MsgOK DEF NodeState, IdentifyReply
  <2>4. Good(t) /\ t = [s EXCEPT !.slot = t.slot]
    <3> HIDE DEF p
    <3> QED BY <1>0, <2>3, SendFit DEF Good
  <2>5. s.stage < 2 /\ left' = left
        /\ (node' = [node EXCEPT ![n] = u] \/ node' = [node EXCEPT ![n] = v])
    BY <1>1 DEF StartupIdentify, Step
  <2> HIDE DEF t
  <2>6. v \in NodeState
    <3>1. t \in NodeState /\ t.stage = s.stage BY <1>0, <2>4 DEF Good, Fit, NodeState
    <3>2. t.stage + 1 \in 0 .. 2 BY <1>0, <2>5, <3>1 DEF NodeState
    <3> QED BY <3>1, <3>2 DEF NodeState
  <2>7. Good(v)
    <3>1. t \in NodeState BY <2>4 DEF Good, Fit
    <3> QED BY <2>4, <2>6, <3>1, SameGood DEF NodeState
  <2> HIDE DEF u, v
  <2> QED BY <1>L, <2>2, <2>5, <2>7, StepInv
<1>2. CASE Resume(n)
  <2> DEFINE t == [s EXCEPT !.resume = FALSE]
  <2>1. t \in NodeState BY <1>0 DEF NodeState
  <2>2. Good(t) BY <1>0, <2>1, SameGood DEF NodeState
  <2>3. left' = left /\ node' = [node EXCEPT ![n] = IF Unclaimed(t) THEN TryStart(t, n) ELSE t]
    BY <1>2 DEF Resume, Step
  <2> HIDE DEF t
  <2>4. Good(IF Unclaimed(t) THEN TryStart(t, n) ELSE t) BY <2>2, TryStartGood
  <2> QED BY <1>L, <2>3, <2>4, StepInv
<1>3. CASE Keepalive(n)
  <2>1. left' = left /\ node' = [node EXCEPT ![n] = BroadcastSync(s, n)] BY <1>3 DEF Keepalive, Step
  <2>2. Good(BroadcastSync(s, n)) BY <1>0, BroadcastGood DEF Good
  <2> QED BY <1>L, <2>1, <2>2, StepInv
<1>4. CASE Persist(n)
  <2> DEFINE t == [s EXCEPT !.dirty = FALSE, !.configNeedsWrite = TRUE]
  <2>1. t \in NodeState BY <1>0 DEF NodeState
  <2>2. /\ t.active = s.active /\ t.groupId = s.groupId /\ t.master = s.master
        /\ t.contacted = s.contacted /\ t.headless = s.headless /\ t.counter = s.counter
        /\ t.table = s.table /\ t.disk = s.disk /\ t.cursor = s.cursor /\ t.slot = s.slot
        /\ t.configNeedsWrite
    BY <1>0 DEF NodeState
  <2>3. left' = left /\ node' = [node EXCEPT ![n] = t] BY <1>4 DEF Persist, Step
  <2> HIDE DEF t
  <2>4. Good(t)
    BY <1>0, <2>1, <2>2 DEF Good, Fit, SlotOK, RoleOK, OffOK, SweepOK, SavedOK
  <2> QED BY <1>L, <2>3, <2>4, StepInv
<1>5. CASE Reassign(n)
  <2> DEFINE row == s.table[s.cursor]
             w == s.rebroadcast \/ s.scene
             a == [s EXCEPT !.cursor = Idle, !.rebroadcast = w]
             b == [s EXCEPT !.cursor = Idle]
             p == Msg("SET_GROUP", n, row.node, row.group)
             t == Send(s, p)
             c == [t EXCEPT !.cursor = @ + 1]
  <2>1. ASSUME NEW u \in {a, b} PROVE Good(u)
    <3>1. w \in BOOLEAN OBVIOUS
    <3> HIDE DEF w
    <3>2. u \in NodeState
      <4>1. 0 \in 0 .. MaxSlaves + 1 BY ConstantTypes
      <4>2. a \in NodeState /\ b \in NodeState BY <1>0, <3>1, <4>1 DEF NodeState, Idle
      <4> HIDE DEF a, b
      <4> QED BY <4>2
    <3>3. /\ u.active = s.active /\ u.groupId = s.groupId /\ u.master = s.master
          /\ u.contacted = s.contacted /\ u.headless = s.headless /\ u.counter = s.counter
          /\ u.scene = s.scene /\ u.table = s.table /\ u.dirty = s.dirty
          /\ u.configNeedsWrite = s.configNeedsWrite /\ u.disk = s.disk /\ u.cursor = Idle
          /\ u.slot = s.slot
      BY <1>0 DEF NodeState
    <3>4. SlotOK(u) /\ RoleOK(u) /\ OffOK(u) /\ OffOK(u.disk) /\ SweepOK(u)
      BY <1>0, <3>3 DEF Fit, SlotOK, RoleOK, OffOK, SweepOK
    <3>5. SavedOK(u) BY <1>0, <3>3 DEF Good, SavedOK, SameContext, NextId
    <3> QED BY <3>2, <3>4, <3>5 DEF Good, Fit
  <2>2. s.cursor # Idle /\ left' = left
    BY <1>5 DEF Reassign, Step
  <2>3. CASE s.cursor > Len(s.table) \/ ~s.active
    <3>1. node' \in {[node EXCEPT ![n] = a], [node EXCEPT ![n] = b]}
      BY <1>5, <2>3 DEF Reassign, Step
    <3> HIDE DEF a, b
    <3> QED BY <1>L, <2>1, <2>2, <3>1, StepInv
  <2>4. CASE ~(s.cursor > Len(s.table)) /\ s.active
    <3>0. s.cursor \in 1 .. Len(s.table) /\ s.cursor \in 0 .. MaxSlaves + 1
      BY <1>0, <2>2, <2>4 DEF NodeState, Idle
    <3>1. row \in Row BY <1>0, <3>0
    <3>2. PacketOK(p) BY <3>1, MsgOK, ConstantTypes DEF Row, Group
    <3>3. node' = [node EXCEPT ![n] = c] BY <1>5, <2>4 DEF Reassign, Step
    <3> HIDE DEF p
    <3>4. Fit(t) /\ (SavedOK(s) => SavedOK(t)) /\ t = [s EXCEPT !.slot = t.slot]
      BY <1>0, <3>2, SendFit
    <3> HIDE DEF t
    <3>5. t \in NodeState /\ t.cursor = s.cursor /\ t.active = s.active /\ t.table = s.table
      BY <1>0, <3>4 DEF Fit, NodeState
    <3>6. c \in NodeState
      <4>1. t.cursor + 1 \in 0 .. MaxSlaves + 1 BY <1>0, <3>0, <3>5, ConstantTypes
      <4> QED BY <3>5, <4>1 DEF NodeState
    <3>7. /\ c.active = t.active /\ c.groupId = t.groupId /\ c.master = t.master
          /\ c.contacted = t.contacted /\ c.headless = t.headless /\ c.counter = t.counter
          /\ c.scene = t.scene /\ c.table = t.table /\ c.dirty = t.dirty
          /\ c.configNeedsWrite = t.configNeedsWrite /\ c.disk = t.disk
          /\ c.cursor = s.cursor + 1 /\ c.slot = t.slot
      BY <3>5 DEF NodeState
    <3> HIDE DEF c
    <3>8. SlotOK(c) /\ RoleOK(c) /\ OffOK(c) /\ OffOK(c.disk)
      BY <3>4, <3>7 DEF Fit, SlotOK, RoleOK, OffOK
    <3>9. SweepOK(c) BY <2>4, <3>0, <3>5, <3>7, <1>0 DEF SweepOK
    <3>10. SavedOK(c) BY <1>0, <3>4, <3>7 DEF Good, SavedOK, SameContext, NextId
    <3>11. Good(c) BY <3>6, <3>8, <3>9, <3>10 DEF Good, Fit
    <3> QED BY <1>L, <2>2, <3>3, <3>11, StepInv
  <2> QED BY <2>3, <2>4
<1>6. CASE Rebroadcast(n)
  <2> DEFINE t == [s EXCEPT !.rebroadcast = FALSE]
  <2>1. t \in NodeState BY <1>0 DEF NodeState
  <2>2. Good(t) BY <1>0, <2>1, SameGood DEF NodeState
  <2>3. left' = left /\ node' = [node EXCEPT ![n] = IF t.active THEN BroadcastScene(t, n) ELSE t]
    BY <1>6 DEF Rebroadcast, Step
  <2> HIDE DEF t
  <2>4. Good(IF t.active THEN BroadcastScene(t, n) ELSE t) BY <2>2, BroadcastGood DEF Good
  <2> QED BY <1>L, <2>3, <2>4, StepInv
<1> QED BY <1>1, <1>2, <1>3, <1>4, <1>5, <1>6 DEF Loop

(* The button.                                                             *)
LEMMA PressInv ==
  ASSUME HeadlessInv, NEW n \in Node, NEW s, Good(s), Press(n, s) PROVE HeadlessInv'
<1> DEFINE t == [s EXCEPT !.btnUsed = TRUE]
<1>1. s \in NodeState BY DEF Good, Fit
<1>2. t \in NodeState BY <1>1 DEF NodeState
<1>3. Good(t) BY <1>1, <1>2, SameGood DEF NodeState
<1>4. left' \in [presses : Nat, cycles : Nat, gateway : Nat]
  <2>1. left.presses \in Nat /\ left.presses > 0 BY DEF Press, HeadlessInv
  <2>2. left.presses - 1 \in Nat BY <2>1
  <2> QED BY <2>2 DEF Press, HeadlessInv
<1>5. node' = [node EXCEPT ![n] = t] BY DEF Press
<1> HIDE DEF t
<1> QED BY <1>3, <1>4, <1>5, StepInv

LEMMA OperatorInv ==
  ASSUME HeadlessInv, NEW n \in Node, Operator(n) PROVE HeadlessInv'
<1> DEFINE s == node[n]
<1>0. Good(s) /\ s \in NodeState BY DEF HeadlessInv
<1>1. CASE FiveClicks(n)
  <2>1. Good(TryStart(s, n)) BY <1>0, TryStartGood
  <2> QED BY <1>1, <2>1, PressInv DEF FiveClicks
<1>2. CASE OneClick(n)
  <2> DEFINE t == [s EXCEPT !.scene = TRUE, !.configNeedsWrite = TRUE]
  <2>1. t \in NodeState BY <1>0 DEF NodeState
  <2>2. /\ t.active = s.active /\ t.groupId = s.groupId /\ t.master = s.master
        /\ t.contacted = s.contacted /\ t.headless = s.headless /\ t.counter = s.counter
        /\ t.table = s.table /\ t.disk = s.disk /\ t.cursor = s.cursor /\ t.slot = s.slot
        /\ t.configNeedsWrite
    BY <1>0 DEF NodeState
  <2>3. Press(n, BroadcastScene(t, n)) BY <1>2 DEF OneClick
  <2> HIDE DEF t
  <2>4. Good(t)
    BY <1>0, <2>1, <2>2 DEF Good, Fit, SlotOK, RoleOK, OffOK, SweepOK, SavedOK
  <2>5. Good(BroadcastScene(t, n)) BY <2>4, BroadcastGood DEF Good
  <2> QED BY <2>3, <2>5, PressInv
<1>3. CASE OtherClicks(n) BY <1>0, <1>3, PressInv DEF OtherClicks
<1> QED BY <1>1, <1>2, <1>3 DEF Operator

(* The master falls silent; cfg.json is written; power is cycled.          *)
LEMMA MasterQuietInv ==
  ASSUME HeadlessInv, NEW n \in Node, MasterQuiet(n) PROVE HeadlessInv'
<1> DEFINE s == node[n]
           t == [s EXCEPT !.contacted = FALSE]
<1>0. Good(s) /\ s \in NodeState BY DEF HeadlessInv
<1>1. t \in NodeState BY <1>0 DEF NodeState
<1>2. /\ t.active = s.active /\ t.groupId = s.groupId /\ t.master = s.master
      /\ ~t.contacted /\ t.headless = s.headless /\ t.counter = s.counter
      /\ t.scene = s.scene /\ t.table = s.table /\ t.dirty = s.dirty
      /\ t.configNeedsWrite = s.configNeedsWrite /\ t.disk = s.disk
      /\ t.cursor = s.cursor /\ t.slot = s.slot
  BY <1>0 DEF NodeState
<1>3. node' = [node EXCEPT ![n] = t] /\ left' = left BY DEF MasterQuiet, Step
<1> HIDE DEF t
<1>4. Good(t)
  BY <1>0, <1>1, <1>2 DEF Good, Fit, SlotOK, RoleOK, OffOK, SweepOK, SavedOK, SameContext, NextId
<1> QED BY <1>3, <1>4, StepInv DEF HeadlessInv

LEMMA WriteConfigInv ==
  ASSUME HeadlessInv, NEW n \in Node, WriteConfig(n) PROVE HeadlessInv'
<1> DEFINE s == node[n]
           d == ConfigOf(s)
           t == [s EXCEPT !.configNeedsWrite = FALSE, !.disk = d]
<1>0. Good(s) /\ s \in NodeState BY DEF HeadlessInv
<1>1. d \in Config BY <1>0 DEF ConfigOf, Config, NodeState
<1>2. /\ d.headless = s.headless /\ d.counter = s.counter
      /\ d.scene = s.scene /\ d.table = s.table
  BY DEF ConfigOf
<1>3. node' = [node EXCEPT ![n] = t] /\ left' = left BY DEF WriteConfig, Step
<1> HIDE DEF d
<1>4. t \in NodeState BY <1>0, <1>1 DEF NodeState
<1>5. /\ t.active = s.active /\ t.groupId = s.groupId /\ t.master = s.master
      /\ t.contacted = s.contacted /\ t.headless = s.headless /\ t.counter = s.counter
      /\ t.scene = s.scene /\ t.table = s.table /\ t.disk = d
      /\ t.cursor = s.cursor /\ t.slot = s.slot
  BY <1>0 DEF NodeState
<1> HIDE DEF t
<1>6. OffOK(s) BY <1>0 DEF Good, Fit
<1>7. OffOK(t.disk) BY <1>2, <1>5, <1>6 DEF OffOK
<1>8. SavedOK(t) BY <1>2, <1>5 DEF SavedOK, SameContext, NextId
<1>9. Good(t)
  BY <1>0, <1>4, <1>5, <1>7, <1>8 DEF Good, Fit, SlotOK, RoleOK, OffOK, SweepOK
<1> QED BY <1>3, <1>9, StepInv DEF HeadlessInv

LEMMA PowerCycleInv ==
  ASSUME HeadlessInv, NEW n \in Node, PowerCycle(n) PROVE HeadlessInv'
<1> DEFINE d == node[n].disk
<1>0. d \in Config /\ OffOK(d) BY DEF HeadlessInv, Good, Fit, NodeState
<1>1. Booted(d) \in NodeState
  BY <1>0, ConstantTypes DEF Booted, Config, NodeState, Idle
<1>2. Good(Booted(d))
  BY <1>0, <1>1
  DEF Good, Fit, SlotOK, RoleOK, OffOK, SweepOK, SavedOK, SameContext, NextId, Booted
<1>3. node' = [node EXCEPT ![n] = Booted(d)] BY DEF PowerCycle
<1>4. left' \in [presses : Nat, cycles : Nat, gateway : Nat]
  <2>1. left.cycles \in Nat /\ left.cycles > 0 BY DEF PowerCycle, HeadlessInv
  <2>2. left.cycles - 1 \in Nat BY <2>1
  <2> QED BY <2>2 DEF PowerCycle, HeadlessInv
<1> QED BY <1>2, <1>3, <1>4, StepInv

-----------------------------------------------------------------------------
(* The air.                                                                *)

LEMMA DeliveredGood ==
  ASSUME HeadlessInv, NEW p, PacketOK(p), NEW R
  PROVE  /\ Delivered(p, R) \in [Node -> NodeState]
         /\ \A m \in Node : Good(Delivered(p, R)[m])
<1>1. \A m \in Node : Good(node[m]) BY DEF HeadlessInv
<1>2. \A m \in Node : Good(Delivered(p, R)[m])
  <2> TAKE m \in Node
  <2>1. CASE m \in R /\ m # p.from /\ p.to \in {m, All}
    <3>1. Delivered(p, R)[m] = HandlePacket(node[m], m, p) BY <2>1 DEF Delivered
    <3>2. Good(HandlePacket(node[m], m, p)) BY <1>1, HandlePacketGood
    <3> QED BY <3>1, <3>2
  <2>2. CASE ~(m \in R /\ m # p.from /\ p.to \in {m, All})
    BY <1>1, <2>2 DEF Delivered
  <2> QED BY <2>1, <2>2
<1>3. Delivered(p, R) = [m \in Node |-> Delivered(p, R)[m]] BY DEF Delivered
<1>4. \A m \in Node : Delivered(p, R)[m] \in NodeState BY <1>2 DEF Good, Fit
<1> QED BY <1>2, <1>3, <1>4

LEMMA TransmitInv ==
  ASSUME HeadlessInv, NEW n \in Node, NEW R \in SUBSET Node, Transmit(n, R) PROVE HeadlessInv'
<1> DEFINE f == Delivered(node[n].slot, R)
           t == [f[n] EXCEPT !.slot = None]
<1>1. PacketOK(node[n].slot)
  BY DEF Transmit, SlotFree, HeadlessInv, Good, Fit, SlotOK
<1>2. f \in [Node -> NodeState] /\ \A m \in Node : Good(f[m])
  BY <1>1, DeliveredGood
<1>3. node' = [f EXCEPT ![n] = t] /\ left' = left BY DEF Transmit
<1> HIDE DEF f
<1>4. f[n] \in NodeState /\ Good(f[n]) BY <1>2
<1>5. t \in NodeState BY <1>4 DEF NodeState
<1>6. Good(t) BY <1>4, <1>5, SameGood DEF NodeState
<1> HIDE DEF t
<1>7. node' \in [Node -> NodeState] BY <1>2, <1>3, <1>5
<1>8. \A m \in Node : Good(node'[m]) BY <1>2, <1>3, <1>6
<1> QED BY <1>3, <1>7, <1>8 DEF HeadlessInv

LEMMA GatewayInv ==
  ASSUME HeadlessInv, NEW p \in GatewayPacket, NEW R \in SUBSET Node, GatewaySends(p, R)
  PROVE  HeadlessInv'
<1>1. PacketOK(p)
  BY ConstantTypes DEF GatewayPacket, Msg, PacketOK, Packet
<1>2. left' \in [presses : Nat, cycles : Nat, gateway : Nat]
  <2>1. left.gateway \in Nat /\ left.gateway > 0 BY DEF GatewaySends, HeadlessInv
  <2>2. left.gateway - 1 \in Nat BY <2>1
  <2> QED BY <2>2 DEF GatewaySends, HeadlessInv
<1>3. node' = Delivered(p, R) BY DEF GatewaySends
<1> QED BY <1>1, <1>2, <1>3, DeliveredGood DEF HeadlessInv

-----------------------------------------------------------------------------
LEMMA NextInv == HeadlessInv /\ [Next]_vars => HeadlessInv'
<1> SUFFICES ASSUME HeadlessInv, [Next]_vars PROVE HeadlessInv' OBVIOUS
<1>1. CASE UNCHANGED vars BY <1>1 DEF vars, HeadlessInv
<1>2. ASSUME NEW n \in Node, Loop(n) PROVE HeadlessInv' BY <1>2, LoopInv
<1>3. ASSUME NEW n \in Node, Operator(n) PROVE HeadlessInv' BY <1>3, OperatorInv
<1>4. ASSUME NEW n \in Node, MasterQuiet(n) \/ WriteConfig(n) \/ PowerCycle(n) PROVE HeadlessInv'
  BY <1>4, MasterQuietInv, WriteConfigInv, PowerCycleInv
<1>5. ASSUME NEW n \in Node, NEW R \in SUBSET Node, Transmit(n, R) PROVE HeadlessInv'
  BY <1>5, TransmitInv
<1>6. ASSUME NEW p \in GatewayPacket, NEW R \in SUBSET Node, GatewaySends(p, R) PROVE HeadlessInv'
  BY <1>6, GatewayInv
<1> QED BY <1>1, <1>2, <1>3, <1>4, <1>5, <1>6 DEF Next

LEMMA InvHolds == Spec => []HeadlessInv
  BY InitInv, NextInv, PTL DEF Spec

-----------------------------------------------------------------------------
(* Every variable keeps its type: no slave is registered without a group,  *)
(* no table grows beyond MaxSlaves, no sweep reads beyond the table's end. *)
THEOREM TypeCorrect == Spec => []TypeOK
<1>1. HeadlessInv => TypeOK BY DEF HeadlessInv, TypeOK
<1> QED BY <1>1, InvHolds, PTL

(* A master is in group 1 and obeys nobody, everybody else in a group has  *)
(* a master: whatever the order of promotions (enterHeadlessMode),         *)
(* take-overs (the master-alive detector) and resumes.                     *)
THEOREM RolesAreCoherent == Spec => []RoleIsCoherent
<1>1. HeadlessInv => RoleIsCoherent BY DEF HeadlessInv, Good, Fit, RoleOK, RoleIsCoherent
<1> QED BY <1>1, InvHolds, PTL

(* Whoever clears the headless flag (exitHeadlessMode, by button, take-over *)
(* or the master-alive detector) has ended the role and the sweep with it,  *)
(* and emptied the registry; what is in RAM or in cfg.json without the flag *)
(* revives no slave and no counter.                                         *)
THEOREM OffIsOff == Spec => []OffMeansOff
<1>1. ASSUME HeadlessInv, NEW n \in Node PROVE OffOK(ConfigOf(node[n])) /\ OffOK(node[n].disk)
  BY <1>1 DEF HeadlessInv, Good, Fit, OffOK, ConfigOf
<1>2. ASSUME HeadlessInv, NEW n \in Node, ~node[n].headless
      PROVE  ~node[n].active /\ node[n].cursor = Idle
  BY <1>2 DEF HeadlessInv, Good, Fit, RoleOK, SweepOK
<1>3. HeadlessInv => OffMeansOff BY <1>1, <1>2 DEF OffMeansOff, OffOK
<1> QED BY <1>3, InvHolds, PTL

(* serviceHeadlessReassign never reads a row the table does not have, and  *)
(* no node that has ceased to be master goes on assigning groups.          *)
THEOREM SweepsAsMaster == Spec => []SweepOnlyAsMaster
<1>1. HeadlessInv => SweepOnlyAsMaster BY DEF HeadlessInv, Good, Fit, SweepOK, SweepOnlyAsMaster
<1> QED BY <1>1, InvHolds, PTL

(* A power cycle of a node with nothing left to write loses nothing of its *)
(* role, its registry or its next group id.                                *)
THEOREM CleanIsSaved == Spec => []CleanMeansSaved
<1>1. ASSUME HeadlessInv, NEW n \in Node, ~node[n].dirty, ~node[n].configNeedsWrite
      PROVE  SameContext(ConfigOf(node[n]), node[n].disk)
  BY <1>1 DEF HeadlessInv, Good, SavedOK, SameContext, NextId, ConfigOf
<1>2. HeadlessInv => CleanMeansSaved BY <1>1 DEF CleanMeansSaved
<1> QED BY <1>2, InvHolds, PTL

-----------------------------------------------------------------------------
(* Only enterHeadlessMode makes a master: no packet and no service but the *)
(* deferred resume does.                                                   *)

LEMMA SendKeepsRole ==
  ASSUME NEW s \in NodeState, NEW p PROVE Send(s, p).active = s.active
  BY DEF Send, NodeState

LEMMA PacketMakesNoMaster ==
  ASSUME NEW s \in NodeState, ~s.active, NEW n \in Node, NEW p, PacketOK(p)
  PROVE  ~HandlePacket(s, n, p).active
<1>1. CASE p.type = "IDENTIFY"
  BY <1>1 DEF HandlePacket, OnIdentify, FromMaster
<1>2. CASE p.type = "ACK"
  BY <1>2 DEF HandlePacket, FromMaster
<1>3. CASE p.type \in FromMaster
  <2> DEFINE t == NoteMaster(s, p)
             u == [t EXCEPT !.groupId = p.group, !.master = p.from, !.contacted = TRUE]
  <2>1. StepsDown(s) = s
    BY DEF StepsDown
  <2>2. HandlePacket(s, n, p) = OnMaster(s, n, p)
    BY <1>3, <2>1 DEF HandlePacket, FromMaster
  <2>3. t \in NodeState /\ ~t.active
    <3> DEFINE v == [s EXCEPT !.contacted = TRUE]
    <3>1. v \in NodeState BY DEF NodeState
    <3>2. ~v.active BY DEF NodeState
    <3>3. t \in {s, v} BY DEF NoteMaster
    <3> HIDE DEF t, v
    <3> QED BY <3>1, <3>2, <3>3
  <2>4. p.group \in Group \cup {AnyGroup} /\ p.from \in Node \cup {Gateway}
    BY DEF PacketOK, Packet
  <2>5. ~OnSetGroup(t, n, p).active
    <3>1. OnSetGroup(t, n, p) = Send(u, Msg("ACK", n, p.from, 0))
      BY DEF OnSetGroup
    <3>2. ~u.active
      BY <2>3 DEF NodeState
    <3> QED BY <3>1, <3>2, <2>3 DEF Send, NodeState
  <2>6. ~OnDevices(t, n, p).active
    BY <2>3, SendKeepsRole DEF OnDevices
  <2>7. OnMaster(s, n, p) \in {s, t, OnSetGroup(t, n, p), OnDevices(t, n, p)}
    BY <1>3 DEF OnMaster, FromMaster
  <2> HIDE DEF t
  <2> QED BY <2>2, <2>3, <2>5, <2>6, <2>7
<1> QED BY <1>1, <1>2, <1>3 DEF PacketOK, Packet, FromMaster

(* The services of loop() but the resume leave the role as it is.          *)
LEMMA ServicesKeepRole ==
  ASSUME NEW m \in Node, node[m] \in NodeState, node \in [Node -> NodeState], NEW n \in Node,
         \/ StartupIdentify(m) \/ Keepalive(m) \/ Persist(m) \/ Reassign(m) \/ Rebroadcast(m)
         \/ MasterQuiet(m) \/ WriteConfig(m)
  PROVE  node'[n].active = node[n].active
<1> DEFINE s == node[m]
<1>1. ASSUME NEW t, node' = [node EXCEPT ![m] = t], t.active = s.active
      PROVE  node'[n].active = node[n].active
  BY <1>1
<1>2. CASE StartupIdentify(m)
  <2> DEFINE t == Send(s, IdentifyReply(s, m, All))
             u == [s EXCEPT !.stage = 2]
             v == [t EXCEPT !.stage = @ + 1]
  <2>1. node' = [node EXCEPT ![m] = u] \/ node' = [node EXCEPT ![m] = v]
    BY <1>2 DEF StartupIdentify, Step
  <2>2. u.active = s.active
    BY DEF NodeState
  <2>3. v.active = s.active
    BY DEF Send, NodeState
  <2> HIDE DEF u, v
  <2> QED BY <1>1, <2>1, <2>2, <2>3
<1>3. CASE Keepalive(m)
  <2>1. node' = [node EXCEPT ![m] = BroadcastSync(s, m)]
    BY <1>3 DEF Keepalive, Step
  <2>2. BroadcastSync(s, m).active = s.active
    BY SendKeepsRole DEF BroadcastSync
  <2> QED BY <1>1, <2>1, <2>2
<1>4. CASE Persist(m)
  <2> DEFINE t == [s EXCEPT !.dirty = FALSE, !.configNeedsWrite = TRUE]
  <2>1. node' = [node EXCEPT ![m] = t] /\ t.active = s.active
    BY <1>4 DEF Persist, Step, NodeState
  <2> HIDE DEF t
  <2> QED BY <1>1, <2>1
<1>5. CASE Reassign(m)
  <2> DEFINE row == s.table[s.cursor]
             a == [s EXCEPT !.cursor = Idle, !.rebroadcast = @ \/ s.scene]
             b == [s EXCEPT !.cursor = Idle]
             t == Send(s, Msg("SET_GROUP", m, row.node, row.group))
             c == [t EXCEPT !.cursor = @ + 1]
  <2>1. \/ node' = [node EXCEPT ![m] = a] \/ node' = [node EXCEPT ![m] = b]
        \/ node' = [node EXCEPT ![m] = c]
    BY <1>5 DEF Reassign, Step
  <2>2. a.active = s.active /\ b.active = s.active
    BY DEF NodeState
  <2>3. c.active = s.active
    BY DEF Send, NodeState
  <2> HIDE DEF a, b, c
  <2> QED BY <1>1, <2>1, <2>2, <2>3
<1>6. CASE Rebroadcast(m)
  <2> DEFINE t == [s EXCEPT !.rebroadcast = FALSE]
  <2>1. node' = [node EXCEPT ![m] = IF t.active THEN BroadcastScene(t, m) ELSE t]
    BY <1>6 DEF Rebroadcast, Step
  <2>2. t \in NodeState /\ t.active = s.active
    BY DEF NodeState
  <2> HIDE DEF t
  <2>3. BroadcastScene(t, m).active = t.active
    BY <2>2, SendKeepsRole DEF BroadcastScene
  <2> QED BY <1>1, <2>1, <2>2, <2>3
<1>7. CASE MasterQuiet(m)
  <2> DEFINE t == [s EXCEPT !.contacted = FALSE]
  <2>1. node' = [node EXCEPT ![m] = t] /\ t.active = s.active
    BY <1>7 DEF MasterQuiet, Step, NodeState
  <2> HIDE DEF t
  <2> QED BY <1>1, <2>1
<1>8. CASE WriteConfig(m)
  <2> DEFINE t == [s EXCEPT !.configNeedsWrite = FALSE, !.disk = ConfigOf(s)]
  <2>1. node' = [node EXCEPT ![m] = t] /\ t.active = s.active
    BY <1>8 DEF WriteConfig, Step, NodeState
  <2> HIDE DEF t
  <2> QED BY <1>1, <2>1
<1> QED BY <1>2, <1>3, <1>4, <1>5, <1>6, <1>7, <1>8

LEMMA AirMakesNoMaster ==
  ASSUME HeadlessInv, NEW m \in Node, NEW R \in SUBSET Node, Transmit(m, R),
         NEW n \in Node, ~node[n].active
  PROVE  ~node'[n].active
<1> DEFINE f == Delivered(node[m].slot, R)
<1>1. PacketOK(node[m].slot) /\ node[n] \in NodeState
  BY DEF Transmit, SlotFree, HeadlessInv, Good, Fit, SlotOK
<1>2. f[n] \in {node[n], HandlePacket(node[n], n, node[m].slot)}
  BY DEF Delivered
<1>3. ~f[n].active
  BY <1>1, <1>2, PacketMakesNoMaster
<1>4. f \in [Node -> NodeState]
  BY <1>1, DeliveredGood
<1>5. node' = [f EXCEPT ![m].slot = None]
  BY DEF Transmit
<1> HIDE DEF f
<1> QED BY <1>3, <1>4, <1>5 DEF NodeState

(* What the environment does is counted.                                   *)
LEMMA BudgetsCount ==
  ASSUME HeadlessInv,
         \/ \E n \in Node : Operator(n) \/ PowerCycle(n)
         \/ \E p \in GatewayPacket, R \in SUBSET Node : GatewaySends(p, R)
  PROVE  left' # left
<1>1. left \in [presses : Nat, cycles : Nat, gateway : Nat]
  BY DEF HeadlessInv
<1>2. \/ left' = [left EXCEPT !.presses = @ - 1] \/ left' = [left EXCEPT !.cycles = @ - 1]
      \/ left' = [left EXCEPT !.gateway = @ - 1]
  BY DEF Operator, FiveClicks, OneClick, OtherClicks, Press, PowerCycle, GatewaySends
<1>3. CASE left' = [left EXCEPT !.presses = @ - 1]
  <2>1. left'.presses # left.presses
    BY <1>1, <1>3
  <2> QED BY <2>1
<1>4. CASE left' = [left EXCEPT !.cycles = @ - 1]
  <2>1. left'.cycles # left.cycles
    BY <1>1, <1>4
  <2> QED BY <2>1
<1>5. CASE left' = [left EXCEPT !.gateway = @ - 1]
  <2>1. left'.gateway # left.gateway
    BY <1>1, <1>5
  <2> QED BY <2>1
<1> QED BY <1>2, <1>3, <1>4, <1>5

(* The deferred resume makes a master only of a node nobody has adopted.   *)
LEMMA ResumeUnclaimed ==
  ASSUME HeadlessInv, NEW m \in Node, Resume(m), NEW n \in Node,
         ~node[n].active, node'[n].active
  PROVE  node[n].resume /\ node[n].groupId = 0 /\ ~node[n].contacted
<1> DEFINE s == [node[m] EXCEPT !.resume = FALSE]
<1>1. node \in [Node -> NodeState]
  BY DEF HeadlessInv
<1>2. /\ node[m].resume
      /\ node' = [node EXCEPT ![m] = IF Unclaimed(s) THEN TryStart(s, m) ELSE s]
  BY DEF Resume, Step
<1>3. n = m
  BY <1>1, <1>2
<1>4. /\ s.active = node[m].active /\ s.groupId = node[m].groupId
      /\ s.contacted = node[m].contacted
  BY <1>1 DEF NodeState
<1> HIDE DEF s
<1>5. Unclaimed(s) /\ ~s.contacted
  BY <1>1, <1>2, <1>3, <1>4 DEF TryStart
<1> QED BY <1>2, <1>3, <1>4, <1>5 DEF Unclaimed

(* No lost, late or foreign packet, no service and no power cycle makes a  *)
(* node master by itself once it has a group or hears its master.          *)
THEOREM ResumesUnclaimed == Spec => ResumeOnlyUnclaimed
<1>1. ASSUME HeadlessInv, [Next]_vars
      PROVE  [\A n \in Node : ~node[n].active /\ node'[n].active /\ left' = left
                => node[n].resume /\ node[n].groupId = 0 /\ ~node[n].contacted]_vars
  <2> SUFFICES ASSUME NEW n \in Node, ~node[n].active, node'[n].active, left' = left
               PROVE  node[n].resume /\ node[n].groupId = 0 /\ ~node[n].contacted
    OBVIOUS
  <2>1. Next
    BY <1>1 DEF vars
  <2>2. node \in [Node -> NodeState]
    BY <1>1 DEF HeadlessInv
  <2>3. PICK m \in Node : Loop(m) \/ MasterQuiet(m) \/ WriteConfig(m) \/
                          \E R \in SUBSET Node : Transmit(m, R)
    BY <1>1, <2>1, BudgetsCount DEF Next
  <2>4. Resume(m)
    BY <1>1, <2>2, <2>3, ServicesKeepRole, AirMakesNoMaster DEF Loop
  <2> QED BY <1>1, <2>4, ResumeUnclaimed
<1> QED BY <1>1, InvHolds, PTL DEF Spec, ResumeOnlyUnclaimed
=============================================================================
