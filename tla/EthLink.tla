-------------------------------- MODULE EthLink --------------------------------
(***************************************************************************)
(* The Ethernet transport of a node: the W5500 driver's DHCP client, which *)
(* shares the chip's only socket with the application, and the service()   *)
(* that acquires an address, falls back to a fixed one, renews the lease   *)
(* without blocking and drains the datagrams of the host.  Servers and     *)
(* hosts are the environment: any reply may come at any time, or none.     *)
(* Retransmissions are left out, as a reply needs no cause here.           *)
(***************************************************************************)
EXTENDS Integers, Sequences

CONSTANTS
  Leased,      \* addresses servers lease
  Fallback,    \* RACELINK_ETH_IP
  NoIp,        \* 0.0.0.0
  Leases,      \* lease times in seconds; 0: option 51 is absent
  Factor,      \* 850: of the milliseconds of a leased second, those before a renewal
  Word,        \* 2^32, the width of millis() and of the product
  Timeout,     \* 16 s for one negotiation
  RetryAfter,  \* 30 s between two renewals
  Hosts, NoHost,
  MaxInbox     \* bound: datagrams that wait in the chip

ASSUME EthAssumption ==
  /\ NoIp \notin Leased /\ Fallback # NoIp
  /\ Leases \subseteq Nat
  /\ Factor \in Nat /\ Word \in Nat \ {0} /\ Timeout \in Nat /\ RetryAfter \in Nat
  /\ NoHost \notin Hosts
  /\ MaxInbox \in Nat

VARIABLES
  drv,    \* the Driver: DHCP client, lease, address register and socket
  net,    \* the Core: netReady, dhcpOk, ip, host endpoint
  inbox,  \* datagrams in the socket's receive buffer
  held,   \* history: the address a server last acknowledged
  lapsed  \* history: since then a renewal has failed

vars == <<drv, net, inbox, held, lapsed>>

Address == Leased \cup {NoIp}

\* sip is the chip's SIPR; ages are differences to millis(), where nothing
\* compares more than the limit they stop at.
DriverState ==
  [state : {"Discover", "Request", "Bound", "Failed"}, renewing : BOOLEAN,
   yi : Address, sip : Address \cup {Fallback}, sock : {"Closed", "Dhcp", "Node"},
   lease : Leases \cup {0}, leaseAge : 0 .. Word - 1,
   sinceRenew : 0 .. RetryAfter, elapsed : 0 .. Timeout + 1]

CoreState ==
  [ready : BOOLEAN, dhcpOk : BOOLEAN, ip : Address \cup {Fallback},
   host : Hosts \cup {NoHost}]

\* What servers send.  A refusal carries no address; a stale reply is of an
\* earlier negotiation, and parseDhcp drops it for its xid.
Reply ==
  [kind : {"Offer", "Ack"}, addr : Leased, lease : Leases] \cup
  [kind : {"Nak"}, addr : {NoIp}, lease : {0}]

\* What hosts and other nodes send to the node's port.
Datagram == [kind : {"M2N", "N2M", "Empty"}, from : Hosts]

-----------------------------------------------------------------------------
(* The driver.                                                             *)

\* dhcpBegin: from no address, on port 68.
Begun(d, renew, opens) ==
  [d EXCEPT !.state = IF opens THEN "Discover" ELSE "Failed",
            !.renewing = renew, !.yi = NoIp, !.sip = NoIp,
            !.sock = IF opens THEN "Dhcp" ELSE "Closed",
            !.sinceRenew = 0, !.elapsed = 0]

\* Mutant: the address of the last offer stands.
WithOfferedAddress(d, r) == IF r.kind = "Ack" THEN d ELSE [d EXCEPT !.yi = r.addr]

\* parseDhcp overwrites yi with any reply of this negotiation, also with one
\* that the state has no use for.
WithAddress(d, r) == [d EXCEPT !.yi = r.addr]

Refused(d) == [d EXCEPT !.state = "Discover"]

BoundTo(d, r) ==
  [d EXCEPT !.state = "Bound", !.sip = r.addr, !.sock = "Closed",
            !.lease = r.lease, !.leaseAge = 0]

\* dhcpPoll with a reply.
Answered(d, r) ==
  LET p == WithAddress(d, r)
  IN CASE d.state = "Discover" /\ r.kind = "Offer" -> [p EXCEPT !.state = "Request"]
       [] d.state = "Request" /\ r.kind = "Ack" -> BoundTo(p, r)
       [] r.kind = "Nak" -> Refused(p)
       [] OTHER -> p

GivenUp(d) == [d EXCEPT !.state = "Failed", !.sock = "Closed"]

Negotiating(d) == d.state \in {"Discover", "Request"}

\* Mutant: a negotiation is never given up.
NeverTimedOut(d) == FALSE

TimedOut(d) == d.elapsed > Timeout

\* dhcpPoll: the timeout before the packet.
Polled(d) ==
  IF ~Negotiating(d) THEN {d}
  ELSE IF TimedOut(d) THEN {GivenUp(d)}
  ELSE {d} \cup {Answered(d, r) : r \in Reply}

\* dhcpRenewDue: 85 % of the lease in milliseconds, computed in 32 bits.
RenewDue(d) ==
  /\ d.state = "Bound" /\ d.lease # 0
  /\ d.leaseAge >= (d.lease * Factor) % Word
  /\ d.sinceRenew >= RetryAfter

-----------------------------------------------------------------------------
(* service().                                                              *)

\* Mutant: the state stays at the failure.
KeptFailed(d, n) == [d EXCEPT !.sip = n.ip]

\* A failed renewal resumes with the old address.
Kept(d, n) == [d EXCEPT !.sip = n.ip, !.state = "Bound"]

WithFallback(n) == [n EXCEPT !.ip = Fallback, !.dhcpOk = FALSE]

\* The driver at the end of a negotiation, before the socket is opened.
ConcludedDriver(d, n) ==
  IF d.state = "Bound" THEN d
  ELSE IF d.renewing THEN Kept(d, n) ELSE [d EXCEPT !.sip = Fallback]

\* The core: dhcpResult copies yi, whatever came after the address in use.
ConcludedCore(d, n) ==
  IF d.state = "Bound" THEN [n EXCEPT !.ip = d.yi, !.dhcpOk = TRUE]
  ELSE IF d.renewing THEN n ELSE WithFallback(n)

\* Mutant: a datagram of another node ends the loop.
ReadToForeign(k) ==
  /\ \A i \in 1 .. k : inbox[i].kind = "M2N"
  /\ k < Len(inbox) => inbox[k + 1].kind # "M2N"

\* The loop reads k datagrams.  An empty one is not skipped, since parsePacket
\* returns its length 0 for "nothing there".
ReadTo(k) ==
  /\ \A i \in 1 .. k : inbox[i].kind # "Empty"
  /\ k < Len(inbox) => inbox[k + 1].kind = "Empty"

\* Of these, the last M2N one tells where the host is, whomever it addressed.
LearnHost(k) ==
  LET asked == {i \in 1 .. k : inbox[i].kind = "M2N"}
  IN \/ asked = {} /\ UNCHANGED net
     \/ \E i \in asked : /\ \A j \in asked : j <= i
                         /\ net' = [net EXCEPT !.host = inbox[i].from]

\* Mutant: the application is not told that its socket is taken.
RenewUnseen(d, n) ==
  /\ n.dhcpOk /\ RenewDue(d)
  /\ \E opens \in BOOLEAN : drv' = Begun(d, TRUE, opens)
  /\ net' = n
  /\ inbox' = <<>>

\* A renewal that is due takes the socket from the application, with what
\* waits in it; otherwise the datagrams are read.
Renew(d, n) ==
  /\ n.dhcpOk /\ RenewDue(d)
  /\ \E opens \in BOOLEAN : drv' = Begun(d, TRUE, opens)
  /\ net' = [n EXCEPT !.ready = FALSE]
  /\ inbox' = <<>>

\* The socket is opened on the node's port, or it is tried again next time.
OpenFails(d, n) ==
  /\ drv' = [d EXCEPT !.sock = "Closed"]
  /\ net' = n
  /\ inbox' = <<>>

Open(d, n) ==
  LET open == [d EXCEPT !.sock = "Node"]
      up   == [n EXCEPT !.ready = TRUE]
  IN \/ Renew(open, up)
     \/ ~(up.dhcpOk /\ RenewDue(open)) /\ drv' = open /\ net' = up /\ inbox' = <<>>

\* held and lapsed, from the state before and after the poll.
Acknowledged(d) == Negotiating(drv) /\ d.state = "Bound"

Recorded(d) ==
  IF Acknowledged(d) THEN held' = d.sip /\ lapsed' = FALSE
  ELSE held' = held /\ lapsed' = (lapsed \/ (d.state = "Failed" /\ d.renewing))

Negotiate ==
  /\ ~net.ready
  /\ drv' \in {d \in Polled(drv) : Negotiating(d)}
  /\ UNCHANGED <<net, inbox, held, lapsed>>

Conclude(opens) ==
  /\ ~net.ready
  /\ \E d \in Polled(drv) :
       /\ ~Negotiating(d)
       /\ Recorded(d)
       /\ IF opens THEN Open(ConcludedDriver(d, net), ConcludedCore(d, net))
          ELSE OpenFails(ConcludedDriver(d, net), ConcludedCore(d, net))

ServiceReady ==
  /\ net.ready
  /\ \/ Renew(drv, net)
     \/ /\ ~(net.dhcpOk /\ RenewDue(drv))
        /\ \E k \in 0 .. Len(inbox) :
             /\ ReadTo(k) /\ LearnHost(k)
             /\ inbox' = SubSeq(inbox, k + 1, Len(inbox))
        /\ UNCHANGED drv
  /\ UNCHANGED <<held, lapsed>>

Service == Negotiate \/ Conclude(TRUE) \/ Conclude(FALSE) \/ ServiceReady

-----------------------------------------------------------------------------
(* The environment.                                                        *)

Capped(n, limit) == IF n < limit THEN n + 1 ELSE n

Tick ==
  /\ drv' = [drv EXCEPT !.leaseAge = (@ + 1) % Word,
                        !.sinceRenew = Capped(@, RetryAfter),
                        !.elapsed = Capped(@, Timeout + 1)]
  /\ UNCHANGED <<net, inbox, held, lapsed>>

Arrive(g) ==
  /\ drv.sock = "Node" /\ Len(inbox) < MaxInbox
  /\ inbox' = Append(inbox, g)
  /\ UNCHANGED <<drv, net, held, lapsed>>

-----------------------------------------------------------------------------
\* beginCommon has reset the chip and begun the first negotiation.
Blank ==
  [state |-> "Idle", renewing |-> FALSE, yi |-> NoIp, sip |-> NoIp, sock |-> "Closed",
   lease |-> 0, leaseAge |-> 0, sinceRenew |-> 0, elapsed |-> 0]

Init ==
  /\ \E opens \in BOOLEAN : drv = Begun(Blank, FALSE, opens)
  /\ net = [ready |-> FALSE, dhcpOk |-> FALSE, ip |-> NoIp, host |-> NoHost]
  /\ inbox = <<>>
  /\ held = NoIp /\ lapsed = FALSE

Next == Service \/ Tick \/ \E g \in Datagram : Arrive(g)

Spec == Init /\ [][Next]_vars

\* loop() calls service() for ever, millis() runs, and the chip does open its
\* socket some time before the next renewal; no server and no host need answer.
\* service() is called often enough to see that a renewal is due.
FairSpec ==
  /\ Spec
  /\ WF_vars(Tick) /\ WF_vars(Service)
  /\ SF_vars(Conclude(TRUE) /\ net'.ready)
  /\ SF_vars(ServiceReady /\ ~net'.ready)

-----------------------------------------------------------------------------
(* Properties.                                                             *)

\* Every variable has its type.
TypeOK ==
  /\ drv \in DriverState /\ net \in CoreState
  /\ inbox \in Seq(Datagram) /\ Len(inbox) <= MaxInbox
  /\ held \in Address /\ lapsed \in BOOLEAN

\* The one socket: while the application may send it is on the node's port, and
\* while the client negotiates it is on port 68, and never is anything sent by
\* the application in a negotiation.
SocketHasOneUser ==
  /\ net.ready <=> drv.sock = "Node"
  /\ drv.sock = "Dhcp" <=> Negotiating(drv)

\* The node answers under the address in its register, and that is the one last
\* acknowledged, however offers, refusals and late replies were mixed and
\* however often the socket failed to open, unless a renewal has failed since.
AnswersUnderLease ==
  (net.ready /\ net.dhcpOk /\ ~lapsed) =>
    net.ip = held /\ drv.sip = held /\ held # NoIp

\* Without a lease the node has the fixed address, in the chip as in the core:
\* what the info page shows as "static".
StaticIsFallback ==
  (net.ready /\ ~net.dhcpOk) => net.ip = Fallback /\ drv.sip = Fallback

\* The client never asks a server for 0.0.0.0.
RequestsAnOffer == drv.state = "Request" => drv.yi # NoIp

\* The node serves again after every negotiation, with or without a server.
ServesAgain == ~net.ready ~> net.ready

\* Datagrams are read, unless an empty one stands before them.
InboxIsRead == inbox # <<>> ~> (inbox = <<>> \/ inbox[1].kind = "Empty")

\* A lease of limited time is renewed, also after a renewal that failed.
LeaseIsRenewed ==
  (net.dhcpOk /\ drv.lease # 0) ~> (drv.sinceRenew = 0 \/ drv.lease = 0)

\* What the comment in service() says and the code does not do: a node whose
\* renewals fail keeps the address it was given.
LeaseIsKept == (net.ready /\ net.dhcpOk) => net.ip = held
===============================================================================
