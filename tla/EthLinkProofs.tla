----------------------------- MODULE EthLinkProofs -----------------------------
(***************************************************************************)
(* What holds of the Ethernet transport for every set of addresses, lease  *)
(* times, limits and widths of the clock.                                  *)
(***************************************************************************)
EXTENDS EthLink, TLAPS

\* What ties the client to the core: the application runs on a bound or a given
\* up client, renewals are for leases, and the acknowledged address is at once
\* in yi, which dhcpResult copies, and in the register, until one has failed.
LeaseInv ==
  /\ drv.renewing => net.dhcpOk
  /\ net.ready => drv.state \in {"Bound", "Failed"}
  /\ (net.ready /\ net.dhcpOk) => drv.state = "Bound"
  /\ (drv.state = "Bound" /\ ~lapsed) =>
       drv.yi = held /\ drv.sip = held /\ held # NoIp
  /\ (net.ready /\ net.dhcpOk /\ ~lapsed) => net.ip = held

EthInv == TypeOK /\ SocketHasOneUser /\ LeaseInv /\ StaticIsFallback /\ RequestsAnOffer

\* The invariant of what service() leaves, stated of any driver and core.
Sound(d, n, h, l) ==
  /\ d \in DriverState /\ n \in CoreState /\ h \in Address /\ l \in BOOLEAN
  /\ n.ready <=> d.sock = "Node"
  /\ d.sock = "Dhcp" <=> Negotiating(d)
  /\ d.renewing => n.dhcpOk
  /\ n.ready => d.state \in {"Bound", "Failed"}
  /\ (n.ready /\ n.dhcpOk) => d.state = "Bound"
  /\ (d.state = "Bound" /\ ~l) => d.yi = h /\ d.sip = h /\ h # NoIp
  /\ (n.ready /\ n.dhcpOk /\ ~l) => n.ip = h
  /\ (n.ready /\ ~n.dhcpOk) => n.ip = Fallback /\ d.sip = Fallback
  /\ d.state = "Request" => d.yi # NoIp

LEMMA InvIsSound ==
  EthInv <=> /\ Sound(drv, net, held, lapsed)
             /\ inbox \in Seq(Datagram) /\ Len(inbox) <= MaxInbox
BY DEF EthInv, TypeOK, SocketHasOneUser, LeaseInv, StaticIsFallback, RequestsAnOffer, Sound

\* The same of the state after a step.
LEMMA NextInvIsSound ==
  (/\ Sound(drv', net', held', lapsed')
   /\ inbox' \in Seq(Datagram) /\ Len(inbox') <= MaxInbox) => EthInv'
BY DEF EthInv, TypeOK, SocketHasOneUser, LeaseInv, StaticIsFallback, RequestsAnOffer,
       Sound, Negotiating

\* A negotiation begins without an address, on port 68 or not at all.
LEMMA BegunSound ==
  ASSUME NEW d, NEW n, NEW h, NEW l, NEW opens \in BOOLEAN, Sound(d, n, h, l),
         n.dhcpOk
  PROVE  Sound(Begun(d, TRUE, opens), [n EXCEPT !.ready = FALSE], h, l)
<1> DEFINE b == Begun(d, TRUE, opens)
           m == [n EXCEPT !.ready = FALSE]
<1>1. d \in DriverState /\ n \in CoreState
  BY DEF Sound
<1>2. /\ b.state = (IF opens THEN "Discover" ELSE "Failed")
      /\ b.sock = (IF opens THEN "Dhcp" ELSE "Closed")
      /\ b \in DriverState
  <2>1. NoIp \in Address /\ 0 \in 0 .. RetryAfter /\ 0 \in 0 .. Timeout + 1
    BY EthAssumption DEF Address
  <2>2. CASE opens
    BY <1>1, <2>1, <2>2 DEF Begun, DriverState
  <2>3. CASE ~opens
    BY <1>1, <2>1, <2>3 DEF Begun, DriverState
  <2>4. QED BY <2>2, <2>3
<1>3. m \in CoreState /\ ~m.ready /\ m.dhcpOk
  BY <1>1 DEF CoreState
<1>4. Negotiating(b) <=> opens
  BY <1>2 DEF Negotiating
<1>5. b.state # "Bound" /\ b.state # "Request" /\ b.sock # "Node"
  BY <1>2
<1>6. b.sock = "Dhcp" <=> Negotiating(b)
  BY <1>2, <1>4
<1>7. h \in Address /\ l \in BOOLEAN
  BY DEF Sound
<1> HIDE DEF b, m
<1>8. Sound(b, m, h, l)
  BY <1>2, <1>3, <1>5, <1>6, <1>7 DEF Sound
<1>9. QED BY <1>8 DEF b, m

\* A reply moves the client on, and only an acknowledgment binds it.
LEMMA AnsweredFacts ==
  ASSUME NEW d \in DriverState, NEW r \in Reply, Negotiating(d)
  PROVE  LET a == Answered(d, r)
         IN /\ a \in DriverState
            /\ a.renewing = d.renewing
            /\ a.state # "Failed"
            /\ Negotiating(a) => a.sock = d.sock
            /\ a.state = "Bound" => /\ a.sock = "Closed" /\ a.yi = a.sip
                                    /\ a.yi \in Leased
            /\ (d.state = "Request" => d.yi # NoIp)
                 => (a.state = "Request" => a.yi # NoIp)
<1> DEFINE a == Answered(d, r)
           p == [d EXCEPT !.yi = r.addr]
<1>1. /\ r.addr \in Address /\ r.kind \in {"Offer", "Ack", "Nak"}
      /\ r.kind # "Nak" => r.addr \in Leased /\ r.addr # NoIp
      /\ r.lease \in Leases \cup {0} /\ 0 \in 0 .. Word - 1
  BY EthAssumption DEF Reply, Address
<1>2. /\ p \in DriverState /\ p.yi = r.addr /\ p.state = d.state
      /\ p.renewing = d.renewing /\ p.sock = d.sock
  BY <1>1 DEF DriverState
<1>3. CASE d.state = "Discover" /\ r.kind = "Offer"
  <2>1. a = [p EXCEPT !.state = "Request"]
    BY <1>3 DEF Answered, WithAddress, BoundTo, Refused
  <2>2. QED BY <2>1, <1>1, <1>2, <1>3 DEF DriverState, Negotiating
<1>4. CASE d.state = "Request" /\ r.kind = "Ack"
  <2>1. a = [p EXCEPT !.state = "Bound", !.sip = r.addr, !.sock = "Closed",
                      !.lease = r.lease, !.leaseAge = 0]
    BY <1>4 DEF Answered, WithAddress, BoundTo, Refused
  <2>2. QED BY ZenonT(40), <2>1, <1>1, <1>2, <1>4 DEF DriverState, Negotiating
<1>5. CASE r.kind = "Nak"
  <2>1. a = [p EXCEPT !.state = "Discover"]
    BY <1>5 DEF Answered, WithAddress, BoundTo, Refused
  <2>2. QED BY <2>1, <1>1, <1>2, <1>5 DEF DriverState, Negotiating
<1>6. CASE /\ ~(d.state = "Discover" /\ r.kind = "Offer")
           /\ ~(d.state = "Request" /\ r.kind = "Ack") /\ r.kind # "Nak"
  <2>1. a = p
    BY <1>6 DEF Answered, WithAddress, BoundTo, Refused
  <2>2. QED BY <2>1, <1>1, <1>2, <1>6 DEF DriverState, Negotiating
<1>7. QED BY <1>3, <1>4, <1>5, <1>6

\* The poll of a sound client without the socket of the application.
LEMMA PolledSound ==
  ASSUME EthInv, ~net.ready, NEW d \in Polled(drv)
  PROVE  /\ d \in DriverState
         /\ d.renewing = drv.renewing
         /\ d.state = "Request" => d.yi # NoIp
         /\ Negotiating(d) => d.sock = "Dhcp"
         /\ Acknowledged(d) => d.yi = d.sip /\ d.yi \in Leased
         /\ (d.state = "Bound" /\ ~Acknowledged(d)) => d = drv
<1>1. drv \in DriverState /\ (drv.state = "Request" => drv.yi # NoIp)
      /\ (Negotiating(drv) => drv.sock = "Dhcp")
  BY DEF EthInv, TypeOK, RequestsAnOffer, SocketHasOneUser
<1>2. CASE ~Negotiating(drv)
  BY <1>1, <1>2 DEF Polled, Acknowledged
<1>3. CASE Negotiating(drv) /\ TimedOut(drv)
  <2>1. d = GivenUp(drv)
    BY <1>3 DEF Polled
  <2>2. QED BY <1>1, <1>3, <2>1 DEF GivenUp, DriverState, Negotiating, Acknowledged
<1>4. CASE Negotiating(drv) /\ ~TimedOut(drv)
  <2>1. d = drv \/ \E r \in Reply : d = Answered(drv, r)
    BY <1>4 DEF Polled
  <2>2. CASE d = drv
    BY <1>1, <1>4, <2>2 DEF Acknowledged, Negotiating
  <2>3. ASSUME NEW r \in Reply, d = Answered(drv, r)
        PROVE  /\ d \in DriverState
               /\ d.renewing = drv.renewing
               /\ d.state = "Request" => d.yi # NoIp
               /\ Negotiating(d) => d.sock = "Dhcp"
               /\ Acknowledged(d) => d.yi = d.sip /\ d.yi \in Leased
               /\ (d.state = "Bound" /\ ~Acknowledged(d)) => d = drv
    BY <1>1, <1>4, <2>3, AnsweredFacts DEF Acknowledged
  <2>4. QED BY <2>1, <2>2, <2>3
<1>5. QED BY <1>2, <1>3, <1>4
-----------------------------------------------------------------------------
(* The end of a negotiation.                                               *)

\* A driver and a core that lack nothing but the socket.
SoundButClosed(d, n, h, l) ==
  /\ d \in DriverState /\ n \in CoreState /\ h \in Address /\ l \in BOOLEAN
  /\ ~n.ready /\ d.state \in {"Bound", "Failed"}
  /\ d.renewing => n.dhcpOk
  /\ n.dhcpOk => d.state = "Bound"
  /\ (d.state = "Bound" /\ ~l) => d.yi = h /\ d.sip = h /\ h # NoIp
  /\ (n.dhcpOk /\ ~l) => n.ip = h
  /\ ~n.dhcpOk => n.ip = Fallback /\ d.sip = Fallback

LEMMA ConcludedSound ==
  ASSUME EthInv, ~net.ready, NEW d \in Polled(drv), ~Negotiating(d), Recorded(d)
  PROVE  SoundButClosed(ConcludedDriver(d, net), ConcludedCore(d, net), held', lapsed')
<1> DEFINE e == ConcludedDriver(d, net)
           m == ConcludedCore(d, net)
<1> SUFFICES SoundButClosed(e, m, held', lapsed')
  OBVIOUS
<1>1. /\ d \in DriverState /\ d.renewing = drv.renewing
      /\ Acknowledged(d) => d.yi = d.sip /\ d.yi \in Leased
      /\ (d.state = "Bound" /\ ~Acknowledged(d)) => d = drv
  BY PolledSound
<1>2. /\ d.state \in {"Bound", "Failed"} /\ d.renewing \in BOOLEAN
      /\ d.yi \in Address /\ d.sip \in Address \cup {Fallback}
  BY <1>1 DEF DriverState, Negotiating
<1>3. /\ net \in CoreState /\ held \in Address /\ lapsed \in BOOLEAN
      /\ (drv.renewing => net.dhcpOk)
      /\ (drv.state = "Bound" /\ ~lapsed) =>
           drv.yi = held /\ drv.sip = held /\ held # NoIp
  BY DEF EthInv, TypeOK, LeaseInv
<1>4. /\ net.ip \in Address \cup {Fallback} /\ net.dhcpOk \in BOOLEAN
  BY <1>3 DEF CoreState
<1>5. CASE d.state = "Bound"
  <2>1. e = d /\ m = [net EXCEPT !.ip = d.yi, !.dhcpOk = TRUE]
    BY <1>5 DEF ConcludedDriver, ConcludedCore
  <2>2. /\ e = d /\ m \in CoreState /\ m.dhcpOk /\ m.ip = d.yi
        /\ ~m.ready
    BY <1>2, <1>3, <2>1 DEF CoreState
  <2>3. CASE Acknowledged(d)
    <3>1. held' = d.sip /\ ~lapsed' /\ lapsed' \in BOOLEAN /\ d.yi = d.sip /\ d.yi \in Leased
      BY <1>1, <2>3 DEF Recorded
    <3>2. held' \in Address /\ held' # NoIp
      BY <3>1, EthAssumption DEF Address
    <3> HIDE DEF e, m
    <3>3. QED BY <1>1, <1>5, <2>2, <3>1, <3>2 DEF SoundButClosed
  <2>4. CASE ~Acknowledged(d)
    <3>1. held' = held /\ (lapsed' <=> lapsed) /\ lapsed' \in BOOLEAN /\ d = drv
      BY <1>1, <1>5, <2>4 DEF Recorded
    <3> HIDE DEF e, m
    <3>2. QED BY <1>1, <1>3, <1>5, <2>2, <3>1 DEF SoundButClosed
  <2>5. QED BY <2>3, <2>4
<1>6. CASE d.state = "Failed" /\ d.renewing
  <2>1. held' = held /\ lapsed' /\ lapsed' \in BOOLEAN
    BY <1>6 DEF Recorded, Acknowledged
  <2>2. e = [d EXCEPT !.sip = net.ip, !.state = "Bound"] /\ m = net
    BY <1>6 DEF ConcludedDriver, ConcludedCore, Kept
  <2>3. /\ e \in DriverState /\ e.state = "Bound" /\ m = net
        /\ m.dhcpOk /\ ~m.ready
    BY <1>1, <1>3, <1>4, <1>6, <2>2 DEF DriverState
  <2> HIDE DEF e, m
  <2>4. QED BY <1>3, <2>1, <2>3 DEF SoundButClosed
<1>7. CASE d.state = "Failed" /\ ~d.renewing
  <2>1. held' = held /\ lapsed' \in BOOLEAN
    BY <1>3, <1>7 DEF Recorded, Acknowledged
  <2>2. /\ e = [d EXCEPT !.sip = Fallback]
        /\ m = [net EXCEPT !.ip = Fallback, !.dhcpOk = FALSE]
    BY <1>7 DEF ConcludedDriver, ConcludedCore, WithFallback
  <2>3. /\ e \in DriverState /\ e.state = "Failed" /\ ~e.renewing
        /\ e.sip = Fallback
    BY <1>1, <1>7, <2>2 DEF DriverState
  <2>4. m \in CoreState /\ ~m.dhcpOk /\ m.ip = Fallback /\ ~m.ready
    BY <1>3, <2>2 DEF CoreState
  <2> HIDE DEF e, m
  <2>5. QED BY <1>3, <2>1, <2>3, <2>4 DEF SoundButClosed
<1>8. QED BY <1>2, <1>5, <1>6, <1>7

LEMMA ClosedIsSound ==
  ASSUME NEW d, NEW n, NEW h, NEW l, SoundButClosed(d, n, h, l)
  PROVE  Sound([d EXCEPT !.sock = "Closed"], n, h, l)
<1> DEFINE e == [d EXCEPT !.sock = "Closed"]
<1>1. /\ e \in DriverState /\ e.sock = "Closed" /\ e.state = d.state
      /\ e.renewing = d.renewing /\ e.yi = d.yi /\ e.sip = d.sip
  BY DEF SoundButClosed, DriverState
<1> HIDE DEF e
<1>2. Sound(e, n, h, l)
  BY <1>1 DEF SoundButClosed, Sound, Negotiating
<1>3. QED BY <1>2 DEF e

LEMMA OpenIsSound ==
  ASSUME NEW d, NEW n, NEW h, NEW l, SoundButClosed(d, n, h, l)
  PROVE  Sound([d EXCEPT !.sock = "Node"], [n EXCEPT !.ready = TRUE], h, l)
<1> DEFINE e == [d EXCEPT !.sock = "Node"]
           m == [n EXCEPT !.ready = TRUE]
<1>1. /\ e \in DriverState /\ e.sock = "Node" /\ e.state = d.state
      /\ e.renewing = d.renewing /\ e.yi = d.yi /\ e.sip = d.sip
  BY DEF SoundButClosed, DriverState
<1>2. m \in CoreState /\ m.ready /\ m.dhcpOk = n.dhcpOk /\ m.ip = n.ip
  BY DEF SoundButClosed, CoreState
<1> HIDE DEF e, m
<1>3. Sound(e, m, h, l)
  BY <1>1, <1>2 DEF SoundButClosed, Sound, Negotiating
<1>4. QED BY <1>3 DEF e, m

\* A renewal in a sound state leaves a sound one.
LEMMA RenewSound ==
  ASSUME NEW d, NEW n, Sound(d, n, held', lapsed'), Renew(d, n)
  PROVE  Sound(drv', net', held', lapsed') /\ inbox' = <<>>
<1>1. n.dhcpOk /\ inbox' = <<>> /\ net' = [n EXCEPT !.ready = FALSE]
  BY DEF Renew
<1>2. PICK opens \in BOOLEAN : drv' = Begun(d, TRUE, opens)
  BY DEF Renew
<1>3. QED BY <1>1, <1>2, BegunSound
-----------------------------------------------------------------------------
(* The invariant.                                                          *)

LEMMA InitInv == Init => EthInv
<1> SUFFICES ASSUME Init PROVE EthInv
  OBVIOUS
<1>1. PICK opens \in BOOLEAN : drv = Begun(Blank, FALSE, opens)
  BY DEF Init
<1>2. /\ NoIp \in Address /\ 0 \in 0 .. RetryAfter /\ 0 \in 0 .. Timeout + 1
      /\ 0 \in 0 .. Word - 1 /\ 0 \in Leases \cup {0}
  BY EthAssumption DEF Address
<1>3. /\ drv \in DriverState /\ drv.state = (IF opens THEN "Discover" ELSE "Failed")
      /\ drv.sock = (IF opens THEN "Dhcp" ELSE "Closed") /\ ~drv.renewing
  <2>1. CASE opens
    BY <1>1, <1>2, <2>1 DEF Begun, Blank, DriverState
  <2>2. CASE ~opens
    BY <1>1, <1>2, <2>2 DEF Begun, Blank, DriverState
  <2>3. QED BY <2>1, <2>2
<1>4. net \in CoreState /\ ~net.ready
  BY <1>2, Zenon DEF Init, CoreState
<1>5. inbox \in Seq(Datagram) /\ Len(inbox) <= MaxInbox
  BY EthAssumption DEF Init
<1>6. held \in Address /\ lapsed = FALSE
  BY <1>2 DEF Init
<1>7. Sound(drv, net, held, lapsed)
  BY <1>3, <1>4, <1>6 DEF Sound, Negotiating
<1>8. QED BY <1>5, <1>7, InvIsSound

LEMMA ConcludeKeepsInv ==
  ASSUME EthInv, NEW opens \in BOOLEAN, Conclude(opens)
  PROVE  EthInv'
<1>1. PICK d \in Polled(drv) :
        /\ ~Negotiating(d) /\ Recorded(d)
        /\ IF opens THEN Open(ConcludedDriver(d, net), ConcludedCore(d, net))
           ELSE OpenFails(ConcludedDriver(d, net), ConcludedCore(d, net))
  BY DEF Conclude
<1> DEFINE e == ConcludedDriver(d, net)
           m == ConcludedCore(d, net)
           o == [e EXCEPT !.sock = "Node"]
           up == [m EXCEPT !.ready = TRUE]
<1>2. SoundButClosed(e, m, held', lapsed')
  BY <1>1, ConcludedSound DEF Conclude
<1>3. Sound(drv', net', held', lapsed') /\ inbox' = <<>>
  <2>1. CASE ~opens
    <3>1. drv' = [e EXCEPT !.sock = "Closed"] /\ net' = m /\ inbox' = <<>>
      BY <1>1, <2>1 DEF OpenFails
    <3> HIDE DEF e, m
    <3>2. QED BY <1>2, <3>1, ClosedIsSound
  <2>2. CASE opens
    <3>1. Renew(o, up) \/ (drv' = o /\ net' = up /\ inbox' = <<>>)
      BY <1>1, <2>2 DEF Open
    <3>2. Sound(o, up, held', lapsed')
      <4> HIDE DEF e, m
      <4>1. QED BY <1>2, OpenIsSound
    <3> HIDE DEF o, up
    <3>3. QED BY <3>1, <3>2, RenewSound
  <2>3. QED BY <2>1, <2>2
<1>4. inbox' \in Seq(Datagram) /\ Len(inbox') <= MaxInbox
  BY <1>3, EthAssumption
<1>5. QED BY <1>3, <1>4, NextInvIsSound

LEMMA NegotiateKeepsInv == ASSUME EthInv, Negotiate PROVE EthInv'
<1>1. PICK d \in Polled(drv) : Negotiating(d) /\ drv' = d
  BY DEF Negotiate
<1>2. /\ d \in DriverState /\ d.renewing = drv.renewing
      /\ d.state = "Request" => d.yi # NoIp
      /\ d.sock = "Dhcp"
  BY <1>1, PolledSound DEF Negotiate
<1>3. ~net.ready /\ net' = net /\ inbox' = inbox /\ held' = held /\ lapsed' = lapsed
  BY DEF Negotiate
<1>4. Sound(d, net, held, lapsed)
  BY <1>1, <1>2, <1>3 DEF Sound, Negotiating, EthInv, TypeOK, LeaseInv
<1>5. Sound(drv', net', held', lapsed')
  BY <1>1, <1>3, <1>4
<1>6. inbox' \in Seq(Datagram) /\ Len(inbox') <= MaxInbox
  BY <1>3 DEF EthInv, TypeOK
<1>7. QED BY <1>5, <1>6, NextInvIsSound

LEMMA ServiceReadyKeepsInv == ASSUME EthInv, ServiceReady PROVE EthInv'
<1>1. Sound(drv, net, held', lapsed') /\ inbox \in Seq(Datagram) /\ Len(inbox) <= MaxInbox
  BY InvIsSound DEF ServiceReady
<1>2. CASE Renew(drv, net)
  <2>1. Sound(drv', net', held', lapsed') /\ inbox' = <<>>
    BY <1>1, <1>2, RenewSound
  <2>2. inbox' \in Seq(Datagram) /\ Len(inbox') <= MaxInbox
    BY <2>1, EthAssumption
  <2>3. QED BY <2>1, <2>2, NextInvIsSound
<1>3. ASSUME NEW k \in 0 .. Len(inbox), ReadTo(k), LearnHost(k),
             inbox' = SubSeq(inbox, k + 1, Len(inbox)), drv' = drv
      PROVE  EthInv'
  <2>1. inbox' \in Seq(Datagram) /\ Len(inbox') <= MaxInbox
    <3>1. Len(inbox) \in Nat /\ MaxInbox \in Nat
      BY <1>1, EthAssumption
    <3>2. CASE k = Len(inbox)
      <4>1. inbox' = <<>>
        BY <1>1, <1>3, <3>1, <3>2
      <4>2. QED BY <4>1, <3>1
    <3>3. CASE k < Len(inbox)
      <4>1. \A i \in k + 1 .. Len(inbox) : inbox[i] \in Datagram
        BY <1>1, <1>3, <3>1
      <4>2. QED BY <1>1, <1>3, <3>1, <3>3, <4>1
    <3>4. QED BY <3>1, <3>2, <3>3
  <2>2. net' \in CoreState /\ net'.ready = net.ready /\ net'.dhcpOk = net.dhcpOk
        /\ net'.ip = net.ip
    <3>1. net \in CoreState
      BY <1>1 DEF Sound
    <3>2. CASE net' = net
      BY <3>1, <3>2
    <3>3. CASE \E i \in 1 .. k : net' = [net EXCEPT !.host = inbox[i].from]
      <4>1. PICK i \in 1 .. k : net' = [net EXCEPT !.host = inbox[i].from]
        BY <3>3
      <4>2. inbox[i].from \in Hosts
        <5>1. i \in 1 .. Len(inbox)
          BY <1>1, <1>3
        <5>2. inbox[i] \in Datagram
          BY <1>1, <5>1
        <5>3. QED BY <5>2 DEF Datagram
      <4>3. QED BY <3>1, <4>1, <4>2 DEF CoreState
    <3>4. QED BY <1>3, <3>2, <3>3 DEF LearnHost
  <2>3. Sound(drv', net', held', lapsed')
    BY <1>1, <1>3, <2>2 DEF Sound
  <2>4. QED BY <2>1, <2>3, NextInvIsSound
<1>4. QED BY <1>2, <1>3 DEF ServiceReady

LEMMA TickKeepsInv == ASSUME EthInv, Tick PROVE EthInv'
<1>1. Sound(drv, net, held, lapsed) /\ inbox \in Seq(Datagram) /\ Len(inbox) <= MaxInbox
  BY InvIsSound
<1>2. drv \in DriverState
  BY <1>1 DEF Sound
<1>3. /\ (drv.leaseAge + 1) % Word \in 0 .. Word - 1
      /\ Capped(drv.sinceRenew, RetryAfter) \in 0 .. RetryAfter
      /\ Capped(drv.elapsed, Timeout + 1) \in 0 .. Timeout + 1
  BY <1>2, EthAssumption DEF DriverState, Capped
<1>4. /\ drv' \in DriverState /\ drv'.state = drv.state /\ drv'.sock = drv.sock
      /\ drv'.renewing = drv.renewing /\ drv'.yi = drv.yi /\ drv'.sip = drv.sip
  BY <1>2, <1>3 DEF Tick, DriverState
<1>5. Sound(drv', net', held', lapsed')
  BY <1>1, <1>4 DEF Tick, Sound, Negotiating
<1>6. QED BY <1>1, <1>5, NextInvIsSound DEF Tick

LEMMA ArriveKeepsInv == ASSUME EthInv, NEW g \in Datagram, Arrive(g) PROVE EthInv'
<1>1. Sound(drv, net, held, lapsed) /\ inbox \in Seq(Datagram)
  BY InvIsSound
<1>2. inbox' \in Seq(Datagram) /\ Len(inbox') <= MaxInbox
  BY <1>1, EthAssumption DEF Arrive
<1>3. Sound(drv', net', held', lapsed')
  BY <1>1 DEF Arrive
<1>4. QED BY <1>2, <1>3, NextInvIsSound

LEMMA StepInv == EthInv /\ [Next]_vars => EthInv'
<1> SUFFICES ASSUME EthInv, [Next]_vars PROVE EthInv'
  OBVIOUS
<1>1. CASE Negotiate
  BY <1>1, NegotiateKeepsInv
<1>2. ASSUME NEW opens \in BOOLEAN, Conclude(opens) PROVE EthInv'
  BY <1>2, ConcludeKeepsInv
<1>3. CASE ServiceReady
  BY <1>3, ServiceReadyKeepsInv
<1>4. CASE Tick
  BY <1>4, TickKeepsInv
<1>5. ASSUME NEW g \in Datagram, Arrive(g) PROVE EthInv'
  BY <1>5, ArriveKeepsInv
<1>6. CASE UNCHANGED vars
  BY <1>6, InvIsSound, NextInvIsSound DEF vars
<1>7. QED BY <1>1, <1>2, <1>3, <1>4, <1>5, <1>6 DEF Next, Service

LEMMA InvHolds == Spec => []EthInv
BY InitInv, StepInv, PTL DEF Spec
-----------------------------------------------------------------------------

\* Types hold: no negotiation ends in a state that none of the code's leaves.
THEOREM TypeCorrect == Spec => []TypeOK
BY InvHolds, PTL DEF EthInv

\* The one socket of the chip never has two users: the application is down, and
\* sends nothing, from the begin of a negotiation to the reopening of its port.
THEOREM OneUserOfTheSocket == Spec => []SocketHasOneUser
BY InvHolds, PTL DEF EthInv

\* Under a lease no failed renewal has touched, the core's address is the one in
\* the chip and the one acknowledged last, whatever replies were mixed.
THEOREM UnderLease == Spec => []AnswersUnderLease
<1>1. EthInv => AnswersUnderLease
  BY DEF EthInv, LeaseInv, AnswersUnderLease
<1>2. QED BY <1>1, InvHolds, PTL

\* Without a lease it is the fixed one in both.
THEOREM FallbackInBoth == Spec => []StaticIsFallback
BY InvHolds, PTL DEF EthInv

\* No REQUEST asks for 0.0.0.0.
THEOREM RequestsName == Spec => []RequestsAnOffer
BY InvHolds, PTL DEF EthInv
===============================================================================
