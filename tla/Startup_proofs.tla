--------------------------- MODULE Startup_proofs ---------------------------
(***************************************************************************)
(* For every set of leases and builds and any number of cable changes,     *)
(* addresses and restarts: the snapshot follows the PHY and the netif, the *)
(* services follow the address, and no LED is lit before led_init().       *)
(*                                                                         *)
(* What is true between two events is not inductive: an event in the queue *)
(* is news no handler has seen.  The invariant therefore speaks of the     *)
(* newest event of a kind (it is never behind the PHY or the netif) and of *)
(* what each half-done handler still owes.                                 *)
(***************************************************************************)
EXTENDS Startup, SequenceTheorems, TLAPS

Cable == {"connected", "disconnected"}
Bind == {"got_ip"}

(* No event of these kinds is in the queue; e is the last one that is.     *)
Quiet(q, kinds) == \A i \in 1..Len(q) : q[i].kind \notin kinds

Newest(q, kinds, e) ==
  \E i \in 1..Len(q) :
    /\ q[i] = e /\ e.kind \in kinds
    /\ \A j \in 1..Len(q) : j > i => q[j].kind \notin kinds

(* Only GOT_IP comes with an address. *)
Genuine(e) == e.kind = "got_ip" <=> e.ip # NoIp

EventInv == Genuine(now) /\ \A i \in 1..Len(queue) : Genuine(queue[i])

HandlerInv ==
  /\ at \in {"speed", "up"} => now.kind = "connected"
  /\ at \in {"down", "slow"} => now.kind = "disconnected"
  /\ at \in {"mask", "dns"} => now.kind = "got_ip"
  /\ at \in {"ip", "mqtt", "ota", "stopping"} => now.kind # "connected"
  /\ at # "idle" /\ now.kind = "disconnected" => ~netifUp
  /\ address # NoIp => netifUp

(* What the services owe the address. *)
ServiceInv ==
  /\ at \in {"idle", "speed", "up", "down", "slow", "ip"} =>
       /\ mqtt \/ refused <=> info.ip # NoIp
       /\ ~(mqtt /\ refused)
       /\ server => info.ip # NoIp
       /\ info.ip # NoIp => info.mask = info.ip
  /\ at \in {"mask", "dns", "mqtt", "ota", "stopping"} => (info.ip # NoIp <=> Online)
  /\ at \in {"mask", "dns", "mqtt", "ota", "stopping"} => info.ip = now.ip
  /\ at \in {"dns", "mqtt", "ota"} /\ Online => info.mask = info.ip
  /\ at = "ota" => (mqtt \/ refused <=> Online) /\ ~(mqtt /\ refused)
  /\ at = "stopping" => ~Online /\ ~mqtt /\ ~refused

(* The snapshot tells the PHY's link, but for what the handler is at. *)
LinkTold ==
  /\ at \in {"speed", "up"} => phy
  /\ at \in {"down", "slow"} => ~phy
  /\ at = "up" => info.speed # 0
  /\ at = "slow" => ~info.up
  /\ at \notin {"speed", "up", "down", "slow"} => info.up = phy /\ (info.speed # 0) = phy

PhyInv ==
  /\ Quiet(queue, Cable) => LinkTold
  /\ \A e \in Events : Newest(queue, Cable, e) => (e.kind = "connected" <=> phy)

(* It tells the netif's address, but for what the handler is at. *)
AddressTold ==
  /\ at \in {"ip", "mask", "dns"} => now.ip = address
  /\ at # "ip" => info.ip = address
  /\ at \notin {"ip", "mask"} => info.mask = address
  /\ at \notin {"ip", "mask", "dns"} => info.dns = address

AddressInv ==
  address # NoIp =>
    /\ resolver = address
    /\ Quiet(queue, Bind) => AddressTold
    /\ \A e \in Events : Newest(queue, Bind, e) => e.ip = address

(* Nothing runs before eth_start() has started the driver. *)
Early == {"nvs", "erase", "nvs again", "loop", "leds", "mdns", "mqtt"}

BootInv ==
  /\ boot # "up" => at = "idle" /\ queue = <<>> /\ ~netifUp /\ ~mqtt
  /\ main \in Early => boot = "driver" /\ ~radio /\ lit = {}
  /\ main \notin {"nvs", "erase", "nvs again", "loop", "leds"} => leds # "unset"

LinkIInv == TypeOK /\ EventInv /\ HandlerInv /\ ServiceInv /\ PhyInv /\ AddressInv
IInv == LinkIInv /\ MainTypeOK /\ LitAfterInit /\ BootInv

-----------------------------------------------------------------------------
(* Queues *)

LEMMA AppendLast ==
  ASSUME NEW q \in Seq(Events), NEW e \in Events, NEW kinds
  PROVE  /\ Append(q, e) \in Seq(Events)
         /\ Quiet(Append(q, e), kinds) => Quiet(q, kinds) /\ e.kind \notin kinds
         /\ \A f : Newest(Append(q, e), kinds, f) =>
                IF e.kind \in kinds THEN f = e ELSE Newest(q, kinds, f)
<1> DEFINE r == Append(q, e)
<1>1. /\ r \in Seq(Events) /\ Len(r) = Len(q) + 1 /\ r[Len(q) + 1] = e
      /\ Len(q) \in Nat /\ \A i \in 1..Len(q) : r[i] = q[i]
  BY AppendProperties
<1> HIDE DEF r
<1>2. \A i \in 1..Len(q) : i \in 1..Len(r)
  BY <1>1
<1>3. Len(q) + 1 \in 1..Len(r)
  BY <1>1
<1>4. Quiet(r, kinds) => Quiet(q, kinds) /\ e.kind \notin kinds
  BY <1>1, <1>2, <1>3 DEF Quiet
<1>5. ASSUME NEW f, Newest(r, kinds, f)
      PROVE  IF e.kind \in kinds THEN f = e ELSE Newest(q, kinds, f)
  <2>1. PICK i \in 1..Len(r) :
          /\ r[i] = f /\ f.kind \in kinds
          /\ \A j \in 1..Len(r) : j > i => r[j].kind \notin kinds
    BY <1>5 DEF Newest
  <2>2. CASE i = Len(q) + 1
    BY <1>1, <2>1, <2>2
  <2>3. CASE i \in 1..Len(q)
    <3>1. e.kind \notin kinds
      BY <1>1, <1>3, <2>1, <2>3
    <3>2. \A j \in 1..Len(q) : j > i => q[j].kind \notin kinds
      BY <1>1, <1>2, <2>1
    <3> QED BY <1>1, <2>1, <2>3, <3>1, <3>2 DEF Newest
  <2> QED BY <1>1, <2>1, <2>2, <2>3
<1> QED BY <1>1, <1>4, <1>5 DEF r

LEMMA TailLast ==
  ASSUME NEW q \in Seq(Events), q # <<>>, NEW kinds
  PROVE  /\ Tail(q) \in Seq(Events) /\ Head(q) \in Events
         /\ Quiet(Tail(q), kinds) =>
              Quiet(q, kinds) \/ Newest(q, kinds, Head(q))
         /\ \A f : Newest(Tail(q), kinds, f) => Newest(q, kinds, f)
<1> DEFINE r == Tail(q)
<1>1. /\ r \in Seq(Events) /\ Len(r) = Len(q) - 1 /\ Len(q) \in Nat \ {0}
      /\ \A i \in 1..Len(r) : r[i] = q[i + 1]
      /\ Head(q) = q[1] /\ Head(q) \in Events
  <2>1. r \in Seq(Events) /\ Len(r) = Len(q) - 1 /\ Head(q) \in Events
    BY HeadTailProperties
  <2>2. Len(q) \in Nat \ {0} /\ Head(q) = q[1]
    BY EmptySeq
  <2>3. \A i \in 1..Len(r) : r[i] = q[i + 1]
    BY HeadTailProperties
  <2> QED BY <2>1, <2>2, <2>3
<1> HIDE DEF r
<1>2. \A j \in 2..Len(q) : j - 1 \in 1..Len(r) /\ r[j - 1] = q[j]
  BY <1>1
<1>3. ASSUME Quiet(r, kinds) PROVE Quiet(q, kinds) \/ Newest(q, kinds, Head(q))
  <2>1. \A j \in 2..Len(q) : q[j].kind \notin kinds
    BY <1>2, <1>3 DEF Quiet
  <2>2. \A j \in 1..Len(q) : j = 1 \/ j \in 2..Len(q)
    BY <1>1
  <2>3. CASE q[1].kind \in kinds
    <3>1. 1 \in 1..Len(q) /\ \A j \in 1..Len(q) : j > 1 => q[j].kind \notin kinds
      BY <1>1, <2>1, <2>2
    <3> QED BY <1>1, <2>3, <3>1 DEF Newest
  <2>4. CASE q[1].kind \notin kinds
    BY <2>1, <2>2, <2>4 DEF Quiet
  <2> QED BY <2>3, <2>4
<1>4. ASSUME NEW f, Newest(r, kinds, f) PROVE Newest(q, kinds, f)
  <2>1. PICK i \in 1..Len(r) :
          /\ r[i] = f /\ f.kind \in kinds
          /\ \A j \in 1..Len(r) : j > i => r[j].kind \notin kinds
    BY <1>4 DEF Newest
  <2>2. i + 1 \in 1..Len(q) /\ q[i + 1] = f
    BY <1>1, <2>1
  <2>3. ASSUME NEW j \in 1..Len(q), j > i + 1 PROVE q[j].kind \notin kinds
    <3>1. j - 1 \in 1..Len(r) /\ j - 1 > i /\ r[j - 1] = q[j]
      BY <1>1, <1>2, <2>3
    <3> QED BY <2>1, <3>1
  <2> QED BY <2>1, <2>2, <2>3 DEF Newest
<1> QED BY <1>1, <1>3, <1>4 DEF r

LEMMA TailGenuine ==
  ASSUME NEW q \in Seq(Events), q # <<>>, \A i \in 1..Len(q) : Genuine(q[i])
  PROVE  Genuine(Head(q)) /\ \A i \in 1..Len(Tail(q)) : Genuine(Tail(q)[i])
<1>1. /\ Len(Tail(q)) = Len(q) - 1 /\ \A i \in 1..Len(Tail(q)) : Tail(q)[i] = q[i + 1]
      /\ Len(q) \in Nat \ {0} /\ Head(q) = q[1]
  BY HeadTailProperties, EmptySeq
<1> QED BY <1>1

LEMMA AppendGenuine ==
  ASSUME NEW q \in Seq(Events), NEW e \in Events, Genuine(e),
         \A i \in 1..Len(q) : Genuine(q[i])
  PROVE  \A i \in 1..Len(Append(q, e)) : Genuine(Append(q, e)[i])
BY AppendProperties

LEMMA EventFacts ==
  ASSUME NEW kind \in {"connected", "disconnected", "got_ip"}, NEW ip \in Addresses
  PROVE  /\ Event(kind, ip) \in Events
         /\ Event(kind, ip).kind = kind /\ Event(kind, ip).ip = ip
         /\ Genuine(Event(kind, ip)) <=> (kind = "got_ip" <=> ip # NoIp)
BY DEF Event, Events, Genuine

-----------------------------------------------------------------------------
(* What both events of the netif and of the PHY do to the newest ones. *)

LEMMA InitLink == Init => LinkIInv
<1> SUFFICES ASSUME Init PROVE LinkIInv
  OBVIOUS
<1>1. /\ Event("disconnected", NoIp) \in Events /\ Genuine(Event("disconnected", NoIp))
      /\ Event("disconnected", NoIp).kind = "disconnected" /\ NoIp \in Addresses
  BY EventFacts DEF Addresses
<1>2. TypeOK
  <2>1. /\ MaxPhyChanges \in Nat /\ MaxBinds \in Nat
        /\ 0 \in 0..MaxPhyChanges /\ 0 \in 0..MaxBinds
    BY EthAssumption DEF EthAssumption
  <2>2. queue \in Seq(Events) /\ now \in Events
    BY <1>1 DEF Init
  <2>3. info \in [ip : Addresses, mask : Addresses, dns : Addresses,
                  up : BOOLEAN, speed : {0, 10, 100}]
    BY <1>1 DEF Init
  <2>4. {client, mqtt, refused, server} \subseteq BOOLEAN /\ phy \in BOOLEAN
        /\ netifUp \in BOOLEAN
    BY DEF Init
  <2>5. configured \in Builds /\ boot = "driver" /\ changes = 0 /\ binds = 0
        /\ address = NoIp /\ resolver = NoIp /\ at = "idle"
    BY DEF Init
  <2> QED BY <1>1, <2>1, <2>2, <2>3, <2>4, <2>5 DEF TypeOK
<1>3. EventInv /\ HandlerInv /\ ServiceInv
  BY <1>1 DEF Init, EventInv, HandlerInv, ServiceInv
<1>4. PhyInv /\ AddressInv
  <2>1. \A e : ~Newest(queue, Cable, e)
    BY DEF Init, Newest
  <2>2. LinkTold
    BY DEF Init, LinkTold
  <2>3. AddressInv
    BY DEF Init, AddressInv
  <2> QED BY <2>1, <2>2, <2>3 DEF PhyInv
<1> QED BY <1>2, <1>3, <1>4 DEF LinkIInv

(* A step of app_main, or none: nothing the link is about changes. *)
LEMMA AsideLink ==
  ASSUME LinkIInv, configured' \in Builds, client' \in BOOLEAN,
         boot' \in {"driver", "netif", "handlers", "start", "up", "failed"},
         UNCHANGED <<phyVars, netVars, queue, at, now, info, serviceVars>>
  PROVE  LinkIInv'
<1>1. UNCHANGED <<phy, changes, netifUp, address, resolver, binds, queue, at, now, info,
                  mqtt, refused, server>>
  BY DEF phyVars, netVars, serviceVars
<1>2. TypeOK'
  BY <1>1 DEF LinkIInv, TypeOK
<1>3. EventInv' /\ HandlerInv' /\ ServiceInv'
  BY <1>1 DEF LinkIInv, EventInv, HandlerInv, ServiceInv, Online
<1>4. PhyInv' /\ AddressInv'
  BY <1>1 DEF LinkIInv, PhyInv, AddressInv, LinkTold, AddressTold
<1> QED BY <1>2, <1>3, <1>4 DEF LinkIInv

LEMMA PhyChangeLink == ASSUME LinkIInv, PhyChange PROVE LinkIInv'
<1> DEFINE e == Event(IF phy THEN "disconnected" ELSE "connected", NoIp)
<1>1. /\ e \in Events /\ Genuine(e) /\ e.kind \in Cable /\ e.kind \notin Bind
      /\ e.kind = "connected" <=> ~phy
  BY EventFacts DEF Addresses, Cable, Bind
<1> HIDE DEF e
<1>2. /\ phy' = ~phy /\ queue' = Append(queue, e)
      /\ changes' \in 0..MaxPhyChanges
      /\ UNCHANGED <<configured, boot, client, netifUp, address, resolver, binds, at, now,
                    info, mqtt, refused, server>>
  BY EthAssumption
     DEF PhyChange, setupVars, netVars, serviceVars, e, LinkIInv, TypeOK, EthAssumption
<1>3. queue \in Seq(Events) /\ phy \in BOOLEAN
  BY DEF LinkIInv, TypeOK
<1>4. queue' \in Seq(Events) /\ phy' \in BOOLEAN
  BY <1>1, <1>2, <1>3, AppendLast
<1>5. TypeOK'
  BY <1>2, <1>4 DEF LinkIInv, TypeOK
<1>6. EventInv'
  BY <1>1, <1>2, <1>3, AppendGenuine DEF LinkIInv, EventInv
<1>7. HandlerInv' /\ ServiceInv'
  BY <1>2 DEF LinkIInv, HandlerInv, ServiceInv, Online
<1>8. PhyInv'
  <2>1. ~Quiet(queue', Cable)
    BY <1>1, <1>2, <1>3, AppendLast
  <2>2. \A f : Newest(queue', Cable, f) => f = e
    BY <1>1, <1>2, <1>3, AppendLast
  <2> QED BY <1>1, <1>2, <1>3, <2>1, <2>2 DEF PhyInv
<1>9. AddressInv'
  <2>1. Quiet(queue', Bind) => Quiet(queue, Bind)
    BY <1>1, <1>2, <1>3, AppendLast
  <2>2. \A f : Newest(queue', Bind, f) => Newest(queue, Bind, f)
    BY <1>1, <1>2, <1>3, AppendLast
  <2> QED BY <1>2, <2>1, <2>2 DEF LinkIInv, AddressInv, AddressTold
<1> QED BY <1>5, <1>6, <1>7, <1>8, <1>9 DEF LinkIInv

LEMMA DhcpBindLink ==
  ASSUME LinkIInv, NEW ip \in Leases, DhcpBind(ip) PROVE LinkIInv'
<1> DEFINE e == Event("got_ip", ip)
<1>1. /\ e \in Events /\ Genuine(e) /\ e.kind \notin Cable /\ e.kind \in Bind
      /\ e.ip = ip /\ ip # NoIp /\ ip \in Addresses
  BY EventFacts, EthAssumption DEF Addresses, Cable, Bind, EthAssumption
<1> HIDE DEF e
<1>2. /\ queue' = Append(queue, e) /\ netifUp
      /\ address' = ip /\ resolver' = ip /\ binds' \in 0..MaxBinds
      /\ UNCHANGED <<configured, boot, client, phy, changes, netifUp, at, now, info, mqtt,
                    refused, server>>
  BY EthAssumption
     DEF DhcpBind, setupVars, phyVars, serviceVars, e, LinkIInv, TypeOK, EthAssumption
<1>3. queue \in Seq(Events)
  BY DEF LinkIInv, TypeOK
<1>4. queue' \in Seq(Events)
  BY <1>1, <1>2, <1>3, AppendLast
<1>5. TypeOK'
  BY <1>1, <1>2, <1>4 DEF LinkIInv, TypeOK
<1>6. EventInv'
  BY <1>1, <1>2, <1>3, AppendGenuine DEF LinkIInv, EventInv
<1>7. HandlerInv' /\ ServiceInv'
  BY <1>1, <1>2 DEF LinkIInv, HandlerInv, ServiceInv, Online
<1>8. PhyInv'
  <2>1. Quiet(queue', Cable) => Quiet(queue, Cable)
    BY <1>1, <1>2, <1>3, AppendLast
  <2>2. \A f : Newest(queue', Cable, f) => Newest(queue, Cable, f)
    BY <1>1, <1>2, <1>3, AppendLast
  <2> QED BY <1>2, <2>1, <2>2 DEF LinkIInv, PhyInv, LinkTold
<1>9. AddressInv'
  <2>1. ~Quiet(queue', Bind)
    BY <1>1, <1>2, <1>3, AppendLast
  <2>2. \A f : Newest(queue', Bind, f) => f = e
    BY <1>1, <1>2, <1>3, AppendLast
  <2> QED BY <1>1, <1>2, <2>1, <2>2 DEF AddressInv
<1> QED BY <1>5, <1>6, <1>7, <1>8, <1>9 DEF LinkIInv

LEMMA LeaseExpiresLink == ASSUME LinkIInv, LeaseExpires PROVE LinkIInv'
<1>1. /\ address' = NoIp
      /\ UNCHANGED <<configured, boot, client, phy, changes, netifUp, resolver, binds, queue,
                    at, now, info, mqtt, refused, server>>
  BY DEF LeaseExpires, setupVars, phyVars, serviceVars
<1>2. TypeOK'
  BY <1>1 DEF LinkIInv, TypeOK, Addresses
<1>3. EventInv' /\ HandlerInv' /\ ServiceInv'
  BY <1>1 DEF LinkIInv, EventInv, HandlerInv, ServiceInv, Online
<1>4. PhyInv' /\ AddressInv'
  BY <1>1 DEF LinkIInv, PhyInv, AddressInv, LinkTold
<1> QED BY <1>2, <1>3, <1>4 DEF LinkIInv

-----------------------------------------------------------------------------
(* The event loop takes an event: it is the newest, or there is a newer.   *)

LEMMA TakeConnectedLink == ASSUME LinkIInv, TakeConnected PROVE LinkIInv'
<1>1. /\ queue \in Seq(Events) /\ queue # <<>> /\ at = "idle"
      /\ Head(queue).kind = "connected" /\ now' = Head(queue) /\ at' = "speed"
      /\ netifUp' = TRUE
      /\ UNCHANGED <<boot, client, configured, phy, changes, binds, info, mqtt, refused, server>>
  BY DEF TakeConnected, LinkIInv, TypeOK, setupVars, phyVars, serviceVars
<1>2. /\ Tail(queue) \in Seq(Events) /\ now' \in Events
      /\ Quiet(Tail(queue), Cable) => Newest(queue, Cable, Head(queue))
      /\ \A f : Newest(Tail(queue), Cable, f) => Newest(queue, Cable, f)
      /\ Quiet(Tail(queue), Bind) => Quiet(queue, Bind)
      /\ \A f : Newest(Tail(queue), Bind, f) => Newest(queue, Bind, f)
  <2>1. ~Quiet(queue, Cable)
    <3>1. 1 \in 1..Len(queue) /\ Head(queue) = queue[1]
      BY <1>1, EmptySeq
    <3> QED BY <1>1, <3>1 DEF Quiet, Cable
  <2>2. ~Newest(queue, Bind, Head(queue))
    BY <1>1 DEF Newest, Bind
  <2> QED BY <1>1, <2>1, <2>2, TailLast
<1>3. Genuine(now') /\ \A i \in 1..Len(Tail(queue)) : Genuine(Tail(queue)[i])
  BY <1>1, TailGenuine DEF LinkIInv, EventInv
<1>4. HandlerInv' /\ ServiceInv'
  BY <1>1 DEF LinkIInv, HandlerInv, ServiceInv
<1>5. Newest(queue, Cable, Head(queue)) => phy
  BY <1>1, <1>2 DEF LinkIInv, PhyInv
<1>6. CASE configured = NoIp
  <2>1. queue' = Tail(queue) /\ UNCHANGED <<address, resolver>>
    BY <1>6 DEF TakeConnected
  <2>2. TypeOK' /\ EventInv'
    BY <1>1, <1>2, <1>3, <2>1 DEF LinkIInv, TypeOK, EventInv
  <2>3. PhyInv'
    BY <1>1, <1>2, <1>5, <2>1 DEF LinkIInv, PhyInv, LinkTold
  <2>4. AddressInv'
    BY <1>1, <1>2, <2>1 DEF LinkIInv, AddressInv, AddressTold
  <2> QED BY <1>4, <2>2, <2>3, <2>4 DEF LinkIInv
<1>7. CASE configured # NoIp
  <2> DEFINE e == Event("got_ip", configured)
  <2>1. /\ e \in Events /\ Genuine(e) /\ e.kind \notin Cable /\ e.kind \in Bind
        /\ e.ip = configured /\ configured \in Addresses
    BY <1>7, EventFacts, EthAssumption
       DEF Addresses, Cable, Bind, EthAssumption, LinkIInv, TypeOK
  <2>2. queue' = Append(Tail(queue), e) /\ address' = configured /\ resolver' = configured
    BY <1>7 DEF TakeConnected
  <2> HIDE DEF e
  <2>3. /\ queue' \in Seq(Events)
        /\ Quiet(queue', Cable) => Quiet(Tail(queue), Cable)
        /\ \A f : Newest(queue', Cable, f) => Newest(Tail(queue), Cable, f)
        /\ ~Quiet(queue', Bind) /\ \A f : Newest(queue', Bind, f) => f = e
    BY <1>2, <2>1, <2>2, AppendLast
  <2>4. TypeOK'
    BY <1>1, <1>2, <2>1, <2>2, <2>3 DEF LinkIInv, TypeOK
  <2>5. EventInv'
    BY <1>2, <1>3, <2>1, <2>2, AppendGenuine DEF EventInv
  <2>6. PhyInv'
    BY <1>1, <1>2, <1>5, <2>3 DEF LinkIInv, PhyInv, LinkTold
  <2>7. AddressInv'
    BY <2>1, <2>2, <2>3 DEF AddressInv
  <2> QED BY <1>4, <2>4, <2>5, <2>6, <2>7 DEF LinkIInv
<1> QED BY <1>6, <1>7

LEMMA TakeDisconnectedLink == ASSUME LinkIInv, TakeDisconnected PROVE LinkIInv'
<1>1. /\ queue \in Seq(Events) /\ queue # <<>> /\ at = "idle"
      /\ Head(queue).kind = "disconnected" /\ now' = Head(queue) /\ at' = "down"
      /\ netifUp' = FALSE /\ address' = NoIp /\ queue' = Tail(queue)
      /\ UNCHANGED <<boot, client, configured, phy, changes, resolver, binds, info, mqtt,
                    refused, server>>
  BY DEF TakeDisconnected, LinkIInv, TypeOK, setupVars, phyVars, serviceVars
<1>2. /\ Tail(queue) \in Seq(Events) /\ now' \in Events
      /\ Quiet(Tail(queue), Cable) => Newest(queue, Cable, Head(queue))
      /\ \A f : Newest(Tail(queue), Cable, f) => Newest(queue, Cable, f)
  <2>1. ~Quiet(queue, Cable)
    <3>1. 1 \in 1..Len(queue) /\ Head(queue) = queue[1]
      BY <1>1, EmptySeq
    <3> QED BY <1>1, <3>1 DEF Quiet, Cable
  <2> QED BY <1>1, <2>1, TailLast
<1>3. Genuine(now') /\ \A i \in 1..Len(Tail(queue)) : Genuine(Tail(queue)[i])
  BY <1>1, TailGenuine DEF LinkIInv, EventInv
<1>4. TypeOK' /\ EventInv'
  BY <1>1, <1>2, <1>3 DEF LinkIInv, TypeOK, EventInv, Addresses
<1>5. HandlerInv' /\ ServiceInv' /\ AddressInv'
  BY <1>1 DEF LinkIInv, HandlerInv, ServiceInv, AddressInv
<1>6. Newest(queue, Cable, Head(queue)) => ~phy
  BY <1>1, <1>2 DEF LinkIInv, PhyInv
<1>7. PhyInv'
  BY <1>1, <1>2, <1>6 DEF LinkIInv, PhyInv, LinkTold
<1> QED BY <1>4, <1>5, <1>7 DEF LinkIInv

LEMMA TakeGotIpLink == ASSUME LinkIInv, TakeGotIp PROVE LinkIInv'
<1>1. /\ queue \in Seq(Events) /\ queue # <<>> /\ at = "idle"
      /\ Head(queue).kind = "got_ip" /\ now' = Head(queue) /\ at' = "ip"
      /\ queue' = Tail(queue)
      /\ UNCHANGED <<boot, client, configured, phy, changes, netifUp, address, resolver, binds,
                    info, mqtt, refused, server>>
  BY DEF TakeGotIp, LinkIInv, TypeOK, setupVars, phyVars, netVars, serviceVars
<1>2. /\ Tail(queue) \in Seq(Events) /\ now' \in Events
      /\ Quiet(Tail(queue), Cable) => Quiet(queue, Cable)
      /\ \A f : Newest(Tail(queue), Cable, f) => Newest(queue, Cable, f)
      /\ Quiet(Tail(queue), Bind) => Newest(queue, Bind, Head(queue))
      /\ \A f : Newest(Tail(queue), Bind, f) => Newest(queue, Bind, f)
  <2>1. ~Quiet(queue, Bind)
    <3>1. 1 \in 1..Len(queue) /\ Head(queue) = queue[1]
      BY <1>1, EmptySeq
    <3> QED BY <1>1, <3>1 DEF Quiet, Bind
  <2>2. ~Newest(queue, Cable, Head(queue))
    BY <1>1 DEF Newest, Cable
  <2> QED BY <1>1, <2>1, <2>2, TailLast
<1>3. Genuine(now') /\ \A i \in 1..Len(Tail(queue)) : Genuine(Tail(queue)[i])
  BY <1>1, TailGenuine DEF LinkIInv, EventInv
<1>4. TypeOK' /\ EventInv'
  BY <1>1, <1>2, <1>3 DEF LinkIInv, TypeOK, EventInv
<1>5. HandlerInv' /\ ServiceInv'
  BY <1>1 DEF LinkIInv, HandlerInv, ServiceInv
<1>6. PhyInv'
  BY <1>1, <1>2 DEF LinkIInv, PhyInv, LinkTold
<1>7. AddressInv'
  BY <1>1, <1>2 DEF LinkIInv, AddressInv, AddressTold
<1> QED BY <1>4, <1>5, <1>6, <1>7 DEF LinkIInv

-----------------------------------------------------------------------------
(* A handler writes one more field. *)

WriteSteps ==
  \/ NoteSpeed \/ NoteUp \/ NoteDown \/ NoteSlow \/ WriteIp \/ WriteMask \/ WriteDns

Snapshots == [ip : Addresses, mask : Addresses, dns : Addresses,
              up : BOOLEAN, speed : {0, 10, 100}]

Wrote(from, to, ip, mask, dns, up, speed) ==
  /\ at = from /\ at' = to
  /\ info'.ip = ip /\ info'.mask = mask /\ info'.dns = dns
  /\ info'.up = up /\ info'.speed = speed

LEMMA WriteFacts ==
  ASSUME LinkIInv, WriteSteps
  PROVE  /\ UNCHANGED <<configured, boot, client, phy, changes, netifUp, address, resolver,
                       binds, queue, now, mqtt, refused, server>>
         /\ phy \in BOOLEAN /\ info \in Snapshots /\ info.up \in BOOLEAN
         /\ now.ip \in Addresses /\ resolver \in Addresses
         /\ now.kind \in {"connected", "disconnected", "got_ip"}
<1>1. UNCHANGED <<configured, boot, client, phy, changes, netifUp, address, resolver,
                  binds, queue, now, mqtt, refused, server>>
  BY DEF WriteSteps, NoteSpeed, NoteUp, NoteDown, NoteSlow, WriteIp, WriteMask, WriteDns,
         Write, setupVars, phyVars, netVars, serviceVars
<1>2. now \in Events /\ info \in Snapshots /\ phy \in BOOLEAN /\ resolver \in Addresses
  BY DEF LinkIInv, TypeOK, Snapshots
<1> QED BY <1>1, <1>2 DEF Events, Snapshots

LEMMA WriteCases ==
  ASSUME LinkIInv, WriteSteps
  PROVE  /\ info' \in Snapshots
         /\ \/ \E mbps \in {10, 100} :
                 Wrote("speed", "up", info.ip, info.mask, info.dns, info.up, mbps)
            \/ Wrote("up", "idle", info.ip, info.mask, info.dns, TRUE, info.speed)
            \/ Wrote("down", "slow", info.ip, info.mask, info.dns, FALSE, info.speed)
            \/ Wrote("slow", "ip", info.ip, info.mask, info.dns, info.up, 0)
            \/ /\ Wrote("ip", at', now.ip, info.mask, info.dns, info.up, info.speed)
               /\ at' = IF now.kind = "got_ip" THEN "mask" ELSE "mqtt"
            \/ Wrote("mask", "dns", info.ip, now.ip, info.dns, info.up, info.speed)
            \/ Wrote("dns", "mqtt", info.ip, info.mask, resolver, info.up, info.speed)
<1>1. info \in Snapshots /\ now.ip \in Addresses /\ resolver \in Addresses
  BY WriteFacts
<1>2. ASSUME NEW mbps \in {10, 100}, Write("speed", [info EXCEPT !.speed = mbps], "up")
      PROVE  /\ info' \in Snapshots
             /\ Wrote("speed", "up", info.ip, info.mask, info.dns, info.up, mbps)
  BY <1>1, <1>2 DEF Write, Wrote, Snapshots
<1>3. CASE NoteSpeed
  BY <1>2, <1>3 DEF NoteSpeed
<1>4. CASE NoteUp
  BY <1>1, <1>4 DEF NoteUp, Write, Wrote, Snapshots
<1>5. CASE NoteDown
  BY <1>1, <1>5 DEF NoteDown, Write, Wrote, Snapshots
<1>6. CASE NoteSlow
  BY <1>1, <1>6 DEF NoteSlow, Write, Wrote, Snapshots
<1>7. CASE WriteIp
  BY <1>1, <1>7 DEF WriteIp, Write, Wrote, Snapshots
<1>8. CASE WriteMask
  BY <1>1, <1>8 DEF WriteMask, Write, Wrote, Snapshots
<1>9. CASE WriteDns
  BY <1>1, <1>9 DEF WriteDns, Write, Wrote, Snapshots
<1> QED BY <1>3, <1>4, <1>5, <1>6, <1>7, <1>8, <1>9 DEF WriteSteps

LEMMA WriteLink == ASSUME LinkIInv, WriteSteps PROVE LinkIInv'
<1>1. /\ UNCHANGED <<configured, boot, client, phy, changes, netifUp, address, resolver,
                     binds, queue, now, mqtt, refused, server>>
      /\ phy \in BOOLEAN /\ info \in Snapshots /\ info.up \in BOOLEAN
      /\ now.kind \in {"connected", "disconnected", "got_ip"}
  BY WriteFacts
<1>2. info' \in Snapshots
  BY WriteCases
<1>3. \/ \E mbps \in {10, 100} :
           Wrote("speed", "up", info.ip, info.mask, info.dns, info.up, mbps)
      \/ Wrote("up", "idle", info.ip, info.mask, info.dns, TRUE, info.speed)
      \/ Wrote("down", "slow", info.ip, info.mask, info.dns, FALSE, info.speed)
      \/ Wrote("slow", "ip", info.ip, info.mask, info.dns, info.up, 0)
      \/ /\ Wrote("ip", at', now.ip, info.mask, info.dns, info.up, info.speed)
         /\ at' = IF now.kind = "got_ip" THEN "mask" ELSE "mqtt"
      \/ Wrote("mask", "dns", info.ip, now.ip, info.dns, info.up, info.speed)
      \/ Wrote("dns", "mqtt", info.ip, info.mask, resolver, info.up, info.speed)
  BY WriteCases
<1>4. TypeOK'
  <2>1. at' \in {"idle", "up", "slow", "ip", "mask", "dns", "mqtt"}
    BY <1>3 DEF Wrote
  <2> QED BY <1>1, <1>2, <2>1 DEF LinkIInv, TypeOK, Snapshots
<1>5. EventInv'
  BY <1>1 DEF LinkIInv, EventInv
<1>6. HandlerInv'
  <2>1. HandlerInv
    BY DEF LinkIInv
  <2>2. address # NoIp => netifUp
    BY <2>1 DEF HandlerInv
  <2> QED BY <1>1, <1>3, <2>1, <2>2 DEF HandlerInv, Wrote
<1>7. ServiceInv'
  <2>1. Genuine(now) /\ ServiceInv /\ Online' = Online
    BY <1>1 DEF LinkIInv, EventInv, Online
  <2> QED BY <1>1, <1>3, <2>1 DEF ServiceInv, Online, Genuine, Wrote
<1>8. PhyInv'
  <2>1. LinkTold => LinkTold'
    <3>1. CASE \E mbps \in {10, 100} :
                 Wrote("speed", "up", info.ip, info.mask, info.dns, info.up, mbps)
      BY <1>1, <3>1 DEF LinkTold, Wrote
    <3>2. CASE Wrote("up", "idle", info.ip, info.mask, info.dns, TRUE, info.speed)
      BY <1>1, <3>2 DEF LinkTold, Wrote
    <3>3. CASE Wrote("down", "slow", info.ip, info.mask, info.dns, FALSE, info.speed)
      BY <1>1, <3>3 DEF LinkTold, Wrote
    <3>4. CASE Wrote("slow", "ip", info.ip, info.mask, info.dns, info.up, 0)
      BY <1>1, <3>4 DEF LinkTold, Wrote
    <3>5. CASE /\ at \in {"ip", "mask", "dns"} /\ at' \in {"mask", "dns", "mqtt"}
               /\ info'.up = info.up /\ info'.speed = info.speed
      BY <1>1, <3>5 DEF LinkTold
    <3> QED BY <1>3, <3>1, <3>2, <3>3, <3>4, <3>5 DEF Wrote
  <2> QED BY <1>1, <2>1 DEF LinkIInv, PhyInv
<1>9. AddressInv'
  <2>1. address # NoIp => now.kind # "disconnected" \/ at = "idle"
    BY DEF LinkIInv, HandlerInv
  <2>2. HandlerInv
    BY DEF LinkIInv
  <2>3. ASSUME address # NoIp, resolver = address, AddressTold PROVE AddressTold'
    <3>1. (at = "ip" => now.kind = "got_ip") /\ at \notin {"down", "slow"}
      BY <1>1, <2>1, <2>2, <2>3 DEF HandlerInv
    <3> QED BY <1>1, <1>3, <2>3, <3>1 DEF AddressTold, Wrote
  <2> QED BY <1>1, <2>3 DEF LinkIInv, AddressInv
<1> QED BY <1>4, <1>5, <1>6, <1>7, <1>8, <1>9 DEF LinkIInv

(* The services are turned. *)
LEMMA MqttFollowsLink == ASSUME LinkIInv, MqttFollows PROVE LinkIInv'
<1>1. /\ UNCHANGED <<configured, boot, client, phy, changes, netifUp, address, resolver,
                     binds, queue, now, info, server>>
      /\ at = "mqtt" /\ at' = "ota"
  BY DEF MqttFollows, setupVars, phyVars, netVars
<1>2. /\ mqtt' \in BOOLEAN /\ refused' \in BOOLEAN
      /\ mqtt' \/ refused' <=> Online
      /\ ~(mqtt' /\ refused')
  BY DEF MqttFollows, LinkIInv, TypeOK
<1>3. TypeOK'
  BY <1>1, <1>2 DEF LinkIInv, TypeOK
<1>4. EventInv' /\ HandlerInv'
  BY <1>1 DEF LinkIInv, EventInv, HandlerInv
<1>5. ServiceInv'
  BY <1>1, <1>2 DEF LinkIInv, ServiceInv, Online
<1>6. PhyInv' /\ AddressInv'
  BY <1>1 DEF LinkIInv, PhyInv, AddressInv, LinkTold, AddressTold
<1> QED BY <1>3, <1>4, <1>5, <1>6 DEF LinkIInv

LEMMA OtaFollowsLink == ASSUME LinkIInv, OtaFollows \/ OtaStopped PROVE LinkIInv'
<1>1. /\ UNCHANGED <<configured, boot, client, phy, changes, netifUp, address, resolver,
                     binds, queue, now, info, mqtt, refused>>
      /\ \/ at = "ota" /\ Online /\ server' \in BOOLEAN /\ at' = "idle"
         \/ at = "ota" /\ ~Online /\ server' = TRUE /\ at' = "stopping"
         \/ at = "ota" /\ ~Online /\ server' = FALSE /\ at' = "idle"
         \/ at = "stopping" /\ server' = FALSE /\ at' = "idle"
  BY DEF OtaFollows, OtaStopped, setupVars, phyVars, netVars
<1>2. TypeOK'
  BY <1>1 DEF LinkIInv, TypeOK
<1>3. EventInv' /\ HandlerInv'
  BY <1>1 DEF LinkIInv, EventInv, HandlerInv
<1>4. ServiceInv'
  BY <1>1 DEF LinkIInv, ServiceInv, Online
<1>5. PhyInv' /\ AddressInv'
  BY <1>1 DEF LinkIInv, PhyInv, AddressInv, LinkTold, AddressTold
<1> QED BY <1>2, <1>3, <1>4, <1>5 DEF LinkIInv

LEMMA LinkPreserved ==
  ASSUME LinkIInv, Outside \/ EventLoop PROVE LinkIInv'
BY PhyChangeLink, DhcpBindLink, LeaseExpiresLink, TakeConnectedLink, TakeDisconnectedLink,
   TakeGotIpLink, WriteLink, MqttFollowsLink, OtaFollowsLink
   DEF Outside, EventLoop, WriteSteps

-----------------------------------------------------------------------------
(* app_main's steps, and the LEDs. *)

LEMMA InitIInv == PowerOn => IInv
<1> SUFFICES ASSUME PowerOn PROVE IInv
  OBVIOUS
<1>1. LinkIInv
  BY InitLink DEF PowerOn
<1>2. MainTypeOK /\ LitAfterInit
  <2>1. 0 \in 0..MaxAborts
    BY StartupAssumption DEF StartupAssumption
  <2> QED BY <2>1 DEF PowerOn, MainTypeOK, LitAfterInit
<1>3. BootInv
  BY DEF PowerOn, Init, BootInv, Early
<1> QED BY <1>1, <1>2, <1>3 DEF IInv

(* Of what the link is about, app_main changes how far eth_start() is and  *)
(* whether there is a client.                                              *)
LEMMA MainKeepsLink ==
  ASSUME IInv, AppMain
  PROVE  /\ UNCHANGED <<phyVars, netVars, queue, at, now, info, serviceVars, configured>>
         /\ client' \in BOOLEAN
         /\ boot' \in {"driver", "netif", "handlers", "start", "up", "failed"}
<1>1. client \in BOOLEAN /\ boot \in {"driver", "netif", "handlers", "start", "up", "failed"}
  BY DEF IInv, LinkIInv, TypeOK
<1>2. CASE UNCHANGED vars
  BY <1>1, <1>2 DEF vars, setupVars
<1>3. CASE MqttInit
  BY <1>1, <1>3 DEF MqttInit
<1>4. CASE EthStart
  BY <1>1, <1>4 DEF EthStart, InstallDriver, AttachNetif, RegisterHandlers, StartDriver, Stage
<1> QED BY <1>2, <1>3, <1>4
    DEF AppMain, NvsInit, NvsErase, Basics, LedInit, MdnsInit, StartEthernet, EspnowStart,
        Passes, Abort

LEMMA AbortCount ==
  ASSUME aborts \in 0..MaxAborts, NEW from, Abort(from)
  PROVE  aborts' \in 0..MaxAborts
BY StartupAssumption DEF Abort, StartupAssumption

LEMMA AppMainIInv == ASSUME IInv, AppMain PROVE IInv'
<1>1. LinkIInv'
  <2>1. configured' \in Builds
    BY MainKeepsLink DEF IInv, LinkIInv, TypeOK
  <2> QED BY <2>1, MainKeepsLink, AsideLink DEF IInv
<1>2. UNCHANGED <<queue, at, netifUp, mqtt>>
  BY MainKeepsLink DEF netVars, serviceVars
<1> DEFINE Calls == {"nvs", "erase", "nvs again", "loop", "mdns"}
<1>3. ASSUME NEW from \in Calls, Abort(from) PROVE MainTypeOK' /\ LitAfterInit' /\ BootInv'
  <2>1. /\ from \in Early /\ main = from /\ main' = "nvs" /\ boot' = boot
        /\ leds' = "unset" /\ UNCHANGED <<nvs, radio, lit>>
    BY <1>3 DEF Abort, Goes, Early, vars, setupVars
  <2>2. aborts' \in 0..MaxAborts
    BY <1>3, AbortCount DEF IInv, MainTypeOK
  <2> QED BY <1>2, <2>1, <2>2 DEF IInv, MainTypeOK, LitAfterInit, BootInv
<1>4. ASSUME NEW from, NEW to, Passes(from, to), from \in Early \cup {"eth"},
             to \in {"erase", "loop", "leds", "mqtt", "espnow"},
             from = "eth" <=> to = "espnow",
             from \in {"mdns", "eth"} <=> to \in {"mqtt", "espnow"},
             from # "mqtt"
      PROVE  MainTypeOK' /\ LitAfterInit' /\ BootInv'
  <2>1. /\ main = from /\ main' = to /\ boot' = boot
        /\ UNCHANGED <<nvs, aborts, leds, radio, lit>>
    BY <1>4 DEF Passes, Goes, vars, setupVars
  <2> QED BY <1>2, <1>4, <2>1 DEF IInv, MainTypeOK, LitAfterInit, BootInv, Early
<1>5. CASE NvsInit
  <2>1. "nvs" \in Calls /\ "nvs" \in Early
    BY DEF Early
  <2>2. CASE Abort("nvs")
    BY <1>1, <1>3, <2>1, <2>2 DEF IInv
  <2>3. CASE Passes("nvs", IF nvs = "stale" THEN "erase" ELSE "loop")
    BY <1>1, <1>4, <2>1, <2>3 DEF IInv
  <2> QED BY <1>5, <2>2, <2>3 DEF NvsInit
<1>6. CASE NvsErase
  <2>1. CASE Abort("erase")
    BY <1>1, <1>3, <2>1 DEF IInv
  <2>2. CASE main = "erase" /\ main' = "nvs again" /\ nvs' = "ok"
             /\ UNCHANGED <<vars, aborts, leds, radio, lit>>
    BY <1>1, <1>2, <2>2
       DEF IInv, MainTypeOK, LitAfterInit, BootInv, Early, vars, setupVars
  <2> QED BY <1>6, <2>1, <2>2 DEF NvsErase, Goes
<1>7. CASE Basics
  <2>1. {"nvs again", "loop"} \subseteq Calls /\ {"nvs again", "loop"} \subseteq Early
    BY DEF Early
  <2>2. CASE Abort("nvs again") \/ Abort("loop")
    BY <1>1, <1>3, <2>1, <2>2 DEF IInv
  <2>3. CASE Passes("nvs again", "loop") \/ Passes("loop", "leds")
    BY <1>1, <1>4, <2>1, <2>3 DEF IInv
  <2> QED BY <1>7, <2>2, <2>3 DEF Basics
<1>8. CASE LedInit
  <2>1. /\ main = "leds" /\ main' = "mdns" /\ boot' = boot /\ leds' \in {"set", "failed"}
        /\ UNCHANGED <<nvs, aborts, radio, lit>>
    BY <1>8 DEF LedInit, Goes, vars, setupVars
  <2> QED BY <1>1, <1>2, <2>1 DEF IInv, MainTypeOK, LitAfterInit, BootInv, Early
<1>9. CASE MdnsInit
  <2>1. "mdns" \in Calls /\ "mdns" \in Early
    BY DEF Early
  <2>2. CASE Abort("mdns")
    BY <1>1, <1>3, <2>1, <2>2 DEF IInv
  <2>3. CASE Passes("mdns", "mqtt")
    BY <1>1, <1>4, <2>1, <2>3 DEF IInv
  <2> QED BY <1>9, <2>2, <2>3 DEF MdnsInit
<1>10. CASE MqttInit
  <2>1. /\ main = "mqtt" /\ main' = "eth" /\ boot' = boot
        /\ UNCHANGED <<nvs, aborts, leds, radio, lit>>
    BY <1>10 DEF MqttInit, Goes
  <2> QED BY <1>1, <1>2, <2>1 DEF IInv, MainTypeOK, LitAfterInit, BootInv, Early
<1>11. CASE StartEthernet
  <2>1. CASE main = "eth" /\ EthStart /\ UNCHANGED mainVars
    <3>1. /\ UNCHANGED <<main, nvs, aborts, leds, radio, lit>>
          /\ boot # "up"
      BY <2>1 DEF mainVars, EthStart, InstallDriver, AttachNetif, RegisterHandlers, StartDriver,
                  Stage
    <3> QED BY <1>1, <1>2, <2>1, <3>1 DEF IInv, MainTypeOK, LitAfterInit, BootInv, Early
  <2>2. CASE Passes("eth", "espnow")
    BY <1>1, <1>4, <2>2 DEF IInv, Early
  <2> QED BY <1>11, <2>1, <2>2 DEF StartEthernet
<1>12. CASE EspnowStart
  <2>1. /\ main = "espnow" /\ main' \in {"espnow", "running"} /\ radio' \in BOOLEAN
        /\ boot' = boot /\ UNCHANGED <<nvs, aborts, leds, lit>>
    BY <1>12 DEF EspnowStart, IInv, MainTypeOK, vars, setupVars
  <2> QED BY <1>1, <1>2, <2>1 DEF IInv, MainTypeOK, LitAfterInit, BootInv, Early
<1> QED BY <1>5, <1>6, <1>7, <1>8, <1>9, <1>10, <1>11, <1>12 DEF AppMain

LEMMA LinkStepIInv == ASSUME IInv, Link PROVE IInv'
<1>1. LinkIInv'
  BY LinkPreserved DEF Link, IInv
<1>2. UNCHANGED <<main, nvs, aborts, leds, radio, lit>> /\ boot' = boot
  BY DEF Link, mainVars, Outside, EventLoop, PhyChange, DhcpBind, LeaseExpires, TakeConnected,
         TakeDisconnected, TakeGotIp, NoteSpeed, NoteUp, NoteDown, NoteSlow, WriteIp, WriteMask,
         WriteDns, Write, MqttFollows, OtaFollows, OtaStopped, setupVars
(* Each of these steps needs an event, an address or a started driver. *)
<1>3. boot = "up"
  <2>1. boot # "up" => at = "idle" /\ queue = <<>> /\ ~netifUp
    BY DEF IInv, BootInv
  <2>2. address # NoIp => netifUp
    BY DEF IInv, LinkIInv, HandlerInv
  <2> QED BY <2>1, <2>2
      DEF Link, Outside, EventLoop, PhyChange, DhcpBind, LeaseExpires, TakeConnected,
          TakeDisconnected, TakeGotIp, NoteSpeed, NoteUp, NoteDown, NoteSlow, WriteIp, WriteMask,
          WriteDns, Write, MqttFollows, OtaFollows, OtaStopped
<1>4. MainTypeOK' /\ LitAfterInit' /\ BootInv'
  BY <1>2, <1>3 DEF IInv, MainTypeOK, LitAfterInit, BootInv
<1> QED BY <1>1, <1>4 DEF IInv

LEMMA LightIInv == ASSUME IInv, NEW which \in {"mqtt", "espnow"}, Light(which) PROVE IInv'
<1>1. /\ UNCHANGED <<configured, client, boot, phyVars, netVars, queue, at, now, info, serviceVars,
                     main, nvs, aborts, leds, radio>>
      /\ lit' = lit \cup {which}
  BY DEF Light, vars, setupVars
<1>2. LinkIInv'
  BY <1>1, AsideLink DEF IInv, LinkIInv, TypeOK
<1>3. main \notin Early
  BY DEF Light, IInv, BootInv
<1>4. leds # "unset"
  BY <1>3 DEF IInv, BootInv, Early
<1>5. UNCHANGED <<queue, at, netifUp, mqtt>>
  BY <1>1 DEF netVars, serviceVars
<1> QED BY <1>1, <1>2, <1>3, <1>4, <1>5 DEF IInv, MainTypeOK, LitAfterInit, BootInv

LEMMA NextIInv == IInv /\ [Step]_allVars => IInv'
<1> SUFFICES ASSUME IInv, [Step]_allVars PROVE IInv'
  OBVIOUS
<1>1. CASE UNCHANGED allVars
  <2>1. /\ UNCHANGED <<configured, client, boot, phyVars, netVars, queue, at, now, info,
                       serviceVars, main, nvs, aborts, leds, radio, lit>>
    BY <1>1 DEF allVars, mainVars, vars, setupVars
  <2>2. LinkIInv'
    BY <2>1, AsideLink DEF IInv, LinkIInv, TypeOK
  <2>3. UNCHANGED <<queue, at, netifUp, mqtt>>
    BY <2>1 DEF netVars, serviceVars
  <2> QED BY <2>1, <2>2, <2>3 DEF IInv, MainTypeOK, LitAfterInit, BootInv
<1> QED BY <1>1, AppMainIInv, LinkStepIInv, LightIInv DEF Step

-----------------------------------------------------------------------------
(* However cable, DHCP and app_main interleave, from power-on: types, the  *)
(* link as the PHY has it, and no LED lit before led_init().               *)
THEOREM StartupInvAlways == StartupSpec => []StartupInv
<1>1. IInv => StartupInv
  <2> SUFFICES ASSUME IInv PROVE StartupInv
    OBVIOUS
  <2>1. Resting => Quiet(queue, Cable)
    BY DEF Resting, Quiet
  <2>2. Resting => RestTellsPhy
    BY <2>1 DEF IInv, LinkIInv, PhyInv, LinkTold, Resting, RestTellsPhy
  <2> QED BY <2>2 DEF IInv, LinkIInv, StartupInv, LinkInv, RestTellsPhy
<1> QED BY <1>1, InitIInv, NextIInv, PTL DEF StartupSpec

(* At rest the pages show the address the netif holds, with its netmask and *)
(* resolver, and the broker client was turned on for it.                    *)
THEOREM RestShowsAddressAlways == StartupSpec => []RestShowsAddress
<1>1. IInv => RestShowsAddress
  <2> SUFFICES ASSUME IInv, Resting, address # NoIp
               PROVE  /\ info.ip = address /\ info.mask = address /\ info.dns = address
                      /\ mqtt \/ refused
    BY DEF RestShowsAddress
  <2>1. Quiet(queue, Bind) /\ at = "idle"
    BY DEF Resting, Quiet
  <2>2. info.ip = address /\ info.mask = address /\ info.dns = address
    BY <2>1 DEF IInv, LinkIInv, AddressInv, AddressTold
  <2> QED BY <2>1, <2>2 DEF IInv, LinkIInv, ServiceInv
<1> QED BY <1>1, InitIInv, NextIInv, PTL DEF StartupSpec

(* Between two events broker client and server go with the address, and at *)
(* no moment does one run whose address is not written out, unless it is   *)
(* about to be stopped.                                                    *)
THEOREM ServicesFollowAddressAlways == StartupSpec => []ServicesFollowAddress
<1>1. IInv => ServicesFollowAddress
  BY DEF IInv, LinkIInv, TypeOK, HandlerInv, ServiceInv, Online, ServicesFollowAddress
<1> QED BY <1>1, InitIInv, NextIInv, PTL DEF StartupSpec
=============================================================================
