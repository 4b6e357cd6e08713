------------------------------ MODULE EthLink ------------------------------
(***************************************************************************)
(* eth.c and main.c's on_link_state(): the address snapshot s_info and     *)
(* the services that follow the link.  Startup puts app_main() around it.  *)
(*                                                                         *)
(* Both handlers run in the default event loop task, one event at a time   *)
(* and in the order the events were posted.  The PHY driver and the DHCP   *)
(* client post from tasks of their own, so an event may describe what is   *)
(* no longer so when its handler runs.  s_info has no lock and its fields  *)
(* are written one after the other, each a step here for what other tasks  *)
(* and the callback find half-way.                                         *)
(*                                                                         *)
(* The netif and its driver glue are outside the repository: the glue's    *)
(* handlers run before on_eth_event(), start DHCP (or, with CONFIG_IP,     *)
(* bind the configured address at once) on CONNECTED and unbind the        *)
(* address on DISCONNECTED.                                                *)
(***************************************************************************)
EXTENDS Naturals, Sequences

CONSTANTS
  Leases,         \* the addresses the netif may be given
  NoIp,           \* "0.0.0.0"
  Builds,         \* CONFIG_IP of the builds considered, NoIp for DHCP
  LeaseMayExpire, \* whether a DHCP lease can be lost while the link is up
  MaxPhyChanges,  \* bound: cable in or out
  MaxBinds        \* bound: addresses DHCP hands out

ASSUME EthAssumption ==
  /\ NoIp \notin Leases
  /\ Builds \subseteq Leases \cup {NoIp}
  /\ LeaseMayExpire \in BOOLEAN
  /\ MaxPhyChanges \in Nat /\ MaxBinds \in Nat

VARIABLES
  configured, \* CONFIG_IP of this build
  boot,       \* how far eth_start() has got
  phy,        \* whether the PHY has a link
  changes,    \* how often it has changed
  netifUp,    \* whether the glue has brought the netif up
  address,    \* the address the netif holds
  resolver,   \* the address whose lease set the netif's resolver
  binds,      \* how many addresses DHCP has handed out
  queue,      \* events posted and not yet handled
  at,         \* what the event loop task is about to do
  now,        \* the event it is handling
  info,       \* s_info
  client,     \* whether mqtt_init() left a client (s_client # NULL)
  mqtt,       \* whether it was started (mqtt.c's s_started)
  refused,    \* history: it was to be started and was not
  server      \* s_server # NULL

setupVars == <<configured, boot, client>>
phyVars == <<phy, changes>>
netVars == <<netifUp, address, resolver, binds>>
serviceVars == <<mqtt, refused, server>>
vars == <<setupVars, phyVars, netVars, queue, at, now, info, serviceVars>>

Addresses == Leases \cup {NoIp}
Event(kind, ip) == [kind |-> kind, ip |-> ip]
Events == [kind : {"connected", "disconnected", "got_ip"}, ip : Addresses]

TypeOK ==
  /\ configured \in Builds
  /\ boot \in {"driver", "netif", "handlers", "start", "up", "failed"}
  /\ phy \in BOOLEAN /\ changes \in 0..MaxPhyChanges
  /\ netifUp \in BOOLEAN /\ address \in Addresses /\ resolver \in Addresses
  /\ binds \in 0..MaxBinds
  /\ queue \in Seq(Events) /\ now \in Events
  /\ at \in {"idle", "speed", "up", "down", "slow", "ip", "mask",
             "dns", "mqtt", "ota", "stopping"}
  /\ info \in [ip : Addresses, mask : Addresses, dns : Addresses,
               up : BOOLEAN, speed : {0, 10, 100}]
  /\ {client, mqtt, refused, server} \subseteq BOOLEAN

Init ==
  /\ configured \in Builds /\ boot = "driver"
  /\ phy = FALSE /\ changes = 0
  /\ netifUp = FALSE /\ address = NoIp /\ resolver = NoIp /\ binds = 0
  /\ queue = <<>> /\ at = "idle" /\ now = Event("disconnected", NoIp)
  /\ info = [ip |-> NoIp, mask |-> NoIp, dns |-> NoIp,
             up |-> FALSE, speed |-> 0]
  /\ client \in BOOLEAN
  /\ mqtt = FALSE /\ refused = FALSE /\ server = FALSE

-----------------------------------------------------------------------------
(* eth_start(), in app_main.  A stage that fails returns at once, which     *)
(* app_main logs and survives: the driver then never runs.                  *)

Stage(from, to) ==
  /\ boot = from
  /\ boot' \in {to, "failed"}
  /\ UNCHANGED <<configured, client, phyVars, netVars, queue, at, now, info, serviceVars>>

(* The SPI bus, the interrupt service, MAC, PHY and the board's address. *)
InstallDriver == Stage("driver", "netif")

(* The netif with its host name, perhaps a configured address, and the glue. *)
AttachNetif == Stage("netif", "handlers")

RegisterHandlers == Stage("handlers", "start")

(* The speed pinned, perhaps, then the driver started. *)
StartDriver == Stage("start", "up")

EthStart == InstallDriver \/ AttachNetif \/ RegisterHandlers \/ StartDriver

-----------------------------------------------------------------------------
(* The PHY and the DHCP client, outside the repository. *)

PhyChange ==
  /\ boot = "up"
  /\ changes < MaxPhyChanges
  /\ phy' = ~phy
  /\ changes' = changes + 1
  /\ queue' = Append(queue, Event(IF phy THEN "disconnected" ELSE "connected", NoIp))
  /\ UNCHANGED <<setupVars, netVars, at, now, info, serviceVars>>

DhcpBind(ip) ==
  /\ configured = NoIp
  /\ netifUp
  /\ ip # address
  /\ binds < MaxBinds
  /\ address' = ip /\ resolver' = ip
  /\ binds' = binds + 1
  /\ queue' = Append(queue, Event("got_ip", ip))
  /\ UNCHANGED <<setupVars, phyVars, netifUp, at, now, info, serviceVars>>

(* IP_EVENT_ETH_LOST_IP follows, which eth_start() registers no handler for. *)
LeaseExpires ==
  /\ LeaseMayExpire /\ configured = NoIp
  /\ address # NoIp
  /\ address' = NoIp
  /\ UNCHANGED <<setupVars, phyVars, netifUp, resolver, binds, queue, at, now, info, serviceVars>>

Outside ==
  \/ PhyChange
  \/ \E ip \in Leases : DhcpBind(ip)
  \/ LeaseExpires

-----------------------------------------------------------------------------
(* The event loop task takes an event: the glue's handler, then ours. *)

TakeConnected ==
  /\ at = "idle" /\ queue # <<>> /\ Head(queue).kind = "connected"
  /\ now' = Head(queue)
  /\ netifUp' = TRUE
  /\ IF configured = NoIp
       THEN /\ queue' = Tail(queue)
            /\ UNCHANGED <<address, resolver>>
       ELSE /\ queue' = Append(Tail(queue), Event("got_ip", configured))
            /\ address' = configured /\ resolver' = configured
  /\ at' = "speed"
  /\ UNCHANGED <<setupVars, phyVars, binds, info, serviceVars>>

TakeDisconnected ==
  /\ at = "idle" /\ queue # <<>> /\ Head(queue).kind = "disconnected"
  /\ now' = Head(queue) /\ queue' = Tail(queue)
  /\ netifUp' = FALSE /\ address' = NoIp
  /\ at' = "down"
  /\ UNCHANGED <<setupVars, phyVars, resolver, binds, info, serviceVars>>

(* Fault: a second address is taken for news already known. *)
TakeGotIpOnce ==
  /\ at = "idle" /\ queue # <<>> /\ Head(queue).kind = "got_ip"
  /\ now' = Head(queue) /\ queue' = Tail(queue)
  /\ at' = IF mqtt THEN "idle" ELSE "ip"
  /\ UNCHANGED <<setupVars, phyVars, netVars, info, serviceVars>>

(* Fault: the callback comes before the fields. *)
TakeGotIpCallingBack ==
  /\ at = "idle" /\ queue # <<>> /\ Head(queue).kind = "got_ip"
  /\ now' = Head(queue) /\ queue' = Tail(queue)
  /\ at' = "ip"
  /\ mqtt' \in IF client THEN {mqtt, TRUE} ELSE {mqtt}
  /\ refused' = ~mqtt'
  /\ UNCHANGED <<setupVars, phyVars, netVars, info, server>>

TakeGotIp ==
  /\ at = "idle" /\ queue # <<>> /\ Head(queue).kind = "got_ip"
  /\ now' = Head(queue) /\ queue' = Tail(queue)
  /\ at' = "ip"
  /\ UNCHANGED <<setupVars, phyVars, netVars, info, serviceVars>>

(* A handler writes one more field of s_info and goes on to `next'. *)
Write(from, record, next) ==
  /\ at = from
  /\ info' = record
  /\ at' = next
  /\ UNCHANGED <<setupVars, phyVars, netVars, queue, now, serviceVars>>

(* on_eth_event(), CONNECTED.  The duplex goes the way of the speed. *)
NoteSpeed ==
  \E mbps \in {10, 100} : Write("speed", [info EXCEPT !.speed = mbps], "up")

NoteUp == Write("up", [info EXCEPT !.up = TRUE], "idle")

(* DISCONNECTED. *)
(* Fault: the link is not noted as down. *)
NoteDownForgotten == Write("down", info, "slow")

NoteDown == Write("down", [info EXCEPT !.up = FALSE], "slow")

NoteSlow == Write("slow", [info EXCEPT !.speed = 0], "ip")

(* The new address on GOT_IP, "0.0.0.0" on DISCONNECTED, whose events carry *)
(* NoIp.                                                                    *)
WriteIp ==
  Write("ip", [info EXCEPT !.ip = now.ip],
        IF now.kind = "got_ip" THEN "mask" ELSE "mqtt")

(* The gateway goes the way of the netmask. *)
WriteMask == Write("mask", [info EXCEPT !.mask = now.ip], "dns")

(* Read from the netif, not from the event. *)
WriteDns == Write("dns", [info EXCEPT !.dns = resolver], "mqtt")

(* s_cb(online): on_link_state() turns the services. *)
Online == now.kind = "got_ip"

(* mqtt_set_online(): without a client it returns, and a start may fail.   *)
MqttFollows ==
  /\ at = "mqtt"
  /\ mqtt' \in IF ~Online THEN {FALSE} ELSE IF client THEN {mqtt, TRUE} ELSE {mqtt}
  /\ refused' = (Online /\ ~mqtt')
  /\ at' = "ota"
  /\ UNCHANGED <<setupVars, phyVars, netVars, queue, now, info, server>>

(* httpd_start() may fail; httpd_stop() waits for the server's task. *)
OtaFollows ==
  /\ at = "ota"
  /\ \/ Online /\ server' = TRUE /\ at' = "idle"
     \/ Online /\ ~server /\ server' = FALSE /\ at' = "idle"
     \/ ~Online /\ server /\ server' = TRUE /\ at' = "stopping"
     \/ ~Online /\ ~server /\ server' = FALSE /\ at' = "idle"
  /\ UNCHANGED <<setupVars, phyVars, netVars, queue, now, info, mqtt, refused>>

OtaStopped ==
  /\ at = "stopping"
  /\ server' = FALSE
  /\ at' = "idle"
  /\ UNCHANGED <<setupVars, phyVars, netVars, queue, now, info, mqtt, refused>>

EventLoop ==
  \/ TakeConnected \/ NoteSpeed \/ NoteUp
  \/ TakeDisconnected \/ NoteDown \/ NoteSlow
  \/ TakeGotIp \/ WriteIp \/ WriteMask \/ WriteDns
  \/ MqttFollows \/ OtaFollows \/ OtaStopped

-----------------------------------------------------------------------------
Next == EthStart \/ Outside \/ EventLoop

(* The event loop task is never starved and httpd_stop() returns. *)
Spec == Init /\ [][Next]_vars /\ WF_vars(EventLoop)

-----------------------------------------------------------------------------
Resting == at = "idle" /\ queue = <<>>

(* Whatever the cable did meanwhile, once every event is handled the pages  *)
(* show the link as the PHY has it: every change posts its own event and    *)
(* the handlers run in that order.                                          *)
RestTellsPhy ==
  Resting => info.up = phy /\ (info.speed # 0) = phy

(* Every variable keeps its type and the link is shown as it is. *)
LinkInv == TypeOK /\ RestTellsPhy

(* Once every event is handled and the netif has an address, the snapshot   *)
(* is that address's own: its netmask and its resolver with it, and the     *)
(* broker client was turned on.  An address that replaces another one and   *)
(* one that follows a short loss of link included.                          *)
RestShowsAddress ==
  Resting /\ address # NoIp =>
    /\ info.ip = address /\ info.mask = address /\ info.dns = address
    /\ mqtt \/ refused

(* Between two events the services and the snapshot agree: the broker       *)
(* client runs exactly if there is an address, unless it could not be       *)
(* started when that came, and the server runs only then.  In the middle of *)
(* one too, no service runs before its address is written out: the fields   *)
(* come before the callback (eth.c:128), but for the netmask of an address  *)
(* that replaces another and for a service about to be stopped.             *)
ServicesFollowAddress ==
  /\ at = "idle" => /\ mqtt \/ refused <=> info.ip # NoIp
                    /\ ~(mqtt /\ refused)
                    /\ server => info.ip # NoIp
  /\ mqtt \/ server => \/ info.ip # NoIp /\ (at = "mask" \/ info.mask = info.ip)
                       \/ ~Online /\ at \in {"mqtt", "ota", "stopping"}

-----------------------------------------------------------------------------
(* What a comment says and the code does not keep. *)

(* eth.h:45: the address is "0.0.0.0" while the link has none. *)
LostReadsZero == Resting /\ address = NoIp => info.ip = NoIp

=============================================================================
