------------------------------- MODULE Bridge -------------------------------
(***************************************************************************)
(* main.c: on_espnow_msg(), the consumer callback that joins the receive   *)
(* path to the status page and to the broker.                              *)
(*                                                                         *)
(* The receive path is the abstract FrameChannel, which EspnowPool is      *)
(* shown to implement; the broker side is MqttLink, driven by its own      *)
(* tasks while the callback runs.  One topic buffer is rewritten in place  *)
(* for every publish: the MAC is one value here, what follows it is kept   *)
(* cell by cell, since only a terminator says where a topic ends.          *)
(***************************************************************************)
EXTENDS Naturals, Sequences

CONSTANTS
  Capacity,       \* slots in the receive pool
  MaxFrames,      \* bound: frames on the air
  StartMayFail, MaxLinkCalls, MaxSessions,   \* as in MqttLink
  MacOf,          \* the sender of each frame
  KeyOf,          \* the bytes before the first tab in a frame; <<>> for no tab
  KeyMax          \* KEY_MAX

Suffix == <<"/", "r", "s", "s", "i">>
Nul == "NUL"

(* A key is any bytes at all, Nul among them.  The one thing the size of   *)
(* s_topic takes for granted: that "/rssi" is no longer than a slash and   *)
(* the longest key.                                                        *)
ASSUME BridgeAssumption ==
  /\ Capacity \in Nat \ {0} /\ MaxFrames \in Nat
  /\ StartMayFail \in BOOLEAN /\ MaxLinkCalls \in Nat /\ MaxSessions \in Nat
  /\ DOMAIN MacOf = 1..MaxFrames /\ DOMAIN KeyOf = 1..MaxFrames
  /\ \A f \in 1..MaxFrames : KeyOf[f] \in Seq(STRING)
  /\ KeyMax \in Nat /\ Len(Suffix) <= 1 + KeyMax

VARIABLES
  heard, held, given, phase, lost,                 \* FrameChannel
  handle, connected, started, led, evPc, online, calls,
  client, session, sessions, event, pub, broker,   \* MqttLink
  cb,           \* where the dispatch task is in on_espnow_msg()
  topic,        \* s_topic: the MAC in it, and what follows the MAC
  droppedSeen,  \* s_dropped_seen
  seen          \* history: the session that was up at the early return, or 0

poolVars == <<heard, held, given, phase, lost>>
linkVars == <<handle, connected, started, led, evPc, online, calls,
              client, session, sessions, event, broker>>
mqttVars == <<linkVars, pub>>
ownVars == <<cb, topic, droppedSeen, seen>>
vars == <<poolVars, mqttVars, ownVars>>

Frames == 1..MaxFrames
NoMac == "blank"
Macs == {MacOf[f] : f \in Frames}

(* s_topic behind the MAC, and the string that starts there. *)
TailLen == 1 + KeyMax + 1
Keys == {KeyOf[f] : f \in Frames}
Cells == {"/", Nul} \cup UNION {{k[i] : i \in DOMAIN k} : k \in Keys \cup {Suffix}}
CString(cells) ==
  SubSeq(cells, 1, CHOOSE n \in 0..Len(cells) - 1 :
                     cells[n + 1] = Nul /\ \A i \in 1..n : cells[i] # Nul)

Messages == [topic : [mac : Macs, suffix : Seq(Cells)],
             body : {"rssi", "payload"}, frame : Frames]

(* Each frame is published twice, so this never stops a publish. *)
MaxPublishes == 2 * MaxFrames

Pool == INSTANCE FrameChannel
Mqtt == INSTANCE MqttLink

TypeOK ==
  /\ Mqtt!TypeOK
  /\ heard \in 0..MaxFrames /\ lost \in 0..MaxFrames
  /\ held \in Seq(Frames) /\ given \in Seq(Frames)
  /\ phase \in {"idle", "reading", "given"}
  /\ cb \in {"wait", "web", "online", "rssi", "payload", "recycle"}
  /\ topic \in [mac : Macs \cup {NoMac}, tail : Seq(Cells)] /\ Len(topic.tail) = TailLen
  /\ droppedSeen \in 0..MaxFrames
  /\ seen \in 0..MaxSessions

Init ==
  /\ Pool!Init
  /\ Mqtt!Init
  /\ cb = "wait"
  /\ topic = [mac |-> NoMac, tail |-> [i \in 1..TailLen |-> Nul]]
  /\ droppedSeen = 0
  /\ seen = 0

-----------------------------------------------------------------------------
(* The air and the network, whatever the callback is doing. *)

Receive ==
  /\ heard < MaxFrames
  /\ Pool!Admit \/ Pool!Shed
  /\ UNCHANGED <<mqttVars, ownVars>>

Network ==
  /\ Mqtt!EventLoop \/ Mqtt!Client
  /\ UNCHANGED <<poolVars, ownVars>>

-----------------------------------------------------------------------------
(* on_espnow_msg(), in the dispatch task. *)

Frame == Head(held)

TakeFrame ==
  /\ Pool!Start
  /\ cb' = "web"
  /\ UNCHANGED <<mqttVars, topic, droppedSeen, seen>>

(* Fault: the page is fed only while the broker is there. *)
WebWhenOnline ==
  /\ cb = "web"
  /\ IF connected THEN Pool!Give
     ELSE phase' = "given" /\ UNCHANGED <<heard, held, given, lost>>
  /\ cb' = "online"
  /\ UNCHANGED <<mqttVars, topic, droppedSeen, seen>>

(* web_on_message(msg), first and unconditionally. *)
WebOnMessage ==
  /\ cb = "web"
  /\ Pool!Give
  /\ cb' = "online"
  /\ UNCHANGED <<mqttVars, topic, droppedSeen, seen>>

(* memcpy() into the cells behind the MAC. *)
Written(cells) == cells \o SubSeq(topic.tail, Len(cells) + 1, Len(topic.tail))

FirstPublish(first, half) ==
  /\ cb = "online"
  /\ IF connected
     THEN topic' = first /\ pub' = "check" /\ seen' = sessions /\ cb' = half
     ELSE UNCHANGED <<topic, pub>> /\ seen' = 0 /\ cb' = "recycle"
  /\ UNCHANGED <<poolVars, linkVars, droppedSeen>>

(* Fault: the MAC is left from the frame before. *)
CheckOnlineKeepingMac ==
  FirstPublish([topic EXCEPT !.tail = Written(Append(Suffix, Nul))], "rssi")

(* Fault: the RSSI is left out. *)
CheckOnlineNoRssi ==
  FirstPublish([mac |-> MacOf[Frame], tail |-> Written(<<"/">> \o KeyOf[Frame] \o <<Nul>>)],
               "payload")

(* The early return, or the MAC and "/rssi" written and the first publish. *)
CheckOnline ==
  FirstPublish([mac |-> MacOf[Frame], tail |-> Written(Append(Suffix, Nul))], "rssi")

(* mqtt_publish(), whichever of the two calls is under way. *)
Publishing ==
  /\ Mqtt!Publish([topic |-> [mac |-> topic.mac, suffix |-> CString(topic.tail)],
                   body |-> cb, frame |-> Frame])
  /\ UNCHANGED <<poolVars, ownVars>>

SecondPublish(cells) ==
  /\ cb = "rssi" /\ cb' = "payload"
  /\ pub = "done" /\ pub' = "check"
  /\ topic' = [topic EXCEPT !.tail = Written(cells)]
  /\ UNCHANGED <<poolVars, linkVars, droppedSeen, seen>>

(* Fault: the second publish repeats the first. *)
PublishPayloadRepeatsRssi ==
  /\ cb = "rssi" /\ pub = "done" /\ pub' = "check"
  /\ Len(broker) < MaxPublishes
  /\ UNCHANGED <<poolVars, linkVars, ownVars>>

(* Fault: the callback returns after the first publish. *)
PublishPayloadSkipped ==
  /\ cb = "rssi" /\ cb' = "recycle"
  /\ pub = "done" /\ pub' = "idle"
  /\ UNCHANGED <<poolVars, linkVars, topic, droppedSeen, seen>>

(* Fault: a key one longer than KEY_MAX counts. *)
UsableOneMore(key) == Len(key) > 0 /\ Len(key) <= KeyMax + 1

Usable(key) == Len(key) > 0 /\ Len(key) <= KeyMax

(* What follows the MAC becomes "/key", or ends at once. *)
PublishPayload ==
  SecondPublish(IF Usable(KeyOf[Frame]) THEN <<"/">> \o KeyOf[Frame] \o <<Nul>>
                ELSE <<Nul>>)

(* espnow_dropped() against s_dropped_seen, and the callback returns. *)
NoteDropped ==
  /\ cb = "payload"
  /\ pub = "done"
  /\ droppedSeen' = lost
  /\ pub' = "idle"
  /\ cb' = "recycle"
  /\ UNCHANGED <<poolVars, linkVars, topic, seen>>

Recycle ==
  /\ cb = "recycle"
  /\ Pool!Release
  /\ cb' = "wait"
  /\ UNCHANGED <<mqttVars, topic, droppedSeen, seen>>

OnEspnowMsg ==
  \/ WebOnMessage
  \/ CheckOnline
  \/ Publishing
  \/ PublishPayload
  \/ NoteDropped
  \/ Recycle

-----------------------------------------------------------------------------
Next == Receive \/ Network \/ TakeFrame \/ OnEspnowMsg

(* The dispatch task runs, esp-mqtt returns from a publish, the event loop *)
(* and handlers finish what they began.  Nobody promises a link or a       *)
(* session.                                                                *)
Fairness ==
  /\ WF_vars(TakeFrame \/ OnEspnowMsg)
  /\ WF_vars(Network /\ (Mqtt!OnMqttEvent \/ (Mqtt!EventLoop /\ evPc # "idle")))

Spec == Init /\ [][Next]_vars /\ Fairness

-----------------------------------------------------------------------------
(* Properties *)

(* What a C string can carry of a key: the bytes before its first Nul.     *)
UpToNul(key) ==
  SubSeq(key, 1, CHOOSE n \in 0..Len(key) :
                   /\ n = Len(key) \/ key[n + 1] = Nul
                   /\ \A i \in 1..n : key[i] # Nul)

(* The buffer written in place never mixes two frames: whatever returned   *)
(* early or failed before, and whatever the keys are, every message is on  *)
(* ${BASE}${MAC} of its own frame, the RSSI on /rssi, the payload on its   *)
(* key up to a Nul in it or, with no usable key, on nothing more (main.c   *)
(* lines 7-12).                                                            *)
RightTopic ==
  \A i \in DOMAIN broker : LET m == broker[i]  key == KeyOf[m.frame] IN
    /\ m.topic.mac = MacOf[m.frame]
    /\ m.topic.suffix = IF m.body = "rssi" THEN Suffix
                        ELSE IF Len(key) \in 1..KeyMax THEN <<"/">> \o UpToNul(key) ELSE <<>>

(* Every variable keeps its type, which for s_topic is that no write has   *)
(* left it, and every message has its topic.                               *)
TopicInv == TypeOK /\ RightTopic

(* The broker sees frames in the order of the air, each half at most once, *)
(* and the RSSI of a frame before its payload (main.c line 7: "link        *)
(* quality, published first").                                             *)
BrokerOrder ==
  \A i, j \in DOMAIN broker : i < j =>
    \/ broker[i].frame < broker[j].frame
    \/ broker[i].frame = broker[j].frame
       /\ broker[i].body = "rssi" /\ broker[j].body = "payload"

(* A session that outlives the callback gets both halves of the frame: a   *)
(* half can be missing only if the session was lost on the way.            *)
BothHalvesOrBroken ==
  cb = "recycle" /\ handle = "ready" /\ seen # 0 /\ session /\ sessions = seen =>
    \A b \in {"rssi", "payload"} :
      \E i \in DOMAIN broker : broker[i].frame = Frame /\ broker[i].body = b

(* A payload reaches the broker without its RSSI only in a later session   *)
(* than the one the callback started under.                                *)
LonePayload ==
  [][\A f \in Frames :
       (broker' # broker /\ broker'[Len(broker')].frame = f
        /\ broker'[Len(broker')].body = "payload"
        /\ ~\E i \in DOMAIN broker : broker[i].frame = f)
       => sessions > seen]_vars

(* Nothing the network does keeps a frame from the status page (main.c     *)
(* line 67: "First, and unconditionally") or a slot from the pool.         *)
Elements(q) == {q[i] : i \in DOMAIN q}
EveryFrameServed ==
  \A f \in Frames :
    f \in Elements(held) ~> f \in Elements(given) /\ f \notin Elements(held)

=============================================================================
