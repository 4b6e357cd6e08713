------------------------------ MODULE MqttLink ------------------------------
(***************************************************************************)
(* mqtt.c: the broker connection, s_connected, s_started and LED_MQTT.     *)
(*                                                                         *)
(* Three tasks meet here:                                                  *)
(*   - the event loop task calls mqtt_set_online() as the link goes up     *)
(*     and down;                                                           *)
(*   - the task of the esp-mqtt client runs on_mqtt_event();               *)
(*   - the ESP-NOW dispatch task calls mqtt_publish().                     *)
(*                                                                         *)
(* esp-mqtt itself is outside the repository.  It is modelled by what the  *)
(* code relies on: start creates its task or fails, stop returns only when *)
(* that task has ended, events are delivered one at a time under the       *)
(* client's lock, a publish that cannot be written takes the session down  *)
(* and delivers the event in the publisher's own task.                     *)
(***************************************************************************)
EXTENDS Naturals, Sequences

CONSTANTS
  Messages,       \* what may be published
  StartMayFail,   \* whether esp_mqtt_client_start() can fail
  MaxLinkCalls,   \* bound: calls of mqtt_set_online()
  MaxSessions,    \* bound: sessions the broker accepts
  MaxPublishes    \* bound: messages the broker takes

ASSUME LinkAssumption ==
  /\ StartMayFail \in BOOLEAN
  /\ MaxLinkCalls \in Nat /\ MaxSessions \in Nat /\ MaxPublishes \in Nat

VARIABLES
  handle,     \* what mqtt_init() left: s_client and its event handler
  connected,  \* s_connected
  started,    \* s_started
  led,        \* LED_MQTT
  evPc,       \* where the event loop task is in mqtt_set_online()
  online,     \* the argument of its latest call
  calls,      \* how many calls it has made
  client,     \* the esp-mqtt client's task
  session,    \* whether the client holds a session with the broker
  sessions,   \* how many it has had
  event,      \* the step on_mqtt_event() is about to take
  pub,        \* where the dispatch task is in mqtt_publish()
  broker      \* what the broker has received, in order

evVars == <<evPc, online, calls>>
libVars == <<client, session, sessions>>
vars == <<handle, connected, started, led, evVars, libVars, event, pub, broker>>

TypeOK ==
  /\ handle \in {"null", "mute", "ready"}
  /\ connected \in BOOLEAN /\ started \in BOOLEAN /\ led \in BOOLEAN
  /\ evPc \in {"idle", "start", "mark", "stop", "wait", "unset", "dark", "unmark"}
  /\ online \in BOOLEAN /\ calls \in 0..MaxLinkCalls
  /\ client \in {"off", "running", "stopping"}
  /\ session \in BOOLEAN /\ sessions \in 0..MaxSessions
  /\ event \in {"none", "connected", "light", "disconnected", "douse"}
  /\ pub \in {"idle", "check", "lib", "abort", "done"}
  /\ broker \in Seq(Messages)

(* mqtt_init() ran before the link was started: no client at all, a client *)
(* whose handler could not be registered, or one that reports its events.  *)
Init ==
  /\ handle \in {"null", "mute", "ready"}
  /\ connected = FALSE /\ started = FALSE /\ led = FALSE
  /\ evPc = "idle" /\ online = FALSE /\ calls = 0
  /\ client = "off" /\ session = FALSE /\ sessions = 0
  /\ event = "none"
  /\ pub = "idle"
  /\ broker = <<>>

-----------------------------------------------------------------------------
(* mqtt_set_online(), in the event loop task. *)

SetOnline(on) ==
  /\ evPc = "idle"
  /\ calls < MaxLinkCalls
  /\ calls' = calls + 1
  /\ online' = on
  /\ evPc' = IF handle = "null" \/ on = started THEN "idle"
             ELSE IF on THEN "start" ELSE "stop"
  /\ UNCHANGED <<handle, connected, started, led, libVars, event, pub, broker>>

StartClient ==
  /\ evPc = "start"
  /\ \/ client' = "running" /\ evPc' = "mark"
     \/ StartMayFail /\ client' = client /\ evPc' = "idle"
  /\ UNCHANGED <<handle, connected, started, led, online, calls, session,
                 sessions, event, pub, broker>>

MarkStarted ==
  /\ evPc = "mark"
  /\ started' = TRUE
  /\ evPc' = "idle"
  /\ UNCHANGED <<handle, connected, led, online, calls, libVars, event, pub, broker>>

(* esp_mqtt_client_stop(): ask the client's task to end ... *)
StopClient ==
  /\ evPc = "stop"
  /\ client' = "stopping"
  /\ session' = FALSE
  /\ evPc' = "wait"
  /\ UNCHANGED <<handle, connected, started, led, online, calls, sessions,
                 event, pub, broker>>

(* Fault: esp_mqtt_client_stop() is not waited for. *)
ClientStoppedAtOnce ==
  /\ evPc = "wait"
  /\ client' = "off" /\ session' = FALSE
  /\ evPc' = "unset"
  /\ UNCHANGED <<handle, connected, started, led, online, calls, sessions,
                 event, pub, broker>>

(* ... and wait until it has, an event it is delivering included. *)
ClientStopped ==
  /\ evPc = "wait"
  /\ event = "none"
  /\ client' = "off"
  /\ session' = FALSE
  /\ evPc' = "unset"
  /\ UNCHANGED <<handle, connected, started, led, online, calls, sessions,
                 event, pub, broker>>

ClearConnected ==
  /\ evPc = "unset"
  /\ connected' = FALSE
  /\ evPc' = "dark"
  /\ UNCHANGED <<handle, started, led, online, calls, libVars, event, pub, broker>>

ClearLed ==
  /\ evPc = "dark"
  /\ led' = FALSE
  /\ evPc' = "unmark"
  /\ UNCHANGED <<handle, connected, started, online, calls, libVars, event, pub, broker>>

(* Fault: s_started is not reset. *)
MarkStoppedForgotten ==
  /\ evPc = "unmark"
  /\ evPc' = "idle"
  /\ UNCHANGED <<handle, connected, started, led, online, calls, libVars, event, pub, broker>>

MarkStopped ==
  /\ evPc = "unmark"
  /\ started' = FALSE
  /\ evPc' = "idle"
  /\ UNCHANGED <<handle, connected, led, online, calls, libVars, event, pub, broker>>

EventLoop ==
  \/ \E on \in BOOLEAN : SetOnline(on)
  \/ StartClient
  \/ MarkStarted
  \/ StopClient
  \/ ClientStopped
  \/ ClearConnected
  \/ ClearLed
  \/ MarkStopped

-----------------------------------------------------------------------------
(* The esp-mqtt client (external), and the event handler it calls.  The    *)
(* client reconnects by itself for as long as its task lives, and one that *)
(* was asked to stop may still be in the middle of doing so.               *)

Deliver(e) == event' = IF handle = "ready" THEN e ELSE "none"

SessionUp ==
  /\ client # "off"
  /\ ~session
  /\ event = "none"
  /\ sessions < MaxSessions
  /\ session' = TRUE
  /\ sessions' = sessions + 1
  /\ Deliver("connected")
  /\ UNCHANGED <<handle, connected, started, led, evVars, client, pub, broker>>

SessionLost ==
  /\ client # "off"
  /\ session
  /\ event = "none"
  /\ session' = FALSE
  /\ Deliver("disconnected")
  /\ UNCHANGED <<handle, connected, started, led, evVars, client, sessions, pub, broker>>

(* Fault: MQTT_EVENT_DISCONNECTED leaves the flag alone. *)
HandleFlagUpOnly ==
  /\ event \in {"connected", "disconnected"}
  /\ connected' = (connected \/ event = "connected")
  /\ event' = IF event = "connected" THEN "light" ELSE "douse"
  /\ UNCHANGED <<handle, started, led, evVars, libVars, pub, broker>>

(* on_mqtt_event(): the flag first, then the LED. *)
HandleFlag ==
  /\ event \in {"connected", "disconnected"}
  /\ connected' = (event = "connected")
  /\ event' = IF event = "connected" THEN "light" ELSE "douse"
  /\ UNCHANGED <<handle, started, led, evVars, libVars, pub, broker>>

HandleLed ==
  /\ event \in {"light", "douse"}
  /\ led' = (event = "light")
  /\ event' = "none"
  /\ UNCHANGED <<handle, connected, started, evVars, libVars, pub, broker>>

OnMqttEvent == HandleFlag \/ HandleLed

-----------------------------------------------------------------------------
(* mqtt_publish(), in the dispatch task: "check" then "lib" then "done". *)

PublishCheck ==
  /\ pub = "check"
  /\ pub' = IF connected THEN "lib" ELSE "done"
  /\ UNCHANGED <<handle, connected, started, led, evVars, libVars, event, broker>>

(* esp_mqtt_client_publish(): taken by the broker, refused because there   *)
(* is no session any more, or cut off while it was being written.          *)
PublishSent(m) ==
  /\ pub = "lib"
  /\ event = "none"
  /\ session
  /\ Len(broker) < MaxPublishes
  /\ broker' = Append(broker, m)
  /\ pub' = "done"
  /\ UNCHANGED <<handle, connected, started, led, evVars, libVars, event>>

PublishRefused ==
  /\ pub = "lib"
  /\ event = "none"
  /\ ~session
  /\ pub' = "done"
  /\ UNCHANGED <<handle, connected, started, led, evVars, libVars, event, broker>>

PublishCut ==
  /\ pub = "lib"
  /\ event = "none"
  /\ session
  /\ session' = FALSE
  /\ Deliver("disconnected")
  /\ pub' = "abort"
  /\ UNCHANGED <<handle, connected, started, led, evVars, client, sessions, broker>>

PublishAborted ==
  /\ pub = "abort"
  /\ event = "none"
  /\ pub' = "done"
  /\ UNCHANGED <<handle, connected, started, led, evVars, libVars, event, broker>>

Publish(m) ==
  \/ PublishCheck
  \/ PublishSent(m)
  \/ PublishRefused
  \/ PublishCut
  \/ PublishAborted

(* Whoever publishes, when nothing more is known of it. *)
Publisher ==
  \/ /\ \/ pub = "idle" /\ pub' = "check"
        \/ pub = "done" /\ pub' = "idle"
     /\ UNCHANGED <<handle, connected, started, led, evVars, libVars, event, broker>>
  \/ \E m \in Messages : Publish(m)

-----------------------------------------------------------------------------
Client == SessionUp \/ SessionLost \/ OnMqttEvent

Next == EventLoop \/ Client \/ Publisher

(* The event loop task and a handler once begun run on; nobody promises a  *)
(* link, a session or a publish.                                           *)
Fairness ==
  /\ WF_vars(StartClient \/ MarkStarted \/ StopClient \/ ClientStopped
             \/ ClearConnected \/ ClearLed \/ MarkStopped)
  /\ WF_vars(OnMqttEvent)

Spec == Init /\ [][Next]_vars /\ Fairness

-----------------------------------------------------------------------------
(* Properties *)

(* "Stopping the client does not deliver MQTT_EVENT_DISCONNECTED, so the   *)
(* LED has to be cleared here" (mqtt.c line 77): once mqtt_set_online()    *)
(* has taken the client down, no handler that was still running can light  *)
(* the LED or the flag again.                                              *)
StoppedIsDark ==
  evPc = "idle" /\ ~started =>
    client = "off" /\ ~session /\ ~connected /\ ~led /\ event = "none"

(* mqtt_is_connected() is wrong about the session only while the event     *)
(* that corrects it is being handled or the client is being stopped        *)
(* (mqtt.h line 20: "True once CONNACK has been seen").                    *)
FlagTracksSession ==
  handle = "ready" /\ event = "none" /\ evPc \notin {"wait", "unset"} =>
    connected = session

(* LED_MQTT, written by two tasks, never parts from the flag for longer    *)
(* than the two lines that set both (config.h line 78: "Solid while the    *)
(* MQTT broker connection is up").                                         *)
LedFollowsFlag == event \notin {"light", "douse"} /\ evPc # "dark" => led = connected

(* The types, and the LED whichever task wrote it last. *)
LedTellsTruth == TypeOK /\ LedFollowsFlag /\ StoppedIsDark

(* However link changes, failed starts, reconnects and publishes           *)
(* interleave, once they cease the client runs only if the link is up,     *)
(* s_started knows whether it does, and flag and LED tell the truth about  *)
(* its session (mqtt.h line 17: "Follow the link state").                  *)
Settled ==
  /\ evPc = "idle"
  /\ (client = "running") = started
  /\ started => online
  /\ handle = "ready" => connected = session /\ led = session
Settles == <>[]Settled
=============================================================================
