--------------------------- MODULE MqttLink_proofs ---------------------------
(***************************************************************************)
(* What holds of the broker connection for any number of link changes,     *)
(* sessions and publishes.  The inductive invariant ties each stage of     *)
(* mqtt_set_online() to the state of the client, and each step of          *)
(* on_mqtt_event() to the session it reports.                              *)
(***************************************************************************)
EXTENDS MqttLink, TLAPS

(* What mqtt_set_online() knows at each of its stages. *)
StageInv ==
  /\ evPc \in {"idle", "start"} => (client = "running") = started
  /\ evPc = "start" => ~started
  /\ evPc = "mark" => client = "running"
  /\ evPc = "stop" => client = "running"
  /\ evPc = "wait" => client = "stopping"
  /\ client = "stopping" => evPc = "wait"
  /\ evPc \in {"unset", "dark", "unmark"} => client = "off"

(* A client that is off has no session and delivers nothing; what it left  *)
(* lit goes dark at "unset" and "dark".                                    *)
OffInv ==
  client = "off" =>
    /\ ~session /\ event = "none"
    /\ evPc # "unset" => ~connected
    /\ evPc \notin {"unset", "dark"} => ~led

(* Each step of the handler is about the session there is now, unless the  *)
(* client is being stopped under it.                                       *)
EventInv ==
  /\ event # "none" => handle = "ready"
  /\ event = "light" => connected
  /\ event = "douse" => ~connected
  /\ event \in {"connected", "light"} /\ evPc # "wait" => session
  /\ event \in {"disconnected", "douse"} /\ evPc # "wait" => ~session

LinkInv ==
  /\ TypeOK
  /\ StageInv
  /\ OffInv
  /\ EventInv
  /\ FlagTracksSession
  /\ LedFollowsFlag

-----------------------------------------------------------------------------
LEMMA InitLinkInv == Init => LinkInv
<1> SUFFICES ASSUME Init PROVE LinkInv
  OBVIOUS
<1> USE LinkAssumption DEF Init
<1>1. TypeOK
  <2>1. 0 \in 0..MaxLinkCalls /\ 0 \in 0..MaxSessions /\ broker \in Seq(Messages)
    BY DEF LinkAssumption
  <2>2. connected \in BOOLEAN /\ started \in BOOLEAN /\ led \in BOOLEAN
    OBVIOUS
  <2>3. online \in BOOLEAN /\ session \in BOOLEAN
    OBVIOUS
  <2> QED BY <2>1, <2>2, <2>3 DEF TypeOK
<1>2. StageInv /\ OffInv /\ EventInv
  BY DEF StageInv, OffInv, EventInv
<1>3. FlagTracksSession /\ LedFollowsFlag
  BY DEF FlagTracksSession, LedFollowsFlag
<1> QED BY <1>1, <1>2, <1>3 DEF LinkInv

(* The types, for every action at once: two counters, one queue, the rest  *)
(* flags and stages.                                                       *)
LEMMA NextTypeOK == TypeOK /\ Next => TypeOK'
<1> SUFFICES ASSUME TypeOK, Next PROVE TypeOK'
  OBVIOUS
<1> USE LinkAssumption DEF LinkAssumption, TypeOK, evVars, libVars
<1>1. CASE EventLoop
  <2>1. ASSUME NEW on \in BOOLEAN, SetOnline(on) PROVE TypeOK'
    <3>1. calls' \in 0..MaxLinkCalls
      BY <2>1 DEF SetOnline
    <3> QED BY <2>1, <3>1 DEF SetOnline
  <2>2. CASE StartClient
    BY <2>2 DEF StartClient
  <2>3. CASE MarkStarted
    BY <2>3 DEF MarkStarted
  <2>4. CASE StopClient
    BY <2>4 DEF StopClient
  <2>5. CASE ClientStopped
    BY <2>5 DEF ClientStopped
  <2>6. CASE ClearConnected
    BY <2>6 DEF ClearConnected
  <2>7. CASE ClearLed
    BY <2>7 DEF ClearLed
  <2>8. CASE MarkStopped
    BY <2>8 DEF MarkStopped
  <2> QED BY <1>1, <2>1, <2>2, <2>3, <2>4, <2>5, <2>6, <2>7, <2>8 DEF EventLoop
<1>2. CASE Client
  <2>1. CASE SessionUp
    <3>1. sessions' \in 0..MaxSessions
      BY <2>1 DEF SessionUp
    <3> QED BY <2>1, <3>1 DEF SessionUp, Deliver
  <2>2. CASE SessionLost
    BY <2>2 DEF SessionLost, Deliver
  <2>3. CASE HandleFlag
    <3>1. connected' \in BOOLEAN
      BY <2>3 DEF HandleFlag
    <3> QED BY <2>3, <3>1 DEF HandleFlag
  <2>4. CASE HandleLed
    <3>1. led' \in BOOLEAN
      BY <2>4 DEF HandleLed
    <3> QED BY <2>4, <3>1 DEF HandleLed
  <2> QED BY <1>2, <2>1, <2>2, <2>3, <2>4 DEF Client, OnMqttEvent
<1>3. CASE Publisher
  <2>1. ASSUME NEW m \in Messages, PublishSent(m) PROVE TypeOK'
    <3>1. broker' \in Seq(Messages)
      BY <2>1 DEF PublishSent
    <3> QED BY <2>1, <3>1 DEF PublishSent
  <2>2. CASE PublishCheck
    BY <2>2 DEF PublishCheck
  <2>3. CASE PublishRefused
    BY <2>3 DEF PublishRefused
  <2>4. CASE PublishCut
    BY <2>4 DEF PublishCut, Deliver
  <2>5. CASE PublishAborted
    BY <2>5 DEF PublishAborted
  <2>6. CASE /\ pub' \in {"idle", "check"}
             /\ UNCHANGED <<handle, connected, started, led, evVars, libVars, event, broker>>
    BY <2>6
  <2> QED BY <1>3, <2>1, <2>2, <2>3, <2>4, <2>5, <2>6 DEF Publisher, Publish
<1> QED BY <1>1, <1>2, <1>3 DEF Next

(* mqtt_set_online(): the client stops before the flag and the LED are     *)
(* cleared, so nothing can set them again.                                 *)
LEMMA EventLoopLinkInv ==
  ASSUME LinkInv, EventLoop
  PROVE  StageInv' /\ OffInv' /\ EventInv' /\ FlagTracksSession' /\ LedFollowsFlag'
<1> USE DEF LinkInv, TypeOK, StageInv, OffInv, EventInv, FlagTracksSession, LedFollowsFlag,
            libVars
<1>1. ASSUME NEW on \in BOOLEAN, SetOnline(on)
      PROVE  StageInv' /\ OffInv' /\ EventInv' /\ FlagTracksSession' /\ LedFollowsFlag'
  BY <1>1 DEF SetOnline
<1>2. CASE StartClient
  BY <1>2 DEF StartClient
<1>3. CASE MarkStarted
  BY <1>3 DEF MarkStarted
<1>4. CASE StopClient
  BY <1>4 DEF StopClient
<1>5. CASE ClientStopped
  BY <1>5 DEF ClientStopped
<1>6. CASE ClearConnected
  BY <1>6 DEF ClearConnected
<1>7. CASE ClearLed
  BY <1>7 DEF ClearLed
<1>8. CASE MarkStopped
  BY <1>8 DEF MarkStopped
<1> QED BY <1>1, <1>2, <1>3, <1>4, <1>5, <1>6, <1>7, <1>8 DEF EventLoop

(* The client and its handler: the flag first, then the LED. *)
LEMMA ClientLinkInv ==
  ASSUME LinkInv, Client
  PROVE  StageInv' /\ OffInv' /\ EventInv' /\ FlagTracksSession' /\ LedFollowsFlag'
<1> USE DEF LinkInv, TypeOK, StageInv, OffInv, EventInv, FlagTracksSession, LedFollowsFlag,
            evVars, libVars
<1>1. CASE SessionUp
  BY <1>1 DEF SessionUp, Deliver
<1>2. CASE SessionLost
  BY <1>2 DEF SessionLost, Deliver
<1>3. CASE HandleFlag
  BY <1>3 DEF HandleFlag
<1>4. CASE HandleLed
  BY <1>4 DEF HandleLed
<1> QED BY <1>1, <1>2, <1>3, <1>4 DEF Client, OnMqttEvent

(* A publisher can only end the session, and then it has the event too. *)
LEMMA PublisherLinkInv ==
  ASSUME LinkInv, Publisher
  PROVE  StageInv' /\ OffInv' /\ EventInv' /\ FlagTracksSession' /\ LedFollowsFlag'
<1> USE DEF LinkInv, TypeOK, StageInv, OffInv, EventInv, FlagTracksSession, LedFollowsFlag,
            evVars, libVars
<1>1. CASE PublishCut
  BY <1>1 DEF PublishCut, Deliver
<1>2. CASE ~PublishCut
  <2>1. UNCHANGED <<handle, connected, started, led, evPc, online, calls, client, session,
                    sessions, event>>
    BY <1>2 DEF Publisher, Publish, PublishCheck, PublishSent, PublishRefused, PublishAborted
  <2> QED BY <2>1
<1> QED BY <1>1, <1>2

LEMMA NextLinkInv == LinkInv /\ [Next]_vars => LinkInv'
<1> SUFFICES ASSUME LinkInv, [Next]_vars PROVE LinkInv'
  OBVIOUS
<1>1. CASE Next
  BY <1>1, NextTypeOK, EventLoopLinkInv, ClientLinkInv, PublisherLinkInv DEF Next, LinkInv
<1>2. CASE UNCHANGED vars
  BY <1>2 DEF vars, evVars, libVars, LinkInv, TypeOK, StageInv, OffInv, EventInv,
              FlagTracksSession, LedFollowsFlag
<1> QED BY <1>1, <1>2

LEMMA LinkInductive == Spec => []LinkInv
BY InitLinkInv, NextLinkInv, PTL DEF Spec

-----------------------------------------------------------------------------
(* However long the device runs, s_connected is the truth about the        *)
(* session except while it is being corrected.                             *)
THEOREM FlagTracksSessionAlways == Spec => []FlagTracksSession
<1>1. LinkInv => FlagTracksSession
  BY DEF LinkInv
<1> QED BY <1>1, LinkInductive, PTL

(* The two tasks that write LED_MQTT never leave it out of step with       *)
(* s_connected, and after mqtt_set_online(false) nothing is connected, lit *)
(* or still being delivered: clearing the LED after the stop is enough.    *)
THEOREM LedTellsTruthAlways == Spec => []LedTellsTruth
<1>1. LinkInv => StoppedIsDark
  BY DEF LinkInv, TypeOK, StageInv, OffInv, StoppedIsDark
<1>2. LinkInv => LedTellsTruth
  BY <1>1 DEF LinkInv, LedTellsTruth
<1> QED BY <1>2, LinkInductive, PTL
=============================================================================
