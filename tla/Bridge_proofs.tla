---------------------------- MODULE Bridge_proofs ----------------------------
(***************************************************************************)
(* For any pool, any number of frames, sessions and link changes, keys of  *)
(* any bytes and any KEY_MAX that "/rssi" fits: what on_espnow_msg()       *)
(* publishes, on which topic and in which order.                           *)
(***************************************************************************)
EXTENDS Bridge, SequenceTheorems, WellFoundedInduction, TLAPS

(* What stands behind the MAC for the payload.                             *)
PayloadSuffix(key) == IF Usable(key) THEN <<"/">> \o UpToNul(key) ELSE <<>>

(* Where the callback is tells where the channel and mqtt_publish() are.   *)
StageInv ==
  /\ (cb = "wait" <=> phase = "idle") /\ (cb = "web" <=> phase = "reading")
  /\ cb # "wait" => held # <<>>
  /\ cb \in {"rssi", "payload"} <=> pub # "idle"

(* Frames are numbered as they are heard.                                  *)
HeldInv ==
  /\ lost <= heard
  /\ \A i \in 1..Len(held) : held[i] \in 1..heard
  /\ \A i, j \in 1..Len(held) : i < j => held[i] < held[j]

(* What the handlers and a stop know of the session: one that was lost is  *)
(* not back before the event that says so has been handled.                *)
LinkInv ==
  /\ event \in {"disconnected", "douse"} => ~session
  /\ evPc = "unset" => client = "off"
  /\ client = "off" => ~session
  /\ connected \/ event # "none" => handle = "ready"

(* Between the two publishes s_topic is that of the frame in hand.         *)
TopicNow ==
  cb \in {"rssi", "payload"} =>
    /\ topic.mac = MacOf[Frame]
    /\ CString(topic.tail) = IF cb = "rssi" THEN Suffix ELSE PayloadSuffix(KeyOf[Frame])

(* Whether a message of the frame in hand may be at the broker already.    *)
Begun(body) ==
  \/ cb = "rssi" /\ body = "rssi" /\ pub \notin {"check", "lib"}
  \/ cb = "payload" /\ (body = "rssi" \/ pub \notin {"check", "lib"})
  \/ cb = "recycle"

(* What the broker has is older than what the channel holds, but for that. *)
OrderInv ==
  \A i \in 1..Len(broker) :
    /\ broker[i].frame <= heard
    /\ \A k \in 1..Len(held) :
         broker[i].frame < held[k] \/ (k = 1 /\ broker[i].frame = held[1] /\ Begun(broker[i].body))

(* The session the callback started under is still up.                     *)
Kept == session /\ sessions = seen

Has(body) == \E i \in 1..Len(broker) : broker[i].frame = Frame /\ broker[i].body = body

(* As long as it is, neither publish has been refused or cut.              *)
HalvesInv ==
  /\ seen <= sessions
  /\ cb \in {"rssi", "payload"} => handle = "ready"
  /\ cb \in {"rssi", "payload"} /\ Kept => connected /\ pub # "abort"
  /\ cb = "rssi" /\ pub = "done" /\ Kept => Has("rssi")
  /\ cb = "payload" /\ Kept => Has("rssi") /\ (pub = "done" => Has("payload"))
  /\ cb = "recycle" /\ seen # 0 /\ Kept => Has("rssi") /\ Has("payload")

IInv ==
  /\ TypeOK /\ StageInv /\ HeldInv /\ LinkInv
  /\ TopicNow /\ RightTopic
  /\ OrderInv /\ BrokerOrder /\ HalvesInv

-----------------------------------------------------------------------------
(* The topic buffer *)

LEMMA CStringOf ==
  ASSUME NEW S, NEW w \in Seq(S), NEW core \in Seq(S), Len(core) < Len(w),
         \A i \in 1..Len(core) : w[i] = core[i] /\ core[i] # Nul,
         w[Len(core) + 1] = Nul
  PROVE  CString(w) = core
<1> DEFINE P(n) == w[n + 1] = Nul /\ \A i \in 1..n : w[i] # Nul
           c == CHOOSE n \in 0..Len(w) - 1 : P(n)
<1>1. Len(core) \in 0..Len(w) - 1 /\ P(Len(core))
  OBVIOUS
<1>2. c \in 0..Len(w) - 1 /\ P(c)
  BY <1>1
<1>3. c = Len(core)
  <2>1. CASE c < Len(core)
    <3>1. c + 1 \in 1..Len(core)
      BY <1>2, <2>1
    <3> QED BY <1>2, <3>1
  <2>2. CASE c > Len(core)
    <3>1. Len(core) + 1 \in 1..c
      BY <1>2, <2>2
    <3> QED BY <1>2, <3>1
  <2> QED BY <1>2, <2>1, <2>2
<1>4. SubSeq(w, 1, Len(core)) = core
  <2> DEFINE u == SubSeq(w, 1, Len(core))
  <2>1. u \in Seq(S) /\ Len(u) = Len(core) /\ \A i \in 1..Len(core) : u[i] = w[i]
    OBVIOUS
  <2> HIDE DEF u
  <2>2. \A i \in 1..Len(u) : u[i] = core[i]
    BY <2>1
  <2> QED BY <2>1, <2>2, SeqEqual DEF u
<1> QED BY <1>3, <1>4 DEF CString

(* A key has a first Nul, or none, and so what comes before it.            *)
LEMMA UpToNulReads ==
  ASSUME NEW S, NEW key \in Seq(S)
  PROVE  LET u == UpToNul(key)
         IN  /\ u \in Seq(S) /\ Len(u) \in Nat /\ Len(u) <= Len(key)
             /\ \A i \in 1..Len(u) : u[i] = key[i] /\ key[i] # Nul
             /\ Len(u) = Len(key) \/ key[Len(u) + 1] = Nul
<1> DEFINE Ends(n) == n = Len(key) \/ key[n + 1] = Nul
           P(n) == Ends(n) /\ \A i \in 1..n : key[i] # Nul
           ends == {n \in 0..Len(key) : Ends(n)}
           R == OpToRel(<, Nat)
           c == CHOOSE n \in 0..Len(key) : P(n)
<1>1. Len(key) \in Nat
  OBVIOUS
<1>2. ends \in SUBSET Nat /\ Len(key) \in ends
  BY <1>1
<1>3. PICK n \in ends : \A m \in ends : <<m, n>> \notin R
  <2> HIDE DEF ends, R
  <2>1. IsWellFoundedOn(R, Nat)
    BY NatLessThanWellFounded DEF R
  <2> QED BY <1>2, <2>1, WFMin
<1>4. n \in 0..Len(key) /\ P(n)
  <2>1. n \in 0..Len(key) /\ Ends(n)
    OBVIOUS
  <2>2. ASSUME NEW i \in 1..n PROVE key[i] # Nul
    <3> SUFFICES ASSUME key[i] = Nul PROVE FALSE
      OBVIOUS
    <3>1. i - 1 \in ends
      BY <1>1, <2>1
    <3>2. i - 1 \in Nat /\ n \in Nat /\ i - 1 < n
      BY <1>1, <2>1
    <3>3. <<i - 1, n>> \in R
      BY <3>2 DEF OpToRel
    <3> QED BY <1>3, <3>1, <3>3
  <2> QED BY <2>1, <2>2
<1>5. c \in 0..Len(key) /\ P(c)
  BY <1>4
<1> DEFINE u == SubSeq(key, 1, c)
<1>6. UpToNul(key) = u
  BY DEF UpToNul
<1> HIDE DEF c
<1>7. u \in Seq(S) /\ Len(u) = c /\ \A i \in 1..c : u[i] = key[i]
  BY <1>1, <1>5
<1> HIDE DEF u
<1> QED BY <1>1, <1>5, <1>6, <1>7

(* What is written over the front of the buffer reads back up to the first *)
(* terminator in it, whatever stood there before.                          *)
LEMMA WrittenReads ==
  ASSUME NEW core \in Seq(Cells), NEW cells \in Seq(Cells), topic.tail \in Seq(Cells),
         Len(cells) <= Len(topic.tail), \A i \in 1..Len(core) : cells[i] = core[i] /\ core[i] # Nul,
         Len(core) < Len(cells), cells[Len(core) + 1] = Nul
  PROVE  /\ Written(cells) \in Seq(Cells) /\ Len(Written(cells)) = Len(topic.tail)
         /\ CString(Written(cells)) = core
<1> DEFINE rest == SubSeq(topic.tail, Len(cells) + 1, Len(topic.tail))
           w == Written(cells)
<1>1. Len(core) \in Nat /\ Len(cells) \in Nat /\ Len(topic.tail) \in Nat
  OBVIOUS
<1>2. rest \in Seq(Cells) /\ Len(rest) = Len(topic.tail) - Len(cells)
  BY <1>1
<1>3. w = cells \o rest
  BY DEF Written
<1> HIDE DEF rest, w
<1>4. /\ w \in Seq(Cells) /\ Len(w) = Len(topic.tail)
      /\ \A i \in 1..Len(cells) : w[i] = cells[i]
  <2>1. /\ cells \o rest \in Seq(Cells) /\ Len(cells \o rest) = Len(cells) + Len(rest)
        /\ \A i \in 1..Len(cells) + Len(rest) :
             (cells \o rest)[i] = IF i <= Len(cells) THEN cells[i] ELSE rest[i - Len(cells)]
    BY <1>2, ConcatProperties
  <2>2. Len(rest) \in Nat
    BY <1>2
  <2>3. Len(cells) + Len(rest) = Len(topic.tail)
    <3> DEFINE a == Len(cells)  b == Len(rest)  t == Len(topic.tail)
    <3>1. a \in Nat /\ t \in Nat /\ b = t - a
      BY <1>1, <1>2
    <3> HIDE DEF a, b, t
    <3>2. a + b = t
      BY <3>1
    <3> QED BY <3>2 DEF a, b, t
  <2>4. \A i \in 1..Len(cells) : w[i] = cells[i]
    BY <1>1, <1>3, <2>1, <2>2
  <2> QED BY <1>3, <2>1, <2>3, <2>4
<1>5. CString(w) = core
  <2>1. Len(core) < Len(w) /\ Len(core) + 1 \in 1..Len(cells)
    BY <1>1, <1>4
  <2>2. w[Len(core) + 1] = Nul
    BY <1>4, <2>1
  <2>3. \A i \in 1..Len(core) : w[i] = core[i] /\ core[i] # Nul
    <3> TAKE i \in 1..Len(core)
    <3>1. i \in 1..Len(cells)
      BY <1>1
    <3> QED BY <1>4, <3>1
  <2> QED BY <1>4, <2>1, <2>2, <2>3, CStringOf
<1> QED BY <1>4, <1>5 DEF w

LEMMA Extended ==
  ASSUME NEW S, NEW q \in Seq(S), NEW e \in S, NEW r, r = Append(q, e)
  PROVE  /\ r \in Seq(S) /\ Len(r) = Len(q) + 1 /\ r[Len(q) + 1] = e
         /\ \A i \in 1..Len(q) : r[i] = q[i]
OBVIOUS

LEMMA SuffixIn == Suffix \in Seq(Cells) /\ Nul \in Cells /\ Len(Suffix) = 5
<1>1. Len(Suffix) = 5 /\ DOMAIN Suffix = 1..5
  BY DEF Suffix
<1>2. Nul \in Cells /\ \A i \in DOMAIN Suffix : Suffix[i] \in Cells
  BY DEF Cells
<1>3. /\ "/" \in Cells /\ "r" \in Cells /\ "s" \in Cells /\ "i" \in Cells
  <2>1. Suffix[1] = "/" /\ Suffix[2] = "r" /\ Suffix[3] = "s" /\ Suffix[5] = "i"
    BY DEF Suffix
  <2>2. 1 \in DOMAIN Suffix /\ 2 \in DOMAIN Suffix /\ 3 \in DOMAIN Suffix /\ 5 \in DOMAIN Suffix
    BY <1>1
  <2> QED BY <1>2, <2>1, <2>2
<1>4. Suffix \in Seq(Cells)
  <2> HIDE DEF Cells
  <2> QED BY <1>3 DEF Suffix
<1> QED BY <1>1, <1>2, <1>4

LEMMA SuffixReads ==
  ASSUME topic.tail \in Seq(Cells), Len(topic.tail) = TailLen
  PROVE  LET w == Written(Append(Suffix, Nul))
         IN  w \in Seq(Cells) /\ Len(w) = TailLen /\ CString(w) = Suffix
<1>1. Suffix \in Seq(Cells) /\ Nul \in Cells /\ Len(Suffix) = 5
  BY SuffixIn
<1>2. \A i \in 1..5 : Suffix[i] # Nul
  BY DEF Suffix, Nul
<1>3. TailLen = KeyMax + 2 /\ KeyMax \in Nat /\ Len(Suffix) <= 1 + KeyMax
  BY BridgeAssumption DEF TailLen, BridgeAssumption
<1> DEFINE cells == Append(Suffix, Nul)
<1>4. cells \in Seq(Cells) /\ Len(cells) = 6 /\ cells[6] = Nul /\ \A i \in 1..5 : cells[i] = Suffix[i]
  <2>1. /\ cells \in Seq(Cells) /\ Len(cells) = Len(Suffix) + 1 /\ cells[Len(Suffix) + 1] = Nul
        /\ \A i \in 1..Len(Suffix) : cells[i] = Suffix[i]
    <3>1. cells = Append(Suffix, Nul)
      OBVIOUS
    <3> HIDE DEF cells
    <3> QED BY <1>1, <3>1, Extended
  <2>2. Len(Suffix) + 1 = 6 /\ Len(Suffix) = 5
    BY <1>1
  <2> HIDE DEF cells
  <2> QED BY <2>1, <2>2
<1> HIDE DEF cells
<1>5. /\ Len(Suffix) < Len(cells) /\ Len(cells) <= Len(topic.tail)
      /\ cells[Len(Suffix) + 1] = Nul /\ \A i \in 1..Len(Suffix) : cells[i] = Suffix[i] /\ Suffix[i] # Nul
  BY <1>1, <1>2, <1>3, <1>4
<1>6. Written(cells) \in Seq(Cells) /\ Len(Written(cells)) = TailLen /\ CString(Written(cells)) = Suffix
  BY <1>1, <1>4, <1>5, WrittenReads
<1> QED BY <1>6 DEF cells

LEMMA KeyReads ==
  ASSUME NEW f \in Frames, topic.tail \in Seq(Cells), Len(topic.tail) = TailLen
  PROVE  LET cells == IF Usable(KeyOf[f]) THEN <<"/">> \o KeyOf[f] \o <<Nul>> ELSE <<Nul>>
             w == Written(cells)
         IN  /\ w \in Seq(Cells) /\ Len(w) = TailLen /\ CString(w) = PayloadSuffix(KeyOf[f])
             /\ PayloadSuffix(KeyOf[f]) \in Seq(Cells)
<1> DEFINE key == KeyOf[f]
<1>1. Nul \in Cells /\ "/" \in Cells /\ "/" # Nul
  BY DEF Cells, Nul
<1>2. key \in Seq(Cells)
  <2>1. key \in Seq(STRING)
    BY BridgeAssumption DEF BridgeAssumption, Frames
  <2>2. \A i \in DOMAIN key : key[i] \in Cells
    <3>1. key \in Keys
      BY DEF Keys
    <3> QED BY <3>1 DEF Cells
  <2> HIDE DEF key
  <2>3. Len(key) \in Nat /\ DOMAIN key = 1..Len(key) /\ key = [i \in 1..Len(key) |-> key[i]]
    BY <2>1
  <2>4. key \in [1..Len(key) -> Cells]
    BY <2>2, <2>3
  <2> QED BY <2>3, <2>4
<1>3. TailLen = KeyMax + 2 /\ KeyMax \in Nat
  BY BridgeAssumption DEF TailLen, BridgeAssumption
<1> HIDE DEF key
<1>4. CASE Usable(key)
  <2> DEFINE u == UpToNul(key)
             core == <<"/">> \o u
             front == <<"/">> \o key
             cells == front \o <<Nul>>
  <2>1. /\ <<"/">> \in Seq(Cells) /\ Len(<<"/">>) = 1 /\ <<"/">>[1] = "/"
        /\ <<Nul>> \in Seq(Cells) /\ Len(<<Nul>>) = 1 /\ <<Nul>>[1] = Nul
    BY <1>1
  <2>2. Len(key) \in Nat /\ Len(key) <= KeyMax
    BY <1>2, <1>4 DEF Usable
  <2>3. /\ u \in Seq(Cells) /\ Len(u) \in Nat /\ Len(u) <= Len(key)
        /\ \A i \in 1..Len(u) : u[i] = key[i] /\ key[i] # Nul
        /\ Len(u) = Len(key) \/ key[Len(u) + 1] = Nul
    BY <1>2, UpToNulReads
  <2> HIDE DEF u
  <2>4. /\ core \in Seq(Cells) /\ Len(core) = 1 + Len(u)
        /\ \A i \in 1..1 + Len(u) : core[i] = IF i <= 1 THEN <<"/">>[i] ELSE u[i - 1]
    BY <2>1, <2>3, ConcatProperties
  <2>5. /\ front \in Seq(Cells) /\ Len(front) = 1 + Len(key)
        /\ \A i \in 1..1 + Len(key) : front[i] = IF i <= 1 THEN <<"/">>[i] ELSE key[i - 1]
    BY <1>2, <2>1, ConcatProperties
  <2> HIDE DEF core, front
  <2>6. /\ cells \in Seq(Cells) /\ Len(cells) = Len(front) + 1
        /\ \A i \in 1..Len(front) + 1 : cells[i] = IF i <= Len(front) THEN front[i] ELSE <<Nul>>[i - Len(front)]
    BY <2>1, <2>5, ConcatProperties
  <2> HIDE DEF cells
  <2>7. Len(core) < Len(cells) /\ Len(cells) <= Len(topic.tail)
    BY <1>3, <2>2, <2>3, <2>4, <2>5, <2>6
  <2>8. \A i \in 1..Len(core) : cells[i] = core[i] /\ core[i] # Nul
    <3> SUFFICES ASSUME NEW i \in 1..Len(core) PROVE cells[i] = core[i] /\ core[i] # Nul
      OBVIOUS
    <3>1. cells[i] = front[i] /\ i \in 1..1 + Len(u) /\ i \in 1..1 + Len(key)
      BY <2>2, <2>3, <2>4, <2>5, <2>6
    <3>2. CASE i = 1
      BY <1>1, <2>1, <2>4, <2>5, <3>1, <3>2
    <3>3. CASE i # 1
      <4>1. i - 1 \in 1..Len(u) /\ core[i] = u[i - 1] /\ front[i] = key[i - 1]
        BY <2>3, <2>4, <2>5, <3>1, <3>3
      <4> QED BY <2>3, <3>1, <4>1
    <3> QED BY <3>2, <3>3
  <2>9. cells[Len(core) + 1] = Nul
    <3>1. CASE Len(u) = Len(key)
      <4>1. Len(core) + 1 = Len(front) + 1 /\ Len(front) \in Nat
        BY <2>2, <2>4, <2>5, <3>1
      <4> QED BY <2>1, <2>6, <4>1
    <3>2. CASE Len(u) # Len(key)
      <4>1. /\ Len(u) + 2 \in 1..1 + Len(key) /\ Len(core) + 1 = Len(u) + 2
            /\ Len(u) + 2 - 1 = Len(u) + 1 /\ ~(Len(u) + 2 <= 1)
        BY <2>2, <2>3, <2>4, <3>2
      <4>2. front[Len(u) + 2] = key[Len(u) + 1]
        BY <2>5, <4>1
      <4>3. cells[Len(u) + 2] = front[Len(u) + 2]
        BY <2>2, <2>5, <2>6, <4>1
      <4> QED BY <2>3, <3>2, <4>1, <4>2, <4>3
    <3> QED BY <3>1, <3>2
  <2>10. Written(cells) \in Seq(Cells) /\ Len(Written(cells)) = TailLen /\ CString(Written(cells)) = core
    BY <2>4, <2>6, <2>7, <2>8, <2>9, WrittenReads
  <2> QED BY <1>4, <2>4, <2>10 DEF cells, front, core, u, key, PayloadSuffix
<1>5. CASE ~Usable(key)
  <2> DEFINE cells == <<Nul>>
             core == <<>>
  <2>1. cells \in Seq(Cells) /\ Len(cells) = 1 /\ cells[1] = Nul /\ core \in Seq(Cells) /\ Len(core) = 0
    BY <1>1
  <2>2. Len(core) < Len(topic.tail)
    BY <1>3, <2>1
  <2>3. Written(cells) \in Seq(Cells) /\ Len(Written(cells)) = TailLen /\ CString(Written(cells)) = core
    <3> HIDE DEF cells, core
    <3>1. \A i \in 1..Len(core) : cells[i] = core[i] /\ core[i] # Nul
      BY <2>1
    <3>2. Len(core) < Len(cells) /\ Len(cells) <= Len(topic.tail) /\ cells[Len(core) + 1] = Nul
      BY <1>3, <2>1
    <3> QED BY <2>1, <2>2, <3>1, <3>2, WrittenReads
  <2> QED BY <1>5, <2>1, <2>3 DEF key, PayloadSuffix
<1> QED BY <1>4, <1>5 DEF key

-----------------------------------------------------------------------------
(* The broker link, as far as the callback depends on it *)

LEMMA NetworkKeeps ==
  ASSUME Mqtt!TypeOK, LinkInv, Mqtt!EventLoop \/ Mqtt!Client
  PROVE  /\ Mqtt!TypeOK' /\ LinkInv'
         /\ handle' = handle /\ pub' = pub /\ broker' = broker
         /\ sessions <= sessions'
         /\ session' /\ sessions' = sessions => session
         /\ connected /\ session' /\ sessions' = sessions => connected'
<1>0. MaxLinkCalls \in Nat /\ MaxSessions \in Nat
  BY BridgeAssumption DEF BridgeAssumption
<1> USE <1>0 DEF Mqtt!TypeOK, LinkInv, Mqtt!evVars, Mqtt!libVars, Mqtt!Deliver
<1>1. ASSUME NEW on \in BOOLEAN, Mqtt!SetOnline(on)
      PROVE  /\ Mqtt!TypeOK' /\ LinkInv'
             /\ handle' = handle /\ pub' = pub /\ broker' = broker
             /\ sessions' = sessions /\ session' = session /\ connected' = connected
  BY <1>1 DEF Mqtt!SetOnline
<1>2. CASE Mqtt!StartClient
  BY <1>2 DEF Mqtt!StartClient
<1>3. CASE Mqtt!MarkStarted
  BY <1>3 DEF Mqtt!MarkStarted
<1>4. CASE Mqtt!StopClient
  <2>1. Mqtt!TypeOK'
    BY <1>4 DEF Mqtt!StopClient
  <2>2. LinkInv'
    BY <1>4 DEF Mqtt!StopClient
  <2>3. handle' = handle /\ pub' = pub /\ broker' = broker /\ sessions' = sessions
    BY <1>4 DEF Mqtt!StopClient
  <2>4. (session' => session) /\ (connected /\ session' => connected')
    BY <1>4 DEF Mqtt!StopClient
  <2> QED BY <2>1, <2>2, <2>3, <2>4
<1>5. CASE Mqtt!ClientStopped
  <2>1. Mqtt!TypeOK'
    BY <1>5 DEF Mqtt!ClientStopped
  <2>2. LinkInv'
    BY <1>5 DEF Mqtt!ClientStopped
  <2>3. handle' = handle /\ pub' = pub /\ broker' = broker /\ sessions' = sessions
    BY <1>5 DEF Mqtt!ClientStopped
  <2>4. (session' => session) /\ (connected /\ session' => connected')
    BY <1>5 DEF Mqtt!ClientStopped
  <2> QED BY <2>1, <2>2, <2>3, <2>4
<1>6. CASE Mqtt!ClearConnected
  <2>1. Mqtt!TypeOK'
    BY <1>6 DEF Mqtt!ClearConnected
  <2>2. LinkInv'
    BY <1>6 DEF Mqtt!ClearConnected
  <2>3. handle' = handle /\ pub' = pub /\ broker' = broker /\ sessions' = sessions
    BY <1>6 DEF Mqtt!ClearConnected
  <2>4. (session' => session) /\ (connected /\ session' => connected')
    BY <1>6 DEF Mqtt!ClearConnected
  <2> QED BY <2>1, <2>2, <2>3, <2>4
<1>7. CASE Mqtt!ClearLed
  <2>1. Mqtt!TypeOK'
    BY <1>7 DEF Mqtt!ClearLed
  <2>2. LinkInv'
    BY <1>7 DEF Mqtt!ClearLed
  <2>3. handle' = handle /\ pub' = pub /\ broker' = broker /\ sessions' = sessions
    BY <1>7 DEF Mqtt!ClearLed
  <2>4. (session' => session) /\ (connected /\ session' => connected')
    BY <1>7 DEF Mqtt!ClearLed
  <2> QED BY <2>1, <2>2, <2>3, <2>4
<1>8. CASE Mqtt!MarkStopped
  <2>1. Mqtt!TypeOK'
    BY <1>8 DEF Mqtt!MarkStopped
  <2>2. LinkInv'
    BY <1>8 DEF Mqtt!MarkStopped
  <2>3. handle' = handle /\ pub' = pub /\ broker' = broker /\ sessions' = sessions
    BY <1>8 DEF Mqtt!MarkStopped
  <2>4. (session' => session) /\ (connected /\ session' => connected')
    BY <1>8 DEF Mqtt!MarkStopped
  <2> QED BY <2>1, <2>2, <2>3, <2>4
<1>9. CASE Mqtt!SessionUp
  BY <1>9 DEF Mqtt!SessionUp
<1>10. CASE Mqtt!SessionLost
  <2>1. Mqtt!TypeOK'
    BY <1>10 DEF Mqtt!SessionLost
  <2>2. LinkInv'
    BY <1>10 DEF Mqtt!SessionLost
  <2>3. handle' = handle /\ pub' = pub /\ broker' = broker /\ sessions' = sessions
    BY <1>10 DEF Mqtt!SessionLost
  <2>4. (session' => session) /\ (connected /\ session' => connected')
    BY <1>10 DEF Mqtt!SessionLost
  <2> QED BY <2>1, <2>2, <2>3, <2>4
<1>11. CASE Mqtt!HandleFlag
  BY <1>11 DEF Mqtt!HandleFlag
<1>12. CASE Mqtt!HandleLed
  BY <1>12 DEF Mqtt!HandleLed
<1> QED
  BY <1>1, <1>2, <1>3, <1>4, <1>5, <1>6, <1>7, <1>8, <1>9, <1>10, <1>11, <1>12
  DEF Mqtt!EventLoop, Mqtt!Client, Mqtt!OnMqttEvent

(* One step of mqtt_publish(): what it may have done, and how it ended.    *)
LEMMA PublishKeeps ==
  ASSUME Mqtt!TypeOK, LinkInv, NEW m \in Messages, Mqtt!Publish(m)
  PROVE  /\ Mqtt!TypeOK' /\ LinkInv'
         /\ handle' = handle /\ connected' = connected /\ sessions' = sessions
         /\ session' => session
         /\ pub # "idle" /\ pub' # "idle"
         /\ \/ broker' = Append(broker, m) /\ pub = "lib" /\ pub' = "done" /\ session
            \/ /\ broker' = broker
               /\ \/ pub = "check" /\ (pub' = "lib" \/ (pub' = "done" /\ ~connected))
                  \/ pub = "lib" /\ ~session' /\ pub' \in {"done", "abort"}
                  \/ pub = "abort" /\ pub' = "done"
<1> USE DEF Mqtt!TypeOK, LinkInv, Mqtt!evVars, Mqtt!libVars, Mqtt!Deliver
<1>1. CASE Mqtt!PublishCheck
  BY <1>1 DEF Mqtt!PublishCheck
<1>2. CASE Mqtt!PublishSent(m)
  BY <1>2 DEF Mqtt!PublishSent
<1>3. CASE Mqtt!PublishRefused
  BY <1>3 DEF Mqtt!PublishRefused
<1>4. CASE Mqtt!PublishCut
  BY <1>4 DEF Mqtt!PublishCut
<1>5. CASE Mqtt!PublishAborted
  BY <1>5 DEF Mqtt!PublishAborted
<1> QED BY <1>1, <1>2, <1>3, <1>4, <1>5 DEF Mqtt!Publish

-----------------------------------------------------------------------------
(* The steps of the callback *)

LEMMA FrameInHand ==
  ASSUME TypeOK, StageInv, cb # "wait"
  PROVE  /\ Frame \in Frames /\ Frame = held[1] /\ Len(held) \in Nat /\ Len(held) > 0
         /\ MacOf[Frame] \in Macs
<1>1. held \in Seq(Frames) /\ held # <<>>
  BY DEF TypeOK, StageInv
<1>2. Frame \in Frames /\ Frame = held[1] /\ Len(held) \in Nat /\ Len(held) > 0
  BY <1>1 DEF Frame
<1> HIDE DEF Frame
<1>3. MacOf[Frame] \in Macs
  BY <1>2 DEF Macs
<1> QED BY <1>2, <1>3

LEMMA CheckStep ==
  ASSUME TypeOK, StageInv, CheckOnline
  PROVE  /\ cb = "online" /\ UNCHANGED <<poolVars, linkVars, droppedSeen>>
         /\ topic' \in [mac : Macs \cup {NoMac}, tail : Seq(Cells)] /\ Len(topic'.tail) = TailLen
         /\ \/ /\ connected /\ pub' = "check" /\ seen' = sessions /\ cb' = "rssi"
               /\ topic'.mac = MacOf[Frame] /\ CString(topic'.tail) = Suffix
            \/ ~connected /\ pub' = pub /\ seen' = 0 /\ cb' = "recycle"
<1>1. cb = "online" /\ UNCHANGED <<poolVars, linkVars, droppedSeen>>
  BY DEF CheckOnline, FirstPublish
<1>2. topic \in [mac : Macs \cup {NoMac}, tail : Seq(Cells)] /\ Len(topic.tail) = TailLen
  BY DEF TypeOK
<1> DEFINE w == Written(Append(Suffix, Nul))
<1>3. w \in Seq(Cells) /\ Len(w) = TailLen /\ CString(w) = Suffix
  BY <1>2, SuffixReads
<1>4. \/ /\ connected /\ topic' = [mac |-> MacOf[Frame], tail |-> w] /\ pub' = "check"
         /\ seen' = sessions /\ cb' = "rssi"
      \/ ~connected /\ topic' = topic /\ pub' = pub /\ seen' = 0 /\ cb' = "recycle"
  BY DEF CheckOnline, FirstPublish
<1>5. MacOf[Frame] \in Macs
  BY <1>1, FrameInHand
<1> HIDE DEF w, Frame
<1> QED BY <1>1, <1>2, <1>3, <1>4, <1>5

LEMMA PayloadStep ==
  ASSUME TypeOK, StageInv, PublishPayload
  PROVE  /\ cb = "rssi" /\ cb' = "payload" /\ pub = "done" /\ pub' = "check"
         /\ UNCHANGED <<poolVars, linkVars, droppedSeen, seen>>
         /\ topic' \in [mac : Macs \cup {NoMac}, tail : Seq(Cells)] /\ Len(topic'.tail) = TailLen
         /\ topic'.mac = topic.mac /\ CString(topic'.tail) = PayloadSuffix(KeyOf[Frame])
<1> DEFINE cells == IF Usable(KeyOf[Frame]) THEN <<"/">> \o KeyOf[Frame] \o <<Nul>> ELSE <<Nul>>
           w == Written(cells)
<1>1. /\ cb = "rssi" /\ cb' = "payload" /\ pub = "done" /\ pub' = "check"
      /\ UNCHANGED <<poolVars, linkVars, droppedSeen, seen>>
      /\ topic' = [topic EXCEPT !.tail = w]
  BY DEF PublishPayload, SecondPublish
<1>2. topic \in [mac : Macs \cup {NoMac}, tail : Seq(Cells)] /\ Len(topic.tail) = TailLen
  BY DEF TypeOK
<1>3. Frame \in Frames
  BY <1>1, FrameInHand
<1> HIDE DEF Frame
<1>4. w \in Seq(Cells) /\ Len(w) = TailLen /\ CString(w) = PayloadSuffix(KeyOf[Frame])
  BY <1>2, <1>3, KeyReads
<1> HIDE DEF w
<1> QED BY <1>1, <1>2, <1>4

(* What is published is a message, on the topic of its half.               *)
Message == [topic |-> [mac |-> topic.mac, suffix |-> CString(topic.tail)],
            body |-> cb, frame |-> Frame]

LEMMA MessageRight ==
  ASSUME TypeOK, StageInv, TopicNow, cb \in {"rssi", "payload"}
  PROVE  /\ Message \in Messages /\ Message.frame = Frame /\ Message.body = cb
         /\ Message.topic.mac = MacOf[Frame]
         /\ Message.topic.suffix = IF cb = "rssi" THEN Suffix ELSE PayloadSuffix(KeyOf[Frame])
<1>1. Frame \in Frames /\ MacOf[Frame] \in Macs
  BY FrameInHand
<1> HIDE DEF Frame
<1>2. topic.tail \in Seq(Cells) /\ Len(topic.tail) = TailLen
  BY DEF TypeOK
<1>3. PayloadSuffix(KeyOf[Frame]) \in Seq(Cells)
  BY <1>1, <1>2, KeyReads
<1>4. Suffix \in Seq(Cells)
  BY SuffixIn
<1>5. topic.mac = MacOf[Frame] /\ CString(topic.tail) = IF cb = "rssi" THEN Suffix ELSE PayloadSuffix(KeyOf[Frame])
  BY DEF TopicNow
<1> DEFINE s == CString(topic.tail)
<1>6. s \in Seq(Cells)
  BY <1>3, <1>4, <1>5
<1> HIDE DEF s
<1>7. Message = [topic |-> [mac |-> topic.mac, suffix |-> s], body |-> cb, frame |-> Frame]
  BY DEF Message, s
<1>8. Message \in Messages /\ Message.frame = Frame /\ Message.body = cb
      /\ Message.topic.mac = topic.mac /\ Message.topic.suffix = s
  BY <1>1, <1>5, <1>6, <1>7 DEF Messages
<1> QED BY <1>5, <1>8 DEF s

LEMMA PublishingStep ==
  ASSUME TypeOK, StageInv, LinkInv, TopicNow, Publishing
  PROVE  /\ cb \in {"rssi", "payload"} /\ UNCHANGED <<poolVars, ownVars>>
         /\ Mqtt!TypeOK' /\ LinkInv'
         /\ handle' = handle /\ connected' = connected /\ sessions' = sessions
         /\ session' => session
         /\ pub' # "idle"
         /\ \/ broker' = Append(broker, Message) /\ pub = "lib" /\ pub' = "done" /\ session
            \/ /\ broker' = broker
               /\ \/ pub = "check" /\ (pub' = "lib" \/ (pub' = "done" /\ ~connected))
                  \/ pub = "lib" /\ ~session' /\ pub' \in {"done", "abort"}
                  \/ pub = "abort" /\ pub' = "done"
<1>1. Mqtt!Publish(Message) /\ UNCHANGED <<poolVars, ownVars>>
  BY DEF Publishing, Message
<1>2. pub # "idle"
  BY <1>1 DEF Mqtt!Publish, Mqtt!PublishCheck, Mqtt!PublishSent, Mqtt!PublishRefused,
              Mqtt!PublishCut, Mqtt!PublishAborted
<1>3. cb \in {"rssi", "payload"}
  BY <1>2 DEF StageInv
<1>4. Message \in Messages
  BY <1>3, MessageRight
<1>5. Mqtt!TypeOK
  BY DEF TypeOK
<1> HIDE DEF Message
<1> QED BY <1>1, <1>3, <1>4, <1>5, PublishKeeps

(* The two steps that change what the channel holds.                       *)
LEMMA AdmitStep ==
  ASSUME TypeOK, heard < MaxFrames, Pool!Admit
  PROVE  /\ held' \in Seq(Frames) /\ Len(held) \in Nat /\ Len(held') = Len(held) + 1
         /\ held' # <<>> /\ held'[Len(held) + 1] = heard + 1
         /\ \A i \in 1..Len(held) : held'[i] = held[i]
         /\ heard' = heard + 1 /\ heard' \in 0..MaxFrames
         /\ UNCHANGED <<given, phase, lost>>
         /\ held # <<>> => Frame' = Frame
<1>1. held \in Seq(Frames) /\ heard \in 0..MaxFrames /\ MaxFrames \in Nat
  BY BridgeAssumption DEF TypeOK, BridgeAssumption
<1>2. heard + 1 \in Frames /\ heard + 1 \in 0..MaxFrames
  BY <1>1 DEF Frames
<1>3. held' = Append(held, heard + 1) /\ heard' = heard + 1 /\ UNCHANGED <<given, phase, lost>>
  BY DEF Pool!Admit
<1>4. /\ held' \in Seq(Frames) /\ Len(held') = Len(held) + 1 /\ held'[Len(held) + 1] = heard + 1
      /\ \A i \in 1..Len(held) : held'[i] = held[i]
  BY <1>1, <1>2, <1>3, Extended
<1>5. Len(held) \in Nat /\ held' # <<>>
  BY <1>1, <1>4
<1>6. ASSUME held # <<>> PROVE Frame' = Frame
  <2>1. Len(held) > 0 /\ Head(held) = held[1] /\ Head(held') = held'[1]
    BY <1>1, <1>4, <1>5, <1>6
  <2>2. held'[1] = held[1]
    BY <1>4, <1>5, <2>1
  <2> QED BY <2>1, <2>2 DEF Frame
<1> QED BY <1>2, <1>3, <1>4, <1>5, <1>6

LEMMA RecycleStep ==
  ASSUME TypeOK, StageInv, Recycle
  PROVE  /\ cb = "recycle" /\ cb' = "wait" /\ phase' = "idle"
         /\ UNCHANGED <<heard, given, lost, mqttVars, topic, droppedSeen, seen>>
         /\ held' \in Seq(Frames) /\ Len(held) \in Nat /\ Len(held) > 0
         /\ Len(held') = Len(held) - 1
         /\ \A i \in 1..Len(held') : i + 1 \in 2..Len(held) /\ held'[i] = held[i + 1]
<1>1. held \in Seq(Frames) /\ held # <<>>
  BY DEF TypeOK, StageInv, Recycle
<1>2. /\ cb = "recycle" /\ cb' = "wait" /\ phase' = "idle" /\ held' = Tail(held)
      /\ UNCHANGED <<heard, given, lost, mqttVars, topic, droppedSeen, seen>>
  BY DEF Recycle, Pool!Release
<1>3. /\ held' \in Seq(Frames) /\ Len(held) \in Nat /\ Len(held) > 0 /\ Len(held') = Len(held) - 1
      /\ \A i \in 1..Len(held') : held'[i] = held[i + 1]
  BY <1>1, <1>2
<1>4. \A i \in 1..Len(held') : i + 1 \in 2..Len(held)
  BY <1>3
<1> QED BY <1>2, <1>3, <1>4

-----------------------------------------------------------------------------
(* Types, stages and what the handlers know *)

LEMMA LinkStep ==
  ASSUME TypeOK, StageInv, LinkInv, TopicNow, [Next]_vars
  PROVE  Mqtt!TypeOK' /\ LinkInv'
<1>0. Mqtt!TypeOK
  BY DEF TypeOK
<1> USE DEF mqttVars, linkVars
<1>1. ASSUME UNCHANGED linkVars, pub' \in {pub, "idle", "check"}
      PROVE  Mqtt!TypeOK' /\ LinkInv'
  <2>1. pub' \in {"idle", "check", "lib", "abort", "done"}
    BY <1>0, <1>1 DEF Mqtt!TypeOK
  <2>2. Mqtt!TypeOK'
    BY <1>0, <1>1, <2>1 DEF Mqtt!TypeOK
  <2>3. LinkInv'
    BY <1>1 DEF LinkInv
  <2> QED BY <2>2, <2>3
<1>2. CASE Receive
  BY <1>1, <1>2 DEF Receive
<1>3. CASE Network
  BY <1>0, <1>3, NetworkKeeps DEF Network
<1>4. CASE TakeFrame
  BY <1>1, <1>4 DEF TakeFrame
<1>5. CASE WebOnMessage
  BY <1>1, <1>5 DEF WebOnMessage
<1>6. CASE CheckOnline
  BY <1>1, <1>6, CheckStep
<1>7. CASE Publishing
  BY <1>7, PublishingStep
<1>8. CASE PublishPayload
  BY <1>1, <1>8, PayloadStep
<1>9. CASE NoteDropped
  BY <1>1, <1>9 DEF NoteDropped
<1>10. CASE Recycle
  BY <1>1, <1>10 DEF Recycle
<1>11. CASE UNCHANGED vars
  BY <1>1, <1>11 DEF vars
<1> QED
  BY <1>2, <1>3, <1>4, <1>5, <1>6, <1>7, <1>8, <1>9, <1>10, <1>11 DEF Next, OnEspnowMsg

LEMMA PoolStep ==
  ASSUME TypeOK, StageInv, LinkInv, TopicNow, HeldInv, [Next]_vars
  PROVE  /\ heard' \in 0..MaxFrames /\ lost' \in 0..MaxFrames
         /\ held' \in Seq(Frames) /\ given' \in Seq(Frames)
         /\ HeldInv'
<1>0. /\ heard \in 0..MaxFrames /\ lost \in 0..MaxFrames /\ MaxFrames \in Nat
      /\ held \in Seq(Frames) /\ given \in Seq(Frames)
  BY BridgeAssumption DEF TypeOK, BridgeAssumption
<1> USE DEF poolVars
<1>1. ASSUME UNCHANGED <<heard, held, lost>>, given' \in Seq(Frames)
      PROVE  /\ heard' \in 0..MaxFrames /\ lost' \in 0..MaxFrames
             /\ held' \in Seq(Frames) /\ given' \in Seq(Frames)
             /\ HeldInv'
  BY <1>0, <1>1 DEF HeldInv
<1>2. CASE Receive
  <2>1. CASE Pool!Admit
    <3>1. /\ held' \in Seq(Frames) /\ Len(held) \in Nat /\ Len(held') = Len(held) + 1
          /\ held'[Len(held) + 1] = heard + 1
          /\ \A i \in 1..Len(held) : held'[i] = held[i]
          /\ heard' = heard + 1 /\ heard' \in 0..MaxFrames
          /\ UNCHANGED <<given, phase, lost>>
      BY <1>2, <2>1, AdmitStep DEF Receive
    <3>2. \A i \in 1..Len(held') : held'[i] \in 1..heard'
      <4> TAKE i \in 1..Len(held')
      <4>1. CASE i = Len(held) + 1
        BY <1>0, <3>1, <4>1
      <4>2. CASE i # Len(held) + 1
        <5>1. i \in 1..Len(held) /\ held'[i] = held[i]
          BY <3>1, <4>2
        <5>2. held[i] \in 1..heard
          BY <5>1 DEF HeldInv
        <5> QED BY <1>0, <3>1, <5>1, <5>2
      <4> QED BY <4>1, <4>2
    <3>3. \A i, j \in 1..Len(held') : i < j => held'[i] < held'[j]
      <4> SUFFICES ASSUME NEW i \in 1..Len(held'), NEW j \in 1..Len(held'), i < j
                   PROVE  held'[i] < held'[j]
        OBVIOUS
      <4>1. i \in 1..Len(held) /\ held'[i] = held[i] /\ held[i] \in 1..heard
        <5>1. i \in 1..Len(held)
          BY <3>1
        <5> QED BY <3>1, <5>1 DEF HeldInv
      <4>2. CASE j = Len(held) + 1
        BY <1>0, <3>1, <4>1, <4>2
      <4>3. CASE j # Len(held) + 1
        <5>1. j \in 1..Len(held) /\ held'[j] = held[j]
          BY <3>1, <4>3
        <5> QED BY <4>1, <5>1 DEF HeldInv
      <4> QED BY <4>2, <4>3
    <3>4. lost' <= heard'
      BY <1>0, <3>1 DEF HeldInv
    <3> QED BY <1>0, <3>1, <3>2, <3>3, <3>4 DEF HeldInv
  <2>2. CASE Pool!Shed
    <3>1. /\ heard' = heard + 1 /\ lost' = lost + 1 /\ UNCHANGED <<held, given>>
          /\ heard < MaxFrames
      BY <1>2, <2>2 DEF Receive, Pool!Shed
    <3>2. lost <= heard
      BY DEF HeldInv
    <3>3. heard' \in 0..MaxFrames /\ lost' \in 0..MaxFrames /\ lost' <= heard'
      BY <1>0, <3>1, <3>2
    <3>4. \A i \in 1..Len(held) : held[i] \in 1..heard + 1
      <4> TAKE i \in 1..Len(held)
      <4>1. held[i] \in 1..heard
        BY DEF HeldInv
      <4> QED BY <1>0, <4>1
    <3> QED BY <1>0, <3>1, <3>3, <3>4 DEF HeldInv
  <2> QED BY <1>2, <2>1, <2>2 DEF Receive
<1>3. CASE Network
  BY <1>0, <1>1, <1>3 DEF Network
<1>4. CASE TakeFrame
  BY <1>0, <1>1, <1>4 DEF TakeFrame, Pool!Start
<1>5. CASE WebOnMessage
  <2>1. cb = "web" /\ UNCHANGED <<heard, held, lost>> /\ given' = Append(given, Frame)
    BY <1>5 DEF WebOnMessage, Pool!Give, Frame
  <2>2. Frame \in Frames
    BY <2>1, FrameInHand
  <2> HIDE DEF Frame
  <2>3. given' \in Seq(Frames)
    BY <1>0, <2>1, <2>2
  <2> QED BY <1>1, <2>1, <2>3
<1>6. CASE CheckOnline
  BY <1>0, <1>1, <1>6, CheckStep
<1>7. CASE Publishing
  BY <1>0, <1>1, <1>7, PublishingStep
<1>8. CASE PublishPayload
  BY <1>0, <1>1, <1>8, PayloadStep
<1>9. CASE NoteDropped
  BY <1>0, <1>1, <1>9 DEF NoteDropped
<1>10. CASE Recycle
  <2>1. /\ held' \in Seq(Frames) /\ Len(held) \in Nat /\ Len(held') = Len(held) - 1
        /\ \A i \in 1..Len(held') : i + 1 \in 2..Len(held) /\ held'[i] = held[i + 1]
        /\ UNCHANGED <<heard, given, lost>>
    BY <1>10, RecycleStep
  <2>2. \A i \in 1..Len(held') : i + 1 \in 1..Len(held)
    BY <2>1
  <2>3. \A i \in 1..Len(held') : held'[i] \in 1..heard
    BY <2>1, <2>2 DEF HeldInv
  <2>4. \A i, j \in 1..Len(held') : i < j => held'[i] < held'[j]
    <3> SUFFICES ASSUME NEW i \in 1..Len(held'), NEW j \in 1..Len(held'), i < j
                 PROVE  held'[i] < held'[j]
      OBVIOUS
    <3>1. i + 1 \in 1..Len(held) /\ j + 1 \in 1..Len(held) /\ i + 1 < j + 1
      BY <2>1, <2>2
    <3>2. held[i + 1] < held[j + 1]
      BY <3>1 DEF HeldInv
    <3> QED BY <2>1, <3>2
  <2> QED BY <1>0, <2>1, <2>3, <2>4 DEF HeldInv
<1>11. CASE UNCHANGED vars
  BY <1>0, <1>1, <1>11 DEF vars
<1> QED
  BY <1>2, <1>3, <1>4, <1>5, <1>6, <1>7, <1>8, <1>9, <1>10, <1>11 DEF Next, OnEspnowMsg

LEMMA OwnStep ==
  ASSUME TypeOK, StageInv, LinkInv, TopicNow, HeldInv, [Next]_vars
  PROVE  /\ phase' \in {"idle", "reading", "given"}
         /\ cb' \in {"wait", "web", "online", "rssi", "payload", "recycle"}
         /\ topic' \in [mac : Macs \cup {NoMac}, tail : Seq(Cells)] /\ Len(topic'.tail) = TailLen
         /\ droppedSeen' \in 0..MaxFrames /\ seen' \in 0..MaxSessions
         /\ StageInv'
<1>0. /\ phase \in {"idle", "reading", "given"}
      /\ cb \in {"wait", "web", "online", "rssi", "payload", "recycle"}
      /\ topic \in [mac : Macs \cup {NoMac}, tail : Seq(Cells)] /\ Len(topic.tail) = TailLen
      /\ droppedSeen \in 0..MaxFrames /\ seen \in 0..MaxSessions
      /\ lost \in 0..MaxFrames /\ sessions \in 0..MaxSessions /\ MaxSessions \in Nat
  BY BridgeAssumption DEF TypeOK, Mqtt!TypeOK, BridgeAssumption
<1> USE DEF poolVars, ownVars, mqttVars, linkVars
<1>2. CASE Receive
  <2>1. UNCHANGED <<phase, mqttVars, ownVars>> /\ (held # <<>> => held' # <<>>)
    <3>1. CASE Pool!Admit
      BY <1>2, <3>1, AdmitStep DEF Receive
    <3>2. CASE Pool!Shed
      BY <1>2, <3>2 DEF Receive, Pool!Shed
    <3> QED BY <1>2, <3>1, <3>2 DEF Receive
  <2> QED BY <1>0, <2>1 DEF StageInv
<1>3. CASE Network
  <2>1. pub' = pub
    BY <1>3, NetworkKeeps DEF Network, TypeOK
  <2> QED BY <1>0, <1>3, <2>1 DEF Network, StageInv
<1>4. CASE TakeFrame
  BY <1>0, <1>4 DEF TakeFrame, Pool!Start, StageInv
<1>5. CASE WebOnMessage
  BY <1>0, <1>5 DEF WebOnMessage, Pool!Give, StageInv
<1>6. CASE CheckOnline
  <2>1. /\ cb = "online" /\ UNCHANGED <<poolVars, linkVars, droppedSeen>>
        /\ topic' \in [mac : Macs \cup {NoMac}, tail : Seq(Cells)] /\ Len(topic'.tail) = TailLen
        /\ \/ pub' = "check" /\ seen' = sessions /\ cb' = "rssi"
           \/ pub' = pub /\ seen' = 0 /\ cb' = "recycle"
    BY <1>6, CheckStep
  <2> QED BY <1>0, <2>1 DEF StageInv
<1>7. CASE Publishing
  BY <1>0, <1>7, PublishingStep DEF StageInv
<1>8. CASE PublishPayload
  BY <1>0, <1>8, PayloadStep DEF StageInv
<1>9. CASE NoteDropped
  BY <1>0, <1>9 DEF NoteDropped, StageInv
<1>10. CASE Recycle
  BY <1>0, <1>10, RecycleStep DEF StageInv
<1>11. CASE UNCHANGED vars
  BY <1>0, <1>11 DEF vars, StageInv
<1> QED
  BY <1>2, <1>3, <1>4, <1>5, <1>6, <1>7, <1>8, <1>9, <1>10, <1>11 DEF Next, OnEspnowMsg

(* While the callback is at it, the frame in hand stays the same.          *)
LEMMA SameFrame ==
  ASSUME TypeOK, StageInv, LinkInv, TopicNow, [Next]_vars, cb # "wait", ~Recycle
  PROVE  Frame' = Frame
<1> USE DEF poolVars
<1>2. CASE Receive
  <2>1. CASE Pool!Admit
    BY <1>2, <2>1, AdmitStep DEF Receive, StageInv
  <2>2. CASE Pool!Shed
    BY <1>2, <2>2 DEF Receive, Pool!Shed, Frame
  <2> QED BY <1>2, <2>1, <2>2 DEF Receive
<1>3. ASSUME held' = held PROVE Frame' = Frame
  BY <1>3 DEF Frame
<1> QED
  BY <1>2, <1>3, CheckStep, PublishingStep, PayloadStep
  DEF Next, OnEspnowMsg, Network, TakeFrame, Pool!Start, WebOnMessage, Pool!Give, NoteDropped, vars

LEMMA TopicStep ==
  ASSUME TypeOK, StageInv, LinkInv, TopicNow, HeldInv, [Next]_vars
  PROVE  TopicNow'
<1> USE DEF ownVars
<1>1. ASSUME cb # "wait", ~Recycle, cb' = cb, topic' = topic
      PROVE  TopicNow'
  <2>1. Frame' = Frame
    BY <1>1, SameFrame
  <2> QED BY <1>1, <2>1 DEF TopicNow
<1>2. ASSUME cb' \notin {"rssi", "payload"} PROVE TopicNow'
  BY <1>2 DEF TopicNow
<1>3. CASE CheckOnline
  <2>1. Frame' = Frame
    BY <1>3, CheckStep DEF Frame, poolVars
  <2> QED BY <1>2, <1>3, <2>1, CheckStep DEF TopicNow
<1>4. CASE PublishPayload
  <2>1. Frame' = Frame
    BY <1>4, PayloadStep DEF Frame, poolVars
  <2> QED BY <1>4, <2>1, PayloadStep DEF TopicNow
<1>5. CASE cb \in {"rssi", "payload"} /\ cb' = cb /\ topic' = topic
  BY <1>1, <1>5 DEF Recycle
<1> QED
  BY <1>2, <1>3, <1>4, <1>5, PublishingStep, RecycleStep
  DEF Next, OnEspnowMsg, Receive, Network, TakeFrame, WebOnMessage, NoteDropped, vars

-----------------------------------------------------------------------------
(* What the broker has *)

(* The broker gets something in one step only: half a frame, sent.         *)
LEMMA BrokerGrows ==
  ASSUME TypeOK, StageInv, LinkInv, TopicNow, [Next]_vars, broker' # broker
  PROVE  /\ Publishing /\ cb \in {"rssi", "payload"} /\ pub = "lib" /\ pub' = "done"
         /\ session /\ broker' = Append(broker, Message)
         /\ UNCHANGED <<poolVars, ownVars>>
<1> USE DEF mqttVars, linkVars
<1>1. Publishing
  BY CheckStep, PayloadStep, RecycleStep, NetworkKeeps
  DEF Next, OnEspnowMsg, Receive, Network, TakeFrame, WebOnMessage, NoteDropped, vars, TypeOK
<1> QED BY <1>1, PublishingStep

LEMMA Sent ==
  ASSUME TypeOK, StageInv, TopicNow, cb \in {"rssi", "payload"},
         broker' = Append(broker, Message)
  PROVE  /\ Len(broker) \in Nat /\ Len(broker') = Len(broker) + 1
         /\ broker \in Seq(Messages) /\ broker' \in Seq(Messages)
         /\ DOMAIN broker = 1..Len(broker) /\ DOMAIN broker' = 1..Len(broker')
         /\ \A i \in 1..Len(broker) : broker'[i] = broker[i]
         /\ broker'[Len(broker')] = Message
<1>1. broker \in Seq(Messages)
  BY DEF TypeOK, Mqtt!TypeOK
<1>2. Message \in Messages
  BY MessageRight
<1> HIDE DEF Message
<1>3. /\ broker' \in Seq(Messages) /\ Len(broker') = Len(broker) + 1
      /\ broker'[Len(broker) + 1] = Message /\ \A i \in 1..Len(broker) : broker'[i] = broker[i]
  BY <1>1, <1>2, Extended
<1> QED BY <1>1, <1>3

LEMMA RightTopicStep ==
  ASSUME TypeOK, StageInv, LinkInv, TopicNow, RightTopic, [Next]_vars
  PROVE  RightTopic'
<1>1. CASE broker' = broker
  BY <1>1 DEF RightTopic
<1>2. CASE broker' # broker
  <2>1. cb \in {"rssi", "payload"} /\ broker' = Append(broker, Message)
    BY <1>2, BrokerGrows
  <2> DEFINE Right(m) ==
        /\ m.topic.mac = MacOf[m.frame]
        /\ m.topic.suffix = IF m.body = "rssi" THEN Suffix
                            ELSE IF Len(KeyOf[m.frame]) \in 1..KeyMax THEN <<"/">> \o UpToNul(KeyOf[m.frame])
                                 ELSE <<>>
  <2>2. Right(Message)
    <3>1. /\ Frame \in Frames /\ Message.frame = Frame /\ Message.body = cb
          /\ Message.topic.mac = MacOf[Frame]
          /\ Message.topic.suffix = IF cb = "rssi" THEN Suffix ELSE PayloadSuffix(KeyOf[Frame])
      BY <2>1, MessageRight, FrameInHand
    <3>2. KeyOf[Frame] \in Seq(STRING) /\ KeyMax \in Nat
      BY <3>1, BridgeAssumption DEF BridgeAssumption, Frames
    <3> HIDE DEF Frame, Message
    <3>3. Usable(KeyOf[Frame]) <=> Len(KeyOf[Frame]) \in 1..KeyMax
      <4>1. Len(KeyOf[Frame]) \in Nat
        BY <3>2
      <4> QED BY <3>2, <4>1 DEF Usable
    <3> QED BY <3>1, <3>3 DEF PayloadSuffix
  <2>3. \A i \in 1..Len(broker) : Right(broker[i])
    BY <2>1, Sent DEF RightTopic
  <2>4. \A i \in DOMAIN broker' : Right(broker'[i])
    <3> TAKE i \in DOMAIN broker'
    <3>1. /\ Len(broker) \in Nat /\ Len(broker') = Len(broker) + 1
          /\ DOMAIN broker' = 1..Len(broker')
          /\ \A k \in 1..Len(broker) : broker'[k] = broker[k]
          /\ broker'[Len(broker')] = Message
      BY <2>1, Sent
    <3> HIDE DEF Right, Message
    <3>2. CASE i = Len(broker')
      BY <2>2, <3>1, <3>2
    <3>3. CASE i # Len(broker')
      <4>1. i \in 1..Len(broker)
        BY <3>1, <3>3
      <4> QED BY <2>3, <3>1, <4>1
    <3> QED BY <3>2, <3>3
  <2> QED BY <2>4 DEF RightTopic
<1> QED BY <1>1, <1>2

(* What has begun stays so until the frame is given back.                  *)
LEMMA BegunStays ==
  ASSUME TypeOK, StageInv, LinkInv, TopicNow, [Next]_vars, ~Recycle, NEW b, Begun(b)
  PROVE  Begun(b)'
<1> USE DEF Begun, ownVars, mqttVars, linkVars
<1>1. cb \in {"rssi", "payload", "recycle"}
  OBVIOUS
<1>2. CASE Receive
  BY <1>2 DEF Receive
<1>3. CASE Network
  BY <1>3, NetworkKeeps DEF Network, TypeOK
<1>4. CASE TakeFrame
  BY <1>1, <1>4 DEF TakeFrame, Pool!Start, StageInv
<1>5. CASE WebOnMessage
  BY <1>1, <1>5 DEF WebOnMessage
<1>6. CASE CheckOnline
  BY <1>1, <1>6, CheckStep
<1>7. CASE Publishing
  BY <1>7, PublishingStep
<1>8. CASE PublishPayload
  BY <1>8, PayloadStep
<1>9. CASE NoteDropped
  BY <1>9 DEF NoteDropped
<1>11. CASE UNCHANGED vars
  BY <1>11 DEF vars
<1> QED
  BY <1>2, <1>3, <1>4, <1>5, <1>6, <1>7, <1>8, <1>9, <1>11 DEF Next, OnEspnowMsg

(* What stands at the broker of a frame the channel still holds.           *)
Older(m) ==
  /\ m.frame <= heard
  /\ \A k \in 1..Len(held) :
       m.frame < held[k] \/ (k = 1 /\ m.frame = held[1] /\ Begun(m.body))

LEMMA OlderStays ==
  ASSUME TypeOK, StageInv, LinkInv, TopicNow, HeldInv, [Next]_vars,
         NEW m \in Messages, Older(m)
  PROVE  Older(m)'
<1>0. m.frame \in 1..MaxFrames /\ heard \in 0..MaxFrames /\ MaxFrames \in Nat /\ held \in Seq(Frames)
  BY BridgeAssumption DEF Messages, Frames, TypeOK, BridgeAssumption
<1>1. CASE Receive /\ Pool!Admit
  <2>1. /\ Len(held) \in Nat /\ Len(held') = Len(held) + 1
        /\ held'[Len(held) + 1] = heard + 1 /\ heard' = heard + 1
        /\ \A i \in 1..Len(held) : held'[i] = held[i]
    BY <1>1, AdmitStep DEF Receive
  <2>2. ~Recycle
    BY <1>1 DEF Receive, Recycle, ownVars, TypeOK
  <2>3. m.frame <= heard'
    BY <1>0, <2>1 DEF Older
  <2>4. ASSUME NEW k \in 1..Len(held')
        PROVE  m.frame < held'[k] \/ (k = 1 /\ m.frame = held'[1] /\ Begun(m.body)')
    <3>1. CASE k = Len(held) + 1
      <4>1. m.frame <= heard /\ held'[k] = heard + 1
        BY <2>1, <3>1 DEF Older
      <4> QED BY <1>0, <4>1
    <3>2. CASE k # Len(held) + 1
      <4>1. k \in 1..Len(held) /\ held'[k] = held[k]
        BY <2>1, <2>4, <3>2
      <4>2. m.frame < held[k] \/ (k = 1 /\ m.frame = held[1] /\ Begun(m.body))
        BY <4>1 DEF Older
      <4>3. Begun(m.body) => Begun(m.body)'
        BY <2>2, BegunStays
      <4> QED BY <4>1, <4>2, <4>3
    <3> QED BY <3>1, <3>2
  <2> QED BY <2>3, <2>4 DEF Older
<1>2. CASE Recycle
  <2>1. /\ heard' = heard /\ Len(held) \in Nat
        /\ \A i \in 1..Len(held') : i + 1 \in 2..Len(held) /\ held'[i] = held[i + 1]
    BY <1>2, RecycleStep
  <2>2. ASSUME NEW k \in 1..Len(held') PROVE m.frame < held'[k]
    <3>1. k + 1 \in 1..Len(held) /\ k + 1 # 1 /\ held'[k] = held[k + 1]
      BY <2>1, <2>2
    <3> QED BY <3>1 DEF Older
  <2> QED BY <2>1, <2>2 DEF Older
<1>3. CASE ~Recycle /\ held' = held /\ heard' \in {heard, heard + 1}
  <2>1. Begun(m.body) => Begun(m.body)'
    BY <1>3, BegunStays
  <2>2. m.frame <= heard'
    BY <1>0, <1>3 DEF Older
  <2> QED BY <1>3, <2>1, <2>2 DEF Older
<1>4. Receive /\ Pool!Shed => ~Recycle /\ held' = held /\ heard' = heard + 1
  BY DEF Receive, Pool!Shed, Recycle, ownVars, TypeOK
<1> QED
  BY <1>1, <1>2, <1>3, <1>4, CheckStep, PublishingStep, PayloadStep
  DEF Next, OnEspnowMsg, Receive, Network, TakeFrame, Pool!Start, WebOnMessage, Pool!Give,
      NoteDropped, vars, poolVars

LEMMA OrderStep ==
  ASSUME TypeOK, StageInv, LinkInv, TopicNow, HeldInv, OrderInv, BrokerOrder, [Next]_vars
  PROVE  OrderInv' /\ BrokerOrder'
<1>0. broker \in Seq(Messages) /\ DOMAIN broker = 1..Len(broker) /\ Len(broker) \in Nat
  BY DEF TypeOK, Mqtt!TypeOK
<1>1. \A i \in 1..Len(broker) : broker[i] \in Messages /\ Older(broker[i])
  BY <1>0 DEF OrderInv, Older
<1>2. \A m \in Messages : Older(m) => Older(m)'
  BY OlderStays
<1>3. \A i \in 1..Len(broker) : \E m \in Messages : m = broker[i] /\ Older(m)'
  BY <1>1, <1>2
<1>4. CASE broker' = broker
  <2>1. OrderInv'
    BY <1>3, <1>4 DEF OrderInv, Older
  <2>2. BrokerOrder'
    BY <1>4 DEF BrokerOrder
  <2> QED BY <2>1, <2>2
<1>5. CASE broker' # broker
  <2>1. /\ cb \in {"rssi", "payload"} /\ pub = "lib" /\ pub' = "done"
        /\ broker' = Append(broker, Message) /\ UNCHANGED <<poolVars, ownVars>>
    BY <1>5, BrokerGrows
  <2>2. Message \in Messages /\ Message.frame = Frame /\ Message.body = cb
    BY <2>1, MessageRight
  <2>3. Frame \in Frames /\ Frame = held[1] /\ Len(held) \in Nat /\ Len(held) > 0
    BY <2>1, FrameInHand
  <2>4. /\ Len(broker') = Len(broker) + 1 /\ DOMAIN broker' = 1..Len(broker')
        /\ \A i \in 1..Len(broker) : broker'[i] = broker[i]
        /\ broker'[Len(broker')] = Message
    BY <2>1, Sent
  <2>5. PICK n \in Messages : n = Message
    BY <2>2
  <2>6. n.frame = held[1] /\ n.body = cb /\ broker'[Len(broker')] = n
    BY <2>2, <2>3, <2>4, <2>5
  <2> HIDE DEF Message, Frame
  <2>7. Older(n)'
    <3>1. held' = held /\ heard' = heard /\ cb' = cb
      BY <2>1 DEF poolVars, ownVars
    <3>2. Begun(n.body)'
      BY <2>1, <2>6, <3>1 DEF Begun
    <3>3. held[1] <= heard
      <4>1. 1 \in 1..Len(held)
        BY <2>3
      <4>2. held[1] \in 1..heard
        BY <4>1 DEF HeldInv
      <4> QED BY <4>2
    <3>4. \A k \in 1..Len(held) : k = 1 \/ held[1] < held[k]
      <4> TAKE k \in 1..Len(held)
      <4>1. k = 1 \/ 1 < k
        OBVIOUS
      <4>2. 1 \in 1..Len(held)
        BY <2>3
      <4> QED BY <4>1, <4>2 DEF HeldInv
    <3> QED BY <2>6, <3>1, <3>2, <3>3, <3>4 DEF Older
  <2>8. \A i \in 1..Len(broker') : \E m \in Messages : m = broker'[i] /\ Older(m)'
    <3> TAKE i \in 1..Len(broker')
    <3>1. CASE i = Len(broker')
      BY <2>6, <2>7, <3>1
    <3>2. CASE i # Len(broker')
      <4>1. i \in 1..Len(broker)
        BY <1>0, <2>4, <3>2
      <4> QED BY <1>3, <2>4, <4>1
    <3> QED BY <3>1, <3>2
  <2>9. OrderInv'
    BY <2>8 DEF OrderInv, Older
  <2>10. BrokerOrder'
    <3> SUFFICES ASSUME NEW i \in 1..Len(broker'), NEW j \in 1..Len(broker'), i < j
                 PROVE  \/ broker'[i].frame < broker'[j].frame
                        \/ broker'[i].frame = broker'[j].frame
                           /\ broker'[i].body = "rssi" /\ broker'[j].body = "payload"
      BY <2>4 DEF BrokerOrder
    <3>1. i \in 1..Len(broker) /\ broker'[i] = broker[i]
      <4>1. i \in 1..Len(broker)
        BY <1>0, <2>4
      <4> QED BY <2>4, <4>1
    <3>2. CASE j = Len(broker')
      <4>1. 1 \in 1..Len(held)
        BY <2>3
      <4>2. broker[i].frame < held[1] \/ (broker[i].frame = held[1] /\ Begun(broker[i].body))
        BY <1>1, <3>1, <4>1 DEF Older
      <4>3. Begun(broker[i].body) => cb = "payload" /\ broker[i].body = "rssi"
        BY <2>1 DEF Begun
      <4> QED BY <2>6, <3>1, <3>2, <4>2, <4>3
    <3>3. CASE j # Len(broker')
      <4>1. j \in 1..Len(broker) /\ broker'[j] = broker[j]
        <5>1. j \in 1..Len(broker)
          BY <1>0, <2>4, <3>3
        <5> QED BY <2>4, <5>1
      <4> QED BY <1>0, <3>1, <4>1 DEF BrokerOrder
    <3> QED BY <3>2, <3>3
  <2> QED BY <2>9, <2>10
<1> QED BY <1>4, <1>5

-----------------------------------------------------------------------------
(* Both halves *)

(* A session that is up after a step and was not replaced was up before,   *)
(* and the flag has not been lost with it up.                              *)
LEMMA SessionStep ==
  ASSUME TypeOK, StageInv, LinkInv, TopicNow, [Next]_vars
  PROVE  /\ handle' = handle /\ sessions <= sessions'
         /\ session' /\ sessions' = sessions => session
         /\ connected /\ session' /\ sessions' = sessions => connected'
<1>0. sessions \in Nat
  BY BridgeAssumption DEF TypeOK, Mqtt!TypeOK, BridgeAssumption
<1> USE DEF mqttVars, linkVars
<1>1. CASE UNCHANGED linkVars
  BY <1>0, <1>1
<1>2. CASE Network
  BY <1>2, NetworkKeeps DEF Network, TypeOK
<1>3. CASE Publishing
  BY <1>0, <1>3, PublishingStep
<1> QED
  BY <1>1, <1>2, <1>3, CheckStep, PayloadStep
  DEF Next, OnEspnowMsg, Receive, TakeFrame, WebOnMessage, NoteDropped, Recycle, vars

LEMMA KeptBack ==
  ASSUME TypeOK, StageInv, LinkInv, TopicNow, HalvesInv, [Next]_vars, seen' = seen, Kept'
  PROVE  Kept /\ sessions' = sessions
<1>1. sessions \in Nat /\ sessions' \in Nat /\ seen \in Nat
  <2>1. Mqtt!TypeOK'
    BY LinkStep
  <2> QED BY <2>1, BridgeAssumption DEF TypeOK, Mqtt!TypeOK, BridgeAssumption
<1>2. seen <= sessions /\ sessions <= sessions' /\ sessions' = seen /\ session'
  BY SessionStep DEF HalvesInv, Kept
<1>3. sessions' = sessions
  BY <1>1, <1>2
<1> QED BY <1>2, <1>3, SessionStep DEF Kept

LEMMA HasStays ==
  ASSUME TypeOK, StageInv, LinkInv, TopicNow, [Next]_vars, cb # "wait", ~Recycle,
         NEW b, Has(b)
  PROVE  Has(b)'
<1>1. Frame' = Frame
  BY SameFrame
<1>2. CASE broker' = broker
  BY <1>1, <1>2 DEF Has
<1>3. CASE broker' # broker
  <2>1. /\ Len(broker) \in Nat /\ Len(broker') = Len(broker) + 1
        /\ \A i \in 1..Len(broker) : broker'[i] = broker[i]
    BY <1>3, BrokerGrows, Sent
  <2>2. PICK i \in 1..Len(broker) : broker[i].frame = Frame /\ broker[i].body = b
    BY DEF Has
  <2>3. i \in 1..Len(broker') /\ broker'[i] = broker[i]
    BY <2>1
  <2> HIDE DEF Frame
  <2> QED BY <1>1, <2>2, <2>3 DEF Has
<1> QED BY <1>2, <1>3

LEMMA HasSent ==
  ASSUME TypeOK, StageInv, LinkInv, TopicNow, Publishing, broker' = Append(broker, Message)
  PROVE  Has(cb)'
<1>1. cb \in {"rssi", "payload"} /\ UNCHANGED <<poolVars, ownVars>>
  BY PublishingStep
<1>2. Message.frame = Frame /\ Message.body = cb
  BY <1>1, MessageRight
<1>3. Len(broker) \in Nat /\ Len(broker') = Len(broker) + 1 /\ broker'[Len(broker')] = Message
  BY <1>1, Sent
<1>4. Frame' = Frame /\ cb' = cb
  BY <1>1 DEF Frame, poolVars, ownVars
<1>5. Len(broker') \in 1..Len(broker')
  BY <1>3
<1> HIDE DEF Frame, Message
<1>6. broker'[Len(broker')].frame = Frame' /\ broker'[Len(broker')].body = cb'
  BY <1>2, <1>3, <1>4
<1> QED BY <1>5, <1>6 DEF Has

LEMMA HalvesStep ==
  ASSUME TypeOK, StageInv, LinkInv, TopicNow, HalvesInv, [Next]_vars
  PROVE  HalvesInv'
<1>0. sessions \in Nat /\ sessions' \in Nat /\ seen \in Nat
  <2>1. Mqtt!TypeOK'
    BY LinkStep
  <2> QED BY <2>1, BridgeAssumption DEF TypeOK, Mqtt!TypeOK, BridgeAssumption
<1>1. /\ handle' = handle /\ sessions <= sessions' /\ seen <= sessions
      /\ connected /\ session' /\ sessions' = sessions => connected'
  BY SessionStep DEF HalvesInv
<1>2. seen' = seen => seen' <= sessions'
  BY <1>0, <1>1
<1>3. seen' = seen /\ Kept' => Kept /\ session' /\ sessions' = sessions
  BY KeptBack DEF Kept
<1>4. ASSUME NEW b, Has(b), cb # "wait", ~Recycle PROVE Has(b)'
  BY <1>4, HasStays
<1> USE DEF ownVars, mqttVars, linkVars
<1>5. CASE cb' = cb /\ seen' = seen /\ pub' = pub /\ ~Recycle
  <2>1. CASE cb \in {"rssi", "payload"}
    <3>0. handle = "ready" /\ (Kept' => connected /\ pub # "abort")
      BY <1>3, <1>5, <2>1 DEF HalvesInv
    <3>1. handle = "ready" /\ (Kept' => connected' /\ pub # "abort")
      BY <1>1, <1>3, <1>5, <3>0
    <3>2. cb = "rssi" /\ pub = "done" /\ Kept' => Has("rssi")'
      BY <1>3, <1>4, <1>5 DEF HalvesInv
    <3>3. cb = "payload" /\ Kept' => Has("rssi")' /\ (pub = "done" => Has("payload")')
      BY <1>3, <1>4, <1>5 DEF HalvesInv
    <3> QED BY <1>1, <1>2, <1>5, <2>1, <3>1, <3>2, <3>3 DEF HalvesInv
  <2>2. CASE cb = "recycle"
    <3>1. seen # 0 /\ Kept' => Has("rssi")' /\ Has("payload")'
      BY <1>3, <1>4, <1>5, <2>2 DEF HalvesInv
    <3> QED BY <1>2, <1>5, <2>2, <3>1 DEF HalvesInv
  <2>3. CASE cb \notin {"rssi", "payload", "recycle"}
    BY <1>2, <1>5, <2>3 DEF HalvesInv
  <2> QED BY <2>1, <2>2, <2>3
<1>6. CASE cb' \in {"wait", "web", "online"} /\ seen' = seen
  BY <1>2, <1>6 DEF HalvesInv
<1>7. CASE CheckOnline
  <2>1. CASE connected /\ pub' = "check" /\ seen' = sessions /\ cb' = "rssi"
    <3>1. handle = "ready" /\ sessions' = sessions /\ connected' = connected
      BY <1>7, <2>1, CheckStep DEF LinkInv
    <3> QED BY <1>0, <1>1, <2>1, <3>1 DEF HalvesInv
  <2>2. CASE seen' = 0 /\ cb' = "recycle"
    BY <1>0, <2>2 DEF HalvesInv
  <2> QED BY <1>7, <2>1, <2>2, CheckStep
<1>8. CASE Publishing
  <2>1. /\ cb \in {"rssi", "payload"} /\ cb' = cb /\ seen' = seen /\ ~Recycle
        /\ connected' = connected
        /\ \/ broker' = Append(broker, Message) /\ pub = "lib" /\ pub' = "done"
           \/ /\ broker' = broker
              /\ \/ pub = "check" /\ (pub' = "lib" \/ (pub' = "done" /\ ~connected))
                 \/ pub = "lib" /\ ~session' /\ pub' \in {"done", "abort"}
                 \/ pub = "abort" /\ pub' = "done"
    BY <1>8, PublishingStep DEF Recycle
  <2>2. Kept' => connected /\ pub # "abort" /\ session'
    BY <1>3, <2>1 DEF HalvesInv
  <2>3. Kept' => connected' /\ pub' # "abort"
    BY <2>1, <2>2
  <2>4. Kept' /\ pub' = "done" => Has(cb)'
    <3>1. broker' = Append(broker, Message) => Has(cb)'
      BY <1>8, HasSent
    <3> HIDE DEF Message
    <3> QED BY <2>1, <2>2, <3>1
  <2>5. cb = "payload" /\ Kept' => Has("rssi")'
    BY <1>3, <1>4, <2>1 DEF HalvesInv
  <2>6. handle' = "ready"
    BY <1>1, <2>1 DEF HalvesInv
  <2>7. (cb = "rssi" /\ Kept' /\ pub' = "done" => Has("rssi")')
        /\ (cb = "payload" /\ Kept' /\ pub' = "done" => Has("payload")')
    BY <2>1, <2>4 DEF Has
  <2> QED BY <1>2, <2>1, <2>3, <2>5, <2>6, <2>7 DEF HalvesInv
<1>9. CASE PublishPayload
  <2>1. /\ cb = "rssi" /\ cb' = "payload" /\ pub = "done" /\ pub' = "check" /\ seen' = seen
        /\ ~Recycle /\ connected' = connected
    BY <1>9, PayloadStep DEF Recycle
  <2>2. Kept' => connected' /\ Has("rssi")'
    BY <1>3, <1>4, <2>1 DEF HalvesInv
  <2>3. handle' = "ready"
    BY <1>1, <2>1 DEF HalvesInv
  <2> QED BY <1>2, <2>1, <2>2, <2>3 DEF HalvesInv
<1>10. CASE NoteDropped
  <2>1. cb = "payload" /\ cb' = "recycle" /\ pub = "done" /\ seen' = seen /\ ~Recycle
    BY <1>10 DEF NoteDropped, Recycle
  <2>2. Kept' => Has("rssi")' /\ Has("payload")'
    BY <1>3, <1>4, <2>1 DEF HalvesInv
  <2> QED BY <1>2, <2>1, <2>2 DEF HalvesInv
<1>11. CASE Receive
  BY <1>5, <1>11 DEF Receive, Recycle, TypeOK
<1>12. CASE Network
  <2>1. cb' = cb /\ seen' = seen /\ pub' = pub /\ ~Recycle
    BY <1>12, NetworkKeeps DEF Network, Recycle, TypeOK
  <2> QED BY <1>5, <2>1
<1>13. CASE UNCHANGED vars
  BY <1>5, <1>13 DEF vars, Recycle
<1> QED
  BY <1>6, <1>7, <1>8, <1>9, <1>10, <1>11, <1>12, <1>13
  DEF Next, OnEspnowMsg, TakeFrame, WebOnMessage, Recycle

-----------------------------------------------------------------------------
(* The theorems *)

LEMMA InitInv == Init => IInv
<1> SUFFICES ASSUME Init PROVE IInv
  OBVIOUS
<1> USE DEF Init, Pool!Init, Mqtt!Init
<1>1. /\ MaxFrames \in Nat /\ MaxSessions \in Nat /\ MaxLinkCalls \in Nat /\ KeyMax \in Nat
  BY BridgeAssumption DEF BridgeAssumption
<1>2. topic \in [mac : Macs \cup {NoMac}, tail : Seq(Cells)] /\ Len(topic.tail) = TailLen
  <2>1. Nul \in Cells
    BY DEF Cells
  <2>2. TailLen \in Nat
    BY <1>1 DEF TailLen
  <2> DEFINE blank == [i \in 1..TailLen |-> Nul]
  <2>3. blank \in Seq(Cells) /\ Len(blank) = TailLen
    BY <2>1, <2>2
  <2> HIDE DEF blank
  <2>4. topic = [mac |-> NoMac, tail |-> blank]
    BY DEF blank
  <2> QED BY <2>3, <2>4
<1>3. Mqtt!TypeOK
  <2>1. broker \in Seq(Messages)
    BY DEF Mqtt!Init
  <2>2. sessions \in 0..MaxSessions /\ calls \in 0..MaxLinkCalls
    BY <1>1
  <2>3. connected \in BOOLEAN /\ started \in BOOLEAN /\ led \in BOOLEAN
        /\ online \in BOOLEAN /\ session \in BOOLEAN
    BY DEF Mqtt!Init
  <2> QED BY <2>1, <2>2, <2>3 DEF Mqtt!TypeOK
<1>4. TypeOK
  <2>1. held \in Seq(Frames) /\ given \in Seq(Frames)
    OBVIOUS
  <2>2. heard \in 0..MaxFrames /\ lost \in 0..MaxFrames /\ droppedSeen \in 0..MaxFrames
        /\ seen \in 0..MaxSessions
    BY <1>1
  <2> QED BY <1>2, <1>3, <2>1, <2>2 DEF TypeOK
<1>5. StageInv /\ HeldInv /\ LinkInv
  BY DEF StageInv, HeldInv, LinkInv
<1>6. TopicNow /\ RightTopic /\ OrderInv /\ BrokerOrder
  BY DEF TopicNow, RightTopic, OrderInv, BrokerOrder
<1>7. HalvesInv
  BY DEF HalvesInv
<1> QED BY <1>4, <1>5, <1>6, <1>7 DEF IInv

LEMMA StepInv == IInv /\ [Next]_vars => IInv'
<1> SUFFICES ASSUME IInv, [Next]_vars PROVE IInv'
  OBVIOUS
<1> USE DEF IInv
<1>1. TypeOK'
  BY LinkStep, PoolStep, OwnStep DEF TypeOK
<1>2. StageInv' /\ HeldInv' /\ LinkInv'
  BY LinkStep, PoolStep, OwnStep
<1>3. TopicNow' /\ RightTopic'
  BY TopicStep, RightTopicStep
<1>4. OrderInv' /\ BrokerOrder' /\ HalvesInv'
  BY OrderStep, HalvesStep
<1> QED BY <1>1, <1>2, <1>3, <1>4

LEMMA Invariant == Spec => []IInv
BY InitInv, StepInv, PTL DEF Spec

(* Every message is on the topic of its own frame, and no write of a topic *)
(* leaves s_topic (main.c lines 43 to 61, 82 to 92).                       *)
THEOREM TopicInvAlways == Spec => []TopicInv
<1>1. IInv => TopicInv
  BY DEF IInv, TopicInv
<1> QED BY <1>1, Invariant, PTL

(* Frames reach the broker in the order of the air, RSSI first, no half    *)
(* twice (main.c line 7).                                                  *)
THEOREM BrokerOrderAlways == Spec => []BrokerOrder
<1>1. IInv => BrokerOrder
  BY DEF IInv
<1> QED BY <1>1, Invariant, PTL

(* Both halves of a frame are at the broker when its callback returns,     *)
(* unless the session broke on the way (mqtt_publish() calls of main.c).   *)
THEOREM BothHalvesOrBrokenAlways == Spec => []BothHalvesOrBroken
<1>1. IInv => BothHalvesOrBroken
  <2> SUFFICES ASSUME IInv, cb = "recycle", seen # 0, session, sessions = seen,
                      NEW b \in {"rssi", "payload"}
               PROVE  \E i \in DOMAIN broker : broker[i].frame = Frame /\ broker[i].body = b
    BY DEF BothHalvesOrBroken
  <2>1. DOMAIN broker = 1..Len(broker)
    BY DEF IInv, TypeOK, Mqtt!TypeOK
  <2>2. Has("rssi") /\ Has("payload")
    BY DEF IInv, HalvesInv, Kept
  <2> QED BY <2>1, <2>2 DEF Has
<1> QED BY <1>1, Invariant, PTL

(* A payload alone is the work of a later session than the one the         *)
(* callback checked (main.c lines 75 to 92).                               *)
THEOREM LonePayloadAlways == Spec => LonePayload
<1>1. IInv /\ [Next]_vars =>
        [\A f \in Frames :
           (broker' # broker /\ broker'[Len(broker')].frame = f
            /\ broker'[Len(broker')].body = "payload"
            /\ ~\E i \in DOMAIN broker : broker[i].frame = f)
           => sessions > seen]_vars
  <2> SUFFICES ASSUME IInv, [Next]_vars, NEW f \in Frames, broker' # broker,
                      broker'[Len(broker')].frame = f, broker'[Len(broker')].body = "payload",
                      ~\E i \in DOMAIN broker : broker[i].frame = f
               PROVE  sessions > seen
    OBVIOUS
  <2> USE DEF IInv
  <2>1. /\ Publishing /\ cb \in {"rssi", "payload"} /\ session
        /\ broker' = Append(broker, Message)
    BY BrokerGrows
  <2>2. broker'[Len(broker')] = Message /\ DOMAIN broker = 1..Len(broker)
    BY <2>1, Sent
  <2>3. Message.frame = Frame /\ Message.body = cb
    BY <2>1, MessageRight
  <2>4. f = Frame /\ cb = "payload"
    BY <2>2, <2>3
  <2>5. ~Has("rssi")
    BY <2>2, <2>4 DEF Has
  <2>6. ~Kept /\ seen <= sessions
    BY <2>4, <2>5 DEF HalvesInv
  <2>7. sessions \in Nat /\ seen \in Nat /\ sessions # seen
    BY <2>1, <2>6, BridgeAssumption DEF Kept, TypeOK, Mqtt!TypeOK, BridgeAssumption
  <2> QED BY <2>6, <2>7
<1> QED BY <1>1, Invariant, PTL DEF Spec, LonePayload
=============================================================================
