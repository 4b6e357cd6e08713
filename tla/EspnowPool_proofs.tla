-------------------------- MODULE EspnowPool_proofs --------------------------
(***************************************************************************)
(* What holds of the receive pool for every QUEUE_LEN and every number of  *)
(* frames.  The argument is one inductive invariant, IInv: the program     *)
(* counters tell who holds a slot, boot tells how many slots are free, no  *)
(* slot has two owners, and every frame counted is accounted for.          *)
(***************************************************************************)
EXTENDS EspnowPool, SequenceTheorems, TLAPS

-----------------------------------------------------------------------------
(* Queues. *)

(* Sending to a queue adds one element at its end. *)
LEMMA SendFacts ==
  ASSUME NEW S, NEW q \in Seq(S), NEW e \in S
  PROVE  /\ Append(q, e) \in Seq(S)
         /\ Len(Append(q, e)) = Len(q) + 1
         /\ Elements(Append(q, e)) = Elements(q) \cup {e}
         /\ Distinct(q) /\ e \notin Elements(q) => Distinct(Append(q, e))
<1> DEFINE r == Append(q, e)
<1>1. /\ r \in Seq(S) /\ Len(r) = Len(q) + 1
      /\ \A i \in 1..Len(q) : r[i] = q[i]
      /\ r[Len(q) + 1] = e
  OBVIOUS
<1>2. /\ DOMAIN q = 1..Len(q) /\ DOMAIN r = 1..(Len(q) + 1) /\ Len(q) \in Nat
  BY <1>1
<1>3. Elements(r) = Elements(q) \cup {e}
  <2>1. ASSUME NEW x \in Elements(r) PROVE x \in Elements(q) \cup {e}
    <3>1. PICK i \in 1..(Len(q) + 1) : x = r[i]
      BY <1>2 DEF Elements
    <3>2. CASE i \in 1..Len(q)
      BY <3>1, <3>2, <1>1, <1>2 DEF Elements
    <3>3. CASE i = Len(q) + 1
      BY <3>1, <3>3, <1>1
    <3> QED BY <3>2, <3>3, <1>2
  <2>2. ASSUME NEW x \in Elements(q) PROVE x \in Elements(r)
    <3>1. PICK i \in 1..Len(q) : x = q[i]
      BY <1>2 DEF Elements
    <3>2. i \in 1..(Len(q) + 1) /\ x = r[i]
      BY <3>1, <1>1, <1>2
    <3> QED BY <3>2, <1>2 DEF Elements
  <2>3. e \in Elements(r)
    <3>1. Len(q) + 1 \in DOMAIN r /\ r[Len(q) + 1] = e
      BY <1>1, <1>2
    <3> QED BY <3>1 DEF Elements
  <2> QED BY <2>1, <2>2, <2>3
<1>4. ASSUME Distinct(q), e \notin Elements(q) PROVE Distinct(r)
  <2>1. \A i \in 1..Len(q) : q[i] # e
    BY <1>4, <1>2 DEF Elements
  <2>2. \A i, j \in 1..Len(q) : q[i] = q[j] => i = j
    BY <1>4, <1>2 DEF Distinct
  <2>3. \A i, j \in 1..(Len(q) + 1) : r[i] = r[j] => i = j
    BY <2>1, <2>2, <1>1, <1>2
  <2> QED BY <2>3, <1>2 DEF Distinct
<1> QED BY <1>1, <1>3, <1>4

LEMMA QueuedIsSlot == ASSUME NEW q \in Seq(Slots) PROVE NoSlot \notin Elements(q)
<1>1. DOMAIN q = 1..Len(q) /\ \A i \in 1..Len(q) : q[i] \in Slots
  OBVIOUS
<1>2. NoSlot \notin Slots
  BY DEF NoSlot, Slots
<1> QED BY <1>1, <1>2 DEF Elements

(* Receiving from a queue takes its first element off. *)
LEMMA ReceiveFacts ==
  ASSUME NEW S, NEW q \in Seq(S), q # <<>>
  PROVE  /\ Head(q) \in S /\ Tail(q) \in Seq(S)
         /\ Len(Tail(q)) = Len(q) - 1 /\ Len(q) > 0
         /\ Elements(q) = Elements(Tail(q)) \cup {Head(q)}
         /\ Distinct(q) => Distinct(Tail(q)) /\ Head(q) \notin Elements(Tail(q))
<1> DEFINE r == Tail(q)
<1>1. /\ Len(q) \in Nat /\ Len(q) > 0
      /\ Head(q) \in S /\ Head(q) = q[1]
      /\ r \in Seq(S) /\ Len(r) = Len(q) - 1
      /\ \A i \in 1..(Len(q) - 1) : r[i] = q[i + 1]
  OBVIOUS
<1>2. DOMAIN q = 1..Len(q) /\ DOMAIN r = 1..(Len(q) - 1)
  BY <1>1
<1>3. Elements(q) = Elements(r) \cup {Head(q)}
  <2>1. ASSUME NEW x \in Elements(q) PROVE x \in Elements(r) \cup {Head(q)}
    <3>1. PICK i \in 1..Len(q) : x = q[i]
      BY <1>2 DEF Elements
    <3>2. CASE i = 1
      BY <3>1, <3>2, <1>1
    <3>3. CASE i # 1
      <4>1. i - 1 \in 1..(Len(q) - 1) /\ x = r[i - 1]
        BY <3>1, <3>3, <1>1
      <4> QED BY <4>1, <1>2 DEF Elements
    <3> QED BY <3>2, <3>3
  <2>2. ASSUME NEW x \in Elements(r) PROVE x \in Elements(q)
    <3>1. PICK i \in 1..(Len(q) - 1) : x = r[i]
      BY <1>2 DEF Elements
    <3>2. i + 1 \in 1..Len(q) /\ x = q[i + 1]
      BY <3>1, <1>1
    <3> QED BY <3>2, <1>2 DEF Elements
  <2>3. Head(q) \in Elements(q)
    <3>1. 1 \in DOMAIN q
      BY <1>1, <1>2
    <3> QED BY <3>1, <1>1 DEF Elements
  <2> QED BY <2>1, <2>2, <2>3
<1>4. ASSUME Distinct(q) PROVE Distinct(r) /\ Head(q) \notin Elements(r)
  <2>1. \A i, j \in 1..Len(q) : q[i] = q[j] => i = j
    BY <1>4, <1>2 DEF Distinct
  <2>2. \A i, j \in 1..(Len(q) - 1) : r[i] = r[j] => i = j
    BY <2>1, <1>1
  <2>3. \A i \in 1..(Len(q) - 1) : r[i] # Head(q)
    BY <2>1, <1>1
  <2> QED BY <2>2, <2>3, <1>2 DEF Distinct, Elements
<1> QED BY <1>1, <1>3, <1>4

-----------------------------------------------------------------------------
(* The inductive invariant. *)

(* A task holds a slot exactly between taking it and letting it go. *)
HoldersInv ==
  /\ (rxSlot # NoSlot) <=> (rxPc \in {"header", "data", "post"})
  /\ (dSlot # NoSlot) <=> (dPc \in {"header", "data", "recycle"})

(* The free queue is filled one slot after the other, nobody holds a slot  *)
(* before the callback is registered, and from the end of the filling on   *)
(* no slot is ever missing.                                                *)
BootInv ==
  /\ boot = "create" => free = <<>>
  /\ boot = "fill" => /\ Len(free) < QUEUE_LEN
                      /\ Elements(free) = 1..Len(free)
  /\ ~Registered => ready = <<>> /\ rxPc = "idle" /\ dPc = "wait"
  /\ boot \in {"radio", "register"} \/ Registered =>
       Len(free) + Outstanding = QUEUE_LEN

IInv ==
  /\ TypeOK
  /\ HoldersInv
  /\ BootInv
  /\ OneOwner
  /\ FramesAccounted

LEMMA InitIInv == Init => IInv
<1> SUFFICES ASSUME Init PROVE IInv
  OBVIOUS
<1> USE PoolAssumption DEF Init
<1>1. TypeOK
  <2>1. [header |-> NoFrame, data |-> NoFrame] \in Halves
    BY DEF Halves
  <2>2. pool \in [Slots -> Halves]
    BY <2>1
  <2>3. /\ free \in Seq(Slots) /\ Len(free) = 0
        /\ ready \in Seq(Slots) /\ Len(ready) = 0
        /\ consumed \in Seq(Halves)
    OBVIOUS
  <2>4. 0 \in 0..MaxFrames /\ 0 <= QUEUE_LEN
    OBVIOUS
  <2>5. Len(free) <= FreeRoom /\ Len(ready) <= ReadyRoom
    BY <2>3, <2>4 DEF FreeRoom, ReadyRoom
  <2>6. led \in BOOLEAN
    OBVIOUS
  <2>7. received \in 0..MaxFrames /\ dropped \in 0..MaxFrames
    BY <2>4
  <2>8. /\ boot \in BootStages /\ rxPc \in {"idle", "take", "header", "data", "post"}
        /\ dPc \in {"wait", "quiet", "header", "data", "recycle"}
        /\ rxSlot \in Slots \cup {NoSlot} /\ dSlot \in Slots \cup {NoSlot}
    BY DEF BootStages
  <2> QED BY <2>2, <2>3, <2>5, <2>6, <2>7, <2>8 DEF TypeOK
<1>2. HoldersInv
  BY DEF HoldersInv
<1>3. BootInv
  BY DEF BootInv, Registered
<1>4. OneOwner
  BY DEF OneOwner, Distinct, Elements, NoSlot
<1>5. FramesAccounted
  BY DEF FramesAccounted, One
<1> QED BY <1>1, <1>2, <1>3, <1>4, <1>5 DEF IInv

-----------------------------------------------------------------------------
(* One lemma per action: it preserves the invariant. *)

(* Those of espnow_start() that change nothing but boot. *)
LEMMA BootStepIInv ==
  ASSUME IInv,
         CreateQueues \/ StartRadio \/ RegisterCallback \/ CreateDispatchTask
  PROVE  IInv'
<1> USE PoolAssumption DEF IInv
<1>1. /\ UNCHANGED <<free, ready, pool, rxPc, rxSlot, dPc, dSlot, received,
                     dropped, led, consumed>>
      /\ \/ boot = "create" /\ boot' \in {"fill", "failed"}
         \/ boot = "radio" /\ boot' \in {"register", "failed"}
         \/ boot = "register" /\ boot' \in {"task", "failed"}
         \/ boot = "task" /\ boot' \in {"up", "failed-task"}
  BY DEF CreateQueues, StartRadio, RegisterCallback, CreateDispatchTask, BootStep,
         rxVars, dVars
<1>2. TypeOK'
  BY <1>1 DEF TypeOK, BootStages
<1>3. HoldersInv'
  BY <1>1 DEF HoldersInv
<1>4. BootInv'
  <2>1. boot = "create" => Len(free) = 0 /\ Elements(free) = 1..Len(free)
    BY DEF BootInv, Elements
  <2>2. Outstanding' = Outstanding
    BY <1>1 DEF Outstanding
  <2> QED BY <1>1, <2>1, <2>2 DEF BootInv, Registered, TypeOK
<1>5. OneOwner'
  BY <1>1 DEF OneOwner
<1>6. FramesAccounted'
  BY <1>1 DEF FramesAccounted
<1> QED BY <1>2, <1>3, <1>4, <1>5, <1>6

LEMMA FillFreeIInv == ASSUME IInv, FillFree PROVE IInv'
<1> USE PoolAssumption DEF IInv
<1> DEFINE i == Len(free) + 1
<1>1. /\ boot = "fill" /\ Len(free) < QUEUE_LEN /\ Elements(free) = 1..Len(free)
      /\ ready = <<>> /\ rxPc = "idle" /\ dPc = "wait" /\ rxSlot = NoSlot /\ dSlot = NoSlot
  BY DEF FillFree, BootInv, HoldersInv, Registered
<1>2. /\ free' = Append(free, i) /\ boot' = IF i = QUEUE_LEN THEN "radio" ELSE "fill"
      /\ UNCHANGED <<ready, pool, rxPc, rxSlot, dPc, dSlot, received, dropped, led, consumed>>
  BY DEF FillFree, rxVars, dVars
<1>3. Len(free) \in Nat /\ i \in Slots /\ i \notin Elements(free)
  BY <1>1 DEF TypeOK, Slots
<1>4. /\ free' \in Seq(Slots) /\ Len(free') = i
      /\ Elements(free') = Elements(free) \cup {i} /\ Distinct(free')
  BY <1>2, <1>3, SendFacts DEF TypeOK, OneOwner
<1>5. TypeOK'
  BY <1>1, <1>2, <1>3, <1>4 DEF TypeOK, BootStages, FreeRoom
<1>6. HoldersInv'
  BY <1>2 DEF HoldersInv
<1>7. BootInv'
  <2>1. Outstanding' = 0
    BY <1>1, <1>2 DEF Outstanding, One
  <2>2. Elements(free') = 1..i
    BY <1>1, <1>3, <1>4
  <2>3. i # QUEUE_LEN => i < QUEUE_LEN
    BY <1>1, <1>3
  <2>4. boot' \in {"radio", "fill"} /\ ~Registered'
    BY <1>2 DEF Registered
  <2> QED BY <1>1, <1>2, <1>4, <1>3, <2>1, <2>2, <2>3, <2>4 DEF BootInv
<1>8. OneOwner'
  <2>1. Elements(ready) = {} /\ Elements(ready') = {}
    BY <1>1, <1>2 DEF Elements
  <2>2. NoSlot \notin Elements(free')
    BY <1>1, <1>3, <1>4 DEF NoSlot
  <2>3. Distinct(ready')
    BY <1>2 DEF OneOwner
  <2> QED BY <1>1, <1>2, <1>4, <2>1, <2>2, <2>3 DEF OneOwner
<1>9. FramesAccounted'
  BY <1>2 DEF FramesAccounted
<1> QED BY <1>5, <1>6, <1>7, <1>8, <1>9

LEMMA RxCountIInv == ASSUME IInv, RxCount PROVE IInv'
<1> USE PoolAssumption DEF IInv
<1>1. /\ Registered /\ rxPc = "idle" /\ received < MaxFrames
      /\ received' = received + 1 /\ rxPc' = "take"
      /\ UNCHANGED <<boot, free, ready, pool, rxSlot, dPc, dSlot, dropped, led, consumed>>
  BY DEF RxCount, dVars
<1>2. TypeOK'
  BY <1>1 DEF TypeOK
<1>3. HoldersInv'
  BY <1>1 DEF HoldersInv
<1>4. BootInv'
  BY <1>1 DEF BootInv, Registered, Outstanding
<1>5. OneOwner'
  BY <1>1 DEF OneOwner
<1>6. FramesAccounted'
  BY <1>1 DEF FramesAccounted, One, TypeOK
<1> QED BY <1>2, <1>3, <1>4, <1>5, <1>6

LEMMA RxTakeIInv == ASSUME IInv, RxTake PROVE IInv'
<1> USE PoolAssumption DEF IInv
<1>1. /\ rxPc = "take" /\ free # <<>>
      /\ rxSlot' = Head(free) /\ free' = Tail(free) /\ rxPc' = "header"
      /\ UNCHANGED <<boot, ready, pool, dPc, dSlot, received, dropped, led, consumed>>
  BY DEF RxTake, dVars
<1>2. /\ Head(free) \in Slots /\ free' \in Seq(Slots)
      /\ Len(free') = Len(free) - 1 /\ Len(free) > 0
      /\ Elements(free) = Elements(free') \cup {Head(free)}
      /\ Distinct(free') /\ Head(free) \notin Elements(free')
  BY <1>1, ReceiveFacts DEF TypeOK, OneOwner
<1>3. Head(free) # NoSlot /\ rxSlot = NoSlot /\ Registered /\ Registered'
  BY <1>1, <1>2 DEF Slots, NoSlot, HoldersInv, BootInv, Registered
<1>4. Len(free) \in Nat /\ Len(ready) \in Nat /\ dSlot \in Slots \cup {NoSlot}
  BY DEF TypeOK
<1>5. TypeOK'
  <2>1. free' \in Seq(Slots) /\ Len(free') <= FreeRoom /\ rxSlot' \in Slots \cup {NoSlot}
    BY <1>1, <1>2, <1>4 DEF TypeOK, FreeRoom
  <2> QED BY <1>1, <2>1 DEF TypeOK
<1>6. HoldersInv'
  BY <1>1, <1>3 DEF HoldersInv
<1>7. BootInv'
  <2>1. Len(free') + Outstanding' = Len(free) + Outstanding
    BY <1>1, <1>2, <1>3, <1>4 DEF Outstanding, One
  <2> QED BY <1>1, <1>3, <2>1 DEF BootInv, Registered
<1>8. OneOwner'
  BY <1>1, <1>2, <1>3 DEF OneOwner
<1>9. FramesAccounted'
  BY <1>1 DEF FramesAccounted, One
<1> QED BY <1>5, <1>6, <1>7, <1>8, <1>9

LEMMA RxShedIInv == ASSUME IInv, RxShed PROVE IInv'
<1> USE PoolAssumption DEF IInv
<1>1. /\ rxPc = "take" /\ dropped' = dropped + 1 /\ rxPc' = "idle"
      /\ UNCHANGED <<boot, free, ready, pool, rxSlot, dPc, dSlot, received, led, consumed>>
  BY DEF RxShed, dVars
<1>2. FramesAccounted'
  BY <1>1 DEF FramesAccounted, One, TypeOK
<1>3. dropped + 1 <= received
  <2>1. Len(consumed) \in Nat /\ Len(ready) \in Nat
    BY DEF TypeOK
  <2> QED BY <1>1, <2>1 DEF FramesAccounted, One, TypeOK
<1>4. TypeOK'
  BY <1>1, <1>3 DEF TypeOK
<1>5. HoldersInv'
  BY <1>1 DEF HoldersInv
<1>6. BootInv'
  BY <1>1 DEF BootInv, Registered, Outstanding
<1>7. OneOwner'
  BY <1>1 DEF OneOwner
<1> QED BY <1>2, <1>4, <1>5, <1>6, <1>7

LEMMA RxWriteIInv == ASSUME IInv, RxWriteHeader \/ RxWriteData PROVE IInv'
<1> USE PoolAssumption DEF IInv
<1>1. /\ \/ rxPc = "header" /\ rxPc' = "data" /\ pool' = [pool EXCEPT ![rxSlot]["header"] = received]
         \/ rxPc = "data" /\ rxPc' = "post" /\ pool' = [pool EXCEPT ![rxSlot]["data"] = received]
      /\ UNCHANGED <<boot, free, ready, rxSlot, dPc, dSlot, received, dropped, led, consumed>>
  BY DEF RxWriteHeader, RxWriteData, RxWrite, dVars
<1>2. rxSlot \in Slots /\ received \in Frames
  <2>1. Len(consumed) \in Nat /\ Len(ready) \in Nat
    BY DEF TypeOK
  <2> QED BY <1>1, <2>1 DEF HoldersInv, TypeOK, FramesAccounted, One, Frames
<1>3. pool' \in [Slots -> Halves]
  <2>1. pool[rxSlot] \in Halves
    BY <1>2 DEF TypeOK
  <2>2. [pool[rxSlot] EXCEPT !["header"] = received] \in Halves
    BY <1>2, <2>1 DEF Halves
  <2>3. [pool[rxSlot] EXCEPT !["data"] = received] \in Halves
    BY <1>2, <2>1 DEF Halves
  <2> QED BY <1>1, <1>2, <2>2, <2>3 DEF TypeOK
<1>4. TypeOK'
  BY <1>1, <1>3 DEF TypeOK
<1>5. HoldersInv'
  BY <1>1 DEF HoldersInv
<1>6. BootInv'
  BY <1>1 DEF BootInv, Registered, Outstanding
<1>7. OneOwner'
  BY <1>1 DEF OneOwner
<1>8. FramesAccounted'
  BY <1>1 DEF FramesAccounted, One
<1> QED BY <1>4, <1>5, <1>6, <1>7, <1>8

(* The defensive branch of RxPost is dead: with a slot in hand s_ready has *)
(* room.                                                                   *)
LEMMA RxPostIInv == ASSUME IInv, RxPost PROVE IInv'
<1> USE PoolAssumption DEF IInv
<1>1. /\ rxPc = "post" /\ rxSlot \in Slots /\ rxSlot # NoSlot /\ Registered
      /\ Len(free) \in Nat /\ Len(ready) \in Nat /\ Len(consumed) \in Nat
      /\ dSlot \in Slots \cup {NoSlot}
  BY DEF RxPost, TypeOK, HoldersInv, BootInv, Registered
<1>2. Len(ready) < ReadyRoom
  BY <1>1 DEF BootInv, Outstanding, One, ReadyRoom
<1>3. /\ ready' = Append(ready, rxSlot) /\ rxPc' = "idle" /\ rxSlot' = NoSlot
      /\ UNCHANGED <<boot, free, dropped, pool, dPc, dSlot, received, led, consumed>>
  BY <1>2 DEF RxPost, dVars
<1>4. /\ ready' \in Seq(Slots) /\ Len(ready') = Len(ready) + 1
      /\ Elements(ready') = Elements(ready) \cup {rxSlot}
      /\ Distinct(ready')
  BY <1>1, <1>3, SendFacts DEF TypeOK, OneOwner
<1>5. TypeOK'
  <2>1. Len(ready') <= ReadyRoom
    BY <1>1, <1>2, <1>4 DEF ReadyRoom
  <2> QED BY <1>3, <1>4, <2>1 DEF TypeOK, ReadyRoom
<1>6. HoldersInv'
  BY <1>3 DEF HoldersInv
<1>7. BootInv'
  <2>1. Len(free') + Outstanding' = Len(free) + Outstanding
    BY <1>1, <1>3, <1>4 DEF Outstanding, One
  <2> QED BY <1>1, <1>3, <2>1 DEF BootInv, Registered
<1>8. OneOwner'
  <2>1. NoSlot \notin Elements(free) /\ NoSlot \notin Elements(ready')
    BY <1>4, QueuedIsSlot DEF TypeOK
  <2> QED BY <1>1, <1>3, <1>4, <2>1 DEF OneOwner
<1>9. FramesAccounted'
  <2>1. dPc' = dPc /\ dropped \in Nat /\ received \in Nat
    BY <1>3 DEF TypeOK
  <2>2. received = dropped + Len(consumed) + Len(ready) + One(dPc = "header") + 1
    BY <1>1 DEF FramesAccounted, One
  <2> QED BY <1>1, <1>3, <1>4, <2>1, <2>2 DEF FramesAccounted, One
<1> QED BY <1>5, <1>6, <1>7, <1>8, <1>9

LEMMA DispatchTakeIInv == ASSUME IInv, DispatchTake PROVE IInv'
<1> USE PoolAssumption DEF IInv
<1>1. /\ boot = "up" /\ dPc = "wait" /\ ready # <<>>
      /\ dSlot' = Head(ready) /\ ready' = Tail(ready) /\ led' = TRUE /\ dPc' = "header"
      /\ UNCHANGED <<boot, free, pool, rxPc, rxSlot, received, dropped, consumed>>
  BY DEF DispatchTake, Dispatching, rxVars
<1>2. /\ Head(ready) \in Slots /\ ready' \in Seq(Slots)
      /\ Len(ready') = Len(ready) - 1 /\ Len(ready) > 0
      /\ Elements(ready) = Elements(ready') \cup {Head(ready)}
      /\ Distinct(ready') /\ Head(ready) \notin Elements(ready')
  BY <1>1, ReceiveFacts DEF TypeOK, OneOwner
<1>3. Head(ready) # NoSlot /\ dSlot = NoSlot
  BY <1>1, <1>2 DEF Slots, NoSlot, HoldersInv
<1>4. /\ Len(free) \in Nat /\ Len(ready) \in Nat /\ Len(consumed) \in Nat
      /\ rxSlot \in Slots \cup {NoSlot}
  BY DEF TypeOK
<1>5. TypeOK'
  <2>1. Len(ready') <= ReadyRoom /\ dSlot' \in Slots \cup {NoSlot}
    BY <1>1, <1>2, <1>4 DEF TypeOK, ReadyRoom
  <2>2. led' \in BOOLEAN
    BY <1>1
  <2> QED BY <1>1, <1>2, <2>1, <2>2 DEF TypeOK, ReadyRoom
<1>6. HoldersInv'
  BY <1>1, <1>3 DEF HoldersInv
<1>7. BootInv'
  <2>1. Len(free') + Outstanding' = Len(free) + Outstanding
    BY <1>1, <1>2, <1>3, <1>4 DEF Outstanding, One
  <2> QED BY <1>1, <2>1 DEF BootInv, Registered
<1>8. OneOwner'
  BY <1>1, <1>2, <1>3 DEF OneOwner
<1>9. FramesAccounted'
  BY <1>1, <1>2, <1>4 DEF FramesAccounted, One, TypeOK
<1> QED BY <1>5, <1>6, <1>7, <1>8, <1>9

LEMMA DispatchQuietIInv ==
  ASSUME IInv, DispatchTimeout \/ DispatchQuiet PROVE IInv'
<1> USE DEF IInv
<1>1. /\ led' \in {led, FALSE}
      /\ dPc \in {"wait", "quiet"} /\ dPc' \in {"wait", "quiet"}
      /\ dPc = "quiet" => dPc' = "wait"
      /\ dPc' = "quiet" => Registered
      /\ UNCHANGED <<boot, free, ready, pool, rxPc, rxSlot, dSlot, received,
                     dropped, consumed>>
  BY DEF DispatchTimeout, DispatchQuiet, Dispatching, Registered, rxVars
<1>2. led' \in BOOLEAN
  BY <1>1 DEF TypeOK
<1>3. TypeOK'
  BY <1>1, <1>2 DEF TypeOK
<1>4. HoldersInv'
  BY <1>1 DEF HoldersInv
<1>5. BootInv'
  BY <1>1 DEF BootInv, Registered, Outstanding
<1>6. OneOwner'
  BY <1>1 DEF OneOwner
<1>7. FramesAccounted'
  BY <1>1 DEF FramesAccounted, One
<1> QED BY <1>3, <1>4, <1>5, <1>6, <1>7

(* The two steps of the consumer: it reads pool and moves nothing. *)
LEMMA ConsumeIInv == ASSUME IInv, ConsumeHeader \/ ConsumeData PROVE IInv'
<1> USE PoolAssumption DEF IInv
<1>1. /\ \/ dPc = "header" /\ dPc' = "data"
            /\ consumed' = Append(consumed, [header |-> pool[dSlot].header, data |-> NoFrame])
         \/ dPc = "data" /\ dPc' = "recycle"
            /\ consumed' = [consumed EXCEPT ![Len(consumed)].data = pool[dSlot].data]
      /\ UNCHANGED <<boot, free, ready, pool, rxPc, rxSlot, dSlot, received, dropped, led>>
  BY DEF ConsumeHeader, ConsumeData, rxVars
<1>2. pool[dSlot] \in Halves /\ NoFrame \in Frames \cup {NoFrame}
  BY <1>1 DEF HoldersInv, TypeOK
<1>3. /\ consumed \in Seq(Halves) /\ Len(consumed) \in Nat
      /\ Len(ready) \in Nat
  BY DEF TypeOK
<1>4. /\ consumed' \in Seq(Halves)
      /\ Len(consumed') = Len(consumed) + One(dPc = "header")
  <2>1. CASE dPc = "header"
    <3>1. [header |-> pool[dSlot].header, data |-> NoFrame] \in Halves
      BY <1>2 DEF Halves
    <3> QED BY <1>1, <1>3, <2>1, <3>1 DEF One
  <2>2. CASE dPc = "data"
    <3>1. \A h \in Halves : [h EXCEPT !.data = pool[dSlot].data] \in Halves
      BY <1>2 DEF Halves
    <3>2. consumed' = [consumed EXCEPT ![Len(consumed)]
                         = [consumed[Len(consumed)] EXCEPT !.data = pool[dSlot].data]]
      BY <1>1, <2>2
    <3> DEFINE n == Len(consumed)
    <3>3. consumed \in [1..n -> Halves] /\ n \in Nat
      BY <1>3
    <3>4. consumed' \in [1..n -> Halves]
      BY <3>1, <3>2, <3>3
    <3>5. consumed' \in Seq(Halves) /\ Len(consumed') = n
      BY <3>3, <3>4
    <3> QED BY <1>3, <2>2, <3>5 DEF One
  <2> QED BY <1>1, <2>1, <2>2
<1>5. TypeOK'
  BY <1>1, <1>4 DEF TypeOK
<1>6. HoldersInv'
  BY <1>1 DEF HoldersInv
<1>7. BootInv'
  BY <1>1 DEF BootInv, Registered, Outstanding, HoldersInv
<1>8. OneOwner'
  BY <1>1 DEF OneOwner
<1>9. FramesAccounted'
  <2> DEFINE h == One(dPc = "header")
             w == One(rxPc # "idle")
  <2>1. h \in Nat /\ w \in Nat /\ dropped \in Nat
    BY DEF TypeOK, One
  <2>2. received = dropped + Len(consumed) + Len(ready) + h + w
    BY DEF FramesAccounted
  <2>3. h' = 0 /\ w' = w /\ UNCHANGED <<received, dropped, ready>>
    BY <1>1 DEF One
  <2>4. Len(consumed') = Len(consumed) + h
    BY <1>4
  <2> HIDE DEF h, w
  <2>5. received' = dropped' + Len(consumed') + Len(ready') + h' + w'
    BY <1>3, <2>1, <2>2, <2>3, <2>4
  <2> QED BY <2>5 DEF FramesAccounted, h, w
<1> QED BY <1>5, <1>6, <1>7, <1>8, <1>9

(* The slot lent to the consumer always fits back on s_free. *)
LEMMA DispatchRecycleIInv == ASSUME IInv, DispatchRecycle PROVE IInv'
<1> USE PoolAssumption DEF IInv
<1>1. /\ dPc = "recycle" /\ dSlot \in Slots /\ dSlot # NoSlot /\ Registered
      /\ Len(free) \in Nat /\ Len(ready) \in Nat
      /\ rxSlot \in Slots \cup {NoSlot}
  BY DEF DispatchRecycle, TypeOK, HoldersInv, BootInv, Registered
<1>2. Len(free) < FreeRoom
  BY <1>1 DEF BootInv, Outstanding, One, FreeRoom
<1>3. /\ free' = Append(free, dSlot) /\ dPc' = "wait" /\ dSlot' = NoSlot
      /\ UNCHANGED <<boot, ready, pool, rxPc, rxSlot, received, dropped, led, consumed>>
  BY <1>2 DEF DispatchRecycle, rxVars
<1>4. /\ free' \in Seq(Slots) /\ Len(free') = Len(free) + 1
      /\ Elements(free') = Elements(free) \cup {dSlot}
      /\ Distinct(free')
  BY <1>1, <1>3, SendFacts DEF TypeOK, OneOwner
<1>5. TypeOK'
  <2>1. Len(free') <= FreeRoom
    BY <1>1, <1>2, <1>4 DEF FreeRoom
  <2> QED BY <1>3, <1>4, <2>1 DEF TypeOK, FreeRoom
<1>6. HoldersInv'
  BY <1>3 DEF HoldersInv
<1>7. BootInv'
  <2> DEFINE filling == One(rxSlot # NoSlot)
  <2>1. filling \in Nat /\ Outstanding = 1 + Len(ready) + filling
    BY <1>1 DEF Outstanding, One
  <2>2. Outstanding' = Len(ready) + filling
    BY <1>1, <1>3 DEF Outstanding, One
  <2>3. Len(free') + Outstanding' = Len(free) + Outstanding
    BY <1>1, <1>4, <2>1, <2>2
  <2> QED BY <1>1, <1>3, <2>3 DEF BootInv, Registered
<1>8. OneOwner'
  <2>1. NoSlot \notin Elements(ready) /\ NoSlot \notin Elements(free')
    BY <1>4, QueuedIsSlot DEF TypeOK
  <2> QED BY <1>1, <1>3, <1>4, <2>1 DEF OneOwner
<1>9. FramesAccounted'
  BY <1>1, <1>3 DEF FramesAccounted, One
<1> QED BY <1>5, <1>6, <1>7, <1>8, <1>9

LEMMA NextIInv == IInv /\ [Next]_vars => IInv'
<1> SUFFICES ASSUME IInv, [Next]_vars PROVE IInv'
  OBVIOUS
<1>1. CASE Boot
  BY <1>1, BootStepIInv, FillFreeIInv DEF Boot
<1>2. CASE OnRecv
  BY <1>2, RxCountIInv, RxTakeIInv, RxShedIInv, RxWriteIInv, RxPostIInv DEF OnRecv
<1>3. CASE Dispatch
  BY <1>3, DispatchTakeIInv, DispatchQuietIInv, ConsumeIInv, DispatchRecycleIInv DEF Dispatch
<1>4. CASE UNCHANGED vars
  BY <1>4 DEF vars, rxVars, dVars, IInv, TypeOK, HoldersInv, BootInv, Registered,
              Outstanding, OneOwner, FramesAccounted
<1> QED BY <1>1, <1>2, <1>3, <1>4 DEF Next

-----------------------------------------------------------------------------
(* What the invariant gives. *)

LEMMA Inductive == Spec => []IInv
<1>1. Init => IInv
  BY InitIInv
<1>2. IInv /\ [Next]_vars => IInv'
  BY NextIInv
<1> QED BY <1>1, <1>2, PTL DEF Spec

(* Whatever the interleaving of the Wi-Fi task and the dispatch task, a    *)
(* slot has one owner: a queue, on_recv(), or the consumer.  No queue ever *)
(* holds anything but slots, and s_dropped never exceeds what was received.*)
THEOREM SlotInvAlways == Spec => []SlotInv
<1>1. IInv => SlotInv
  BY DEF IInv, SlotInv
<1> QED BY <1>1, Inductive, PTL

(* No slot of the pool is ever lost, and the comment "Cannot happen" of    *)
(* on_recv() is right: neither queue is ever full when a slot is sent.     *)
THEOREM PoolConservedAlways == Spec => []PoolConserved
<1>1. IInv => NoSlotLeaks
  BY DEF IInv, BootInv, NoSlotLeaks
<1>2. IInv => SendsNeverFail
  <2> SUFFICES ASSUME IInv PROVE SendsNeverFail
    OBVIOUS
  <2> USE PoolAssumption DEF IInv
  <2>1. Len(free) \in Nat /\ Len(ready) \in Nat /\ QUEUE_LEN \in Nat
    BY DEF TypeOK
  <2>2. rxPc = "post" => Len(ready) < ReadyRoom
    BY <2>1 DEF BootInv, HoldersInv, Registered, Outstanding, One, ReadyRoom
  <2>3. dPc = "recycle" => Len(free) < FreeRoom
    BY <2>1 DEF BootInv, HoldersInv, Registered, Outstanding, One, FreeRoom
  <2> QED BY <2>2, <2>3 DEF SendsNeverFail
<1>3. IInv => PoolConserved
  BY <1>1, <1>2 DEF PoolConserved
<1> QED BY <1>3, Inductive, PTL

(* The counters of the status page account for every frame that arrived. *)
THEOREM FramesAccountedAlways == Spec => []FramesAccounted
<1>1. IInv => FramesAccounted
  BY DEF IInv
<1> QED BY <1>1, Inductive, PTL

(* s_dropped moves only when every slot of the pool is outstanding. *)
THEOREM ShedOnlyWhenFullAlways == Spec => ShedOnlyWhenFull
<1>1. IInv /\ [Next]_vars => [dropped' # dropped => Outstanding = QUEUE_LEN]_vars
  <2> SUFFICES ASSUME IInv, Next, dropped' # dropped PROVE Outstanding = QUEUE_LEN
    OBVIOUS
  <2> USE PoolAssumption DEF IInv
  <2>1. CASE RxShed
    <3>1. Len(free) = 0 /\ rxPc # "idle"
      BY <2>1 DEF RxShed
    <3>2. One(dSlot # NoSlot) \in Nat /\ One(rxSlot # NoSlot) \in Nat /\ Len(ready) \in Nat
      BY DEF One, TypeOK
    <3> QED BY <3>1, <3>2 DEF BootInv, Outstanding
  <2>2. CASE RxPost
    <3>1. Len(ready) < ReadyRoom
      <4>1. Len(free) \in Nat /\ Len(ready) \in Nat /\ QUEUE_LEN \in Nat
        BY DEF TypeOK
      <4> QED BY <2>2, <4>1 DEF RxPost, BootInv, HoldersInv, Outstanding, One, ReadyRoom
    <3> QED BY <2>2, <3>1 DEF RxPost
  <2>3. ~RxShed /\ ~RxPost => dropped' = dropped
    BY DEF Next, Boot, CreateQueues, StartRadio, RegisterCallback, CreateDispatchTask,
           BootStep, FillFree, OnRecv, RxCount, RxTake, RxWriteHeader, RxWriteData,
           RxWrite, Dispatch, DispatchTake, DispatchTimeout, DispatchQuiet, ConsumeHeader, ConsumeData,
           DispatchRecycle
  <2> QED BY <2>1, <2>2, <2>3
<1> QED BY <1>1, Inductive, PTL DEF Spec, ShedOnlyWhenFull

-----------------------------------------------------------------------------
(* Frames: whole, and in the order they arrived. *)

(* The halves of a slot that is queued or lent are of one frame, and the   *)
(* frames in the two tasks' hands and in s_ready are in order, the one     *)
(* on_recv() is at being newer than any other.                             *)
Whole(s) == pool[s].header \in 1..received /\ pool[s].data = pool[s].header

FrameInv ==
  /\ \A i \in 1..Len(ready) : Whole(ready[i])
  /\ \A i, j \in 1..Len(ready) : i < j => pool[ready[i]].header < pool[ready[j]].header
  /\ dSlot # NoSlot =>
       Whole(dSlot) /\ \A i \in 1..Len(ready) : pool[dSlot].header < pool[ready[i]].header
  /\ rxPc # "idle" =>
       /\ \A i \in 1..Len(ready) : pool[ready[i]].header < received
       /\ dSlot # NoSlot => pool[dSlot].header < received
       /\ \A i \in 1..Len(consumed) : consumed[i].header < received
  /\ rxPc \in {"data", "post"} => pool[rxSlot].header = received
  /\ rxPc = "post" => pool[rxSlot].data = received

(* So are those the consumer has read, all of them older.                  *)
ReadInv ==
  /\ \A i \in 1..Len(consumed) :
       /\ consumed[i].header \in 1..received
       /\ Complete(i) => consumed[i].data = consumed[i].header
       /\ \A j \in 1..Len(ready) : consumed[i].header < pool[ready[j]].header
       /\ dPc = "header" => consumed[i].header < pool[dSlot].header
  /\ \A i, j \in 1..Len(consumed) : i < j => consumed[i].header < consumed[j].header
  /\ dPc = "data" =>
       Len(consumed) > 0 /\ consumed[Len(consumed)].header = pool[dSlot].header

OrderInv == FrameInv /\ ReadInv

LEMMA Typed ==
  ASSUME IInv
  PROVE  /\ Len(ready) \in Nat /\ \A i \in 1..Len(ready) : ready[i] \in Slots
         /\ Len(consumed) \in Nat /\ \A i \in 1..Len(consumed) : consumed[i] \in Halves
         /\ received \in Nat /\ DOMAIN ready = 1..Len(ready)
         /\ DOMAIN consumed = 1..Len(consumed)
         /\ \A i \in 1..Len(ready) : pool[ready[i]].header \in Nat
         /\ dSlot # NoSlot => pool[dSlot].header \in Nat
         /\ \A i \in 1..Len(consumed) : consumed[i].header \in Nat
<1>1. /\ ready \in Seq(Slots) /\ consumed \in Seq(Halves) /\ pool \in [Slots -> Halves]
      /\ dSlot \in Slots \cup {NoSlot} /\ received \in 0..MaxFrames
  BY DEF IInv, TypeOK
<1>2. Len(ready) \in Nat /\ \A i \in 1..Len(ready) : ready[i] \in Slots
  BY <1>1
<1>3. Len(consumed) \in Nat /\ \A i \in 1..Len(consumed) : consumed[i] \in Halves
  BY <1>1
<1>4. \A h \in Halves : h.header \in Nat
  BY PoolAssumption DEF Halves, Frames, NoFrame
<1>5. received \in Nat
  BY <1>1, PoolAssumption
<1> QED BY <1>1, <1>2, <1>3, <1>4, <1>5

(* Neither queues, slots, frames nor what was read changes. *)
LEMMA AsideOrder ==
  ASSUME OrderInv, UNCHANGED <<ready, pool, rxPc, rxSlot, dSlot, received, consumed>>,
         dPc' = dPc \/ {dPc, dPc'} \subseteq {"wait", "quiet"}
  PROVE  OrderInv'
BY DEF OrderInv, FrameInv, ReadInv, Whole, Complete

LEMMA RxCountOrder == ASSUME IInv, OrderInv, RxCount PROVE OrderInv'
<1>1. /\ received' = received + 1 /\ rxPc = "idle" /\ rxPc' = "take"
      /\ UNCHANGED <<ready, pool, rxSlot, dPc, dSlot, consumed>>
  BY DEF RxCount, dVars
<1>2. \A f \in 1..received : f \in 1..received' /\ f < received'
  BY <1>1, Typed
<1> QED BY <1>1, <1>2, Typed DEF OrderInv, FrameInv, ReadInv, Whole, Complete

LEMMA RxTakeOrder == ASSUME IInv, OrderInv, RxTake \/ RxShed PROVE OrderInv'
<1>1. /\ rxPc = "take" /\ rxPc' \in {"header", "idle"}
      /\ UNCHANGED <<ready, pool, dPc, dSlot, received, consumed>>
  BY DEF RxTake, RxShed, dVars
<1> QED BY <1>1 DEF OrderInv, FrameInv, ReadInv, Whole, Complete

(* The slot being filled is nobody else's. *)
LEMMA RxWriteOrder ==
  ASSUME IInv, OrderInv, RxWriteHeader \/ RxWriteData PROVE OrderInv'
<1>1. /\ \/ rxPc = "header" /\ rxPc' = "data" /\ pool' = [pool EXCEPT ![rxSlot]["header"] = received]
         \/ rxPc = "data" /\ rxPc' = "post" /\ pool' = [pool EXCEPT ![rxSlot]["data"] = received]
      /\ UNCHANGED <<ready, rxSlot, dPc, dSlot, received, consumed>>
  BY DEF RxWriteHeader, RxWriteData, RxWrite, dVars
<1>2. rxSlot \in Slots /\ pool \in [Slots -> Halves]
  BY <1>1 DEF IInv, HoldersInv, TypeOK
<1>3. \A i \in 1..Len(ready) : ready[i] # rxSlot /\ pool'[ready[i]] = pool[ready[i]]
  <2>1. \A i \in 1..Len(ready) : ready[i] \in Slots /\ ready[i] \in Elements(ready)
    BY Typed DEF Elements
  <2>2. rxSlot \notin Elements(ready)
    BY DEF IInv, OneOwner
  <2> QED BY <1>1, <1>2, <2>1, <2>2
<1>4. dSlot # NoSlot => pool'[dSlot] = pool[dSlot]
  <2>1. dSlot # NoSlot => dSlot # rxSlot /\ dSlot \in Slots
    BY <1>1 DEF IInv, OneOwner, HoldersInv, TypeOK
  <2> QED BY <1>1, <1>2, <2>1
<1>5. /\ rxPc = "header" => pool'[rxSlot].header = received
      /\ rxPc = "data" => pool'[rxSlot].data = received /\ pool'[rxSlot].header = pool[rxSlot].header
  <2>1. pool[rxSlot] \in Halves
    BY <1>2
  <2>2. [pool[rxSlot] EXCEPT !["header"] = received].header = received
    BY <2>1 DEF Halves
  <2>3. /\ [pool[rxSlot] EXCEPT !["data"] = received].data = received
        /\ [pool[rxSlot] EXCEPT !["data"] = received].header = pool[rxSlot].header
    BY <2>1 DEF Halves
  <2> QED BY <1>1, <1>2, <2>2, <2>3
<1>6. FrameInv'
  BY <1>1, <1>3, <1>4, <1>5 DEF OrderInv, FrameInv, Whole
<1>7. ReadInv'
  <2>1. dPc \in {"header", "data"} => pool'[dSlot] = pool[dSlot]
    BY <1>4 DEF IInv, HoldersInv
  <2> QED BY <1>1, <1>3, <2>1 DEF OrderInv, ReadInv, Complete
<1> QED BY <1>6, <1>7 DEF OrderInv

(* The newest frame goes behind all others. *)
LEMMA RxPostOrder == ASSUME IInv, OrderInv, RxPost PROVE OrderInv'
<1>1. /\ rxPc = "post" /\ rxSlot \in Slots /\ rxSlot # NoSlot
      /\ Len(ready) \in Nat /\ Len(ready) < ReadyRoom
  <2>1. /\ rxPc = "post" /\ rxSlot \in Slots /\ rxSlot # NoSlot /\ Registered
        /\ Len(free) \in Nat /\ Len(ready) \in Nat /\ dSlot \in Slots \cup {NoSlot}
    BY DEF RxPost, IInv, TypeOK, HoldersInv, BootInv, Registered
  <2> QED BY <2>1, PoolAssumption DEF IInv, BootInv, Outstanding, One, ReadyRoom
<1>2. /\ ready' = Append(ready, rxSlot) /\ rxPc' = "idle"
      /\ UNCHANGED <<pool, dPc, dSlot, received, consumed>>
  BY <1>1 DEF RxPost, dVars
<1> DEFINE n == Len(ready)
<1>3. /\ n \in Nat /\ Len(ready') = n + 1 /\ ready'[n + 1] = rxSlot
      /\ \A i \in 1..n : ready'[i] = ready[i]
      /\ \A i \in 1..n + 1 : i \in 1..n \/ i = n + 1
  <2>1. ready \in Seq(Slots)
    BY DEF IInv, TypeOK
  <2> QED BY <1>1, <1>2, <2>1
<1>4. pool[rxSlot].header = received /\ pool[rxSlot].data = received /\ received \in 1..received
  <2>1. received > 0
    BY <1>1, Typed DEF IInv, FramesAccounted, One, TypeOK
  <2> QED BY <1>1, <2>1, Typed DEF OrderInv, FrameInv
<1>5. Whole(rxSlot)
  BY <1>4 DEF Whole
<1> HIDE DEF n
<1>6. \A i \in 1..n : Whole(ready[i]) /\ pool[ready[i]].header < received
  BY <1>1 DEF OrderInv, FrameInv, n
<1>7. \A i, j \in 1..n : i < j => pool[ready[i]].header < pool[ready[j]].header
  BY DEF OrderInv, FrameInv, n
<1>8. \A i, j \in 1..n + 1 : i < j => pool[ready'[i]].header < pool[ready'[j]].header
  BY <1>3, <1>4, <1>6, <1>7
<1>9. FrameInv'
  <2>1. \A i \in 1..n + 1 : Whole(ready'[i])
    BY <1>3, <1>5, <1>6
  <2>2. dSlot # NoSlot =>
          Whole(dSlot) /\ \A i \in 1..n + 1 : pool[dSlot].header < pool[ready'[i]].header
    BY <1>1, <1>3, <1>4 DEF OrderInv, FrameInv, n
  <2> QED BY <1>2, <1>3, <1>8, <2>1, <2>2 DEF FrameInv, Whole
<1>10. ReadInv'
  <2>1. \A i \in 1..Len(consumed) :
          /\ consumed[i].header < received
          /\ \A j \in 1..n : consumed[i].header < pool[ready[j]].header
    BY <1>1 DEF OrderInv, FrameInv, ReadInv, n
  <2>2. \A i \in 1..Len(consumed) : \A j \in 1..n + 1 : consumed[i].header < pool[ready'[j]].header
    BY <1>3, <1>4, <2>1
  <2> QED BY <1>2, <1>3, <2>2 DEF OrderInv, ReadInv, Complete
<1> QED BY <1>9, <1>10 DEF OrderInv

(* The oldest slot of s_ready is lent. *)
LEMMA DispatchTakeOrder == ASSUME IInv, OrderInv, DispatchTake PROVE OrderInv'
<1>1. /\ dPc = "wait" /\ ready # <<>> /\ dSlot' = Head(ready) /\ ready' = Tail(ready)
      /\ dPc' = "header" /\ UNCHANGED <<pool, rxPc, rxSlot, received, consumed>>
  BY DEF DispatchTake, rxVars
<1> DEFINE n == Len(ready)
<1>2. /\ n \in Nat /\ Len(ready') = n - 1 /\ dSlot' = ready[1] /\ 1 \in 1..n
      /\ \A i \in 1..n - 1 : ready'[i] = ready[i + 1] /\ i + 1 \in 1..n /\ 1 < i + 1
      /\ \A i, j \in 1..n - 1 : i < j => i + 1 < j + 1
  <2>1. ready \in Seq(Slots)
    BY DEF IInv, TypeOK
  <2> QED BY <1>1, <2>1
<1> HIDE DEF n
<1>3. /\ \A i \in 1..n : Whole(ready[i])
      /\ \A i, j \in 1..n : i < j => pool[ready[i]].header < pool[ready[j]].header
      /\ rxPc # "idle" => \A i \in 1..n : pool[ready[i]].header < received
  BY DEF OrderInv, FrameInv, n
<1>4. FrameInv'
  <2>1. \A i \in 1..n - 1 : Whole(ready'[i]) /\ pool[dSlot'].header < pool[ready'[i]].header
    BY <1>2, <1>3
  <2>2. \A i, j \in 1..n - 1 : i < j => pool[ready'[i]].header < pool[ready'[j]].header
    BY <1>2, <1>3
  <2>3. rxPc # "idle" =>
          /\ pool[dSlot'].header < received
          /\ \A i \in 1..n - 1 : pool[ready'[i]].header < received
          /\ \A i \in 1..Len(consumed) : consumed[i].header < received
    BY <1>2, <1>3 DEF OrderInv, FrameInv
  <2>4. Whole(dSlot')
    BY <1>2, <1>3
  <2> QED BY <1>1, <1>2, <2>1, <2>2, <2>3, <2>4 DEF OrderInv, FrameInv, Whole
<1>5. ReadInv'
  <2>1. \A i \in 1..Len(consumed) : \A j \in 1..n : consumed[i].header < pool[ready[j]].header
    BY DEF OrderInv, ReadInv, n
  <2>2. \A i \in 1..Len(consumed) :
          /\ \A j \in 1..n - 1 : consumed[i].header < pool[ready'[j]].header
          /\ consumed[i].header < pool[dSlot'].header
    BY <1>2, <2>1
  <2> QED BY <1>1, <1>2, <2>2 DEF OrderInv, ReadInv, Complete
<1> QED BY <1>4, <1>5 DEF OrderInv

(* The consumer reads the header of the slot it was lent ... *)
LEMMA ConsumeHeaderOrder == ASSUME IInv, OrderInv, ConsumeHeader PROVE OrderInv'
<1> DEFINE read == [header |-> pool[dSlot].header, data |-> NoFrame]
           n == Len(consumed)
<1>1. /\ dPc = "header" /\ dPc' = "data" /\ consumed' = Append(consumed, read)
      /\ UNCHANGED <<ready, pool, rxPc, rxSlot, dSlot, received>>
      /\ dSlot # NoSlot /\ read.header = pool[dSlot].header
  BY DEF ConsumeHeader, rxVars, IInv, HoldersInv
<1>2. /\ n \in Nat /\ Len(consumed') = n + 1 /\ consumed'[n + 1] = read
      /\ \A i \in 1..n : consumed'[i] = consumed[i]
      /\ \A i \in 1..n + 1 : i \in 1..n \/ i = n + 1
  <2>1. consumed \in Seq(Halves)
    BY DEF IInv, TypeOK
  <2> QED BY <1>1, <2>1
<1> HIDE DEF n, read
<1>3. Whole(dSlot) /\ \A j \in 1..Len(ready) : read.header < pool[ready[j]].header
  BY <1>1 DEF OrderInv, FrameInv
<1>4. \A i \in 1..n :
        /\ consumed[i].header \in 1..received /\ consumed[i].data = consumed[i].header
        /\ \A j \in 1..Len(ready) : consumed[i].header < pool[ready[j]].header
        /\ consumed[i].header < read.header
  BY <1>1 DEF OrderInv, ReadInv, Complete, n
<1>5. rxPc # "idle" => /\ read.header < received
                       /\ \A i \in 1..n : consumed[i].header < received
  BY <1>1 DEF OrderInv, FrameInv, n
<1>6. FrameInv'
  <2>1. rxPc # "idle" => \A i \in 1..n + 1 : consumed'[i].header < received
    BY <1>2, <1>5
  <2> QED BY <1>1, <1>2, <2>1 DEF OrderInv, FrameInv, Whole
<1>7. ReadInv'
  <2>1. \A i \in 1..n + 1 :
          /\ consumed'[i].header \in 1..received
          /\ i < n + 1 => consumed'[i].data = consumed'[i].header
          /\ \A j \in 1..Len(ready) : consumed'[i].header < pool[ready[j]].header
    BY <1>1, <1>2, <1>3, <1>4 DEF Whole
  <2>2. \A i, j \in 1..n : i < j => consumed[i].header < consumed[j].header
    BY DEF OrderInv, ReadInv, n
  <2>3. \A i, j \in 1..n + 1 : i < j => consumed'[i].header < consumed'[j].header
    BY <1>2, <1>4, <2>2
  <2> QED BY <1>1, <1>2, <2>1, <2>3 DEF ReadInv, Complete
<1> QED BY <1>6, <1>7 DEF OrderInv

(* ... and its data, of the same frame. *)
LEMMA ConsumeDataOrder == ASSUME IInv, OrderInv, ConsumeData PROVE OrderInv'
<1> DEFINE n == Len(consumed)
<1>1. /\ dPc = "data" /\ dPc' = "recycle"
      /\ consumed' = [consumed EXCEPT ![n] = [consumed[n] EXCEPT !.data = pool[dSlot].data]]
      /\ UNCHANGED <<ready, pool, rxPc, rxSlot, dSlot, received>> /\ dSlot # NoSlot
  BY DEF ConsumeData, rxVars, IInv, HoldersInv
<1>2. /\ n \in Nat /\ n > 0 /\ n \in 1..n /\ consumed[n] \in Halves
      /\ consumed[n].header = pool[dSlot].header
      /\ Len(consumed') = n /\ \A i \in 1..n : i # n => consumed'[i] = consumed[i] /\ i < n
      /\ consumed'[n] = [consumed[n] EXCEPT !.data = pool[dSlot].data]
  <2>1. consumed \in Seq(Halves)
    BY DEF IInv, TypeOK
  <2>2. n > 0 /\ consumed[n].header = pool[dSlot].header /\ n \in Nat
    BY <1>1, <2>1 DEF OrderInv, ReadInv
  <2> QED BY <1>1, <2>1, <2>2
<1> HIDE DEF n
<1>3. consumed'[n].header = consumed[n].header /\ consumed'[n].data = pool[dSlot].data
  BY <1>2 DEF Halves
<1>4. Whole(dSlot)
  BY <1>1 DEF OrderInv, FrameInv
<1>5. \A i \in 1..n : consumed'[i].header = consumed[i].header
  BY <1>2, <1>3
<1>6. FrameInv'
  BY <1>1, <1>2, <1>5 DEF OrderInv, FrameInv, Whole, n
<1>7. ReadInv'
  <2>1. \A i \in 1..n : consumed'[i].data = consumed'[i].header
    <3>1. \A i \in 1..n : i < n => consumed[i].data = consumed[i].header
      BY DEF OrderInv, ReadInv, Complete, n
    <3> QED BY <1>2, <1>3, <1>4, <3>1 DEF Whole
  <2>2. \A i \in 1..n : consumed[i].header \in 1..received
                       /\ \A j \in 1..Len(ready) : consumed[i].header < pool[ready[j]].header
    BY DEF OrderInv, ReadInv, n
  <2>3. \A i, j \in 1..n : i < j => consumed[i].header < consumed[j].header
    BY DEF OrderInv, ReadInv, n
  <2> QED BY <1>1, <1>2, <1>5, <2>1, <2>2, <2>3 DEF ReadInv
<1> QED BY <1>6, <1>7 DEF OrderInv

LEMMA DispatchRecycleOrder == ASSUME IInv, OrderInv, DispatchRecycle PROVE OrderInv'
<1>1. /\ dPc = "recycle" /\ dPc' = "wait" /\ dSlot' = NoSlot
      /\ UNCHANGED <<ready, pool, rxPc, rxSlot, received, consumed>>
  BY DEF DispatchRecycle, rxVars
<1> QED BY <1>1 DEF OrderInv, FrameInv, ReadInv, Whole, Complete

LEMMA NextOrder == IInv /\ OrderInv /\ [Next]_vars => OrderInv'
<1> SUFFICES ASSUME IInv, OrderInv, [Next]_vars PROVE OrderInv'
  OBVIOUS
<1>1. CASE Boot \/ DispatchTimeout \/ DispatchQuiet \/ UNCHANGED vars
  BY <1>1, AsideOrder
     DEF Boot, CreateQueues, StartRadio, RegisterCallback, CreateDispatchTask, BootStep, FillFree,
         DispatchTimeout, DispatchQuiet, vars, rxVars, dVars
<1>2. CASE OnRecv
  BY <1>2, RxCountOrder, RxTakeOrder, RxWriteOrder, RxPostOrder DEF OnRecv
<1>3. CASE Dispatch /\ ~DispatchTimeout /\ ~DispatchQuiet
  BY <1>3, DispatchTakeOrder, ConsumeHeaderOrder, ConsumeDataOrder, DispatchRecycleOrder
     DEF Dispatch
<1> QED BY <1>1, <1>2, <1>3 DEF Next

LEMMA InitOrder == Init => OrderInv
BY DEF Init, OrderInv, FrameInv, ReadInv

LEMMA InductiveOrder == Spec => [](IInv /\ OrderInv)
BY InitIInv, NextIInv, InitOrder, NextOrder, PTL DEF Spec

(* Whichever way the two tasks interleave, the consumer reads whole frames *)
(* and in the order they arrived: no slot is written while it is read.     *)
THEOREM WholeFramesInOrderAlways == Spec => []WholeFramesInOrder
<1>1. IInv /\ OrderInv => WholeFramesInOrder
  <2> SUFFICES ASSUME IInv, OrderInv PROVE WholeFramesInOrder
    OBVIOUS
  <2>1. DOMAIN consumed = 1..Len(consumed)
    BY Typed
  <2>2. \A f \in 1..received : f \in Frames
    BY PoolAssumption DEF IInv, TypeOK, Frames
  <2> QED BY <2>1, <2>2 DEF OrderInv, ReadInv, WholeFramesInOrder
<1> QED BY <1>1, InductiveOrder, PTL

-----------------------------------------------------------------------------
(* The pool implements FrameChannel.  The steps that move a frame between  *)
(* the two tasks are invisible there, and all others are the channel's.    *)

Held == Lent \o Queued \o Arriving
Given == [i \in 1..GivenCount |-> consumed[i].data]
Phase == IF dPc \in {"wait", "quiet"} THEN "idle"
         ELSE IF dPc = "recycle" THEN "given" ELSE "reading"
Heard == received - One(rxPc = "take")
Payload == Frames \cup {NoFrame}

LEMMA OutstandingTyped == ASSUME IInv PROVE Outstanding \in Nat
<1>1. Len(ready) \in Nat
  BY Typed
<1>2. One(dSlot # NoSlot) \in Nat /\ One(rxSlot # NoSlot) \in Nat
  BY DEF One
<1> QED BY <1>1, <1>2 DEF Outstanding

LEMMA HeldTyped ==
  ASSUME IInv
  PROVE  /\ Lent \in Seq(Payload) /\ Queued \in Seq(Payload) /\ Arriving \in Seq(Payload)
         /\ Len(Lent) = One(dSlot # NoSlot) /\ Len(Queued) = Len(ready)
         /\ Len(Arriving) = One(rxSlot # NoSlot)
         /\ Held \in Seq(Payload) /\ Len(Held) = Outstanding
         /\ \A i \in 1..Len(ready) : Queued[i] = pool[ready[i]].data
<1>1. /\ pool \in [Slots -> Halves] /\ dSlot \in Slots \cup {NoSlot}
      /\ Len(ready) \in Nat /\ DOMAIN ready = 1..Len(ready)
      /\ \A i \in 1..Len(ready) : ready[i] \in Slots
  BY Typed DEF IInv, TypeOK
<1>2. \A x \in Slots : pool[x].data \in Payload
  BY <1>1 DEF Halves, Payload
<1>3. Lent \in Seq(Payload) /\ Len(Lent) = One(dSlot # NoSlot)
  BY <1>1, <1>2 DEF Lent, One
<1>4. Queued \in Seq(Payload) /\ Len(Queued) = Len(ready)
  BY <1>1, <1>2 DEF Queued
<1>5. received \in Payload
  <2>1. received \in 0..MaxFrames
    BY DEF IInv, TypeOK
  <2> QED BY <2>1, PoolAssumption DEF Payload, Frames, NoFrame
<1>6. Arriving \in Seq(Payload) /\ Len(Arriving) = One(rxSlot # NoSlot)
  BY <1>5 DEF Arriving, One
<1>7. \A i \in 1..Len(ready) : Queued[i] = pool[ready[i]].data
  BY <1>1 DEF Queued
<1>8. Held \in Seq(Payload) /\ Len(Held) = Outstanding
  <2>1. Lent \o Queued \in Seq(Payload) /\ Len(Lent \o Queued) = Len(Lent) + Len(Queued)
    BY <1>3, <1>4
  <2>2. /\ Held \in Seq(Payload) /\ Len(Held) = Len(Lent \o Queued) + Len(Arriving)
    BY <1>6, <2>1 DEF Held
  <2> QED BY <1>3, <1>4, <1>6, <2>1, <2>2 DEF Outstanding
<1> QED BY <1>3, <1>4, <1>6, <1>7, <1>8

(* Nothing the channel is made of changes. *)
LEMMA AsideMaps ==
  ASSUME IInv, UNCHANGED <<ready, pool, rxPc, rxSlot, dSlot, received, dropped, consumed>>,
         dPc' = dPc \/ {dPc, dPc'} \subseteq {"wait", "quiet"}
  PROVE  UNCHANGED <<Heard, Held, Given, Phase, dropped>>
<1>1. One(dPc = "data")' = One(dPc = "data") /\ Phase' = Phase
  BY DEF One, Phase
<1> QED BY <1>1 DEF Heard, Held, Given, Phase, Lent, Queued, Arriving, GivenCount

LEMMA RxCountMaps ==
  ASSUME IInv, RxCount PROVE UNCHANGED <<Heard, Held, Given, Phase, dropped>>
<1>1. /\ received' = received + 1 /\ rxPc = "idle" /\ rxPc' = "take" /\ rxSlot = NoSlot
      /\ UNCHANGED <<ready, pool, rxSlot, dPc, dSlot, dropped, consumed>>
  BY DEF RxCount, dVars, IInv, HoldersInv
<1>2. Heard' = Heard
  BY <1>1, Typed DEF Heard, One
<1>3. Held' = Held
  BY <1>1 DEF Held, Lent, Queued, Arriving
<1> QED BY <1>1, <1>2, <1>3 DEF Given, GivenCount, Phase

LEMMA RxTakeMaps ==
  ASSUME IInv, RxTake
  PROVE  /\ Len(Held) < QUEUE_LEN /\ Heard' = Heard + 1 /\ Held' = Append(Held, Heard + 1)
         /\ UNCHANGED <<Given, Phase, dropped>>
<1>1. /\ rxPc = "take" /\ free # <<>> /\ rxSlot = NoSlot /\ rxSlot' # NoSlot /\ rxPc' = "header"
      /\ UNCHANGED <<ready, pool, dPc, dSlot, received, dropped, consumed>>
  <2>1. Head(free) \in Slots /\ rxSlot' = Head(free)
    BY ReceiveFacts DEF RxTake, IInv, TypeOK
  <2> QED BY <2>1 DEF RxTake, dVars, IInv, HoldersInv, Slots, NoSlot
<1>2. Len(Held) < QUEUE_LEN
  <2>1. Len(free) \in Nat /\ Len(free) > 0
    BY <1>1, ReceiveFacts DEF IInv, TypeOK
  <2>2. Len(free) + Outstanding = QUEUE_LEN
    BY <1>1 DEF IInv, BootInv
  <2>3. Outstanding \in Nat
    BY OutstandingTyped
  <2> QED BY <2>1, <2>2, <2>3, HeldTyped
<1>3. Heard + 1 = received /\ Heard' = received
  BY <1>1, Typed DEF Heard, One
<1>4. Held' = Append(Held, received)
  <2>1. Arriving = <<>> /\ Arriving' = <<received>> /\ Lent' = Lent /\ Queued' = Queued
    BY <1>1 DEF Arriving, Lent, Queued
  <2>2. Lent \o Queued \in Seq(Payload)
    BY HeldTyped
  <2>3. Held = Lent \o Queued
    BY <2>1, <2>2 DEF Held
  <2>4. Held' = (Lent \o Queued) \o <<received>>
    BY <2>1 DEF Held
  <2>5. received \in Payload
    <3>1. received \in 0..MaxFrames
      BY DEF IInv, TypeOK
    <3> QED BY <3>1, PoolAssumption DEF Payload, Frames, NoFrame
  <2> QED BY <2>2, <2>3, <2>4, <2>5, AppendIsConcat
<1> QED BY <1>1, <1>2, <1>3, <1>4 DEF Given, GivenCount, Phase

LEMMA RxShedMaps ==
  ASSUME IInv, RxShed
  PROVE  /\ Len(Held) = QUEUE_LEN /\ Heard' = Heard + 1 /\ dropped' = dropped + 1
         /\ UNCHANGED <<Held, Given, Phase>>
<1>1. /\ rxPc = "take" /\ rxPc' = "idle" /\ dropped' = dropped + 1 /\ Len(free) = 0
      /\ UNCHANGED <<ready, pool, rxSlot, dPc, dSlot, received, consumed>>
  BY DEF RxShed, dVars
<1>2. Len(Held) = QUEUE_LEN
  <2>1. Outstanding \in Nat
    BY OutstandingTyped
  <2> QED BY <1>1, <2>1, HeldTyped DEF IInv, BootInv
<1>3. Heard' = Heard + 1
  BY <1>1, Typed DEF Heard, One
<1> QED BY <1>1, <1>2, <1>3 DEF Held, Lent, Queued, Arriving, Given, GivenCount, Phase

LEMMA RxWriteMaps ==
  ASSUME IInv, RxWriteHeader \/ RxWriteData
  PROVE  UNCHANGED <<Heard, Held, Given, Phase, dropped>>
<1>1. /\ \/ rxPc = "header" /\ rxPc' = "data" /\ pool' = [pool EXCEPT ![rxSlot]["header"] = received]
         \/ rxPc = "data" /\ rxPc' = "post" /\ pool' = [pool EXCEPT ![rxSlot]["data"] = received]
      /\ UNCHANGED <<ready, rxSlot, dPc, dSlot, received, dropped, consumed>>
  BY DEF RxWriteHeader, RxWriteData, RxWrite, dVars
<1>2. /\ rxSlot \in Slots /\ pool \in [Slots -> Halves] /\ rxSlot # NoSlot
      /\ rxSlot \notin Elements(ready) /\ dSlot # rxSlot
  BY <1>1 DEF IInv, HoldersInv, TypeOK, OneOwner
<1>3. \A x \in Slots : x # rxSlot => pool'[x] = pool[x]
  BY <1>1, <1>2
<1>4. Queued' = Queued
  <2>1. \A i \in DOMAIN ready : ready[i] \in Slots /\ ready[i] # rxSlot
    BY <1>2, Typed DEF Elements
  <2> QED BY <1>1, <1>3, <2>1 DEF Queued
<1>5. Lent' = Lent
  <2>1. dSlot # NoSlot => dSlot \in Slots
    BY DEF IInv, TypeOK
  <2> QED BY <1>1, <1>2, <1>3, <2>1 DEF Lent
<1>6. Held' = Held
  BY <1>1, <1>4, <1>5 DEF Held, Arriving
<1> QED BY <1>1, <1>6 DEF Heard, One, Given, GivenCount, Phase

LEMMA RxPostMaps ==
  ASSUME IInv, OrderInv, RxPost PROVE UNCHANGED <<Heard, Held, Given, Phase, dropped>>
<1>1. /\ rxPc = "post" /\ rxSlot \in Slots /\ rxSlot # NoSlot
      /\ Len(ready) \in Nat /\ Len(ready) < ReadyRoom
  <2>1. /\ rxPc = "post" /\ rxSlot \in Slots /\ rxSlot # NoSlot /\ Registered
        /\ Len(free) \in Nat /\ Len(ready) \in Nat /\ dSlot \in Slots \cup {NoSlot}
    BY DEF RxPost, IInv, TypeOK, HoldersInv, BootInv, Registered
  <2> QED BY <2>1, PoolAssumption DEF IInv, BootInv, Outstanding, One, ReadyRoom
<1>2. /\ ready' = Append(ready, rxSlot) /\ rxPc' = "idle" /\ rxSlot' = NoSlot
      /\ UNCHANGED <<pool, dPc, dSlot, received, dropped, consumed>>
  BY <1>1 DEF RxPost, dVars
<1>3. pool[rxSlot].data = received
  BY <1>1 DEF OrderInv, FrameInv
<1> DEFINE n == Len(ready)
<1>4. Queued' = Queued \o <<received>>
  <2>1. /\ n \in Nat /\ DOMAIN ready' = 1..n + 1 /\ ready'[n + 1] = rxSlot
        /\ \A i \in 1..n : ready'[i] = ready[i]
        /\ \A i \in 1..n + 1 : i \in 1..n \/ i = n + 1
    <3>1. ready \in Seq(Slots)
      BY DEF IInv, TypeOK
    <3> QED BY <1>1, <1>2, <3>1
  <2>2. /\ Queued \in Seq(Payload) /\ Len(Queued) = n
        /\ \A i \in 1..n : Queued[i] = pool[ready[i]].data
    BY HeldTyped
  <2> HIDE DEF n
  <2>3. Queued' = [i \in 1..n + 1 |-> pool[ready'[i]].data]
    BY <1>2, <2>1 DEF Queued
  <2> DEFINE longer == Queued \o <<received>>
  <2>4. /\ DOMAIN longer = 1..n + 1 /\ longer[n + 1] = received
        /\ \A i \in 1..n : longer[i] = Queued[i]
        /\ longer = [i \in 1..n + 1 |-> longer[i]]
    BY <2>1, <2>2
  <2> HIDE DEF longer
  <2>5. \A i \in 1..n + 1 : pool[ready'[i]].data = longer[i]
    BY <1>3, <2>1, <2>2, <2>4
  <2> QED BY <2>3, <2>4, <2>5 DEF longer
<1>5. Held' = Held
  <2>1. Lent \in Seq(Payload) /\ Queued \in Seq(Payload) /\ <<received>> \in Seq(Payload)
    <3>1. received \in 0..MaxFrames
      BY DEF IInv, TypeOK
    <3>2. received \in Payload
      BY <3>1, PoolAssumption DEF Payload, Frames, NoFrame
    <3> QED BY <3>2, HeldTyped
  <2>2. Lent' = Lent /\ Arriving = <<received>> /\ Arriving' = <<>>
    BY <1>1, <1>2 DEF Lent, Arriving
  <2>3. Lent \o (Queued \o <<received>>) = (Lent \o Queued) \o <<received>>
    BY <2>1, ConcatAssociative
  <2>4. Lent \o (Queued \o <<received>>) \in Seq(Payload)
    BY <2>1
  <2>5. Held' = (Lent \o (Queued \o <<received>>)) \o <<>>
    BY <1>4, <2>2 DEF Held
  <2> QED BY <2>2, <2>3, <2>4, <2>5 DEF Held
<1>6. Heard' = Heard
  BY <1>1, <1>2 DEF Heard, One
<1> QED BY <1>2, <1>5, <1>6 DEF Given, GivenCount, Phase

LEMMA DispatchTakeMaps ==
  ASSUME IInv, DispatchTake
  PROVE  /\ Phase = "idle" /\ Held # <<>> /\ Phase' = "reading"
         /\ UNCHANGED <<Heard, Held, Given, dropped>>
<1>1. /\ dPc = "wait" /\ ready # <<>> /\ dSlot' = Head(ready) /\ ready' = Tail(ready)
      /\ dPc' = "header" /\ dSlot = NoSlot
      /\ UNCHANGED <<pool, rxPc, rxSlot, received, dropped, consumed>>
  BY DEF DispatchTake, rxVars, IInv, HoldersInv
<1> DEFINE n == Len(ready)
           rest == [i \in 1..n - 1 |-> Queued[i + 1]]
<1>2. /\ n \in Nat \ {0} /\ Head(ready) = ready[1] /\ ready[1] # NoSlot
      /\ DOMAIN ready' = 1..n - 1 /\ \A i \in 1..n - 1 : ready'[i] = ready[i + 1]
  <2>1. ready \in Seq(Slots)
    BY DEF IInv, TypeOK
  <2>2. n \in Nat \ {0} /\ Head(ready) = ready[1] /\ ready[1] \in Slots
    BY <1>1, <2>1
  <2> QED BY <1>1, <2>1, <2>2 DEF Slots, NoSlot
<1>3. /\ Queued \in Seq(Payload) /\ Len(Queued) = n
      /\ \A i \in 1..n : Queued[i] = pool[ready[i]].data
  BY HeldTyped
<1> HIDE DEF n, rest
<1>4. Lent' = <<Queued[1]>> /\ Lent = <<>>
  <2>1. 1 \in 1..n
    BY <1>2
  <2> QED BY <1>1, <1>2, <1>3, <2>1 DEF Lent
<1>5. Queued' = rest
  <2>1. \A i \in 1..n - 1 : i + 1 \in 1..n
    BY <1>2
  <2> QED BY <1>1, <1>2, <1>3, <2>1 DEF Queued, rest
<1>6. <<Queued[1]>> \o rest = Queued
  <2>1. rest \in Seq(Payload) /\ Len(rest) = n - 1 /\ \A i \in 1..n - 1 : rest[i] = Queued[i + 1]
    BY <1>2, <1>3 DEF rest
  <2>2. <<Queued[1]>> \in Seq(Payload)
    BY <1>2, <1>3
  <2>3. /\ <<Queued[1]>> \o rest \in Seq(Payload) /\ Len(<<Queued[1]>> \o rest) = n
        /\ \A i \in 1..n : (<<Queued[1]>> \o rest)[i] = Queued[i]
    BY <1>2, <2>1, <2>2
  <2> QED BY <1>3, <2>3, SeqEqual
<1>7. Held' = Held
  <2>1. <<>> \o Queued = Queued
    BY <1>3
  <2>2. Arriving' = Arriving
    BY <1>1 DEF Arriving
  <2> QED BY <1>4, <1>5, <1>6, <2>1, <2>2 DEF Held
<1>8. Held # <<>>
  <2>1. One(dSlot # NoSlot) \in Nat /\ One(rxSlot # NoSlot) \in Nat
    BY DEF One
  <2>2. Len(ready) \in Nat /\ Len(ready) > 0
    BY <1>2 DEF n
  <2>3. Outstanding > 0
    BY <2>1, <2>2 DEF Outstanding
  <2> QED BY <2>3, HeldTyped
<1> QED BY <1>1, <1>7, <1>8 DEF Phase, Heard, Given, GivenCount, One

LEMMA ConsumeHeaderMaps ==
  ASSUME IInv, ConsumeHeader PROVE UNCHANGED <<Heard, Held, Given, Phase, dropped>>
<1> DEFINE read == [header |-> pool[dSlot].header, data |-> NoFrame]
           n == Len(consumed)
<1>1. /\ dPc = "header" /\ dPc' = "data" /\ consumed' = Append(consumed, read)
      /\ UNCHANGED <<ready, pool, rxPc, rxSlot, dSlot, received, dropped>>
  BY DEF ConsumeHeader, rxVars
<1>2. n \in Nat /\ Len(consumed') = n + 1 /\ \A i \in 1..n : consumed'[i] = consumed[i]
  <2>1. consumed \in Seq(Halves)
    BY DEF IInv, TypeOK
  <2> QED BY <1>1, <2>1
<1> HIDE DEF read, n
<1>3. GivenCount = n /\ GivenCount' = n
  BY <1>1, <1>2 DEF GivenCount, One, n
<1>4. Given' = Given
  BY <1>2, <1>3 DEF Given
<1> QED BY <1>1, <1>4 DEF Heard, Held, Lent, Queued, Arriving, Phase

(* Any two elements are alike from the first one on: a slot that was lent  *)
(* is at the head of the channel.                                          *)
LEMMA LentIsHead ==
  ASSUME IInv, dSlot # NoSlot
  PROVE  /\ Held = <<pool[dSlot].data>> \o (Queued \o Arriving)
         /\ Held # <<>> /\ Head(Held) = pool[dSlot].data /\ Tail(Held) = Queued \o Arriving
<1> DEFINE d == pool[dSlot].data
           more == Queued \o Arriving
<1>1. Lent = <<d>> /\ <<d>> \in Seq(Payload) /\ d \in Payload
  <2>1. Lent = <<d>> /\ Lent \in Seq(Payload)
    BY HeldTyped DEF Lent
  <2> QED BY <2>1
<1>2. more \in Seq(Payload) /\ Queued \in Seq(Payload) /\ Arriving \in Seq(Payload)
  BY HeldTyped
<1> HIDE DEF d
<1>3. Held = <<d>> \o more
  BY <1>1, <1>2, ConcatAssociative DEF Held
<1> HIDE DEF more
<1>4. /\ <<d>> \o more \in Seq(Payload) /\ Len(<<d>> \o more) = Len(more) + 1
      /\ (<<d>> \o more)[1] = d /\ Len(more) \in Nat
      /\ \A i \in 1..Len(more) : (<<d>> \o more)[i + 1] = more[i]
  BY <1>1, <1>2
<1>5. Held \in Seq(Payload) /\ Held # <<>> /\ Head(Held) = d
  BY <1>3, <1>4
<1>6. Tail(Held) = more
  <2>1. /\ Tail(Held) \in Seq(Payload) /\ Len(Tail(Held)) = Len(more)
        /\ \A i \in 1..Len(more) : Tail(Held)[i] = more[i]
    BY <1>3, <1>4, <1>5, HeadTailProperties
  <2> QED BY <1>2, <2>1, SeqEqual
<1> QED BY <1>3, <1>5, <1>6 DEF d, more

LEMMA ConsumeDataMaps ==
  ASSUME IInv, OrderInv, ConsumeData
  PROVE  /\ Phase = "reading" /\ Phase' = "given" /\ Given' = Append(Given, Head(Held))
         /\ UNCHANGED <<Heard, Held, dropped>>
<1> DEFINE n == Len(consumed)
           d == pool[dSlot].data
<1>1. /\ dPc = "data" /\ dPc' = "recycle" /\ dSlot # NoSlot
      /\ consumed' = [consumed EXCEPT ![n] = [consumed[n] EXCEPT !.data = d]]
      /\ UNCHANGED <<ready, pool, rxPc, rxSlot, dSlot, received, dropped>>
  BY DEF ConsumeData, rxVars, IInv, HoldersInv
<1>2. /\ n \in Nat \ {0} /\ Len(consumed') = n /\ consumed'[n].data = d
      /\ \A i \in 1..n - 1 : consumed'[i] = consumed[i]
      /\ \A i \in 1..n : i \in 1..n - 1 \/ i = n
  <2>1. consumed \in Seq(Halves)
    BY DEF IInv, TypeOK
  <2>2. n \in Nat \ {0} /\ consumed[n] \in Halves
    BY <1>1, <2>1 DEF OrderInv, ReadInv
  <2>3. [consumed[n] EXCEPT !.data = d].data = d
    BY <2>2 DEF Halves
  <2> HIDE DEF d
  <2> QED BY <1>1, <2>1, <2>2, <2>3
<1> HIDE DEF n
<1>3. GivenCount = n - 1 /\ GivenCount' = n
  BY <1>1, <1>2 DEF GivenCount, One, n
<1>4. \A i \in 1..n - 1 : consumed[i].data \in Payload
  <2>1. \A i \in 1..n - 1 : i \in 1..n
    BY <1>2
  <2> QED BY <2>1, Typed DEF Halves, Payload, n
<1>5. Given' = Append(Given, d)
  <2>1. Given = [i \in 1..n - 1 |-> consumed[i].data]
    BY <1>3 DEF Given
  <2>2. Given' = [i \in 1..n |-> consumed'[i].data]
    BY <1>3 DEF Given
  <2>3. d \in Payload
    <3>1. Lent = <<d>> /\ Lent \in Seq(Payload)
      BY <1>1, HeldTyped DEF Lent
    <3> QED BY <3>1
  <2> HIDE DEF d
  <2>4. Given \in Seq(Payload) /\ Len(Given) = n - 1
    BY <1>2, <1>4, <2>1
  <2> DEFINE longer == Append(Given, d)
  <2>5. /\ longer \in Seq(Payload) /\ Len(longer) = n /\ longer[n] = d
        /\ \A i \in 1..n - 1 : longer[i] = Given[i]
    <3>1. Len(Given) + 1 = n
      BY <1>2, <2>4
    <3> QED BY <2>3, <2>4, <3>1, AppendProperties DEF longer
  <2> HIDE DEF longer
  <2>6. \A i \in 1..n : consumed'[i].data = longer[i]
    <3>1. \A i \in 1..n - 1 : Given[i] = consumed[i].data
      BY <2>1
    <3> QED BY <1>2, <2>5, <3>1
  <2>7. Given' \in Seq(Payload) /\ Len(Given') = n /\ \A i \in 1..n : Given'[i] = longer[i]
    <3>1. \A i \in 1..n : longer[i] \in Payload
      BY <2>5
    <3> QED BY <1>2, <2>2, <2>6, <3>1
  <2>8. Given' = longer
    BY <2>5, <2>7, SeqEqual
  <2> QED BY <2>8 DEF longer
<1>6. Head(Held) = d
  BY <1>1, LentIsHead
<1> QED BY <1>1, <1>5, <1>6 DEF Heard, Held, Lent, Queued, Arriving, Phase

LEMMA DispatchRecycleMaps ==
  ASSUME IInv, DispatchRecycle
  PROVE  /\ Phase = "given" /\ Phase' = "idle" /\ Held' = Tail(Held)
         /\ UNCHANGED <<Heard, Given, dropped>>
<1>1. /\ dPc = "recycle" /\ dPc' = "wait" /\ dSlot # NoSlot /\ dSlot' = NoSlot
      /\ UNCHANGED <<ready, pool, rxPc, rxSlot, received, dropped, consumed>>
  BY DEF DispatchRecycle, rxVars, IInv, HoldersInv
<1>2. Held' = Queued \o Arriving
  <2>1. Lent' = <<>> /\ Queued' = Queued /\ Arriving' = Arriving
    BY <1>1 DEF Lent, Queued, Arriving
  <2>2. <<>> \o Queued = Queued
    BY HeldTyped
  <2> QED BY <2>1, <2>2 DEF Held
<1> QED BY <1>1, <1>2, LentIsHead DEF Phase, Heard, Given, GivenCount, One

-----------------------------------------------------------------------------
LEMMA InitMaps ==
  ASSUME Init, IInv
  PROVE  Heard = 0 /\ dropped = 0 /\ Held = <<>> /\ Given = <<>> /\ Phase = "idle"
<1>1. Lent = <<>> /\ Queued = <<>> /\ Arriving = <<>>
  BY DEF Init, Lent, Queued, Arriving
<1>2. GivenCount = 0 /\ Heard = 0
  BY DEF Init, GivenCount, Heard, One
<1>3. Given = <<>>
  BY <1>2 DEF Given
<1> QED BY <1>1, <1>2, <1>3 DEF Init, Held, Phase

LEMMA StepMaps ==
  ASSUME IInv, OrderInv, [Next]_vars
  PROVE  \/ UNCHANGED <<Heard, Held, Given, Phase, dropped>>
         \/ /\ Len(Held) < QUEUE_LEN /\ Heard' = Heard + 1 /\ Held' = Append(Held, Heard + 1)
            /\ UNCHANGED <<Given, Phase, dropped>>
         \/ /\ Len(Held) = QUEUE_LEN /\ Heard' = Heard + 1 /\ dropped' = dropped + 1
            /\ UNCHANGED <<Held, Given, Phase>>
         \/ /\ Phase = "idle" /\ Held # <<>> /\ Phase' = "reading"
            /\ UNCHANGED <<Heard, Held, Given, dropped>>
         \/ /\ Phase = "reading" /\ Phase' = "given" /\ Given' = Append(Given, Head(Held))
            /\ UNCHANGED <<Heard, Held, dropped>>
         \/ /\ Phase = "given" /\ Phase' = "idle" /\ Held' = Tail(Held)
            /\ UNCHANGED <<Heard, Given, dropped>>
<1>1. CASE Boot \/ DispatchTimeout \/ DispatchQuiet \/ UNCHANGED vars
  BY <1>1, AsideMaps
     DEF Boot, CreateQueues, StartRadio, RegisterCallback, CreateDispatchTask, BootStep, FillFree,
         DispatchTimeout, DispatchQuiet, vars, rxVars, dVars
<1>2. CASE OnRecv
  BY <1>2, RxCountMaps, RxTakeMaps, RxShedMaps, RxWriteMaps, RxPostMaps DEF OnRecv
<1>3. CASE Dispatch /\ ~DispatchTimeout /\ ~DispatchQuiet
  BY <1>3, DispatchTakeMaps, ConsumeHeaderMaps, ConsumeDataMaps, DispatchRecycleMaps DEF Dispatch
<1> QED BY <1>1, <1>2, <1>3 DEF Next

(* To its consumer the pool is a bounded first-in first-out channel: the   *)
(* one callback thread of espnow.h with no pool, queues or tasks behind it.*)
THEOREM ImplementsChannelAlways == Spec => ImplementsChannel
<1>1. Init => Channel!Init
  <2> SUFFICES ASSUME Init PROVE Channel!Init
    OBVIOUS
  <2>1. IInv
    BY InitIInv
  <2> QED BY <2>1, InitMaps DEF Channel!Init, Heard, Held, Given, Phase
<1>2. IInv /\ OrderInv /\ [Next]_vars => [Channel!Next]_(Channel!vars)
  <2> SUFFICES ASSUME IInv, OrderInv, [Next]_vars PROVE [Channel!Next]_(Channel!vars)
    OBVIOUS
  <2> QED BY StepMaps
      DEF Channel!Next, Channel!Admit, Channel!Shed, Channel!Start, Channel!Give, Channel!Release,
          Channel!vars, Heard, Held, Given, Phase
<1> QED BY <1>1, <1>2, InductiveOrder, PTL DEF Spec, ImplementsChannel, Channel!Spec
=============================================================================
