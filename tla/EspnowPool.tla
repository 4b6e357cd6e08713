----------------------------- MODULE EspnowPool -----------------------------
(***************************************************************************)
(* The receive path of espnow.c: a static pool of message slots moved by   *)
(* pointer through two FreeRTOS queues, s_free -> s_ready -> s_free.       *)
(*                                                                         *)
(* Three tasks touch it and interleave freely:                             *)
(*   - app_main, running espnow_start() once at boot;                      *)
(*   - the Wi-Fi task, which calls on_recv() for every frame on the air;   *)
(*   - the dispatch task, which lends one slot at a time to the consumer   *)
(*     callback and then recycles it.                                      *)
(*                                                                         *)
(* A frame is known by its arrival number (the value s_received takes when *)
(* it is accepted).  Slots are filled and read in two halves, header       *)
(* (ms, mac, rssi, len) and data, so that a slot reused too early shows    *)
(* as a torn frame.  A frame whose length on_recv() refuses changes no     *)
(* state at all and is therefore a stuttering step.                        *)
(***************************************************************************)
EXTENDS Integers, Sequences

CONSTANTS
  QUEUE_LEN,   \* CONFIG_ESPNOW_QUEUE_LEN: slots in s_pool
  MaxFrames    \* bound: accepted frames the air carries in a behaviour

ASSUME PoolAssumption ==
  /\ QUEUE_LEN \in Nat \ {0}
  /\ MaxFrames \in Nat

VARIABLES
  boot,        \* progress of espnow_start() in app_main
  free,        \* s_free: slots waiting for a frame
  ready,       \* s_ready: slots waiting for the dispatch task
  pool,        \* s_pool: the frame each half of a slot was written from
  rxPc,        \* where the Wi-Fi task is in on_recv()
  rxSlot,      \* the slot on_recv() is filling
  dPc,         \* where the dispatch task is in its loop
  dSlot,       \* the slot lent to the consumer callback
  received,    \* s_received
  dropped,     \* s_dropped
  led,         \* LED_ESPNOW
  consumed     \* history: the halves the consumer read, one pair per frame

rxVars == <<rxPc, rxSlot>>
dVars == <<dPc, dSlot>>
vars == <<boot, free, ready, pool, rxVars, dVars, received, dropped, led,
          consumed>>

Slots == 1..QUEUE_LEN
NoSlot == 0
Frames == 1..MaxFrames
NoFrame == 0
Halves == [header : Frames \cup {NoFrame}, data : Frames \cup {NoFrame}]

(* Both queues are created with room for the whole pool. *)
FreeRoom == QUEUE_LEN

ReadyRoom == QUEUE_LEN

(* The order in which espnow_start() reaches its stages. *)
BootStages == {"create", "fill", "radio", "register", "task", "up",
               "failed", "failed-task"}

(* on_recv() can be called once it is registered, whatever happens next. *)
Registered == boot \in {"task", "up", "failed-task"}

(* The dispatch task exists only if its creation succeeded. *)
Dispatching == boot = "up"

TypeOK ==
  /\ boot \in BootStages
  /\ free \in Seq(Slots) /\ Len(free) <= FreeRoom
  /\ ready \in Seq(Slots) /\ Len(ready) <= ReadyRoom
  /\ pool \in [Slots -> Halves]
  /\ rxPc \in {"idle", "take", "header", "data", "post"}
  /\ rxSlot \in Slots \cup {NoSlot}
  /\ dPc \in {"wait", "quiet", "header", "data", "recycle"}
  /\ dSlot \in Slots \cup {NoSlot}
  /\ received \in 0..MaxFrames
  /\ dropped \in 0..MaxFrames
  /\ led \in BOOLEAN
  /\ consumed \in Seq(Halves)

Init ==
  /\ boot = "create"
  /\ free = <<>> /\ ready = <<>>
  /\ pool = [s \in Slots |-> [header |-> NoFrame, data |-> NoFrame]]
  /\ rxPc = "idle" /\ rxSlot = NoSlot
  /\ dPc = "wait" /\ dSlot = NoSlot
  /\ received = 0 /\ dropped = 0
  /\ led = FALSE
  /\ consumed = <<>>

-----------------------------------------------------------------------------
(* espnow_start(), in app_main.  A stage that fails returns at once: what  *)
(* came before it stays, what comes after it never happens.                *)

BootStep(from, to, failure) ==
  /\ boot = from
  /\ \E ok \in BOOLEAN : boot' = IF ok THEN to ELSE failure
  /\ UNCHANGED <<ready, pool, rxVars, dVars, received, dropped, led, consumed>>

CreateQueues == BootStep("create", "fill", "failed") /\ UNCHANGED free

(* One turn of the loop that pushes every slot of s_pool on s_free. *)
FillFree ==
  /\ boot = "fill"
  /\ LET i == Len(free) + 1 IN
       /\ free' = Append(free, i)
       /\ boot' = IF i = QUEUE_LEN THEN "radio" ELSE "fill"
  /\ UNCHANGED <<ready, pool, rxVars, dVars, received, dropped, led, consumed>>

(* wifi_listen_only() and esp_now_init(). *)
StartRadio == BootStep("radio", "register", "failed") /\ UNCHANGED free

RegisterCallback == BootStep("register", "task", "failed") /\ UNCHANGED free

CreateDispatchTask == BootStep("task", "up", "failed-task") /\ UNCHANGED free

Boot ==
  \/ CreateQueues
  \/ FillFree
  \/ StartRadio
  \/ RegisterCallback
  \/ CreateDispatchTask

-----------------------------------------------------------------------------
(* on_recv(), in the Wi-Fi task. *)

(* A frame of legal length arrives and is counted. *)
RxCount ==
  /\ Registered
  /\ rxPc = "idle"
  /\ received < MaxFrames
  /\ received' = received + 1
  /\ rxPc' = "take"
  /\ UNCHANGED <<boot, free, ready, pool, rxSlot, dVars, dropped, led, consumed>>

(* xQueueReceive(s_free, &msg, 0) finds a slot. *)
RxTake ==
  /\ rxPc = "take"
  /\ free # <<>>
  /\ rxSlot' = Head(free)
  /\ free' = Tail(free)
  /\ rxPc' = "header"
  /\ UNCHANGED <<boot, ready, pool, dVars, received, dropped, led, consumed>>

(* Fault: a shed frame is not counted. *)
RxShedUncounted ==
  /\ rxPc = "take" /\ free = <<>>
  /\ rxPc' = "idle"
  /\ UNCHANGED <<boot, free, ready, pool, rxSlot, dVars, received, dropped, led, consumed>>

(* ... or does not: the frame is shed, the Wi-Fi task never waits. *)
RxShed ==
  /\ rxPc = "take"
  /\ free = <<>>
  /\ dropped' = dropped + 1
  /\ rxPc' = "idle"
  /\ UNCHANGED <<boot, free, ready, pool, rxSlot, dVars, received, led, consumed>>

RxWrite(half, next) ==
  /\ rxPc = half
  /\ pool' = [pool EXCEPT ![rxSlot][half] = received]
  /\ rxPc' = next
  /\ UNCHANGED <<boot, free, ready, rxSlot, dVars, received, dropped, led, consumed>>

RxWriteHeader == RxWrite("header", "data")
RxWriteData == RxWrite("data", "post")

(* Fault: the slot just filled goes to the wrong queue. *)
RxPostToFree ==
  /\ rxPc = "post"
  /\ free' = Append(free, rxSlot)
  /\ rxPc' = "idle" /\ rxSlot' = NoSlot
  /\ UNCHANGED <<boot, ready, pool, dVars, received, dropped, led, consumed>>

(* Fault: it goes to the front of s_ready. *)
RxPostToFront ==
  /\ rxPc = "post"
  /\ ready' = <<rxSlot>> \o ready
  /\ rxPc' = "idle" /\ rxSlot' = NoSlot
  /\ UNCHANGED <<boot, free, pool, dVars, received, dropped, led, consumed>>

(* xQueueSend(s_ready, &msg, 0), with the defensive recycling the code has *)
(* for a full s_ready.                                                     *)
RxPost ==
  /\ rxPc = "post"
  /\ LET fits == Len(ready) < ReadyRoom
         back == ~fits /\ Len(free) < FreeRoom IN
       /\ ready' = IF fits THEN Append(ready, rxSlot) ELSE ready
       /\ free' = IF back THEN Append(free, rxSlot) ELSE free
       /\ dropped' = IF fits THEN dropped ELSE dropped + 1
  /\ rxPc' = "idle"
  /\ rxSlot' = NoSlot
  /\ UNCHANGED <<boot, pool, dVars, received, led, consumed>>

OnRecv ==
  \/ RxCount
  \/ RxTake
  \/ RxShed
  \/ RxWriteHeader
  \/ RxWriteData
  \/ RxPost

-----------------------------------------------------------------------------
(* dispatch_task().  The consumer callback is anything that reads the      *)
(* header and then the data of the slot it was lent.                       *)

(* Fault: the slot is recycled before the consumer is called. *)
DispatchTakeRecycling ==
  /\ Dispatching /\ dPc = "wait" /\ ready # <<>>
  /\ dSlot' = Head(ready)
  /\ ready' = Tail(ready)
  /\ free' = Append(free, Head(ready))
  /\ led' = TRUE
  /\ dPc' = "header"
  /\ UNCHANGED <<boot, pool, rxVars, received, dropped, consumed>>

DispatchTake ==
  /\ Dispatching
  /\ dPc = "wait"
  /\ ready # <<>>
  /\ dSlot' = Head(ready)
  /\ ready' = Tail(ready)
  /\ led' = TRUE
  /\ dPc' = "header"
  /\ UNCHANGED <<boot, free, pool, rxVars, received, dropped, consumed>>

(* The queue stayed empty for the LED hold time ... *)
DispatchTimeout ==
  /\ Dispatching
  /\ dPc = "wait"
  /\ ready = <<>>
  /\ dPc' = "quiet"
  /\ UNCHANGED <<boot, free, ready, pool, rxVars, dSlot, received, dropped, led, consumed>>

(* Fault: the timeout of the wait is ignored. *)
DispatchQuietIgnored ==
  /\ dPc = "quiet" /\ dPc' = "wait"
  /\ UNCHANGED <<boot, free, ready, pool, rxVars, dSlot, received, dropped, led, consumed>>

(* ... and the LED goes out, though a frame may have come meanwhile. *)
DispatchQuiet ==
  /\ dPc = "quiet"
  /\ led' = FALSE
  /\ dPc' = "wait"
  /\ UNCHANGED <<boot, free, ready, pool, rxVars, dSlot, received, dropped, consumed>>

ConsumeHeader ==
  /\ dPc = "header"
  /\ consumed' = Append(consumed,
                        [header |-> pool[dSlot].header, data |-> NoFrame])
  /\ dPc' = "data"
  /\ UNCHANGED <<boot, free, ready, pool, rxVars, dSlot, received, dropped, led>>

ConsumeData ==
  /\ dPc = "data"
  /\ consumed' = [consumed EXCEPT ![Len(consumed)].data = pool[dSlot].data]
  /\ dPc' = "recycle"
  /\ UNCHANGED <<boot, free, ready, pool, rxVars, dSlot, received, dropped, led>>

(* Fault: the slot is not given back. *)
DispatchRecycleForgotten ==
  /\ dPc = "recycle"
  /\ dSlot' = NoSlot /\ dPc' = "wait"
  /\ UNCHANGED <<boot, free, ready, pool, rxVars, received, dropped, led, consumed>>

(* xQueueSend(s_free, &msg, 0); its result is not looked at. *)
DispatchRecycle ==
  /\ dPc = "recycle"
  /\ free' = IF Len(free) < FreeRoom THEN Append(free, dSlot) ELSE free
  /\ dSlot' = NoSlot
  /\ dPc' = "wait"
  /\ UNCHANGED <<boot, ready, pool, rxVars, received, dropped, led, consumed>>

Dispatch ==
  \/ DispatchTake
  \/ DispatchTimeout
  \/ DispatchQuiet
  \/ ConsumeHeader
  \/ ConsumeData
  \/ DispatchRecycle

-----------------------------------------------------------------------------
Next == Boot \/ OnRecv \/ Dispatch

(* The Wi-Fi task finishes a callback it began. *)
RxFairness == WF_vars(RxTake \/ RxShed \/ RxWriteHeader \/ RxWriteData \/ RxPost)

(* Nothing is promised of the dispatch task, whose consumer may hang; the  *)
(* air owes us no frame and boot may stop at any stage.                    *)
Spec == Init /\ [][Next]_vars /\ RxFairness

(* What some properties ask for on top: the dispatch task runs whenever it *)
(* can and its consumer returns.                                           *)
ConsumerReturns == WF_vars(Dispatch)

-----------------------------------------------------------------------------
(* Properties *)

Elements(q) == {q[i] : i \in DOMAIN q}
Distinct(q) == \A i, j \in DOMAIN q : q[i] = q[j] => i = j
One(b) == IF b THEN 1 ELSE 0

(* The slots that hold a frame or are about to: lent, queued, being filled. *)
Outstanding == One(dSlot # NoSlot) + Len(ready) + One(rxSlot # NoSlot)

(* No slot is ever in two hands: not twice in a queue, not in both, not    *)
(* queued while on_recv() writes it or the consumer reads it (espnow.c     *)
(* lines 22-27: "slots move free -> ready -> free").                       *)
OneOwner ==
  /\ Distinct(free) /\ Distinct(ready)
  /\ Elements(free) \cap Elements(ready) = {}
  /\ rxSlot \notin Elements(free) \cup Elements(ready)
  /\ dSlot \notin Elements(free) \cup Elements(ready)
  /\ rxSlot # NoSlot => rxSlot # dSlot

(* Every variable keeps its type and every slot its one owner. *)
SlotInv == TypeOK /\ OneOwner

(* No slot leaks: from the moment frames can arrive, every slot of the     *)
(* pool is free or outstanding.                                            *)
NoSlotLeaks == Registered => Len(free) + Outstanding = QUEUE_LEN

(* "Cannot happen: both queues are pool-sized" (espnow.c line 98): neither *)
(* xQueueSend() of a slot ever finds its queue full.                       *)
SendsNeverFail ==
  /\ rxPc = "post" => Len(ready) < ReadyRoom
  /\ dPc = "recycle" => Len(free) < FreeRoom

(* Between them the queues and the two tasks hold the whole pool, no more. *)
PoolConserved == NoSlotLeaks /\ SendsNeverFail

(* The consumer reads one whole frame from the slot it was lent, and       *)
(* frames reach it in the order they arrived, however the Wi-Fi task       *)
(* interleaves (espnow.h line 30: "valid only for the duration of the      *)
(* call").                                                                 *)
Complete(i) == i < Len(consumed) \/ dPc # "data"
WholeFramesInOrder ==
  /\ \A i \in DOMAIN consumed :
       Complete(i) => /\ consumed[i].header \in Frames
                      /\ consumed[i].header = consumed[i].data
  /\ \A i, j \in DOMAIN consumed :
       i < j => consumed[i].header < consumed[j].header

(* espnow_received() and espnow_dropped() account for every frame: what    *)
(* was counted was shed, consumed, or is still on its way.                 *)
FramesAccounted ==
  received = dropped + Len(consumed) + Len(ready) + One(dPc = "header")
             + One(rxPc # "idle")

(* A frame is shed only when the whole pool is outstanding (espnow.h line  *)
(* 41: "because the pool was exhausted").                                  *)
ShedOnlyWhenFull == [][dropped' # dropped => Outstanding = QUEUE_LEN]_vars

(* Every frame that got a slot reaches the consumer, once there is one. *)
Holds(f) ==
  \/ rxSlot # NoSlot /\ received = f
  \/ \E s \in Elements(ready) \cup ({dSlot} \ {NoSlot}) : pool[s].data = f
EveryHeldFrameConsumed ==
  ConsumerReturns =>
    \A f \in Frames :
      Dispatching /\ Holds(f) ~> \E i \in DOMAIN consumed : consumed[i].data = f

(* The activity LED goes out once the air has gone quiet (config.h line    *)
(* 83: "dark again after a quiet spell").                                  *)
QuietGoesDark == ConsumerReturns => (Dispatching /\ received = MaxFrames ~> ~led)

-----------------------------------------------------------------------------
(* The pool implements the abstract channel.  A frame enters the channel   *)
(* when on_recv() gets a slot for it, before the slot is written.          *)

Lent == IF dSlot = NoSlot THEN <<>> ELSE <<pool[dSlot].data>>
Queued == [i \in DOMAIN ready |-> pool[ready[i]].data]
Arriving == IF rxSlot = NoSlot THEN <<>> ELSE <<received>>
GivenCount == Len(consumed) - One(dPc = "data")

Channel == INSTANCE FrameChannel WITH
  Capacity <- QUEUE_LEN,
  heard <- received - One(rxPc = "take"),
  held <- Lent \o Queued \o Arriving,
  given <- [i \in 1..GivenCount |-> consumed[i].data],
  phase <- IF dPc \in {"wait", "quiet"} THEN "idle"
           ELSE IF dPc = "recycle" THEN "given" ELSE "reading",
  lost <- dropped

ImplementsChannel == Channel!Spec
=============================================================================
