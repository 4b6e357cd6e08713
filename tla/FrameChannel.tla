---------------------------- MODULE FrameChannel ----------------------------
(***************************************************************************)
(* What espnow.c promises to main.c, with no pool, no queues and no tasks: *)
(* a bounded first-in first-out channel of frames that sheds a frame only  *)
(* when Capacity frames are in it, and that keeps a frame in the channel   *)
(* until the consumer is done with it.                                     *)
(***************************************************************************)
EXTENDS Naturals, Sequences

CONSTANT Capacity

VARIABLES
  heard,   \* frames heard on the air so far; frame n is the n-th of them
  held,    \* the frames in the channel, oldest first
  given,   \* the frames handed to the consumer, in order
  phase,   \* how far the consumer is with Head(held)
  lost     \* how many frames were shed

vars == <<heard, held, given, phase, lost>>

Init ==
  /\ heard = 0 /\ lost = 0
  /\ held = <<>> /\ given = <<>>
  /\ phase = "idle"

Admit ==
  /\ Len(held) < Capacity
  /\ heard' = heard + 1
  /\ held' = Append(held, heard + 1)
  /\ UNCHANGED <<given, phase, lost>>

Shed ==
  /\ Len(held) = Capacity
  /\ heard' = heard + 1
  /\ lost' = lost + 1
  /\ UNCHANGED <<held, given, phase>>

Start ==
  /\ phase = "idle"
  /\ held # <<>>
  /\ phase' = "reading"
  /\ UNCHANGED <<heard, held, given, lost>>

Give ==
  /\ phase = "reading"
  /\ given' = Append(given, Head(held))
  /\ phase' = "given"
  /\ UNCHANGED <<heard, held, lost>>

Release ==
  /\ phase = "given"
  /\ held' = Tail(held)
  /\ phase' = "idle"
  /\ UNCHANGED <<heard, given, lost>>

Next == Admit \/ Shed \/ Start \/ Give \/ Release

Spec == Init /\ [][Next]_vars
=============================================================================
