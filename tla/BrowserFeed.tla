----------------------------- MODULE BrowserFeed -----------------------------
(***************************************************************************)
(* What web.c promises a browser, with no ring, no client list and no      *)
(* tasks: one status, then frames in order and none of them twice, and no  *)
(* frame passed over before HISTORY newer ones have been recorded.         *)
(***************************************************************************)
EXTENDS Integers

CONSTANTS
  HISTORY,    \* CONFIG_WEB_HISTORY
  Browsers    \* the connections that can be served

VARIABLES
  newest,     \* frames recorded so far; frame n is the n-th of them
  last        \* what each browser was sent last

feedVars == <<newest, last>>

Nothing == -1
Greeting == 0

Init ==
  /\ newest = 0
  /\ last = [b \in Browsers |-> Nothing]

Record ==
  /\ newest' = newest + 1
  /\ UNCHANGED last

Greet(b) ==
  /\ last[b] = Nothing
  /\ last' = [last EXCEPT ![b] = Greeting]
  /\ UNCHANGED newest

(* The frames that may follow frame k: the next one, or one all of whose   *)
(* predecessors have left the ring.                                        *)
Due(k) == {n \in k + 1..newest : n = k + 1 \/ n - 1 <= newest - HISTORY}

Feed(b) ==
  /\ last[b] # Nothing
  /\ \E n \in Due(last[b]) : last' = [last EXCEPT ![b] = n]
  /\ UNCHANGED newest

Next == Record \/ \E b \in Browsers : Greet(b) \/ Feed(b)

Spec == Init /\ [][Next]_feedVars
=============================================================================
