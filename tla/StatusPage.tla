----------------------------- MODULE StatusPage -----------------------------
(***************************************************************************)
(* index.html: the script of the status page, fed by one websocket.        *)
(*                                                                         *)
(* The script's handlers run one at a time.  Between them frames arrive,   *)
(* the connection dies with or without a word, the device reboots and      *)
(* counts its frames from 1 again, and the user clicks.  The device is     *)
(* kept to the promise of BrowserFeed, which WebFeed implements: a status  *)
(* first, then frames in order, none of them passed over while it is still *)
(* in the ring.                                                            *)
(*                                                                         *)
(* Time is left out: the watchdog may act whenever the device is silent,   *)
(* and, within MaxMishaps, when it is only slow.  A retry is pending       *)
(* whenever there is no socket.                                            *)
(***************************************************************************)
EXTENDS Naturals, Sequences, SequencesExt

CONSTANTS
  HISTORY,        \* CONFIG_WEB_HISTORY, reported as `hist'
  FirstCap,       \* the page's cap before any status
  MaxFrames,      \* bound: frames recorded between two boots
  MaxMishaps,     \* bound: connections that end
  MaxBoots        \* bound: boots of the device

ASSUME PageAssumption ==
  /\ HISTORY \in Nat \ {0} /\ FirstCap \in Nat \ {0}
  /\ MaxFrames \in Nat /\ MaxMishaps \in Nat /\ MaxBoots \in Nat \ {0}

VARIABLES
  boots,      \* how often the device has booted
  newest,     \* s_seq: the frames it has recorded since
  listed,     \* whether the connection is in s_fd[]
  sent,       \* the newest frame sent over it
  wire,       \* what is under way to the page
  mishaps,    \* connections that have ended
  sock,       \* the socket: none, connecting, accepted, open, closing
  live,       \* whether the page says so
  rows,       \* state.rows
  cap,        \* state.cap
  sel,        \* state.sel, 0 for null
  pinned      \* state.pinned

deviceVars == <<boots, newest, listed, sent, mishaps>>
pageVars == <<rows, cap, sel, pinned>>
vars == <<deviceVars, wire, sock, live, pageVars>>

Frames == [boot : 1..MaxBoots, seq : 1..MaxFrames]
NoFrame == [boot |-> 0, seq |-> 0]
Frame(n) == [boot |-> boots, seq |-> n]
Status == [boot |-> boots, seq |-> 0]

TypeOK ==
  /\ boots \in 1..MaxBoots /\ newest \in 0..MaxFrames
  /\ listed \in BOOLEAN /\ sent \in 0..MaxFrames
  /\ wire \in Seq([boot : 1..MaxBoots, seq : 0..MaxFrames])
  /\ mishaps \in 0..MaxMishaps
  /\ sock \in {"none", "connecting", "accepted", "open", "closing"}
  /\ live \in BOOLEAN
  /\ rows \in Seq(Frames) /\ Len(rows) <= HISTORY
  /\ cap \in {FirstCap, HISTORY}
  /\ sel \in 0..MaxFrames /\ pinned \in Frames \cup {NoFrame}

Init ==
  /\ boots = 1 /\ newest = 0 /\ listed = FALSE /\ sent = 0 /\ wire = <<>>
  /\ mishaps = 0 /\ sock = "none" /\ live = FALSE
  /\ rows = <<>> /\ cap = FirstCap /\ sel = 0
  /\ pinned = NoFrame

-----------------------------------------------------------------------------
(* The device and the network. *)

Oldest == IF newest > HISTORY THEN newest - HISTORY + 1 ELSE 1
Ring == [i \in 1..(newest - Oldest + 1) |-> Frame(newest - i + 1)]

Record ==
  /\ newest < MaxFrames
  /\ newest' = newest + 1
  /\ UNCHANGED <<boots, listed, sent, wire, mishaps, sock, live, pageVars>>

Accept ==
  /\ sock = "connecting"
  /\ sock' = "accepted"
  /\ listed' = TRUE /\ sent' = 0 /\ wire' = <<Status>>
  /\ UNCHANGED <<boots, newest, mishaps, live, pageVars>>

Feed == INSTANCE BrowserFeed WITH Browsers <- {"page"}, last <- [b \in {"page"} |-> sent]

(* A frame copied in time may be overwritten before it is sent. *)
Send ==
  /\ listed
  /\ \E n \in Feed!Due(sent) : sent' = n /\ wire' = Append(wire, Frame(n))
  /\ UNCHANGED <<boots, newest, listed, mishaps, sock, live, pageVars>>

(* A send failed: client_drop() strikes the client off, the socket stays. *)
Unlist ==
  /\ listed /\ mishaps < MaxMishaps
  /\ mishaps' = mishaps + 1
  /\ listed' = FALSE
  /\ UNCHANGED <<boots, newest, sent, wire, sock, live, pageVars>>

(* The connection ends and the browser is told. *)
Hangup ==
  /\ sock \in {"connecting", "accepted", "open"} /\ mishaps < MaxMishaps
  /\ mishaps' = mishaps + 1
  /\ listed' = FALSE /\ wire' = <<>>
  /\ sock' = "closing"
  /\ UNCHANGED <<boots, newest, sent, live, pageVars>>

(* No FIN: an open socket stays open. *)
Reboot ==
  /\ boots < MaxBoots
  /\ boots' = boots + 1
  /\ newest' = 0 /\ listed' = FALSE /\ sent' = 0 /\ wire' = <<>>
  /\ sock' = IF sock \in {"connecting", "accepted"} THEN "closing" ELSE sock
  /\ UNCHANGED <<mishaps, live, pageVars>>

Device == Accept \/ Send
Mishap == Unlist \/ Hangup \/ Reboot

-----------------------------------------------------------------------------
(* transport *)

Connect ==
  /\ sock = "none"
  /\ sock' = "connecting"
  /\ UNCHANGED <<deviceVars, wire, live, pageVars>>

(* Fault: a reconnect keeps the rows. *)
OnOpenKeepsRows ==
  /\ sock = "accepted"
  /\ sock' = "open"
  /\ live' = TRUE
  /\ UNCHANGED <<deviceVars, wire, pageVars>>

OnOpen ==
  /\ sock = "accepted"
  /\ sock' = "open"
  /\ live' = TRUE
  /\ rows' = <<>>
  /\ UNCHANGED <<deviceVars, wire, cap, sel, pinned>>

Shown == IF pinned = NoFrame THEN rows ELSE Append(rows, pinned)
Seqs(list) == {f.seq : f \in ToSet(list)}

Unshift(m) == <<m>> \o rows

Kept(list) == SubSeq(list, 1, IF Len(list) < cap THEN Len(list) ELSE cap)

(* Faults: the pin stays when its frame comes back; a row that goes is not *)
(* pinned.                                                                 *)
PinKept(m, gone) ==
  IF \E f \in gone : f.seq = sel THEN CHOOSE f \in gone : f.seq = sel ELSE pinned
PinNever(m, gone) == IF pinned.seq = m.seq THEN NoFrame ELSE pinned

Pin(m, gone) ==
  IF \E f \in gone : f.seq = sel THEN CHOOSE f \in gone : f.seq = sel
  ELSE IF pinned.seq = m.seq THEN NoFrame ELSE pinned

AddMsg(m) ==
  IF m.seq \in Seqs(rows)
    THEN UNCHANGED <<rows, pinned>>
    ELSE /\ rows' = Kept(Unshift(m))
         /\ pinned' = Pin(m, ToSet(Unshift(m)) \ ToSet(Kept(Unshift(m))))

OnMessage ==
  /\ sock = "open" /\ wire # <<>>
  /\ wire' = Tail(wire)
  /\ \/ /\ Head(wire).seq = 0
        /\ cap' = HISTORY
        /\ UNCHANGED <<rows, pinned>>
     \/ /\ Head(wire).seq # 0
        /\ AddMsg(Head(wire))
        /\ cap' = cap
  /\ UNCHANGED <<deviceVars, sock, live, sel>>

(* Three missed status frames: the device is gone, or slow. *)
Watchdog ==
  /\ sock = "open"
  /\ \/ ~listed /\ wire = <<>> /\ UNCHANGED mishaps
     \/ mishaps < MaxMishaps /\ mishaps' = mishaps + 1
  /\ live' = FALSE
  /\ sock' = "closing"
  /\ listed' = FALSE /\ wire' = <<>>
  /\ UNCHANGED <<boots, newest, sent, pageVars>>

(* Fault: only a page that was live tries again. *)
OnCloseGivesUp ==
  /\ sock = "closing"
  /\ sock' = IF live THEN "none" ELSE "closing"
  /\ live' = FALSE
  /\ UNCHANGED <<deviceVars, wire, pageVars>>

OnClose ==
  /\ sock = "closing"
  /\ sock' = "none"
  /\ live' = FALSE
  /\ UNCHANGED <<deviceVars, wire, pageVars>>

Transport == Connect \/ OnOpen \/ OnMessage \/ Watchdog \/ OnClose

-----------------------------------------------------------------------------
(* The user. *)

Select(f) ==
  /\ sel' = f.seq
  /\ pinned' = IF pinned.seq # f.seq THEN NoFrame ELSE pinned
  /\ UNCHANGED <<deviceVars, wire, sock, live, rows, cap>>

ClearSelection ==
  /\ sel # 0
  /\ sel' = 0
  /\ pinned' = NoFrame
  /\ UNCHANGED <<deviceVars, wire, sock, live, rows, cap>>

User ==
  \/ \E f \in ToSet(Shown) : Select(f)
  \/ ClearSelection

-----------------------------------------------------------------------------
Next == Record \/ Device \/ Mishap \/ Transport \/ User

(* The browser runs its handlers and timers, the device sends. *)
Spec ==
  /\ Init /\ [][Next]_vars
  /\ WF_vars(Accept) /\ WF_vars(Send)
  /\ WF_vars(Connect) /\ WF_vars(OnOpen) /\ WF_vars(OnMessage) /\ WF_vars(OnClose)
  /\ WF_vars(Watchdog /\ ~listed)

-----------------------------------------------------------------------------
UpToDate == sock = "open" /\ listed /\ wire = <<>> /\ sent = newest

(* "The server's ring is the source of truth": once everything sent has    *)
(* arrived the rows are the ring, newest first, whatever came before: a    *)
(* reboot that starts the numbers over, a reconnect in the middle of the   *)
(* ring, frames overwritten before they were sent.                         *)
RowsMirrorRing == UpToDate => rows = Ring

(* No frame is in the table twice, a pinned one that comes back included.  *)
ShownOnce == Len(Shown) = Len(rows) + 1 => pinned.seq \notin Seqs(rows)

(* Only the selected row is held beyond the ring. *)
PinnedIsSelected == pinned # NoFrame => pinned.seq = sel

(* Every variable keeps its type; what is pinned is the selection, once. *)
PinInv == TypeOK /\ ShownOnce /\ PinnedIsSelected

(* New frames never push the selected row out of the table. *)
SelectionSinks ==
  [][OnMessage /\ sel \in Seqs(Shown) => sel \in Seqs(Shown)']_vars

(* Whatever died, the device, the connection or only its place in the      *)
(* client list, the page notices and finds back: the rows are the ring     *)
(* again.                                                                  *)
FindsBack == []<>(RowsMirrorRing /\ UpToDate)

=============================================================================
