------------------------------ MODULE WebFeed ------------------------------
(***************************************************************************)
(* web.c: the history ring, the list of connected browsers and the pump    *)
(* task that feeds them, together with the start and stop of the server    *)
(* in ota_set_online().                                                    *)
(*                                                                         *)
(* Four tasks meet here:                                                   *)
(*   - the ESP-NOW dispatch task, in web_on_message();                     *)
(*   - the pump task, the only one that writes to a websocket;             *)
(*   - the task of the HTTP server (external), which accepts, upgrades and *)
(*     closes connections and runs ws_get();                               *)
(*   - the event loop task, in ota_set_online(), web_attach() and          *)
(*     web_detach().                                                       *)
(*                                                                         *)
(* A frame is known by its sequence number.  A browser's connection is     *)
(* known by the order in which it was accepted and is never the same twice,*)
(* while the socket descriptor it runs over is reused.  What a connection  *)
(* has been sent is kept as a history; only its first status frame is      *)
(* recorded there, the later heartbeats are not.                           *)
(***************************************************************************)
EXTENDS Integers, Sequences, FiniteSetsExt

CONSTANTS
  HISTORY,      \* CONFIG_WEB_HISTORY
  WORD,         \* 2^32: sequence numbers are uint32_t
  WS_CLIENTS,   \* CONFIG_WEB_WS_CLIENTS
  FDs,          \* socket descriptors the server can have open
  MaxFrames,    \* bound: frames received
  MaxConns,     \* bound: connections accepted
  MaxStarts     \* bound: times the server is started

ASSUME FeedAssumption ==
  /\ HISTORY \in Nat \ {0} /\ WS_CLIENTS \in Nat \ {0} /\ FDs \subseteq Nat
  /\ MaxFrames \in Nat /\ MaxConns \in Nat /\ MaxStarts \in Nat
  /\ WORD \in Nat /\ MaxFrames < WORD

VARIABLES
  sHist,       \* s_hist: sequence number and body of each entry
  sSeq,        \* s_seq
  lock,        \* who holds s_lock from one step to the next
  sFd,         \* s_fd
  sSnapshot,   \* s_snapshot
  sServer,     \* web.c's s_server: which start of the server, or Null
  sPump,       \* whether the pump task exists (s_pump)
  starts,      \* servers started so far
  live,        \* the server that is running, or Null
  evPc,        \* the event loop task in ota_set_online()
  routes,      \* whether the server serves /ws
  conn,        \* the connection open on each descriptor
  kind,        \* what each connection has become
  httpd,       \* what the server's task is about to call, and for which fd
  pump,        \* the pump task: pc and locals
  sent,        \* its local `sent`, which lives from pass to pass
  got,         \* history: what each connection was sent
  clean        \* history: connections whose descriptor nobody still listed

dispVars == <<sHist, sSeq>>
listVars == <<sFd, sSnapshot>>
srvVars == <<sServer, sPump, starts, live, evPc, routes>>
connVars == <<conn, kind, httpd, clean>>
pumpVars == <<pump, sent, got>>
vars == <<dispVars, lock, listVars, srvVars, connVars, pumpVars>>

Slots == 1..WS_CLIENTS
Conns == 1..MaxConns
Frames == 1..MaxFrames
Null == 0          \* no server
NoConn == 0
NoFd == -1
Status == 0        \* a status frame, among what is sent
NoItem == -1

Entry == [seq : 0..MaxFrames, body : 0..MaxFrames]
Cell(seq) == (seq - 1) % HISTORY      \* where s_hist keeps entry seq

PumpPcs == {"wait", "offline", "copy", "check", "look", "begin", "write", "drop",
            "next", "entry"}
PumpState ==
  [pc : PumpPcs,
   fds : [Slots -> FDs \cup {NoFd}],   \* the list as copied ...
   snap : [Slots -> BOOLEAN],          \* ... with who is owed a replay
   newest : 0..MaxFrames,
   seq : 0..MaxFrames + 1,             \* the loop variable
   item : {NoItem} \cup 0..MaxFrames,  \* what `json` holds
   todo : SUBSET Slots,                \* clients it has yet to be sent to
   h : 0..MaxStarts]                   \* the handle passed to a call

Free == [s \in Slots |-> NoFd]
Nobody == [s \in Slots |-> FALSE]
Resting == [pc |-> "wait", fds |-> Free, snap |-> Nobody, newest |-> 0,
            seq |-> 0, item |-> NoItem, todo |-> {}, h |-> Null]

TypeOK ==
  /\ sHist \in [0..HISTORY - 1 -> Entry] /\ sSeq \in 0..MaxFrames
  /\ lock \in {"free", "dispatch", "pump"}
  /\ sFd \in [Slots -> FDs \cup {NoFd}] /\ sSnapshot \in [Slots -> BOOLEAN]
  /\ sServer \in 0..MaxStarts /\ starts \in 0..MaxStarts /\ live \in 0..MaxStarts
  /\ sPump \in BOOLEAN /\ routes \in BOOLEAN
  /\ evPc \in {"offline", "attach", "routes", "online", "clear", "stop"}
  /\ conn \in [FDs -> 0..MaxConns]
  /\ kind \in [Conns -> {"none", "http", "ws", "closed"}]
  /\ httpd \in {<<"idle", NoFd>>} \cup ({"add", "drop"} \X FDs)
  /\ pump \in PumpState /\ sent \in 0..MaxFrames
  /\ got \in [Conns -> Seq(0..MaxFrames)]
  /\ clean \subseteq Conns

Init ==
  /\ sHist = [c \in 0..HISTORY - 1 |-> [seq |-> 0, body |-> 0]] /\ sSeq = 0
  /\ lock = "free"
  /\ sFd = Free /\ sSnapshot = Nobody
  /\ sServer = Null /\ sPump = FALSE /\ starts = 0 /\ live = Null
  /\ evPc = "offline" /\ routes = FALSE
  /\ conn = [d \in FDs |-> NoConn] /\ kind = [c \in Conns |-> "none"]
  /\ httpd = <<"idle", NoFd>> /\ clean = {}
  /\ pump = Resting /\ sent = 0
  /\ got = [c \in Conns |-> <<>>]

-----------------------------------------------------------------------------
(* web_on_message(), in the dispatch task: nothing before the pump task    *)
(* exists, then the entry is written field by field under the lock.        *)

(* Fault: the entry is looked up after s_seq was incremented. *)
RecordSeqNextCell ==
  /\ sPump /\ lock = "free" /\ sSeq < MaxFrames
  /\ lock' = "dispatch"
  /\ sSeq' = sSeq + 1
  /\ sHist' = [sHist EXCEPT ![(sSeq + 1) % HISTORY].seq = sSeq + 1]
  /\ UNCHANGED <<listVars, srvVars, connVars, pumpVars>>

RecordSeq ==
  /\ sPump
  /\ lock = "free"
  /\ sSeq < MaxFrames
  /\ lock' = "dispatch"
  /\ sSeq' = sSeq + 1
  /\ sHist' = [sHist EXCEPT ![sSeq % HISTORY].seq = sSeq + 1]
  /\ UNCHANGED <<listVars, srvVars, connVars, pumpVars>>

RecordBody ==
  /\ lock = "dispatch"
  /\ sHist' = [sHist EXCEPT ![Cell(sSeq)].body = sSeq]
  /\ lock' = "free"
  /\ UNCHANGED <<sSeq, listVars, srvVars, connVars, pumpVars>>

WebOnMessage == RecordSeq \/ RecordBody

-----------------------------------------------------------------------------
(* The client list.  Each of these holds the lock for one step only. *)

(* Fault: the first free slot is taken even if another lists fd. *)
AddToFirstFree(fd) ==
  LET open == {s \in Slots : sFd[s] = NoFd}
  IN  IF open # {} THEN {Min(open)} ELSE {}

(* client_add(): the slot that already lists fd, else the first free one.  *)
AddTo(fd) ==
  LET listed == {s \in Slots : sFd[s] = fd}
      open == {s \in Slots : sFd[s] = NoFd}
  IN  IF listed # {} THEN {Min(listed)} ELSE IF open # {} THEN {Min(open)} ELSE {}

(* Fault: a new client is not owed a replay. *)
ClientAddNoReplay(fd) ==
  /\ lock = "free"
  /\ sFd' = [s \in Slots |-> IF s \in AddTo(fd) THEN fd ELSE sFd[s]]
  /\ UNCHANGED sSnapshot

ClientAdd(fd) ==
  /\ lock = "free"
  /\ sFd' = [s \in Slots |-> IF s \in AddTo(fd) THEN fd ELSE sFd[s]]
  /\ sSnapshot' = [s \in Slots |-> s \in AddTo(fd) \/ sSnapshot[s]]

ClientDrop(fd) ==
  /\ lock = "free"
  /\ sFd' = [s \in Slots |-> IF sFd[s] = fd THEN NoFd ELSE sFd[s]]
  /\ sSnapshot' = [s \in Slots |-> sFd[s] # fd /\ sSnapshot[s]]

-----------------------------------------------------------------------------
(* The HTTP server's task (external), which does one thing at a time. *)

HttpdIdle == live # Null /\ httpd[1] = "idle"
Listed(fd) == \E s \in Slots : fd \in {sFd[s], pump.fds[s]}

Accept(fd, c) ==
  /\ HttpdIdle
  /\ conn[fd] = NoConn
  /\ kind[c] = "none" /\ \A b \in Conns : b < c => kind[b] # "none"
  /\ conn' = [conn EXCEPT ![fd] = c]
  /\ kind' = [kind EXCEPT ![c] = "http"]
  /\ clean' = IF Listed(fd) THEN clean ELSE clean \cup {c}
  /\ UNCHANGED <<dispVars, lock, listVars, srvVars, httpd, pumpVars>>

(* GET /ws: the server answers the handshake, then calls ws_get() ... *)
Upgrade(fd) ==
  /\ HttpdIdle
  /\ routes
  /\ conn[fd] # NoConn
  /\ kind[conn[fd]] = "http"
  /\ kind' = [kind EXCEPT ![conn[fd]] = "ws"]
  /\ httpd' = <<"add", fd>>
  /\ UNCHANGED <<dispVars, lock, listVars, srvVars, conn, clean, pumpVars>>

(* ... which lists the client. *)
WsGetHandshake(fd) ==
  /\ httpd = <<"add", fd>>
  /\ ClientAdd(fd)
  /\ httpd' = <<"idle", NoFd>>
  /\ UNCHANGED <<dispVars, lock, srvVars, conn, kind, clean, pumpVars>>

(* A frame from the browser that cannot be drained: ws_get() drops the     *)
(* client and returns the error, and the server closes the connection.     *)
WsGetFails(fd) ==
  /\ HttpdIdle
  /\ conn[fd] # NoConn
  /\ kind[conn[fd]] = "ws"
  /\ httpd' = <<"drop", fd>>
  /\ UNCHANGED <<dispVars, lock, listVars, srvVars, conn, kind, clean, pumpVars>>

CloseFd(fd) ==
  /\ kind' = [kind EXCEPT ![conn[fd]] = "closed"]
  /\ conn' = [conn EXCEPT ![fd] = NoConn]

WsGetDrops(fd) ==
  /\ httpd = <<"drop", fd>>
  /\ ClientDrop(fd)
  /\ CloseFd(fd)
  /\ httpd' = <<"idle", NoFd>>
  /\ UNCHANGED <<dispVars, lock, srvVars, clean, pumpVars>>

(* The browser goes, or the server purges it: web.c is not told. *)
Close(fd) ==
  /\ HttpdIdle
  /\ conn[fd] # NoConn
  /\ CloseFd(fd)
  /\ UNCHANGED <<dispVars, lock, listVars, srvVars, httpd, clean, pumpVars>>

WsGet == \E fd \in FDs : WsGetHandshake(fd) \/ WsGetDrops(fd)

Httpd ==
  \/ \E fd \in FDs, c \in Conns : Accept(fd, c)
  \/ \E fd \in FDs : Upgrade(fd) \/ WsGetFails(fd) \/ Close(fd)
  \/ WsGet

-----------------------------------------------------------------------------
(* ota_set_online() in the event loop task. *)

(* httpd_start(); if it fails nothing changes. *)
StartServer ==
  /\ evPc = "offline"
  /\ starts < MaxStarts
  /\ starts' = starts + 1
  /\ live' = starts + 1
  /\ evPc' = "attach"
  /\ UNCHANGED <<dispVars, lock, listVars, sServer, sPump, routes, connVars, pumpVars>>

(* web_attach(): the mutex, the pump task and the handle; without the      *)
(* first two it gives up and the server runs without a status page.        *)
Attach ==
  /\ evPc = "attach"
  /\ \E ok \in BOOLEAN :
       /\ sPump' = (sPump \/ ok)
       /\ sServer' = IF sPump' THEN live ELSE Null
       /\ evPc' = IF sPump' THEN "routes" ELSE "online"
  /\ UNCHANGED <<dispVars, lock, listVars, starts, live, routes, connVars, pumpVars>>

RegisterRoutes ==
  /\ evPc = "routes"
  /\ routes' \in BOOLEAN
  /\ evPc' = "online"
  /\ UNCHANGED <<dispVars, lock, listVars, sServer, sPump, starts, live, connVars, pumpVars>>

(* web_detach(): the handle first, then the list under the lock ... *)
Detach ==
  /\ evPc = "online"
  /\ sServer' = Null
  /\ evPc' = "clear"
  /\ UNCHANGED <<dispVars, lock, listVars, sPump, starts, live, routes, connVars, pumpVars>>

ClearClients ==
  /\ evPc = "clear"
  /\ lock = "free"
  /\ sFd' = Free /\ sSnapshot' = Nobody
  /\ evPc' = "stop"
  /\ UNCHANGED <<dispVars, lock, sServer, sPump, starts, live, routes, connVars, pumpVars>>

(* ... then httpd_stop(), which waits for the server's task to leave its   *)
(* handler, closes every connection and frees the server.                  *)
StopServer ==
  /\ evPc = "stop"
  /\ HttpdIdle
  /\ live' = Null /\ routes' = FALSE
  /\ conn' = [d \in FDs |-> NoConn]
  /\ kind' = [c \in Conns |-> IF kind[c] = "none" THEN "none" ELSE "closed"]
  /\ evPc' = "offline"
  /\ UNCHANGED <<dispVars, lock, listVars, sServer, sPump, starts, httpd, clean, pumpVars>>

OtaSetOnline ==
  \/ StartServer
  \/ Attach
  \/ RegisterRoutes
  \/ Detach
  \/ ClearClients
  \/ StopServer

-----------------------------------------------------------------------------
(* pump_task().  It wakes on a frame, on a new client and on every tick,   *)
(* so it may wake at any time.                                             *)

PumpKeeps == UNCHANGED <<dispVars, lock, srvVars, connVars>>

PumpWake ==
  /\ sPump
  /\ pump.pc = "wait"
  /\ pump' = [pump EXCEPT !.pc = IF sServer = Null THEN "offline" ELSE "copy"]
  /\ PumpKeeps /\ UNCHANGED <<listVars, sent, got>>

(* Offline: nothing to catch up on.  s_seq is read without the lock. *)
PumpOffline ==
  /\ pump.pc = "offline"
  /\ sent' = sSeq
  /\ pump' = Resting
  /\ PumpKeeps /\ UNCHANGED <<listVars, got>>

(* Fault: s_snapshot is not cleared. *)
PumpCopyKeepsSnapshot ==
  /\ pump.pc = "copy" /\ lock = "free"
  /\ LET some == {s \in Slots : sFd[s] # NoFd} IN
       /\ pump' = IF some = {} THEN Resting
                  ELSE [Resting EXCEPT !.pc = "check", !.fds = sFd, !.snap = sSnapshot,
                                       !.newest = sSeq, !.item = Status, !.todo = some]
       /\ sent' = IF some = {} THEN sSeq ELSE sent
  /\ PumpKeeps /\ UNCHANGED <<listVars, got>>

(* The list and s_seq under the lock; with no client there is no pass. *)
PumpCopy ==
  /\ pump.pc = "copy"
  /\ lock = "free"
  /\ sSnapshot' = Nobody
  /\ LET some == {s \in Slots : sFd[s] # NoFd} IN
       /\ pump' = IF some = {} THEN Resting
                  ELSE [Resting EXCEPT !.pc = "check", !.fds = sFd, !.snap = sSnapshot,
                                       !.newest = sSeq, !.item = Status, !.todo = some]
       /\ sent' = IF some = {} THEN sSeq ELSE sent
  /\ PumpKeeps /\ UNCHANGED <<sFd, got>>

Larger(a, b) == IF a > b THEN a ELSE b

Word(n) == n % WORD

(* Fault: the ring is taken to be full. *)
OldestUnguarded == Word(pump.newest - HISTORY + 1)

Oldest ==
  IF pump.newest > HISTORY THEN Word(pump.newest - HISTORY + 1) ELSE 1

(* The item went to everyone it was for: on to the ring, or along it. *)
PumpItemDone ==
  /\ pump.pc = "check"
  /\ pump.todo = {}
  /\ pump' = [pump EXCEPT !.pc = "next", !.item = NoItem,
                          !.seq = IF pump.item = Status THEN Oldest ELSE @ + 1]
  /\ sent' = IF pump.item = Status THEN Larger(sent, Oldest - 1) ELSE sent
  /\ PumpKeeps /\ UNCHANGED <<listVars, got>>

Wanting == {s \in Slots : pump.fds[s] # NoFd /\ (pump.snap[s] \/ pump.seq > sent)}
Replaying == pump.pc = "next" /\ pump.seq <= pump.newest

PumpSkip ==
  /\ Replaying
  /\ Wanting = {}
  /\ pump' = [pump EXCEPT !.seq = @ + 1]
  /\ PumpKeeps /\ UNCHANGED <<listVars, sent, got>>

(* The entry is copied under the lock, and dropped if it was overwritten   *)
(* while sending.                                                          *)
PumpTakeEntry ==
  /\ Replaying
  /\ Wanting # {}
  /\ lock = "free"
  /\ lock' = "pump"
  /\ pump' = [pump EXCEPT !.pc = "entry", !.item = sHist[Cell(pump.seq)].seq]
  /\ UNCHANGED <<dispVars, srvVars, connVars, listVars, sent, got>>

(* Fault: the lock is given back on the way past an overwritten entry only. *)
PumpCopyEntryHoldsLock ==
  /\ pump.pc = "entry"
  /\ lock' = IF pump.item = pump.seq THEN "pump" ELSE "free"
  /\ pump' = IF pump.item = pump.seq
             THEN [pump EXCEPT !.pc = "check", !.todo = Wanting,
                               !.item = sHist[Cell(pump.seq)].body]
             ELSE [pump EXCEPT !.pc = "next", !.item = NoItem, !.seq = @ + 1]
  /\ UNCHANGED <<dispVars, srvVars, connVars, listVars, sent, got>>

PumpCopyEntry ==
  /\ pump.pc = "entry"
  /\ lock' = "free"
  /\ pump' = IF pump.item = pump.seq
             THEN [pump EXCEPT !.pc = "check", !.todo = Wanting,
                               !.item = sHist[Cell(pump.seq)].body]
             ELSE [pump EXCEPT !.pc = "next", !.item = NoItem, !.seq = @ + 1]
  /\ UNCHANGED <<dispVars, srvVars, connVars, listVars, sent, got>>

(* Fault: what arrived during the pass counts as sent. *)
PumpDoneAtNewest ==
  /\ pump.pc = "next" /\ pump.seq > pump.newest
  /\ sent' = sSeq
  /\ pump' = Resting
  /\ PumpKeeps /\ UNCHANGED <<listVars, got>>

PumpDone ==
  /\ pump.pc = "next"
  /\ pump.seq > pump.newest
  /\ sent' = pump.newest
  /\ pump' = Resting
  /\ PumpKeeps /\ UNCHANGED <<listVars, got>>

(* ws_send() to the next client: s_server is read and the descriptor       *)
(* looked up in that server; s_server is read again for the send; the send *)
(* itself.  What a server freed meanwhile answers is anyone's guess.       *)
Client == Min(pump.todo)
Fd == pump.fds[Client]
Websocket(fd) ==
  IF conn[fd] # NoConn /\ kind[conn[fd]] = "ws" THEN conn[fd] ELSE NoConn

SendCheck ==
  /\ pump.pc = "check"
  /\ pump.todo # {}
  /\ pump' = [pump EXCEPT !.pc = "look", !.h = sServer]
  /\ PumpKeeps /\ UNCHANGED <<listVars, sent, got>>

SendLookup ==
  /\ pump.pc = "look"
  /\ \E open \in IF pump.h \in {Null, live}
                THEN {pump.h # Null /\ Websocket(Fd) # NoConn} ELSE BOOLEAN :
       pump' = [pump EXCEPT !.pc = IF open THEN "begin" ELSE "drop", !.h = Null]
  /\ PumpKeeps /\ UNCHANGED <<listVars, sent, got>>

SendBegin ==
  /\ pump.pc = "begin"
  /\ pump' = [pump EXCEPT !.pc = "write", !.h = sServer]
  /\ PumpKeeps /\ UNCHANGED <<listVars, sent, got>>

(* The frame goes to whoever has the descriptor by now, or it fails.       *)
Sent(c, item) ==
  IF item = Status /\ got[c] # <<>> THEN got
  ELSE [got EXCEPT ![c] = Append(@, item)]

SendWrite ==
  /\ pump.pc = "write"
  /\ \E ok \in {b \in BOOLEAN : b => pump.h # Null /\ conn[Fd] # NoConn} :
       /\ got' = IF ok THEN Sent(conn[Fd], pump.item) ELSE got
       /\ pump' = IF ok THEN [pump EXCEPT !.pc = "check", !.todo = @ \ {Client}, !.h = Null]
                  ELSE [pump EXCEPT !.pc = "drop", !.h = Null]
  /\ PumpKeeps /\ UNCHANGED <<listVars, sent>>

(* It returned false: client_drop() and out of this pass. *)
PumpDrop ==
  /\ pump.pc = "drop"
  /\ ClientDrop(Fd)
  /\ pump' = [pump EXCEPT !.pc = "check", !.todo = @ \ {Client},
                          !.fds[Client] = NoFd]
  /\ PumpKeeps /\ UNCHANGED <<sent, got>>

PumpTask ==
  \/ PumpWake
  \/ PumpOffline
  \/ PumpCopy
  \/ PumpItemDone
  \/ PumpSkip
  \/ PumpTakeEntry
  \/ PumpCopyEntry
  \/ PumpDone
  \/ SendCheck
  \/ SendLookup
  \/ SendBegin
  \/ SendWrite
  \/ PumpDrop

-----------------------------------------------------------------------------
Next == WebOnMessage \/ Httpd \/ OtaSetOnline \/ PumpTask

(* A slow browser may hold a send for ever; every other step of a task     *)
(* that has begun something is taken.                                      *)
LocalFairness ==
  /\ WF_vars(RecordBody)
  /\ WF_vars(WsGet)
  /\ WF_vars(Attach \/ RegisterRoutes \/ ClearClients \/ StopServer)
  /\ WF_vars(PumpTask /\ pump.pc # "write")

Spec == Init /\ [][Next]_vars /\ LocalFairness

(* What one property asks for on top: every send returns, by the server's  *)
(* send timeout if not before.                                             *)
SendsReturn == WF_vars(SendWrite)

-----------------------------------------------------------------------------
(* Properties *)

Items(c) == {got[c][i] : i \in DOMAIN got[c]}

(* "the ring holds (s_seq - CONFIG_WEB_HISTORY, s_seq]" (web.c line 49),   *)
(* whenever the lock lets anyone look.                                     *)
RingHolds ==
  lock # "dispatch" =>
    \A m \in Larger(sSeq - HISTORY + 1, 1)..sSeq :
      sHist[Cell(m)] = [seq |-> m, body |-> m]

(* No descriptor is listed twice, reconnects on a recycled one included    *)
(* (web.c line 171), or its browser would be sent everything twice.        *)
NoDuplicateSlots ==
  \A s, t \in Slots : sFd[s] = sFd[t] /\ sFd[s] # NoFd => s = t

(* Every variable keeps its type and the client list its shape. *)
ListInv == TypeOK /\ NoDuplicateSlots

(* A browser on a descriptor nobody listed any more when it connected is   *)
(* sent nothing before it asked for the feed, then the status first (web.c *)
(* line 268), then frames in order and none of them twice.                 *)
FeedInOrder ==
  \A c \in clean :
    /\ kind[c] \in {"none", "http"} => got[c] = <<>>
    /\ got[c] # <<>> => got[c][1] = Status
    /\ \A i, j \in DOMAIN got[c] : i < j => got[c][i] < got[c][j]

(* Such a browser misses a frame only if the ring had already moved past   *)
(* it (web.h line 32: "If the browser falls behind by more than the ring,  *)
(* it simply misses frames"), frames from before it connected included.    *)
OnlyOverwrittenMissed ==
  \A c \in clean : \A last \in Items(c) : \A m \in 1..last - 1 :
    m \in Items(c) \/ m <= sSeq - HISTORY

(* Both: what a browser has been sent at any moment is all it could be.    *)
FedAsPromised == FeedInOrder /\ OnlyOverwrittenMissed

(* All of that step by step: web.c implements BrowserFeed, whatever        *)
(* reconnects, drops and restarts of the server come in between.           *)
Latest(c) == IF c \in clean /\ got[c] # <<>> THEN got[c][Len(got[c])] ELSE NoItem

Feed == INSTANCE BrowserFeed WITH
  Browsers <- Conns, newest <- sSeq, last <- [c \in Conns |-> Latest(c)]

ImplementsFeed == Feed!Spec

(* However slow a browser is, web_on_message() gets its lock (web.c line   *)
(* 51: "the dispatch task is never parked behind network I/O").            *)
DispatchNeverParked == lock = "pump" ~> lock = "free"

(* A browser that stays listed has in the end been sent the newest frame:  *)
(* no wake-up, replay or status is lost for good.                          *)
Watching(c) ==
  /\ sServer # Null
  /\ \E s \in Slots : sFd[s] # NoFd /\ conn[sFd[s]] = c /\ kind[c] = "ws"
UpToDate(c) == got[c] # <<>> /\ got[c][Len(got[c])] = sSeq
EventuallyFed ==
  SendsReturn => \A c \in Conns : <>[]Watching(c) => <>[]UpToDate(c)

-----------------------------------------------------------------------------
(* What a comment promises and the code does not keep. *)

(* "Clear the handle before the caller stops the server" (web.c line 420): *)
(* a send under way never outlives the server whose handle it was given.   *)
SendHandleLives == pump.pc = "write" /\ pump.h # Null => pump.h = live
=============================================================================
