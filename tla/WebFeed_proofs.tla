--------------------------- MODULE WebFeed_proofs ---------------------------
(***************************************************************************)
(* For every size of the ring and of the client list, every set of         *)
(* descriptors and any number of frames, browsers and servers:             *)
(*   - the ring holds what its comment says, and no descriptor is listed   *)
(*     twice (IInv);                                                       *)
(*   - the pass works on a list that the real one has not contradicted,    *)
(*     and on entries whose halves agree (PassInv, WantInv, CellInv);      *)
(*   - connections belong to descriptors and to a server (ConnInv,         *)
(*     ServerInv);                                                         *)
(*   - every browser on a fresh descriptor is where the pass, `sent' and   *)
(*     its slot say it is (FedInv), so that it is fed in order and without *)
(*     a gap the ring did not force (HistoryInv).                          *)
(***************************************************************************)
EXTENDS WebFeed, WellFoundedInduction, TLAPS

(* What the types leave open: a pass has something to send, of this pass.  *)
PumpInv ==
  /\ lock = "pump" <=> pump.pc = "entry"
  /\ pump.pc \in {"next", "entry"} => pump.seq >= 1
  /\ pump.pc = "entry" => pump.seq <= pump.newest
  /\ pump.pc \in {"check", "look", "begin", "write", "drop"} =>
       pump.item # NoItem /\ (pump.item # Status => pump.seq \in 1..pump.newest)

(* The entry being written is the newest, and the others are whole.        *)
Whole(m) == sHist[Cell(m)] = [seq |-> m, body |-> m]

RingInv ==
  /\ \A m \in Larger(sSeq - HISTORY + 1, 1)..sSeq : m < sSeq => Whole(m)
  /\ lock = "dispatch" => sSeq > 0 /\ sHist[Cell(sSeq)].seq = sSeq
  /\ lock # "dispatch" /\ sSeq > 0 => Whole(sSeq)

IInv == TypeOK /\ PumpInv /\ NoDuplicateSlots /\ RingInv

-----------------------------------------------------------------------------
(* Numbers *)

(* No frame takes the arithmetic of `oldest' past its word. *)
LEMMA OldestIs ==
  ASSUME TypeOK
  PROVE  Oldest = Larger(pump.newest - HISTORY + 1, 1)
<1>1. /\ pump.newest \in 0..MaxFrames /\ HISTORY \in Nat \ {0} /\ WORD \in Nat
      /\ MaxFrames \in Nat /\ MaxFrames < WORD
  BY FeedAssumption DEF TypeOK, PumpState, FeedAssumption
<1>2. CASE pump.newest > HISTORY
  <2> DEFINE n == pump.newest - HISTORY + 1
  <2>1. n \in 0..WORD - 1 /\ n > 1
    BY <1>1, <1>2
  <2>2. Word(n) = n
    <3> HIDE DEF n
    <3> QED BY <1>1, <2>1 DEF Word
  <2> QED BY <1>2, <2>1, <2>2 DEF Oldest, Larger
<1>3. CASE ~(pump.newest > HISTORY)
  BY <1>1, <1>3 DEF Oldest, Larger
<1> QED BY <1>2, <1>3


Below == {p \in Nat \X Nat : p[1] < p[2]}

LEMMA BelowWellFounded == IsWellFoundedOn(Below, Nat)
<1> DEFINE R == OpToRel(<, Nat)
<1>1. IsWellFoundedOn(R, Nat)
  BY NatLessThanWellFounded
<1>2. Below \cap (Nat \X Nat) \subseteq R
  BY DEF OpToRel, Below
<1> HIDE DEF R
<1> QED BY <1>1, <1>2, IsWellFoundedOnSubrelation

(* Min() of FiniteSetsExt is a member. *)
LEMMA MinOf ==
  ASSUME NEW S \in SUBSET Nat, S # {}
  PROVE  Min(S) \in S
<1>1. PICK x \in S : \A y \in S : <<y, x>> \notin Below
  BY BelowWellFounded, WFMin
<1>2. ASSUME NEW y \in S PROVE x <= y
  <2>1. x \in Nat /\ y \in Nat
    OBVIOUS
  <2>2. ~(y < x)
    BY <1>1, <2>1 DEF Below
  <2> QED BY <2>1, <2>2
<1> QED BY <1>2 DEF Min

(* Numbers less than HISTORY apart have cells of their own. *)
LEMMA CellsApart ==
  ASSUME NEW a \in Nat \ {0}, NEW b \in Nat \ {0}, a < b, b < a + HISTORY
  PROVE  Cell(a) # Cell(b) /\ Cell(a) \in 0..HISTORY - 1 /\ Cell(b) \in 0..HISTORY - 1
<1> DEFINE x == a - 1
           y == b - 1
           H == HISTORY
<1>1. H \in Nat \ {0} /\ x \in Nat /\ y \in Nat /\ x < y /\ y < x + H
  BY FeedAssumption DEF FeedAssumption
<1> HIDE DEF x, y, H
<1>2. /\ x \div H \in Int /\ x = H * (x \div H) + (x % H) /\ x % H \in 0..H - 1
      /\ y \div H \in Int /\ y = H * (y \div H) + (y % H) /\ y % H \in 0..H - 1
  BY <1>1
<1>3. ASSUME x % H = y % H PROVE FALSE
  <2> DEFINE k == y \div H
             l == x \div H
  <2>1. k \in Int /\ l \in Int /\ H * k - H * l = y - x
    BY <1>1, <1>2, <1>3
  <2> HIDE DEF k, l
  <2>2. H * (k - l) = y - x
    BY <2>1, <1>1
  <2>3. k - l \in Int /\ k - l > 0
    BY <2>1, <2>2, <1>1
  <2>4. H * (k - l) >= H
    BY <2>3, <1>1
  <2> QED BY <2>2, <2>4, <1>1
<1> QED BY <1>2, <1>3 DEF Cell, x, y, H

LEMMA LargerType ==
  ASSUME NEW a \in Int, NEW b \in Int
  PROVE  Larger(a, b) \in Int /\ Larger(a, b) >= a /\ Larger(a, b) >= b
         /\ (Larger(a, b) = a \/ Larger(a, b) = b)
BY DEF Larger

-----------------------------------------------------------------------------
(* The client list *)

LEMMA AddToOne ==
  ASSUME TypeOK, NEW fd
  PROVE  \/ AddTo(fd) = {}
         \/ \E m \in Slots : AddTo(fd) = {m} /\ (sFd[m] = fd \/ \A s \in Slots : sFd[s] # fd)
<1> DEFINE listed == {s \in Slots : sFd[s] = fd}
           open == {s \in Slots : sFd[s] = NoFd}
<1>1. listed \in SUBSET Nat /\ open \in SUBSET Nat
  BY FeedAssumption DEF Slots, FeedAssumption
<1>2. listed # {} => Min(listed) \in listed
  <2> HIDE DEF listed
  <2> QED BY <1>1, MinOf
<1>3. open # {} => Min(open) \in open
  <2> HIDE DEF open
  <2> QED BY <1>1, MinOf
<1>4. CASE listed # {}
  BY <1>2, <1>4 DEF AddTo
<1>5. CASE listed = {} /\ open # {}
  BY <1>3, <1>5 DEF AddTo
<1>6. CASE listed = {} /\ open = {}
  BY <1>6 DEF AddTo
<1> QED BY <1>4, <1>5, <1>6

LEMMA ClientAddKeeps ==
  ASSUME TypeOK, NoDuplicateSlots, NEW fd \in FDs, ClientAdd(fd)
  PROVE  /\ sFd' \in [Slots -> FDs \cup {NoFd}] /\ sSnapshot' \in [Slots -> BOOLEAN]
         /\ NoDuplicateSlots'
<1>1. /\ sFd' = [s \in Slots |-> IF s \in AddTo(fd) THEN fd ELSE sFd[s]]
      /\ sSnapshot' = [s \in Slots |-> s \in AddTo(fd) \/ sSnapshot[s]]
      /\ sFd \in [Slots -> FDs \cup {NoFd}] /\ sSnapshot \in [Slots -> BOOLEAN]
  BY DEF ClientAdd, TypeOK
<1>2. sFd' \in [Slots -> FDs \cup {NoFd}]
  BY <1>1
<1>3. sSnapshot' \in [Slots -> BOOLEAN]
  <2>1. \A s \in Slots : (s \in AddTo(fd) \/ sSnapshot[s]) \in BOOLEAN
    BY <1>1
  <2> QED BY <1>1, <2>1
<1>4. NoDuplicateSlots'
  <2>1. \A s \in Slots : sFd'[s] = IF s \in AddTo(fd) THEN fd ELSE sFd[s]
    BY <1>1
  <2> QED BY <2>1, AddToOne DEF NoDuplicateSlots
<1> QED BY <1>2, <1>3, <1>4

LEMMA ClientDropKeeps ==
  ASSUME TypeOK, NoDuplicateSlots, NEW fd, ClientDrop(fd)
  PROVE  /\ sFd' \in [Slots -> FDs \cup {NoFd}] /\ sSnapshot' \in [Slots -> BOOLEAN]
         /\ NoDuplicateSlots'
<1>1. /\ sFd' = [s \in Slots |-> IF sFd[s] = fd THEN NoFd ELSE sFd[s]]
      /\ sSnapshot' = [s \in Slots |-> sFd[s] # fd /\ sSnapshot[s]]
      /\ sFd \in [Slots -> FDs \cup {NoFd}] /\ sSnapshot \in [Slots -> BOOLEAN]
  BY DEF ClientDrop, TypeOK
<1>2. sSnapshot' \in [Slots -> BOOLEAN]
  <2>1. \A s \in Slots : (sFd[s] # fd /\ sSnapshot[s]) \in BOOLEAN
    BY <1>1
  <2> QED BY <1>1, <2>1
<1> QED BY <1>1, <1>2 DEF NoDuplicateSlots

(* An emptied list. *)
LEMMA FreeKeeps ==
  ASSUME sFd' = Free, sSnapshot' = Nobody
  PROVE  /\ sFd' \in [Slots -> FDs \cup {NoFd}] /\ sSnapshot' \in [Slots -> BOOLEAN]
         /\ NoDuplicateSlots'
BY DEF Free, Nobody, NoDuplicateSlots

-----------------------------------------------------------------------------
(* The ring *)

LEMMA CellType ==
  ASSUME NEW m \in Nat \ {0} PROVE Cell(m) \in 0..HISTORY - 1
<1>1. HISTORY \in Nat \ {0} /\ m - 1 \in Nat
  BY FeedAssumption DEF FeedAssumption
<1> QED BY <1>1 DEF Cell

LEMMA InitIInv == Init => IInv
<1> SUFFICES ASSUME Init PROVE IInv
  OBVIOUS
<1>1. /\ HISTORY \in Nat \ {0} /\ MaxFrames \in Nat /\ MaxConns \in Nat /\ MaxStarts \in Nat
  BY FeedAssumption DEF FeedAssumption
<1>2. Resting \in PumpState
  BY <1>1 DEF Resting, PumpState, PumpPcs, Free, Nobody, NoItem, Null
<1>3. sHist \in [0..HISTORY - 1 -> Entry]
  BY <1>1 DEF Init, Entry
<1>4. got \in [Conns -> Seq(0..MaxFrames)]
  BY DEF Init
<1>5. sFd \in [Slots -> FDs \cup {NoFd}] /\ sSnapshot \in [Slots -> BOOLEAN]
  BY DEF Init, Free, Nobody
<1>6. conn \in [FDs -> 0..MaxConns] /\ kind \in [Conns -> {"none", "http", "ws", "closed"}]
  BY <1>1 DEF Init, NoConn
<1>7. TypeOK
  BY <1>1, <1>2, <1>3, <1>4, <1>5, <1>6 DEF Init, TypeOK, Null
<1>8. PumpInv /\ NoDuplicateSlots
  BY DEF Init, PumpInv, Resting, NoDuplicateSlots, Free
<1>9. RingInv
  <2>1. \A m \in Larger(sSeq - HISTORY + 1, 1)..sSeq : m < sSeq => Whole(m)
    BY <1>1 DEF Init, Larger
  <2> QED BY <2>1 DEF Init, RingInv
<1> QED BY <1>7, <1>8, <1>9 DEF IInv

LEMMA RecordSeqIInv == ASSUME IInv, RecordSeq PROVE IInv'
<1> DEFINE n == sSeq + 1
           c == Cell(n)
<1>1. /\ sSeq \in 0..MaxFrames /\ sSeq < MaxFrames /\ MaxFrames \in Nat /\ HISTORY \in Nat \ {0}
      /\ n \in Nat \ {0} /\ n \in 0..MaxFrames /\ lock = "free" /\ lock' = "dispatch" /\ sSeq' = n
      /\ sHist \in [0..HISTORY - 1 -> Entry]
  BY FeedAssumption DEF RecordSeq, IInv, TypeOK, FeedAssumption
<1>2. sHist' = [sHist EXCEPT ![c] = [sHist[c] EXCEPT !.seq = n]]
  <2>1. c = sSeq % HISTORY
    BY <1>1 DEF Cell
  <2> QED BY <2>1 DEF RecordSeq
<1>3. c \in 0..HISTORY - 1
  BY <1>1, CellType
<1>4. UNCHANGED <<listVars, srvVars, connVars, pumpVars>>
  BY DEF RecordSeq
<1> HIDE DEF n, c
<1>5. sHist' \in [0..HISTORY - 1 -> Entry] /\ sHist'[c].seq = n
  BY <1>1, <1>2, <1>3 DEF Entry
<1>6. TypeOK' /\ PumpInv' /\ NoDuplicateSlots'
  BY <1>1, <1>4, <1>5
     DEF IInv, TypeOK, PumpInv, NoDuplicateSlots, listVars, srvVars, connVars, pumpVars
<1>7. ASSUME NEW m \in Larger(n - HISTORY + 1, 1)..n, m < n PROVE Whole(m)'
  <2>1. m \in Nat \ {0} /\ m <= sSeq /\ m > n - HISTORY
    BY <1>1, <1>7 DEF Larger, n
  <2>2. Whole(m)
    <3>1. CASE m = sSeq
      BY <1>1, <2>1, <3>1 DEF IInv, RingInv
    <3>2. CASE m < sSeq
      <4>1. m \in Larger(sSeq - HISTORY + 1, 1)..sSeq
        BY <1>1, <2>1 DEF Larger, n
      <4> QED BY <3>2, <4>1 DEF IInv, RingInv
    <3> QED BY <1>1, <2>1, <3>1, <3>2
  <2>3. Cell(m) # c /\ Cell(m) \in 0..HISTORY - 1
    BY <1>1, <1>7, <2>1, CellsApart DEF c
  <2>4. sHist'[Cell(m)] = sHist[Cell(m)]
    BY <1>1, <1>2, <2>3
  <2> QED BY <2>2, <2>4 DEF Whole
<1>8. RingInv'
  <2>1. sSeq' > 0 /\ sHist'[Cell(sSeq')].seq = sSeq'
    BY <1>1, <1>5 DEF c
  <2> QED BY <1>1, <1>7, <2>1 DEF RingInv, Whole, Cell
<1> QED BY <1>6, <1>8 DEF IInv

LEMMA RecordBodyIInv == ASSUME IInv, RecordBody PROVE IInv'
<1> DEFINE c == Cell(sSeq)
<1>1. /\ sSeq \in Nat \ {0} /\ sSeq \in 0..MaxFrames /\ HISTORY \in Nat \ {0}
      /\ lock = "dispatch" /\ lock' = "free" /\ sSeq' = sSeq
      /\ sHist \in [0..HISTORY - 1 -> Entry] /\ sHist[c].seq = sSeq
      /\ sHist' = [sHist EXCEPT ![c] = [sHist[c] EXCEPT !.body = sSeq]]
  BY FeedAssumption DEF RecordBody, IInv, TypeOK, RingInv, FeedAssumption
<1>2. c \in 0..HISTORY - 1
  BY <1>1, CellType
<1>3. UNCHANGED <<listVars, srvVars, connVars, pumpVars>>
  BY DEF RecordBody
<1>4. sHist' \in [0..HISTORY - 1 -> Entry] /\ sHist'[c] = [seq |-> sSeq, body |-> sSeq]
  <2> HIDE DEF c
  <2> QED BY <1>1, <1>2 DEF Entry
<1>5. TypeOK' /\ PumpInv' /\ NoDuplicateSlots'
  BY <1>1, <1>3, <1>4
     DEF IInv, TypeOK, PumpInv, NoDuplicateSlots, listVars, srvVars, connVars, pumpVars
<1>6. ASSUME NEW m \in Larger(sSeq - HISTORY + 1, 1)..sSeq, m < sSeq PROVE Whole(m)'
  <2>1. m \in Nat \ {0} /\ sSeq < m + HISTORY /\ Whole(m)
    BY <1>1, <1>6 DEF IInv, RingInv, Larger
  <2>2. Cell(m) # c /\ Cell(m) \in 0..HISTORY - 1
    BY <1>1, <1>6, <2>1, CellsApart DEF c
  <2> HIDE DEF c
  <2>3. sHist'[Cell(m)] = sHist[Cell(m)]
    BY <1>1, <2>2
  <2> QED BY <2>1, <2>3 DEF Whole
<1>7. RingInv'
  <2>1. sHist'[Cell(sSeq')] = [seq |-> sSeq', body |-> sSeq']
    BY <1>1, <1>4
  <2> QED BY <1>1, <1>6, <2>1 DEF RingInv, Whole, Cell
<1> QED BY <1>5, <1>7 DEF IInv

(* Only the dispatch task writes the ring; anyone else leaves the lock     *)
(* alone or takes it while it is free.                                     *)
LEMMA RingKeeps ==
  ASSUME RingInv, sHist' = sHist, sSeq' = sSeq,
         lock' = lock \/ (lock # "dispatch" /\ lock' # "dispatch")
  PROVE  RingInv'
BY DEF RingInv, Whole, Cell

-----------------------------------------------------------------------------
(* The server's task and the event loop *)

LEMMA CloseFdType ==
  ASSUME TypeOK, NEW fd, CloseFd(fd)
  PROVE  /\ conn' \in [FDs -> 0..MaxConns]
         /\ kind' \in [Conns -> {"none", "http", "ws", "closed"}]
<1>1. 0 \in 0..MaxConns
  BY FeedAssumption DEF FeedAssumption
<1> QED BY <1>1 DEF CloseFd, TypeOK, NoConn

LEMMA HttpdIInv == ASSUME IInv, Httpd PROVE IInv'
<1>1. UNCHANGED <<dispVars, lock, srvVars, pumpVars>>
  BY DEF Httpd, WsGet, Accept, Upgrade, WsGetFails, Close, WsGetHandshake, WsGetDrops
<1>2. /\ sFd' \in [Slots -> FDs \cup {NoFd}] /\ sSnapshot' \in [Slots -> BOOLEAN]
      /\ NoDuplicateSlots'
  <2>1. CASE \E fd \in FDs : WsGetHandshake(fd)
    BY <2>1, ClientAddKeeps DEF WsGetHandshake, IInv
  <2>2. CASE \E fd \in FDs : WsGetDrops(fd)
    BY <2>2, ClientDropKeeps DEF WsGetDrops, IInv
  <2>3. CASE UNCHANGED listVars
    BY <2>3 DEF IInv, TypeOK, NoDuplicateSlots, listVars
  <2> QED BY <2>1, <2>2, <2>3 DEF Httpd, WsGet, Accept, Upgrade, WsGetFails, Close
<1>3. /\ conn' \in [FDs -> 0..MaxConns]
      /\ kind' \in [Conns -> {"none", "http", "ws", "closed"}]
      /\ httpd' \in {<<"idle", NoFd>>} \cup ({"add", "drop"} \X FDs)
      /\ clean' \subseteq Conns
  <2>1. ASSUME NEW fd \in FDs, NEW c \in Conns, Accept(fd, c) PROVE <1>3
    <3>1. c \in 0..MaxConns
      BY FeedAssumption DEF Conns, FeedAssumption
    <3> QED BY <2>1, <3>1 DEF Accept, IInv, TypeOK
  <2>2. ASSUME NEW fd \in FDs, Upgrade(fd) PROVE <1>3
    BY <2>2 DEF Upgrade, IInv, TypeOK
  <2>3. ASSUME NEW fd \in FDs, WsGetFails(fd) PROVE <1>3
    BY <2>3 DEF WsGetFails, IInv, TypeOK
  <2>4. ASSUME NEW fd \in FDs, Close(fd) PROVE <1>3
    BY <2>4, CloseFdType DEF Close, IInv, TypeOK
  <2>5. ASSUME NEW fd \in FDs, WsGetHandshake(fd) PROVE <1>3
    BY <2>5 DEF WsGetHandshake, IInv, TypeOK
  <2>6. ASSUME NEW fd \in FDs, WsGetDrops(fd) PROVE <1>3
    BY <2>6, CloseFdType DEF WsGetDrops, IInv, TypeOK
  <2> QED BY <2>1, <2>2, <2>3, <2>4, <2>5, <2>6 DEF Httpd, WsGet
<1>4. TypeOK' /\ PumpInv'
  BY <1>1, <1>2, <1>3 DEF IInv, TypeOK, PumpInv, dispVars, srvVars, pumpVars
<1>5. RingInv'
  BY <1>1, RingKeeps DEF IInv, dispVars
<1> QED BY <1>2, <1>4, <1>5 DEF IInv

LEMMA OtaIInv == ASSUME IInv, OtaSetOnline PROVE IInv'
<1>1. UNCHANGED <<dispVars, lock, httpd, clean, pumpVars>>
  BY DEF OtaSetOnline, StartServer, Attach, RegisterRoutes, Detach, ClearClients, StopServer, connVars
<1>2. /\ sFd' \in [Slots -> FDs \cup {NoFd}] /\ sSnapshot' \in [Slots -> BOOLEAN]
      /\ NoDuplicateSlots'
  <2>1. CASE ClearClients
    BY <2>1, FreeKeeps DEF ClearClients
  <2>2. CASE UNCHANGED listVars
    BY <2>2 DEF IInv, TypeOK, NoDuplicateSlots, listVars
  <2> QED BY <2>1, <2>2
      DEF OtaSetOnline, StartServer, Attach, RegisterRoutes, Detach, StopServer
<1>3. /\ sServer' \in 0..MaxStarts /\ starts' \in 0..MaxStarts /\ live' \in 0..MaxStarts
      /\ sPump' \in BOOLEAN /\ routes' \in BOOLEAN
      /\ evPc' \in {"offline", "attach", "routes", "online", "clear", "stop"}
      /\ conn' \in [FDs -> 0..MaxConns]
      /\ kind' \in [Conns -> {"none", "http", "ws", "closed"}]
  <2>1. MaxStarts \in Nat /\ 0 \in 0..MaxStarts /\ 0 \in 0..MaxConns
    BY FeedAssumption DEF FeedAssumption
  <2>2. CASE StartServer
    BY <2>1, <2>2 DEF StartServer, IInv, TypeOK, connVars
  <2>3. CASE Attach
    <3>1. sPump' \in BOOLEAN
      BY <2>3 DEF Attach, IInv, TypeOK
    <3> QED BY <2>1, <2>3, <3>1 DEF Attach, IInv, TypeOK, connVars, Null
  <2>4. CASE RegisterRoutes
    BY <2>1, <2>4 DEF RegisterRoutes, IInv, TypeOK, connVars
  <2>5. CASE Detach
    BY <2>1, <2>5 DEF Detach, IInv, TypeOK, connVars, Null
  <2>6. CASE ClearClients
    BY <2>1, <2>6 DEF ClearClients, IInv, TypeOK, connVars
  <2>7. CASE StopServer
    BY <2>1, <2>7 DEF StopServer, IInv, TypeOK, Null, NoConn
  <2> QED BY <2>2, <2>3, <2>4, <2>5, <2>6, <2>7 DEF OtaSetOnline
<1>4. TypeOK' /\ PumpInv'
  BY <1>1, <1>2, <1>3 DEF IInv, TypeOK, PumpInv, dispVars, pumpVars
<1>5. RingInv'
  BY <1>1, RingKeeps DEF IInv, dispVars
<1> QED BY <1>2, <1>4, <1>5 DEF IInv

-----------------------------------------------------------------------------
(* The pump task *)

LEMMA PumpType ==
  ASSUME TypeOK
  PROVE  /\ MaxFrames \in Nat /\ HISTORY \in Nat \ {0} /\ 0 \in 0..MaxStarts
         /\ sSeq \in 0..MaxFrames /\ sent \in 0..MaxFrames /\ sServer \in 0..MaxStarts
         /\ pump \in PumpState /\ pump.newest \in 0..MaxFrames
         /\ pump.seq \in 0..MaxFrames + 1 /\ pump.todo \subseteq Slots
         /\ pump.item \in {NoItem} \cup 0..MaxFrames
         /\ Resting \in PumpState /\ got \in [Conns -> Seq(0..MaxFrames)]
<1>1. MaxFrames \in Nat /\ HISTORY \in Nat \ {0} /\ MaxStarts \in Nat
  BY FeedAssumption DEF FeedAssumption
<1>2. pump \in PumpState /\ got \in [Conns -> Seq(0..MaxFrames)]
  BY DEF TypeOK
<1>3. Resting \in PumpState
  BY <1>1 DEF Resting, PumpState, PumpPcs, Free, Nobody, NoItem, Null
<1> QED BY <1>1, <1>2, <1>3 DEF TypeOK, PumpState

(* Neither the statement nor the number the loop is at leaves its type.    *)
LEMMA GoesOnType ==
  ASSUME TypeOK, NEW n \in 0..MaxFrames + 1, NEW p, NEW item \in {NoItem} \cup 0..MaxFrames,
         p = [pump EXCEPT !.pc = "next", !.item = item, !.seq = n]
  PROVE  p \in PumpState /\ p.pc = "next" /\ p.seq = n
<1>1. "next" \in PumpPcs
  BY DEF PumpPcs
<1> QED BY <1>1, PumpType DEF PumpState

LEMMA SentType ==
  ASSUME TypeOK, NEW c, pump.item # NoItem
  PROVE  Sent(c, pump.item) \in [Conns -> Seq(0..MaxFrames)]
<1>1. pump.item \in 0..MaxFrames /\ got \in [Conns -> Seq(0..MaxFrames)]
  BY PumpType
<1>2. \A b \in Conns : Append(got[b], pump.item) \in Seq(0..MaxFrames)
  BY <1>1
<1> QED BY <1>1, <1>2 DEF Sent

LEMMA PumpIInv == ASSUME IInv, PumpTask PROVE IInv'
<1>1. UNCHANGED <<dispVars, srvVars, connVars>> /\ (lock' = lock \/ (lock # "dispatch" /\ lock' # "dispatch"))
      /\ lock' \in {"free", "dispatch", "pump"}
  BY DEF PumpTask, PumpWake, PumpOffline, PumpCopy, PumpItemDone, PumpSkip, PumpTakeEntry,
         PumpCopyEntry, PumpDone, SendCheck, SendLookup, SendBegin, SendWrite, PumpDrop, PumpKeeps, IInv, TypeOK, PumpInv
<1>2. /\ sFd' \in [Slots -> FDs \cup {NoFd}] /\ sSnapshot' \in [Slots -> BOOLEAN]
      /\ NoDuplicateSlots'
  <2>1. CASE PumpCopy
    BY <2>1 DEF PumpCopy, Nobody, IInv, TypeOK, NoDuplicateSlots
  <2>2. CASE PumpDrop
    BY <2>2, ClientDropKeeps DEF PumpDrop, IInv
  <2>3. CASE UNCHANGED listVars
    BY <2>3 DEF IInv, TypeOK, NoDuplicateSlots, listVars
  <2> QED BY <2>1, <2>2, <2>3
      DEF PumpTask, PumpWake, PumpOffline, PumpItemDone, PumpSkip, PumpTakeEntry,
          PumpCopyEntry, PumpDone, SendCheck, SendLookup, SendBegin, SendWrite
<1>3. pump' \in PumpState /\ sent' \in 0..MaxFrames
      /\ got' \in [Conns -> Seq(0..MaxFrames)] /\ PumpInv'
  <2>1. CASE PumpWake
    BY <2>1, PumpType DEF PumpWake, PumpKeeps, IInv, PumpInv, PumpState, PumpPcs
  <2>2. CASE PumpOffline
    BY <2>2, PumpType DEF PumpOffline, PumpKeeps, IInv, PumpInv, Resting
  <2>3. CASE PumpCopy
    <3>1. CASE {s \in Slots : sFd[s] # NoFd} = {}
      BY <2>3, <3>1, PumpType DEF PumpCopy, PumpKeeps, IInv, PumpInv, Resting
    <3>2. CASE {s \in Slots : sFd[s] # NoFd} # {}
      <4>1. /\ pump' = [Resting EXCEPT !.pc = "check", !.fds = sFd, !.snap = sSnapshot,
                                      !.newest = sSeq, !.item = Status,
                                      !.todo = {s \in Slots : sFd[s] # NoFd}]
            /\ sent' = sent /\ got' = got
        BY <2>3, <3>2 DEF PumpCopy
      <4>2. sFd \in [Slots -> FDs \cup {NoFd}] /\ sSnapshot \in [Slots -> BOOLEAN]
        BY DEF IInv, TypeOK
      <4>3. pump' \in PumpState
        <5>1. Status \in {NoItem} \cup 0..MaxFrames /\ "check" \in PumpPcs
          BY PumpType DEF IInv, Status, PumpPcs
        <5>2. {s \in Slots : sFd[s] # NoFd} \subseteq Slots
          OBVIOUS
        <5> QED BY <4>1, <4>2, <5>1, <5>2, PumpType DEF IInv, PumpState
      <4>4. pump'.pc = "check" /\ pump'.item = Status
        BY <4>1, PumpType DEF PumpState, IInv
      <4> QED BY <2>3, <4>1, <4>3, <4>4, PumpType DEF PumpCopy, PumpKeeps, IInv, PumpInv, Status, NoItem
    <3> QED BY <3>1, <3>2
  <2>4. CASE PumpItemDone
    <3>1. Oldest \in 1..MaxFrames + 1 /\ Larger(sent, Oldest - 1) \in 0..MaxFrames
      <4>1. /\ TypeOK /\ pump.newest \in 0..MaxFrames /\ sent \in 0..MaxFrames
            /\ HISTORY \in Nat \ {0} /\ MaxFrames \in Nat
        BY PumpType, FeedAssumption DEF IInv, TypeOK, FeedAssumption
      <4> QED BY <4>1, OldestIs DEF Larger
    <3>2. pump.item # Status => pump.seq + 1 \in 0..MaxFrames + 1
      BY <2>4, PumpType DEF PumpItemDone, IInv, PumpInv
    <3>3. sent' \in 0..MaxFrames /\ got' = got
      BY <2>4, <3>1, PumpType DEF PumpItemDone, IInv
    <3>4. pump' \in PumpState /\ pump'.pc = "next"
      <4> DEFINE n == IF pump.item = Status THEN Oldest ELSE pump.seq + 1
      <4>1. n \in 0..MaxFrames + 1 /\ NoItem \in {NoItem} \cup 0..MaxFrames
        BY <3>1, <3>2
      <4>2. pump' = [pump EXCEPT !.pc = "next", !.item = NoItem, !.seq = n]
        BY <2>4 DEF PumpItemDone
      <4> HIDE DEF n
      <4> QED BY <4>1, <4>2, GoesOnType DEF IInv
    <3>5. pump'.seq >= 1
      <4>1. pump'.seq = IF pump.item = Status THEN Oldest ELSE pump.seq + 1
        BY <2>4, PumpType DEF PumpItemDone, IInv, PumpState
      <4> QED BY <4>1, <3>1, PumpType DEF IInv
    <3> QED BY <2>4, <3>3, <3>4, <3>5, PumpType DEF PumpItemDone, PumpKeeps, IInv, PumpInv
  <2>5. CASE PumpSkip
    <3>1. pump.seq + 1 \in 1..MaxFrames + 1
      BY <2>5, PumpType DEF PumpSkip, Replaying, IInv
    <3>2. pump' \in PumpState /\ pump'.pc = "next" /\ pump'.seq = pump.seq + 1
      <4> DEFINE n == pump.seq + 1
      <4>1. n \in 0..MaxFrames + 1 /\ pump.item \in {NoItem} \cup 0..MaxFrames
        BY <3>1, PumpType DEF IInv
      <4>2. pump' = [pump EXCEPT !.pc = "next", !.item = pump.item, !.seq = n]
        <5>1. pump' = [pump EXCEPT !.seq = n] /\ pump.pc = "next"
          BY <2>5 DEF PumpSkip, Replaying
        <5> HIDE DEF n
        <5> QED BY <5>1, PumpType DEF IInv, PumpState
      <4> HIDE DEF n
      <4>3. pump' \in PumpState /\ pump'.pc = "next" /\ pump'.seq = n
        BY <4>1, <4>2, GoesOnType DEF IInv
      <4> QED BY <4>3 DEF n
    <3> QED BY <2>5, <3>1, <3>2, PumpType DEF PumpSkip, PumpKeeps, Replaying, IInv, PumpInv
  <2>6. CASE PumpTakeEntry
    <3>1. sHist[Cell(pump.seq)].seq \in 0..MaxFrames
      <4>1. Cell(pump.seq) \in 0..HISTORY - 1
        BY PumpType DEF IInv, Cell
      <4> QED BY <4>1 DEF IInv, TypeOK, Entry
    <3> QED BY <2>6, <3>1, PumpType
        DEF PumpTakeEntry, Replaying, IInv, PumpInv, PumpState, PumpPcs, pumpVars
  <2>7. CASE PumpCopyEntry
    <3>1. sHist[Cell(pump.seq)].body \in 0..MaxFrames
      <4>1. Cell(pump.seq) \in 0..HISTORY - 1
        BY PumpType DEF IInv, Cell
      <4> QED BY <4>1 DEF IInv, TypeOK, Entry
    <3>2. pump.seq <= pump.newest /\ pump.seq + 1 \in 0..MaxFrames + 1
      BY <2>7, PumpType DEF PumpCopyEntry, IInv, PumpInv
    <3>3. Wanting \subseteq Slots
      BY DEF Wanting
    <3>4. lock' = "free" /\ sent' = sent /\ got' = got
      BY <2>7 DEF PumpCopyEntry, pumpVars
    <3>5. CASE pump.item = pump.seq
      <4>1. /\ pump' \in PumpState /\ pump'.pc = "check" /\ pump'.item \in 0..MaxFrames
            /\ pump'.seq = pump.seq /\ pump'.newest = pump.newest
        BY <2>7, <3>1, <3>3, <3>5, PumpType DEF PumpCopyEntry, IInv, PumpState, PumpPcs
      <4>2. pump.seq >= 1
        BY <2>7 DEF PumpCopyEntry, IInv, PumpInv
      <4> QED BY <3>2, <3>4, <4>1, <4>2, PumpType DEF IInv, PumpInv, NoItem
    <3>6. CASE pump.item # pump.seq
      <4>1. pump' \in PumpState /\ pump'.pc = "next" /\ pump'.seq = pump.seq + 1
        BY <2>7, <3>2, <3>6, PumpType DEF PumpCopyEntry, IInv, PumpState, PumpPcs, NoItem
      <4> QED BY <3>2, <3>4, <4>1, PumpType DEF IInv, PumpInv
    <3> QED BY <3>5, <3>6
  <2>8. CASE PumpDone
    BY <2>8, PumpType DEF PumpDone, PumpKeeps, IInv, PumpInv, Resting
  <2>9. CASE SendCheck
    BY <2>9, PumpType DEF SendCheck, PumpKeeps, IInv, PumpInv, PumpState, PumpPcs
  <2>13. CASE SendLookup
    <3>1. PICK pc \in {"begin", "drop"} : pump' = [pump EXCEPT !.pc = pc, !.h = Null]
      BY <2>13 DEF SendLookup
    <3> QED BY <2>13, <3>1, PumpType
            DEF SendLookup, PumpKeeps, IInv, PumpInv, PumpState, PumpPcs, Null
  <2>10. CASE SendBegin
    BY <2>10, PumpType DEF SendBegin, PumpKeeps, IInv, PumpInv, PumpState, PumpPcs
  <2>11. CASE SendWrite
    <3>1. got' \in [Conns -> Seq(0..MaxFrames)]
      BY <2>11, SentType, PumpType DEF SendWrite, PumpKeeps, IInv, PumpInv
    <3>2. /\ pump.pc = "write" /\ lock' = lock /\ sent' = sent
          /\ \/ pump' = [pump EXCEPT !.pc = "check", !.todo = @ \ {Client}, !.h = Null]
             \/ pump' = [pump EXCEPT !.pc = "drop", !.h = Null]
      BY <2>11 DEF SendWrite, PumpKeeps
    <3>3. /\ pump' \in PumpState /\ pump'.pc \in {"check", "drop"} /\ pump'.item = pump.item
          /\ pump'.seq = pump.seq /\ pump'.newest = pump.newest
      BY <3>2, PumpType DEF IInv, PumpState, PumpPcs, Null
    <3> QED BY <3>1, <3>2, <3>3, PumpType DEF IInv, PumpInv
  <2>12. CASE PumpDrop
    BY <2>12, PumpType DEF PumpDrop, PumpKeeps, IInv, PumpInv, PumpState, PumpPcs
  <2> QED BY <2>1, <2>2, <2>3, <2>4, <2>5, <2>6, <2>7, <2>8, <2>9, <2>10, <2>11, <2>12, <2>13 DEF PumpTask
<1>4. TypeOK'
  BY <1>1, <1>2, <1>3 DEF IInv, TypeOK, dispVars, srvVars, connVars
<1>5. RingInv'
  BY <1>1, RingKeeps DEF IInv, dispVars
<1> QED BY <1>2, <1>3, <1>4, <1>5 DEF IInv

-----------------------------------------------------------------------------
LEMMA NextIInv == ASSUME IInv, [Next]_vars PROVE IInv'
<1>1. CASE UNCHANGED vars
  <2>1. TypeOK' /\ PumpInv' /\ NoDuplicateSlots'
    BY <1>1 DEF IInv, TypeOK, PumpInv, NoDuplicateSlots, vars, dispVars, listVars, srvVars,
                connVars, pumpVars
  <2> QED BY <1>1, <2>1, RingKeeps DEF IInv, vars, dispVars
<1> QED BY <1>1, RecordSeqIInv, RecordBodyIInv, HttpdIInv, OtaIInv, PumpIInv
    DEF Next, WebOnMessage

LEMMA Inductive == Spec => []IInv
BY InitIInv, NextIInv, PTL DEF Spec

(* The ring holds the newest HISTORY frames whole whenever its lock is     *)
(* free, whatever its size.                                                *)
THEOREM RingHoldsAlways == Spec => []RingHolds
<1>1. IInv => RingHolds
  <2> SUFFICES ASSUME IInv, lock # "dispatch", NEW m \in Larger(sSeq - HISTORY + 1, 1)..sSeq
               PROVE  Whole(m)
    BY DEF RingHolds, Whole
  <2>1. sSeq \in Int /\ HISTORY \in Nat /\ m \in Int /\ m >= 1 /\ m <= sSeq
    BY FeedAssumption DEF IInv, TypeOK, FeedAssumption, Larger
  <2> QED BY <2>1 DEF IInv, RingInv
<1> QED BY <1>1, Inductive, PTL

(* No descriptor is listed twice, however browsers come and go.            *)
THEOREM ListInvAlways == Spec => []ListInv
<1>1. IInv => ListInv
  BY DEF IInv, ListInv
<1> QED BY <1>1, Inductive, PTL

-----------------------------------------------------------------------------
(* What a browser is sent.                                                 *)
(*                                                                         *)
(* A pass works on a copy of the list while the list itself moves on, and  *)
(* `sent' is one number for all.  The invariant follows every browser on a *)
(* fresh descriptor through it: owed a replay and sent nothing, or sent all*)
(* it could be up to `sent' or to where the pass is.                       *)

Passing == pump.pc \notin {"wait", "offline", "copy"}
Sending == pump.pc \in {"check", "look", "begin", "write", "drop"}
Fresh(c) == got[c] = <<>>

(* The pass, its copy of the list, and the list since.                     *)
PassInv ==
  /\ Passing \/ pump.fds = Free
  /\ sent <= sSeq /\ pump.newest <= sSeq
  /\ Passing => sent <= pump.newest
  /\ pump.pc \in {"next", "entry"} => pump.seq <= pump.newest + 1
  /\ Sending => pump.item \in {Status, pump.seq}
  /\ pump.pc \in {"look", "begin", "write", "drop"} => pump.todo # {}
  /\ Sending => \A s \in pump.todo : pump.fds[s] # NoFd
  /\ \A s, t \in Slots : pump.fds[s] = pump.fds[t] /\ pump.fds[s] # NoFd => s = t
  /\ Passing => \A s \in Slots : sFd[s] # NoFd /\ ~sSnapshot[s] => pump.fds[s] = sFd[s]

(* The two halves of a cell agree whenever the lock lets anyone look.      *)
CellInv ==
  /\ \A c \in 0..HISTORY - 1 :
       lock # "dispatch" \/ c # Cell(sSeq) => sHist[c].body = sHist[c].seq
  /\ pump.pc = "entry" => pump.item = sHist[Cell(pump.seq)].seq

(* An entry goes to those it was copied for.                               *)
WantInv ==
  Sending /\ pump.item # Status => \A s \in pump.todo : pump.snap[s] \/ pump.seq > sent

LEMMA ListMoves ==
  ASSUME IInv, PassInv, UNCHANGED pumpVars, sSeq' \in Int, sSeq <= sSeq',
         \A s \in Slots : sFd'[s] # NoFd /\ ~sSnapshot'[s] =>
            sFd'[s] = sFd[s] /\ ~sSnapshot[s]
  PROVE  PassInv'
<1>1. sent \in Int /\ pump.newest \in Int /\ sSeq \in Int
  BY PumpType DEF IInv
<1> QED BY <1>1 DEF PassInv, Passing, Sending, pumpVars

LEMMA OutsidePass ==
  ASSUME IInv, PassInv, CellInv, WebOnMessage \/ Httpd \/ OtaSetOnline
  PROVE  PassInv' /\ CellInv'
<1>1. /\ sFd \in [Slots -> FDs \cup {NoFd}] /\ sSnapshot \in [Slots -> BOOLEAN]
      /\ HISTORY \in Nat \ {0} /\ sSeq \in Nat /\ sHist \in [0..HISTORY - 1 -> Entry]
  BY FeedAssumption DEF IInv, TypeOK, FeedAssumption
<1>2. CASE RecordSeq
  <2>1. UNCHANGED <<listVars, pumpVars>> /\ sSeq' = sSeq + 1 /\ lock = "free" /\ lock' = "dispatch"
        /\ sHist' = [sHist EXCEPT ![Cell(sSeq')] = [sHist[Cell(sSeq')] EXCEPT !.seq = sSeq + 1]]
    <3>1. sSeq % HISTORY = Cell(sSeq + 1)
      BY <1>1 DEF Cell
    <3> QED BY <1>2, <3>1 DEF RecordSeq
  <2>2. \A c \in 0..HISTORY - 1 : c # Cell(sSeq') => sHist'[c] = sHist[c]
    BY <1>1, <2>1
  <2>3. pump.pc # "entry" /\ pump'.pc # "entry"
    BY <2>1 DEF IInv, PumpInv, pumpVars
  <2>4. CellInv'
    BY <2>1, <2>2, <2>3 DEF CellInv, Cell
  <2> QED BY <1>1, <2>1, <2>4, ListMoves DEF listVars
<1>3. CASE RecordBody
  <2>1. UNCHANGED <<listVars, pumpVars>> /\ sSeq' = sSeq /\ lock = "dispatch" /\ lock' = "free"
        /\ sHist' = [sHist EXCEPT ![Cell(sSeq)] = [sHist[Cell(sSeq)] EXCEPT !.body = sSeq]]
    BY <1>3 DEF RecordBody
  <2>2. \A c \in 0..HISTORY - 1 : c # Cell(sSeq) => sHist'[c] = sHist[c]
    BY <1>1, <2>1
  <2>3. sHist[Cell(sSeq)].seq = sSeq /\ Cell(sSeq) \in 0..HISTORY - 1
    BY <1>1, <2>1, CellType DEF IInv, RingInv
  <2>4. sHist'[Cell(sSeq)].seq = sSeq /\ sHist'[Cell(sSeq)].body = sSeq
    BY <1>1, <2>1, <2>3 DEF Entry
  <2>5. pump.pc # "entry" /\ pump'.pc # "entry"
    BY <2>1 DEF IInv, PumpInv, pumpVars
  <2>6. CellInv'
    BY <2>1, <2>2, <2>4, <2>5 DEF CellInv, Cell
  <2> QED BY <1>1, <2>1, <2>6, ListMoves DEF listVars
<1>4. CASE Httpd \/ OtaSetOnline
  <2>1. UNCHANGED <<sHist, sSeq, lock, pumpVars>>
    BY <1>4 DEF Httpd, WsGet, Accept, Upgrade, WsGetFails, Close, WsGetHandshake, WsGetDrops,
       OtaSetOnline, StartServer, Attach, RegisterRoutes, Detach, ClearClients, StopServer,
       connVars, dispVars
  <2>2. CellInv'
    BY <2>1 DEF CellInv, Cell, pumpVars
  <2>3. \A s \in Slots : sFd'[s] # NoFd /\ ~sSnapshot'[s] => sFd'[s] = sFd[s] /\ ~sSnapshot[s]
    <3>1. CASE \E fd \in FDs : ClientAdd(fd)
      BY <1>1, <3>1 DEF ClientAdd
    <3>2. CASE \E fd \in FDs : ClientDrop(fd)
      BY <1>1, <3>2 DEF ClientDrop
    <3>3. CASE ClearClients
      BY <3>3 DEF ClearClients, Free
    <3>4. CASE UNCHANGED listVars
      BY <3>4 DEF listVars
    <3> QED BY <1>4, <3>1, <3>2, <3>3, <3>4
        DEF Httpd, WsGet, Accept, Upgrade, WsGetFails, Close, WsGetHandshake, WsGetDrops,
            OtaSetOnline, StartServer, Attach, RegisterRoutes, Detach, StopServer
  <2> QED BY <1>1, <2>1, <2>2, <2>3, ListMoves
<1> QED BY <1>2, <1>3, <1>4 DEF WebOnMessage

(* What the steps of a pass do to the pump task's locals: the copy of the  *)
(* list is only touched where a client is dropped from it.                 *)
SameCopy == pump'.fds = pump.fds /\ pump'.snap = pump.snap /\ pump'.newest = pump.newest

LEMMA PumpWakeDoes ==
  ASSUME TypeOK, PumpWake
  PROVE  SameCopy
         /\ pump.pc = "wait" /\ sPump
         /\ pump'.pc = (IF sServer = Null THEN "offline" ELSE "copy")
         /\ pump'.seq = pump.seq /\ pump'.item = pump.item /\ pump'.todo = pump.todo
<1>1. pump \in PumpState
  BY PumpType
<1> QED BY <1>1 DEF PumpWake, PumpState, SameCopy

LEMMA PumpItemDoneDoes ==
  ASSUME TypeOK, PumpItemDone
  PROVE  SameCopy
         /\ pump.pc = "check" /\ pump.todo = {} /\ pump'.pc = "next"
         /\ pump'.seq = (IF pump.item = Status THEN Oldest ELSE pump.seq + 1)
         /\ pump'.item = NoItem /\ pump'.todo = {}
<1>1. pump \in PumpState
  BY PumpType
<1> QED BY <1>1 DEF PumpItemDone, PumpState, SameCopy

LEMMA PumpSkipDoes ==
  ASSUME TypeOK, PumpSkip
  PROVE  SameCopy
         /\ pump.pc = "next" /\ pump.seq <= pump.newest /\ Wanting = {} /\ pump'.pc = "next"
         /\ pump'.seq = pump.seq + 1 /\ pump'.item = pump.item /\ pump'.todo = pump.todo
<1>1. pump \in PumpState
  BY PumpType
<1> QED BY <1>1 DEF PumpSkip, PumpState, SameCopy, Replaying

LEMMA PumpTakeEntryDoes ==
  ASSUME TypeOK, PumpTakeEntry
  PROVE  SameCopy
         /\ pump.pc = "next" /\ pump.seq <= pump.newest /\ pump'.pc = "entry"
         /\ pump'.seq = pump.seq /\ pump'.item = sHist[Cell(pump.seq)].seq
         /\ pump'.todo = pump.todo
<1>1. pump \in PumpState
  BY PumpType
<1> QED BY <1>1 DEF PumpTakeEntry, PumpState, SameCopy, Replaying

LEMMA PumpCopyEntryDoes ==
  ASSUME TypeOK, PumpCopyEntry
  PROVE  SameCopy
         /\ pump.pc = "entry" /\ pump'.seq = (IF pump.item = pump.seq THEN pump.seq ELSE pump.seq + 1)
         /\ (pump.item = pump.seq => pump'.pc = "check" /\ pump'.todo = Wanting
                                   /\ pump'.item = sHist[Cell(pump.seq)].body)
         /\ (pump.item # pump.seq => pump'.pc = "next" /\ pump'.todo = pump.todo
                                   /\ pump'.item = NoItem)
<1>1. pump \in PumpState
  BY PumpType
<1> QED BY <1>1 DEF PumpCopyEntry, PumpState, SameCopy

LEMMA SendCheckDoes ==
  ASSUME TypeOK, SendCheck
  PROVE  SameCopy
         /\ pump.pc = "check" /\ pump.todo # {} /\ pump'.pc = "look"
         /\ pump'.seq = pump.seq /\ pump'.item = pump.item /\ pump'.todo = pump.todo
<1>1. pump \in PumpState
  BY PumpType
<1> QED BY <1>1 DEF SendCheck, PumpState, SameCopy

LEMMA SendLookupDoes ==
  ASSUME TypeOK, SendLookup
  PROVE  SameCopy
         /\ pump.pc = "look" /\ pump'.pc \in {"begin", "drop"}
         /\ pump'.seq = pump.seq /\ pump'.item = pump.item /\ pump'.todo = pump.todo
<1>1. pump \in PumpState
  BY PumpType
<1>2. PICK pc \in {"begin", "drop"} : pump' = [pump EXCEPT !.pc = pc, !.h = Null]
  BY DEF SendLookup
<1> QED BY <1>1, <1>2 DEF SendLookup, PumpState, SameCopy

LEMMA SendBeginDoes ==
  ASSUME TypeOK, SendBegin
  PROVE  SameCopy
         /\ pump.pc = "begin" /\ pump'.pc = "write" /\ pump'.h = sServer
         /\ pump'.seq = pump.seq /\ pump'.item = pump.item /\ pump'.todo = pump.todo
<1>1. pump \in PumpState
  BY PumpType
<1> QED BY <1>1 DEF SendBegin, PumpState, SameCopy

LEMMA SendWriteDoes ==
  ASSUME TypeOK, SendWrite
  PROVE  SameCopy /\ pump.pc = "write" /\ pump'.seq = pump.seq /\ pump'.item = pump.item
         /\ \/ /\ pump'.pc = "drop" /\ pump'.todo = pump.todo /\ got' = got
            \/ /\ pump'.pc = "check" /\ pump'.todo = pump.todo \ {Client}
               /\ pump.h # Null /\ conn[Fd] # NoConn /\ got' = Sent(conn[Fd], pump.item)
<1>1. pump \in PumpState
  BY PumpType
<1>2. PICK ok \in BOOLEAN :
        /\ ok => pump.h # Null /\ conn[Fd] # NoConn
        /\ got' = IF ok THEN Sent(conn[Fd], pump.item) ELSE got
        /\ pump' = IF ok THEN [pump EXCEPT !.pc = "check", !.todo = @ \ {Client}, !.h = Null]
                   ELSE [pump EXCEPT !.pc = "drop", !.h = Null]
  BY DEF SendWrite
<1>3. pump.pc = "write"
  BY DEF SendWrite
<1>4. CASE ok
  BY <1>1, <1>2, <1>3, <1>4 DEF PumpState, SameCopy
<1>5. CASE ~ok
  BY <1>1, <1>2, <1>3, <1>5 DEF PumpState, SameCopy
<1> QED BY <1>4, <1>5

LEMMA PumpDropDoes ==
  ASSUME TypeOK, PumpDrop
  PROVE  /\ pump.pc = "drop" /\ pump'.pc = "check" /\ pump'.seq = pump.seq /\ pump'.item = pump.item
         /\ pump'.todo = pump.todo \ {Client} /\ pump'.newest = pump.newest
         /\ pump'.snap = pump.snap /\ pump'.fds = [pump.fds EXCEPT ![Client] = NoFd]
<1>1. pump \in PumpState
  BY PumpType
<1> QED BY <1>1 DEF PumpDrop, PumpState

(* The next client is one of those that are left.                          *)
LEMMA ClientLeft ==
  ASSUME TypeOK, pump.todo # {}
  PROVE  Client \in pump.todo /\ Client \in Slots
<1>1. pump.todo \subseteq Slots
  BY PumpType
<1>2. pump.todo \in SUBSET Nat
  BY <1>1, FeedAssumption DEF Slots, FeedAssumption
<1> QED BY <1>1, <1>2, MinOf DEF Client

LEMMA RestingFields ==
  /\ Resting.pc = "wait" /\ Resting.fds = Free /\ Resting.snap = Nobody /\ Resting.newest = 0
  /\ Resting.seq = 0 /\ Resting.item = NoItem /\ Resting.todo = {} /\ Resting.h = Null
BY DEF Resting

LEMMA PumpCopyDoes ==
  ASSUME TypeOK, PumpCopy
  PROVE  /\ pump.pc = "copy" /\ sSnapshot' = Nobody /\ sFd' = sFd /\ got' = got
         /\ \/ pump' = Resting /\ sent' = sSeq /\ \A s \in Slots : sFd[s] = NoFd
            \/ /\ pump'.pc = "check" /\ pump'.fds = sFd /\ pump'.snap = sSnapshot
               /\ pump'.newest = sSeq /\ pump'.item = Status /\ pump'.h = Null
               /\ pump'.todo = {s \in Slots : sFd[s] # NoFd}
               /\ sent' = sent
<1> DEFINE some == {s \in Slots : sFd[s] # NoFd}
<1>1. CASE some = {}
  BY <1>1 DEF PumpCopy
<1>2. CASE some # {}
  <2>1. /\ pump' = [Resting EXCEPT !.pc = "check", !.fds = sFd, !.snap = sSnapshot,
                                  !.newest = sSeq, !.item = Status, !.todo = some]
        /\ sent' = sent
    BY <1>2 DEF PumpCopy
  <2>2. Resting \in PumpState
    BY PumpType
  <2> HIDE DEF some
  <2>3. /\ pump'.pc = "check" /\ pump'.fds = sFd /\ pump'.snap = sSnapshot
        /\ pump'.newest = sSeq /\ pump'.item = Status /\ pump'.h = Null /\ pump'.todo = some
    BY <2>1, <2>2, RestingFields DEF PumpState
  <2> QED BY <2>1, <2>3 DEF PumpCopy, some
<1> QED BY <1>1, <1>2

(* A step of a pass that leaves the copy, the list and `sent' alone.       *)
LEMMA PassGoesOn ==
  ASSUME IInv, PassInv, Passing, SameCopy, UNCHANGED <<sSeq, listVars, sent>>,
         pump'.pc \in {"check", "look", "begin", "write", "drop", "next", "entry"},
         pump'.pc \in {"next", "entry"} => pump'.seq <= pump.newest + 1,
         Sending' => pump'.item \in {Status, pump'.seq},
         pump'.pc \in {"look", "begin", "write", "drop"} => pump'.todo # {},
         Sending' => \A s \in pump'.todo : pump.fds[s] # NoFd
  PROVE  PassInv'
BY DEF PassInv, Passing, Sending, SameCopy, listVars

LEMMA PumpPass ==
  ASSUME IInv, PassInv, CellInv, PumpTask PROVE PassInv' /\ CellInv'
<1> USE DEF PumpKeeps
<1>1. /\ HISTORY \in Nat \ {0} /\ sSeq \in Nat /\ sent \in Nat /\ pump.newest \in Nat
      /\ pump.seq \in Nat /\ TypeOK
  BY FeedAssumption, PumpType DEF IInv, FeedAssumption
<1>2. sHist' = sHist /\ sSeq' = sSeq /\ (lock' = lock \/ lock # "dispatch")
  BY DEF PumpTask, PumpWake, PumpOffline, PumpCopy, PumpItemDone, PumpSkip, PumpTakeEntry,
         PumpCopyEntry, PumpDone, SendCheck, SendLookup, SendBegin, SendWrite, PumpDrop, dispVars, IInv, PumpInv
<1>3. Cell(pump.seq)' = Cell(pump'.seq)
  BY DEF Cell
<1>4. \A c \in 0..HISTORY - 1 :
        lock' # "dispatch" \/ c # Cell(sSeq') => sHist'[c].body = sHist'[c].seq
  BY <1>2 DEF CellInv
<1>5. pump'.pc # "entry" => CellInv'
  BY <1>2, <1>4 DEF CellInv, Cell
<1>6. CASE PumpWake
  <2>1. SameCopy /\ ~Passing /\ ~Passing' /\ pump'.pc \in {"offline", "copy"}
        /\ UNCHANGED <<sent, sFd, sSnapshot, sSeq>>
    BY <1>1, <1>6, PumpWakeDoes DEF Passing, PumpWake, listVars, dispVars
  <2> QED BY <1>5, <2>1 DEF PassInv, Passing, Sending, SameCopy
<1>7. CASE PumpOffline \/ PumpDone
  <2>1. pump' = Resting /\ sent' \in {sSeq, pump.newest}
    BY <1>7 DEF PumpOffline, PumpDone
  <2>2. sent' <= sSeq /\ sent' \in Nat
    BY <1>1, <2>1 DEF PassInv
  <2> QED BY <1>1, <1>2, <1>5, <2>1, <2>2, RestingFields DEF PassInv, Passing, Sending, Free
<1>8. CASE PumpCopy
  <2>1. CASE pump' = Resting
    <3>1. sent' = sSeq \/ sent' = sent
      BY <1>1, <1>8, PumpCopyDoes
    <3> QED BY <1>1, <1>2, <1>5, <2>1, <3>1, RestingFields DEF PassInv, Passing, Sending, Free
  <2>2. CASE pump' # Resting
    <3>1. /\ pump'.pc = "check" /\ pump'.fds = sFd /\ pump'.newest = sSeq /\ pump'.item = Status
          /\ pump'.todo = {s \in Slots : sFd[s] # NoFd} /\ sent' = sent /\ sFd' = sFd
      BY <1>1, <1>8, <2>2, PumpCopyDoes
    <3>2. NoDuplicateSlots
      BY DEF IInv
    <3>3. \A s, t \in Slots : pump'.fds[s] = pump'.fds[t] /\ pump'.fds[s] # NoFd => s = t
      BY <3>1, <3>2 DEF NoDuplicateSlots
    <3>4. /\ \A s \in pump'.todo : pump'.fds[s] # NoFd
          /\ \A s \in Slots : pump'.fds[s] = sFd'[s]
      BY <3>1
    <3>5. sent' <= sSeq' /\ pump'.newest <= sSeq' /\ sent' <= pump'.newest
      BY <1>1, <1>2, <3>1 DEF PassInv
    <3>6. PassInv'
      BY <3>1, <3>3, <3>4, <3>5 DEF PassInv, Passing, Sending
    <3> QED BY <1>5, <3>1, <3>6
  <2> QED BY <2>1, <2>2
<1>9. CASE PumpItemDone
  <2>1. /\ SameCopy /\ pump.pc = "check" /\ pump'.pc = "next" /\ UNCHANGED <<sSeq, sFd, sSnapshot>>
        /\ pump'.seq = IF pump.item = Status THEN Oldest ELSE pump.seq + 1
    BY <1>1, <1>9, PumpItemDoneDoes DEF PumpItemDone, listVars, dispVars
  <2>2. sent' <= pump.newest /\ Oldest <= pump.newest + 1
    BY <1>1, <1>9, <2>1, OldestIs DEF PumpItemDone, PassInv, Passing, Larger
  <2>3. pump'.seq <= pump.newest + 1
    BY <1>1, <2>1, <2>2 DEF IInv, PumpInv
  <2>4. sent' <= sSeq
    <3>1. sent' \in Int
      BY <1>1, <1>9, OldestIs DEF PumpItemDone, Larger
    <3> QED BY <1>1, <2>2, <3>1 DEF PassInv
  <2> QED BY <1>5, <2>1, <2>2, <2>3, <2>4 DEF PassInv, Passing, Sending, SameCopy
<1>10. CASE PumpSkip
  <2>1. SameCopy /\ pump.pc = "next" /\ pump'.pc = "next" /\ pump'.seq = pump.seq + 1
        /\ pump.seq <= pump.newest /\ UNCHANGED <<sSeq, listVars, sent>>
    BY <1>1, <1>10, PumpSkipDoes DEF PumpSkip, dispVars
  <2>2. pump'.seq <= pump.newest + 1
    BY <1>1, <2>1
  <2> QED BY <1>5, <2>1, <2>2, PassGoesOn DEF Passing, Sending
<1>11. CASE PumpTakeEntry
  <2>1. SameCopy /\ pump.pc = "next" /\ pump'.pc = "entry" /\ pump'.seq = pump.seq
        /\ pump.seq <= pump.newest /\ pump'.item = sHist[Cell(pump.seq)].seq
        /\ UNCHANGED <<sSeq, listVars, sent>>
    BY <1>1, <1>11, PumpTakeEntryDoes DEF PumpTakeEntry, dispVars
  <2>2. pump'.seq <= pump.newest + 1
    BY <1>1, <2>1
  <2>3. CellInv'
    BY <1>2, <1>4, <2>1 DEF CellInv, Cell
  <2> QED BY <2>1, <2>2, <2>3, PassGoesOn DEF Passing, Sending
<1>12. CASE PumpCopyEntry
  <2>1. SameCopy /\ pump.pc = "entry" /\ UNCHANGED <<sSeq, listVars, sent>>
    BY <1>1, <1>12, PumpCopyEntryDoes DEF PumpCopyEntry, dispVars
  <2>2. pump.seq <= pump.newest /\ lock = "pump" /\ pump.seq \in Nat \ {0}
    BY <1>1, <2>1 DEF IInv, PumpInv
  <2>3. CASE pump.item = pump.seq
    <3>1. pump'.pc = "check" /\ pump'.todo = Wanting /\ pump'.seq = pump.seq
          /\ pump'.item = sHist[Cell(pump.seq)].body
      BY <1>1, <1>12, <2>3, PumpCopyEntryDoes
    <3>2. pump'.item = pump'.seq
      <4>1. Cell(pump.seq) \in 0..HISTORY - 1
        BY <2>2, CellType
      <4> QED BY <2>1, <2>2, <2>3, <3>1, <4>1 DEF CellInv
    <3> QED BY <1>5, <2>1, <3>1, <3>2, PassGoesOn DEF Passing, Sending, Wanting
  <2>4. CASE pump.item # pump.seq
    <3>1. pump'.pc = "next" /\ pump'.seq = pump.seq + 1
      BY <1>1, <1>12, <2>4, PumpCopyEntryDoes
    <3>2. pump'.seq <= pump.newest + 1
      BY <1>1, <2>2, <3>1
    <3> QED BY <1>5, <2>1, <3>1, <3>2, PassGoesOn DEF Passing, Sending
  <2> QED BY <2>3, <2>4
<1>13. CASE SendCheck
  <2>1. SameCopy /\ pump.pc = "check" /\ pump.todo # {} /\ pump'.pc = "look"
        /\ pump'.seq = pump.seq /\ pump'.item = pump.item /\ pump'.todo = pump.todo
        /\ UNCHANGED <<sSeq, listVars, sent>>
    BY <1>1, <1>13, SendCheckDoes DEF SendCheck, dispVars
  <2> QED BY <1>5, <2>1, PassGoesOn DEF Passing, Sending, PassInv
<1>17. CASE SendLookup
  <2>1. SameCopy /\ pump.pc = "look" /\ pump'.pc \in {"begin", "drop"}
        /\ pump'.seq = pump.seq /\ pump'.item = pump.item /\ pump'.todo = pump.todo
        /\ UNCHANGED <<sSeq, listVars, sent>>
    BY <1>1, <1>17, SendLookupDoes DEF SendLookup, dispVars
  <2> QED BY <1>5, <2>1, PassGoesOn DEF Passing, Sending, PassInv
<1>14. CASE SendBegin
  <2>1. SameCopy /\ pump.pc = "begin" /\ pump'.pc = "write"
        /\ pump'.seq = pump.seq /\ pump'.item = pump.item /\ pump'.todo = pump.todo
        /\ UNCHANGED <<sSeq, listVars, sent>>
    BY <1>1, <1>14, SendBeginDoes DEF SendBegin, dispVars
  <2> QED BY <1>5, <2>1, PassGoesOn DEF Passing, Sending, PassInv
<1>15. CASE SendWrite
  <2>1. SameCopy /\ pump.pc = "write" /\ pump'.pc \in {"check", "drop"}
        /\ pump'.seq = pump.seq /\ pump'.item = pump.item /\ pump'.todo \subseteq pump.todo
        /\ (pump'.pc = "drop" => pump'.todo = pump.todo)
        /\ UNCHANGED <<sSeq, listVars, sent>>
    BY <1>1, <1>15, SendWriteDoes DEF SendWrite, dispVars
  <2> QED BY <1>5, <2>1, PassGoesOn DEF Passing, Sending, PassInv
<1>16. CASE PumpDrop
  <2>1. /\ pump.pc = "drop" /\ pump'.pc = "check" /\ pump'.seq = pump.seq /\ pump'.item = pump.item
        /\ pump'.todo = pump.todo \ {Client} /\ pump'.newest = pump.newest
        /\ pump'.fds = [pump.fds EXCEPT ![Client] = NoFd] /\ ClientDrop(Fd) /\ sent' = sent
    BY <1>1, <1>16, PumpDropDoes DEF PumpDrop
  <2>2. /\ pump.fds \in [Slots -> FDs \cup {NoFd}] /\ pump.todo \subseteq Slots
        /\ Client \in Slots
    BY <1>1, <2>1, PumpType, ClientLeft DEF PumpState, PassInv
  <2>3. \A s \in Slots : pump'.fds[s] = IF s = Client THEN NoFd ELSE pump.fds[s]
    BY <2>1, <2>2
  <2>4. \A s \in Slots : /\ sFd'[s] = IF sFd[s] = Fd THEN NoFd ELSE sFd[s]
                         /\ sSnapshot'[s] <=> sFd[s] # Fd /\ sSnapshot[s]
    BY <2>1 DEF ClientDrop
  <2>5. \A s \in Slots : sFd'[s] # NoFd /\ ~sSnapshot'[s] => pump'.fds[s] = sFd'[s]
    <3> SUFFICES ASSUME NEW s \in Slots, sFd'[s] # NoFd, ~sSnapshot'[s]
                 PROVE  pump'.fds[s] = sFd'[s]
      OBVIOUS
    <3>1. sFd[s] # Fd /\ sFd'[s] = sFd[s] /\ ~sSnapshot[s]
      BY <2>4
    <3>2. pump.fds[s] = sFd[s]
      BY <2>1, <3>1 DEF PassInv, Passing
    <3>3. s # Client
      BY <3>1, <3>2 DEF Fd
    <3> QED BY <2>3, <3>1, <3>2, <3>3
  <2>6. \A s \in pump'.todo : pump'.fds[s] # NoFd
    BY <2>1, <2>2, <2>3 DEF PassInv, Sending
  <2>7. \A s, t \in Slots : pump'.fds[s] = pump'.fds[t] /\ pump'.fds[s] # NoFd => s = t
    BY <2>3 DEF PassInv
  <2>8. sent <= sSeq /\ pump.newest <= sSeq /\ sent <= pump.newest /\ pump.item \in {Status, pump.seq}
    BY <2>1 DEF PassInv, Passing, Sending
  <2> QED BY <1>2, <1>5, <2>1, <2>5, <2>6, <2>7, <2>8 DEF PassInv, Passing, Sending
<1> QED BY <1>6, <1>7, <1>8, <1>9, <1>10, <1>11, <1>12, <1>13, <1>14, <1>15, <1>16, <1>17 DEF PumpTask

-----------------------------------------------------------------------------
(* Connections and the server they belong to. *)

ConnInv ==
  /\ \A d, e \in FDs : conn[d] = conn[e] /\ conn[d] # NoConn => d = e
  /\ \A d \in FDs : conn[d] # NoConn => kind[conn[d]] \in {"http", "ws"}
  /\ \A c \in Conns : kind[c] = "none" => Fresh(c) /\ c \notin clean
  /\ \A c \in Conns : kind[c] = "http" => \E d \in FDs : conn[d] = c

(* Until a server has its routes, what it accepts stays plain HTTP.        *)
ServerInv ==
  /\ evPc = "offline" <=> live = Null
  /\ live = Null => \A d \in FDs : conn[d] = NoConn
  /\ evPc \in {"offline", "attach", "routes"} =>
       /\ ~routes /\ httpd = <<"idle", NoFd>>
       /\ \A d \in FDs : conn[d] # NoConn => kind[conn[d]] = "http"

LEMMA ConnTypes ==
  ASSUME TypeOK
  PROVE  /\ conn \in [FDs -> 0..MaxConns] /\ MaxConns \in Nat /\ clean \subseteq Conns
         /\ \A d \in FDs : conn[d] # NoConn => conn[d] \in Conns
         /\ \A d \in FDs : conn[d] \in clean => conn[d] \in Conns /\ conn[d] # NoConn
         /\ 0 \notin Conns /\ Conns \subseteq Nat
         /\ kind \in [Conns -> {"none", "http", "ws", "closed"}]
         /\ NoFd \notin FDs
<1>1. MaxConns \in Nat /\ FDs \subseteq Nat
  BY FeedAssumption DEF FeedAssumption
<1> QED BY <1>1 DEF TypeOK, Conns, NoConn, NoFd

LEMMA CloseFdConn ==
  ASSUME TypeOK, ConnInv, NEW fd \in FDs, conn[fd] # NoConn, CloseFd(fd), UNCHANGED <<got, clean>>
  PROVE  /\ ConnInv'
         /\ \A d \in FDs : conn'[d] # NoConn => conn'[d] = conn[d] /\ kind'[conn[d]] = kind[conn[d]]
<1>1. /\ \A d \in FDs : conn'[d] = IF d = fd THEN NoConn ELSE conn[d]
      /\ \A c \in Conns : kind'[c] = IF c = conn[fd] THEN "closed" ELSE kind[c]
      /\ conn[fd] \in Conns
  BY ConnTypes DEF CloseFd
<1>2. \A d \in FDs : conn'[d] # NoConn => conn'[d] = conn[d] /\ conn[d] \in Conns /\ conn[d] # conn[fd]
  BY <1>1, ConnTypes DEF ConnInv
<1>3. \A d \in FDs : conn'[d] # NoConn => kind'[conn[d]] = kind[conn[d]]
  BY <1>1, <1>2
<1>4. \A c \in Conns : kind'[c] = "http" => \E d \in FDs : conn'[d] = c
  BY <1>1 DEF ConnInv
<1>5. \A c \in Conns : kind'[c] = "none" => Fresh(c)' /\ c \notin clean'
  BY <1>1 DEF ConnInv, Fresh
<1> QED BY <1>1, <1>2, <1>3, <1>4, <1>5 DEF ConnInv

LEMMA HttpdConn ==
  ASSUME IInv, ConnInv, ServerInv, Httpd PROVE ConnInv' /\ ServerInv'
<1>1. TypeOK /\ UNCHANGED <<got, live, evPc, routes>>
  BY DEF Httpd, WsGet, Accept, Upgrade, WsGetFails, Close, WsGetHandshake, WsGetDrops,
         pumpVars, srvVars, IInv
<1>2. ASSUME NEW fd \in FDs, NEW c \in Conns, Accept(fd, c) PROVE ConnInv' /\ ServerInv'
  <2>1. /\ live # Null /\ conn[fd] = NoConn /\ kind[c] = "none" /\ httpd' = httpd
        /\ clean' \subseteq clean \cup {c}
        /\ \A d \in FDs : conn'[d] = IF d = fd THEN c ELSE conn[d]
        /\ \A b \in Conns : kind'[b] = IF b = c THEN "http" ELSE kind[b]
    BY <1>1, <1>2, ConnTypes DEF Accept, HttpdIdle
  <2>2. \A d \in FDs : conn[d] # c /\ (conn[d] # NoConn => kind'[conn[d]] = kind[conn[d]])
    <3>1. \A d \in FDs : conn[d] # NoConn => conn[d] \in Conns /\ kind[conn[d]] # "none"
      BY <1>1, ConnTypes DEF ConnInv
    <3>2. c # NoConn
      BY <1>1, ConnTypes DEF NoConn
    <3> QED BY <2>1, <3>1, <3>2
  <2>3. ServerInv'
    BY <1>1, <2>1, <2>2 DEF ServerInv
  <2>4. \A b \in Conns : kind'[b] = "http" => \E d \in FDs : conn'[d] = b
    <3>1. ASSUME NEW b \in Conns, b # c, kind[b] = "http" PROVE \E d \in FDs : conn'[d] = b
      <4>1. PICK d \in FDs : conn[d] = b
        BY <3>1 DEF ConnInv
      <4> QED BY <1>1, <2>1, <3>1, <4>1, ConnTypes DEF NoConn
    <3> QED BY <2>1, <3>1
  <2> QED BY <1>1, <2>1, <2>2, <2>3, <2>4 DEF ConnInv, Fresh
<1>3. ASSUME NEW fd \in FDs, Upgrade(fd) PROVE ConnInv' /\ ServerInv'
  <2>1. /\ routes /\ UNCHANGED <<conn, clean>> /\ conn[fd] \in Conns
        /\ \A b \in Conns : kind'[b] = IF b = conn[fd] THEN "ws" ELSE kind[b]
    BY <1>1, <1>3, ConnTypes DEF Upgrade
  <2>2. ServerInv'
    BY <1>1, <2>1, ConnTypes DEF ServerInv
  <2> QED BY <1>1, <2>1, <2>2, ConnTypes DEF ConnInv, Fresh
<1>4. ASSUME NEW fd \in FDs, WsGetFails(fd) PROVE ConnInv' /\ ServerInv'
  <2>1. UNCHANGED <<conn, kind, clean>> /\ conn[fd] # NoConn /\ kind[conn[fd]] = "ws"
    BY <1>4 DEF WsGetFails
  <2> QED BY <1>1, <2>1 DEF ConnInv, ServerInv, Fresh
<1>5. ASSUME NEW fd \in FDs, Close(fd) PROVE ConnInv' /\ ServerInv'
  <2>1. CloseFd(fd) /\ conn[fd] # NoConn /\ httpd' = httpd /\ clean' = clean /\ live # Null
    BY <1>5 DEF Close, HttpdIdle
  <2> QED BY <1>1, <2>1, CloseFdConn DEF ServerInv
<1>6. ASSUME NEW fd \in FDs, WsGetHandshake(fd) PROVE ConnInv' /\ ServerInv'
  <2>1. UNCHANGED <<conn, kind, clean>> /\ httpd' = <<"idle", NoFd>>
    BY <1>6 DEF WsGetHandshake
  <2> QED BY <1>1, <2>1 DEF ConnInv, ServerInv, Fresh
<1>7. ASSUME NEW fd \in FDs, WsGetDrops(fd) PROVE ConnInv' /\ ServerInv'
  <2>1. CloseFd(fd) /\ httpd' = <<"idle", NoFd>> /\ clean' = clean /\ httpd = <<"drop", fd>>
    BY <1>7 DEF WsGetDrops
  <2>2. live # Null
    BY <2>1 DEF ServerInv
  <2>3. CASE conn[fd] # NoConn
    BY <1>1, <2>1, <2>2, <2>3, CloseFdConn DEF ServerInv
  <2>4. CASE conn[fd] = NoConn
    <3>1. conn' = conn /\ kind' = kind
      BY <1>1, <2>1, <2>4, ConnTypes DEF CloseFd, NoConn
    <3> QED BY <1>1, <2>1, <2>2, <3>1 DEF ConnInv, ServerInv, Fresh
  <2> QED BY <2>3, <2>4
<1> QED BY <1>2, <1>3, <1>4, <1>5, <1>6, <1>7 DEF Httpd, WsGet

LEMMA OtaConn ==
  ASSUME IInv, ConnInv, ServerInv, OtaSetOnline PROVE ConnInv' /\ ServerInv'
<1>1. TypeOK /\ UNCHANGED <<got, httpd, clean>>
  BY DEF OtaSetOnline, StartServer, Attach, RegisterRoutes, Detach, ClearClients, StopServer,
         pumpVars, connVars, IInv
<1>2. CASE StopServer
  <2>1. /\ \A d \in FDs : conn'[d] = NoConn /\ HttpdIdle
        /\ \A c \in Conns : kind'[c] = IF kind[c] = "none" THEN "none" ELSE "closed"
        /\ live' = Null /\ ~routes' /\ evPc' = "offline"
    BY <1>2 DEF StopServer
  <2>2. httpd = <<"idle", NoFd>>
    BY <1>1, <2>1 DEF HttpdIdle, TypeOK
  <2> QED BY <1>1, <2>1, <2>2 DEF ConnInv, ServerInv, Fresh
<1>3. CASE StartServer
  <2>1. /\ UNCHANGED <<conn, kind, routes>> /\ live' = starts + 1 /\ evPc = "offline"
        /\ evPc' = "attach" /\ starts \in Nat
    BY <1>1, <1>3, FeedAssumption DEF StartServer, connVars, TypeOK, FeedAssumption
  <2> QED BY <1>1, <2>1 DEF ConnInv, ServerInv, Fresh, Null
<1>4. CASE Attach \/ RegisterRoutes \/ Detach \/ ClearClients
  <2>1. UNCHANGED <<conn, kind, live>>
    BY <1>4 DEF Attach, RegisterRoutes, Detach, ClearClients, connVars
  <2>2. \/ evPc = "attach" /\ evPc' \in {"routes", "online"} /\ routes' = routes
        \/ evPc = "routes" /\ evPc' = "online"
        \/ evPc \in {"online", "clear"} /\ evPc' \in {"clear", "stop"}
    BY <1>4 DEF Attach, RegisterRoutes, Detach, ClearClients
  <2> QED BY <1>1, <2>1, <2>2 DEF ConnInv, ServerInv, Fresh
<1> QED BY <1>2, <1>3, <1>4 DEF OtaSetOnline

LEMMA OtherConn ==
  ASSUME IInv, PassInv, ConnInv, ServerInv, WebOnMessage \/ PumpTask PROVE ConnInv' /\ ServerInv'
<1>1. TypeOK /\ UNCHANGED <<conn, kind, httpd, clean, live, evPc, routes>>
  BY DEF IInv, WebOnMessage, RecordSeq, RecordBody, PumpTask, PumpWake, PumpOffline, PumpCopy,
         PumpItemDone, PumpSkip, PumpTakeEntry, PumpCopyEntry, PumpDone, SendCheck, SendLookup, SendBegin,
         SendWrite, PumpDrop, PumpKeeps, connVars, srvVars
<1>2. \A c \in Conns : kind[c] = "none" => got'[c] = got[c]
  <2>1. CASE SendWrite
    <3>1. CASE got' = got
      BY <3>1
    <3>2. CASE got' = Sent(conn[Fd], pump.item) /\ conn[Fd] # NoConn /\ pump.pc = "write"
      <4>1. Fd \in FDs
        <5>1. Client \in pump.todo /\ Client \in Slots /\ pump.fds[Client] # NoFd
          BY <1>1, <3>2, ClientLeft DEF PassInv, Sending
        <5> QED BY <1>1, <5>1, PumpType DEF Fd, PumpState
      <4>2. kind[conn[Fd]] # "none"
        BY <3>2, <4>1 DEF ConnInv
      <4> QED BY <1>1, <3>2, <4>2, PumpType DEF Sent
    <3> QED BY <1>1, <2>1, <3>1, <3>2, SendWriteDoes
  <2>2. CASE UNCHANGED got
    BY <2>2
  <2> QED BY <2>1, <2>2 DEF WebOnMessage, RecordSeq, RecordBody, PumpTask, PumpWake, PumpOffline,
         PumpCopy, PumpItemDone, PumpSkip, PumpTakeEntry, PumpCopyEntry, PumpDone, SendCheck, SendLookup,
         SendBegin, PumpDrop, PumpKeeps, pumpVars
<1> QED BY <1>1, <1>2 DEF ConnInv, ServerInv, Fresh

-----------------------------------------------------------------------------
(* What the browser on each descriptor has been sent. *)

(* In the pass under way s is still owed its first status.                 *)
Pending(s) == Sending /\ pump.item = Status /\ s \in pump.todo /\ pump.snap[s]

(* Up to where the pass has served s.                                      *)
Done(s) ==
  LET n == IF ~Sending THEN pump.seq - 1
           ELSE IF pump.item = Status THEN 0
           ELSE IF s \in pump.todo THEN pump.seq - 1 ELSE pump.seq
  IN  IF pump.snap[s] THEN n ELSE Larger(sent, n)

(* c was sent something, and nothing beyond n; all that could be up to n.  *)
Upto(c, n) == ~Fresh(c) /\ \A i \in DOMAIN got[c] : got[c][i] <= n
Complete(c, n) == \A m \in 1..n : m \in Items(c) \/ m <= sSeq - HISTORY

(* With no server nothing is sent but what is being written.               *)
Reachable == sServer # Null \/ (pump.pc = "write" /\ pump.h # Null)

NewOk(d) ==
  /\ kind[conn[d]] = "http" => Fresh(conn[d]) /\ ~Listed(d)
  /\ httpd = <<"add", d>> => kind[conn[d]] = "ws" /\ Fresh(conn[d]) /\ ~Listed(d)
  /\ \A s \in Slots : sFd[s] = d /\ sSnapshot[s] =>
       Fresh(conn[d]) /\ \A t \in Slots : pump.fds[t] # d

SeenOk(d) ==
  /\ ~Passing => \A s \in Slots : sFd[s] = d /\ ~sSnapshot[s] => Upto(conn[d], sent)
  /\ \A s \in Slots : pump.fds[s] = d =>
       IF Pending(s) THEN Fresh(conn[d]) ELSE Upto(conn[d], Done(s))

GapOk(d) ==
  Reachable =>
    /\ ~Passing => \A s \in Slots : sFd[s] = d /\ ~sSnapshot[s] =>
         pump.pc # "offline" /\ Complete(conn[d], sent)
    /\ \A s \in Slots : pump.fds[s] = d => Pending(s) \/ Complete(conn[d], Done(s))

FedOk(d) == conn[d] \in clean => NewOk(d) /\ SeenOk(d) /\ GapOk(d)
FedInv == \A d \in FDs : FedOk(d)

AllInv == IInv /\ PassInv /\ WantInv /\ CellInv /\ ConnInv /\ ServerInv /\ FedInv

(* What others do leaves a browser where it was, unless it is about its    *)
(* descriptor.                                                             *)
LEMMA FedKeeps ==
  ASSUME AllInv, NEW d \in FDs, UNCHANGED pumpVars,
         sSeq' \in Int, sSeq <= sSeq', conn[d] \in clean, conn'[d] = conn[d],
         kind'[conn[d]] = kind[conn[d]],
         httpd' = <<"add", d>> => httpd = <<"add", d>>,
         \A s \in Slots : sFd'[s] = d => sFd[s] = d /\ sSnapshot'[s] = sSnapshot[s],
         Reachable' => Reachable
  PROVE  FedOk(d)'
<1>1. NewOk(d) /\ SeenOk(d) /\ GapOk(d) /\ sSeq \in Int /\ HISTORY \in Int
  BY PumpType DEF AllInv, FedInv, FedOk, IInv
<1>2. Listed(d)' => Listed(d)
  BY DEF Listed, pumpVars
<1>3. /\ Fresh(conn[d])' <=> Fresh(conn[d])
      /\ \A s \in Slots : Pending(s)' <=> Pending(s)
      /\ \A s \in Slots : Done(s)' = Done(s)
      /\ \A n : Upto(conn[d], n)' <=> Upto(conn[d], n)
      /\ Passing' <=> Passing
  BY DEF Fresh, Pending, Done, Upto, Passing, Sending, pumpVars
<1>4. \A n : Complete(conn[d], n) => Complete(conn[d], n)'
  <2>1. Items(conn[d])' = Items(conn[d])
    BY DEF Items, pumpVars
  <2> QED BY <1>1, <2>1 DEF Complete
<1>5. NewOk(d)'
  BY <1>1, <1>2, <1>3 DEF NewOk, pumpVars
<1>6. SeenOk(d)'
  BY <1>1, <1>3 DEF SeenOk, pumpVars
<1>7. GapOk(d)'
  BY <1>1, <1>3, <1>4 DEF GapOk, pumpVars
<1> QED BY <1>5, <1>6, <1>7 DEF FedOk

LEMMA ListTypes ==
  ASSUME TypeOK
  PROVE  /\ sFd \in [Slots -> FDs \cup {NoFd}] /\ sSnapshot \in [Slots -> BOOLEAN]
         /\ httpd \in {<<"idle", NoFd>>} \cup ({"add", "drop"} \X FDs)
BY DEF TypeOK

(* A descriptor nobody lists, with a connection that was sent nothing.     *)
LEMMA NewcomerOk ==
  ASSUME NEW d \in FDs, ~Listed(d)', Fresh(conn[d])', httpd' = <<"add", d>> => kind'[conn'[d]] = "ws"
  PROVE  FedOk(d)'
<1>1. \A s \in Slots : sFd'[s] # d /\ pump'.fds[s] # d
  BY DEF Listed
<1>2. NewOk(d)'
  BY <1>1 DEF NewOk
<1>3. SeenOk(d)' /\ GapOk(d)'
  BY <1>1 DEF SeenOk, GapOk
<1> QED BY <1>2, <1>3 DEF FedOk

LEMMA FedAccept ==
  ASSUME AllInv, NEW fd \in FDs, NEW c \in Conns, Accept(fd, c), NEW d \in FDs PROVE FedOk(d)'
<1> SUFFICES ASSUME conn'[d] \in clean' PROVE FedOk(d)'
  BY DEF FedOk
<1>1. /\ TypeOK /\ UNCHANGED <<pumpVars, sSeq, sServer, sFd, sSnapshot, httpd>> /\ httpd[1] = "idle"
      /\ conn[fd] = NoConn /\ kind[c] = "none" /\ c \notin clean /\ Fresh(c)
      /\ (clean' = clean \/ (clean' = clean \cup {c} /\ ~Listed(fd)))
      /\ conn' = [conn EXCEPT ![fd] = c] /\ kind' = [kind EXCEPT ![c] = "http"]
  BY DEF Accept, HttpdIdle, dispVars, listVars, srvVars, AllInv, IInv, ConnInv
<1>2. CASE d = fd
  <2>1. conn'[d] = c /\ ~Listed(d)
    BY <1>1, <1>2, ConnTypes
  <2>2. ~Listed(d)' /\ Fresh(conn[d])' /\ httpd' # <<"add", d>>
    BY <1>1, <2>1 DEF Listed, Fresh, pumpVars
  <2> QED BY <2>2, NewcomerOk
<1>3. CASE d # fd
  <2>1. conn'[d] = conn[d]
    BY <1>1, <1>3, ConnTypes
  <2>2. conn[d] # c
    <3>1. conn[d] # NoConn => kind[conn[d]] # "none"
      BY DEF AllInv, ConnInv
    <3>2. c # NoConn
      BY <1>1, ConnTypes DEF NoConn
    <3> QED BY <1>1, <3>1, <3>2
  <2>3. conn[d] \in clean
    BY <1>1, <2>1, <2>2
  <2>4. kind'[conn[d]] = kind[conn[d]]
    BY <1>1, <2>2, <2>3, ConnTypes
  <2> QED BY <1>1, <2>1, <2>3, <2>4, FedKeeps, PumpType DEF Reachable, pumpVars
<1> QED BY <1>2, <1>3

LEMMA FedUpgrade ==
  ASSUME AllInv, NEW fd \in FDs, Upgrade(fd), NEW d \in FDs PROVE FedOk(d)'
<1> SUFFICES ASSUME conn'[d] \in clean' PROVE FedOk(d)'
  BY DEF FedOk
<1>1. /\ TypeOK /\ UNCHANGED <<pumpVars, sSeq, sServer, sFd, sSnapshot, conn, clean>>
      /\ conn[fd] # NoConn /\ kind[conn[fd]] = "http" /\ httpd' = <<"add", fd>>
      /\ kind' = [kind EXCEPT ![conn[fd]] = "ws"]
  BY DEF Upgrade, dispVars, listVars, srvVars, AllInv, IInv
<1>2. CASE d = fd
  <2>1. Fresh(conn[d]) /\ ~Listed(d)
    BY <1>1, <1>2 DEF AllInv, FedInv, FedOk, NewOk
  <2>2. ~Listed(d)' /\ Fresh(conn[d])' /\ kind'[conn'[d]] = "ws"
    BY <1>1, <1>2, <2>1, ConnTypes DEF Listed, Fresh, pumpVars
  <2> QED BY <2>2, NewcomerOk
<1>3. CASE d # fd
  <2>1. kind'[conn[d]] = kind[conn[d]]
    BY <1>1, <1>3, ConnTypes DEF AllInv, ConnInv
  <2>2. httpd' # <<"add", d>>
    BY <1>1, <1>3
  <2> QED BY <1>1, <2>1, <2>2, FedKeeps, PumpType DEF Reachable, pumpVars
<1> QED BY <1>2, <1>3

LEMMA FedHandshake ==
  ASSUME AllInv, NEW fd \in FDs, WsGetHandshake(fd), NEW d \in FDs PROVE FedOk(d)'
<1> SUFFICES ASSUME conn'[d] \in clean' PROVE FedOk(d)'
  BY DEF FedOk
<1>1. /\ TypeOK /\ UNCHANGED <<pumpVars, sSeq, sServer, conn, kind, clean>>
      /\ httpd = <<"add", fd>> /\ httpd' = <<"idle", NoFd>> /\ ClientAdd(fd)
  BY DEF WsGetHandshake, dispVars, srvVars, AllInv, IInv
<1>2. \A s \in Slots : /\ sFd'[s] = IF s \in AddTo(fd) THEN fd ELSE sFd[s]
                       /\ sSnapshot'[s] <=> s \in AddTo(fd) \/ sSnapshot[s]
  BY <1>1 DEF ClientAdd
<1>3. CASE d = fd
  <2>1. kind[conn[d]] = "ws" /\ Fresh(conn[d]) /\ ~Listed(d)
    BY <1>1, <1>3 DEF AllInv, FedInv, FedOk, NewOk
  <2>2. \A s \in Slots : pump'.fds[s] # d /\ (sFd'[s] = d => sSnapshot'[s])
    BY <1>1, <1>2, <2>1 DEF Listed, pumpVars
  <2>3. kind'[conn'[d]] = "ws" /\ Fresh(conn[d])' /\ httpd' # <<"add", d>>
    BY <1>1, <2>1 DEF Fresh, pumpVars
  <2>4. NewOk(d)' /\ SeenOk(d)' /\ GapOk(d)'
    BY <2>2, <2>3 DEF NewOk, SeenOk, GapOk
  <2> QED BY <2>4 DEF FedOk
<1>4. CASE d # fd
  <2>1. \A s \in Slots : sFd'[s] = d => sFd[s] = d /\ (sSnapshot'[s] <=> sSnapshot[s])
    BY <1>2, <1>4
  <2>2. \A s \in Slots : sFd'[s] = d => sSnapshot'[s] = sSnapshot[s]
    <3>1. sSnapshot' \in [Slots -> BOOLEAN] /\ sSnapshot \in [Slots -> BOOLEAN]
      BY <1>1, ListTypes, ClientAddKeeps DEF AllInv, IInv
    <3> QED BY <2>1, <3>1
  <2> QED BY <1>1, <2>1, <2>2, FedKeeps, PumpType DEF Reachable, pumpVars
<1> QED BY <1>3, <1>4

(* A browser that is not the one whose connection is closed or whose       *)
(* descriptor is dropped.                                                  *)
LEMMA FedOthers ==
  ASSUME AllInv, NEW d \in FDs, UNCHANGED <<pumpVars, clean>>, sSeq' = sSeq, sServer' \in {sServer, Null},
         conn'[d] # NoConn => conn'[d] = conn[d] /\ kind'[conn[d]] = kind[conn[d]],
         httpd' = <<"add", d>> => httpd = <<"add", d>>,
         listVars' = listVars \/ (\E fd \in FDs : ClientDrop(fd)) \/ sFd' = Free
  PROVE  FedOk(d)'
<1> SUFFICES ASSUME conn'[d] \in clean' PROVE FedOk(d)'
  BY DEF FedOk
<1>1. TypeOK /\ conn'[d] \in Conns
  BY ConnTypes DEF AllInv, IInv
<1>2. conn'[d] # NoConn
  BY <1>1, ConnTypes DEF NoConn
<1>3. \A s \in Slots : sFd'[s] = d => sFd[s] = d /\ sSnapshot'[s] = sSnapshot[s]
  <2>1. CASE listVars' = listVars
    BY <2>1 DEF listVars
  <2>2. CASE \E fd \in FDs : ClientDrop(fd)
    <3>1. PICK fd \in FDs : ClientDrop(fd)
      BY <2>2
    <3>2. \A s \in Slots : /\ sFd'[s] = IF sFd[s] = fd THEN NoFd ELSE sFd[s]
                           /\ sSnapshot'[s] <=> sFd[s] # fd /\ sSnapshot[s]
      BY <3>1 DEF ClientDrop
    <3>3. sSnapshot' \in [Slots -> BOOLEAN] /\ sSnapshot \in [Slots -> BOOLEAN]
      BY <1>1, <3>1, ListTypes, ClientDropKeeps DEF AllInv, IInv
    <3> QED BY <1>1, <3>2, <3>3, ConnTypes
  <2>3. CASE sFd' = Free
    BY <1>1, <2>3, ConnTypes DEF Free
  <2> QED BY <2>1, <2>2, <2>3
<1>4. Reachable' => Reachable
  BY DEF Reachable, pumpVars
<1>5. conn'[d] = conn[d] /\ kind'[conn[d]] = kind[conn[d]]
  BY <1>2
<1>6. conn[d] \in clean
  BY <1>5
<1>7. sSeq' \in Int /\ sSeq <= sSeq'
  <2>1. sSeq \in 0..MaxFrames /\ MaxFrames \in Nat
    BY <1>1, PumpType
  <2> QED BY <2>1
<1> HIDE DEF AllInv
<1> QED BY <1>3, <1>4, <1>5, <1>6, <1>7, FedKeeps

LEMMA FedHttpd ==
  ASSUME AllInv, Httpd, NEW d \in FDs PROVE FedOk(d)'
<1>1. TypeOK /\ ConnInv
  BY DEF AllInv, IInv
<1>2. ASSUME NEW fd \in FDs, WsGetFails(fd) PROVE FedOk(d)'
  BY <1>2, FedOthers DEF WsGetFails, dispVars, srvVars
<1>3. ASSUME NEW fd \in FDs, Close(fd) PROVE FedOk(d)'
  <2>1. /\ CloseFd(fd) /\ conn[fd] # NoConn
        /\ UNCHANGED <<clean, got, pumpVars, listVars, sSeq, sServer, httpd>>
    BY <1>3 DEF Close, dispVars, srvVars, pumpVars
  <2> QED BY <1>1, <2>1, CloseFdConn, FedOthers
<1>4. ASSUME NEW fd \in FDs, WsGetDrops(fd) PROVE FedOk(d)'
  <2>1. /\ CloseFd(fd) /\ ClientDrop(fd) /\ httpd' = <<"idle", NoFd>>
        /\ UNCHANGED <<clean, got, pumpVars, sSeq, sServer>>
    BY <1>4 DEF WsGetDrops, dispVars, srvVars, pumpVars
  <2>2. conn'[d] # NoConn => conn'[d] = conn[d] /\ kind'[conn[d]] = kind[conn[d]]
    <3>1. CASE conn[fd] # NoConn
      BY <1>1, <2>1, <3>1, CloseFdConn
    <3>2. CASE conn[fd] = NoConn
      BY <1>1, <2>1, <3>2, ConnTypes DEF CloseFd, NoConn
    <3> QED BY <3>1, <3>2
  <2>3. httpd' # <<"add", d>>
    BY <2>1
  <2> QED BY <2>1, <2>2, <2>3, FedOthers
<1> QED BY <1>2, <1>3, <1>4, FedAccept, FedUpgrade, FedHandshake DEF Httpd, WsGet

LEMMA FedOta ==
  ASSUME AllInv, OtaSetOnline, NEW d \in FDs PROVE FedOk(d)'
<1>1. UNCHANGED <<pumpVars, clean, httpd, sSeq>> /\ TypeOK
  BY DEF OtaSetOnline, StartServer, Attach, RegisterRoutes, Detach, ClearClients, StopServer,
         connVars, dispVars, AllInv, IInv
<1>2. CASE StopServer
  <2>1. conn'[d] = NoConn
    BY <1>2 DEF StopServer
  <2> QED BY <1>1, <2>1, ConnTypes DEF FedOk, NoConn
<1>3. CASE Attach
  <2>1. evPc = "attach" /\ UNCHANGED <<conn, kind, listVars>>
    BY <1>3 DEF Attach, connVars
  <2> SUFFICES ASSUME conn[d] \in clean PROVE FedOk(d)'
    BY <1>1, <2>1 DEF FedOk
  <2>2. kind[conn[d]] = "http" /\ httpd = <<"idle", NoFd>>
    BY <1>1, <2>1, ConnTypes DEF AllInv, ServerInv
  <2>3. Fresh(conn[d]) /\ ~Listed(d)
    BY <2>2 DEF AllInv, FedInv, FedOk, NewOk
  <2>4. Fresh(conn[d])' /\ ~Listed(d)' /\ httpd' # <<"add", d>>
    BY <1>1, <2>1, <2>2, <2>3 DEF Fresh, Listed, listVars, pumpVars
  <2> QED BY <2>4, NewcomerOk
<1>4. CASE StartServer \/ RegisterRoutes \/ Detach \/ ClearClients
  <2>1. /\ UNCHANGED <<conn, kind>> /\ sServer' \in {sServer, Null}
        /\ listVars' = listVars \/ sFd' = Free
    BY <1>4 DEF StartServer, RegisterRoutes, Detach, ClearClients, connVars
  <2> QED BY <1>1, <2>1, FedOthers
<1> QED BY <1>2, <1>3, <1>4 DEF OtaSetOnline

LEMMA FedDispatch ==
  ASSUME AllInv, WebOnMessage, NEW d \in FDs PROVE FedOk(d)'
<1> SUFFICES ASSUME conn'[d] \in clean' PROVE FedOk(d)'
  BY DEF FedOk
<1>1. /\ UNCHANGED <<pumpVars, clean, httpd, conn, kind, sFd, sSnapshot, sServer>>
      /\ sSeq' \in {sSeq, sSeq + 1}
  BY DEF WebOnMessage, RecordSeq, RecordBody, connVars, listVars, srvVars
<1>2. sSeq \in Int
  BY PumpType DEF AllInv, IInv
<1>3. sSeq' \in Int /\ sSeq <= sSeq'
  BY <1>1, <1>2
<1>4. Reachable' => Reachable
  BY <1>1 DEF Reachable, pumpVars
<1> QED BY <1>1, <1>3, <1>4, FedKeeps

-----------------------------------------------------------------------------
(* The pump's own steps. *)

LEMMA WantKeeps ==
  ASSUME IInv, PassInv, WantInv, Next PROVE WantInv'
<1>1. TypeOK
  BY DEF IInv
<1>2. CASE WebOnMessage \/ Httpd \/ OtaSetOnline
  <2>1. UNCHANGED pumpVars
    BY <1>2 DEF WebOnMessage, RecordSeq, RecordBody,
       Httpd, WsGet, Accept, Upgrade, WsGetFails, Close, WsGetHandshake, WsGetDrops,
       OtaSetOnline, StartServer, Attach, RegisterRoutes, Detach, ClearClients, StopServer
  <2> QED BY <2>1 DEF WantInv, Sending, pumpVars
<1>3. CASE PumpWake \/ PumpOffline \/ PumpItemDone \/ PumpSkip \/ PumpTakeEntry \/ PumpDone
  <2>1. ~Sending'
    BY <1>1, <1>3, PumpWakeDoes, PumpItemDoneDoes, PumpSkipDoes, PumpTakeEntryDoes, RestingFields
       DEF PumpOffline, PumpDone, Sending
  <2> QED BY <2>1 DEF WantInv
<1>4. CASE PumpCopy
  <2>1. ~Sending' \/ pump'.item = Status
    BY <1>1, <1>4, PumpCopyDoes, RestingFields DEF Sending
  <2> QED BY <2>1 DEF WantInv
<1>5. CASE PumpCopyEntry
  <2>1. CASE pump.item = pump.seq
    <3>1. pump'.todo = Wanting /\ pump'.seq = pump.seq /\ SameCopy /\ sent' = sent
      BY <1>1, <1>5, <2>1, PumpCopyEntryDoes DEF PumpCopyEntry
    <3> QED BY <3>1 DEF WantInv, Wanting, SameCopy
  <2>2. CASE pump.item # pump.seq
    <3>1. ~Sending'
      BY <1>1, <1>5, <2>2, PumpCopyEntryDoes DEF Sending
    <3> QED BY <3>1 DEF WantInv
  <2> QED BY <2>1, <2>2
<1>6. CASE SendCheck \/ SendLookup \/ SendBegin \/ SendWrite \/ PumpDrop
  <2>1. /\ Sending /\ pump'.item = pump.item /\ pump'.seq = pump.seq /\ pump'.snap = pump.snap
        /\ pump'.todo \subseteq pump.todo /\ sent' = sent
    BY <1>1, <1>6, SendCheckDoes, SendLookupDoes, SendBeginDoes, SendWriteDoes, PumpDropDoes
       DEF Sending, SameCopy, SendCheck, SendLookup, SendBegin, SendWrite, PumpDrop
  <2> QED BY <2>1 DEF WantInv
<1> QED BY <1>2, <1>3, <1>4, <1>5, <1>6 DEF Next, PumpTask

LEMMA Elements ==
  ASSUME NEW S, NEW q \in Seq(S)
  PROVE  \A i \in DOMAIN q : q[i] \in S
OBVIOUS

(* A pass that goes on: what a browser was sent is unchanged, and what it  *)
(* now counts as having been sent is only overwritten frames more.         *)
LEMMA PassSteady ==
  ASSUME AllInv, NEW d \in FDs, conn[d] \in clean,
         UNCHANGED <<conn, kind, httpd, sSeq>>, got'[conn[d]] = got[conn[d]],
         Passing', Reachable' => Reachable,
         \A s \in Slots : sFd'[s] = d => sFd[s] = d /\ (sSnapshot'[s] => sSnapshot[s]),
         \A s \in Slots : pump'.fds[s] = d =>
            /\ pump.fds[s] = d /\ (Pending(s)' <=> Pending(s))
            /\ Done(s) \in Int /\ Done(s)' \in Int /\ Done(s) <= Done(s)'
            /\ \A m \in Done(s) + 1..Done(s)' : m <= sSeq - HISTORY
  PROVE  FedOk(d)'
<1>1. NewOk(d) /\ SeenOk(d) /\ GapOk(d) /\ sSeq \in Int /\ HISTORY \in Int /\ TypeOK
  BY PumpType DEF AllInv, FedInv, FedOk, IInv
<1>2. Listed(d)' => Listed(d)
  BY DEF Listed
<1>3. (Fresh(conn[d])' <=> Fresh(conn[d])) /\ Items(conn[d])' = Items(conn[d])
  BY DEF Fresh, Items
<1>4. NewOk(d)'
  BY <1>1, <1>2, <1>3 DEF NewOk
<1>5. \A i \in DOMAIN got[conn[d]] : got[conn[d]][i] \in Int
  <2>1. got[conn[d]] \in Seq(0..MaxFrames)
    BY <1>1, PumpType, ConnTypes
  <2>2. \A i \in DOMAIN got[conn[d]] : got[conn[d]][i] \in 0..MaxFrames
    BY <2>1, Elements
  <2> QED BY <2>2
<1>6. SeenOk(d)'
  <2> SUFFICES ASSUME NEW s \in Slots, pump'.fds[s] = d, ~Pending(s)'
               PROVE  Upto(conn[d], Done(s))'
    BY <1>1, <1>3 DEF SeenOk
  <2>1. Upto(conn[d], Done(s))
    BY <1>1 DEF SeenOk
  <2> QED BY <1>3, <1>5, <2>1 DEF Upto
<1>7. GapOk(d)'
  <2> SUFFICES ASSUME Reachable', NEW s \in Slots, pump'.fds[s] = d, ~Pending(s)'
               PROVE  Complete(conn[d], Done(s))'
    BY DEF GapOk
  <2>1. Complete(conn[d], Done(s))
    BY <1>1 DEF GapOk
  <2>2. ASSUME NEW m \in 1..Done(s)' PROVE m \in Items(conn[d]) \/ m <= sSeq - HISTORY
    <3>1. m \in 1..Done(s) \/ m \in Done(s) + 1..Done(s)'
      OBVIOUS
    <3> QED BY <2>1, <3>1 DEF Complete
  <2> QED BY <1>3, <2>2 DEF Complete
<1> QED BY <1>4, <1>6, <1>7 DEF FedOk

LEMMA DoneType ==
  ASSUME TypeOK, NEW s \in Slots
  PROVE  Done(s) \in Int
<1>1. pump.seq \in Int /\ sent \in Int
  BY PumpType
<1>2. Done(s) \in {pump.seq - 1, 0, pump.seq, sent}
  BY DEF Done, Larger
<1> QED BY <1>1, <1>2

(* The same, of a step that moves nothing s depends on.                    *)
LEMMA DoneSame ==
  ASSUME NEW s \in Slots, Sending' <=> Sending, pump'.seq = pump.seq, pump'.snap = pump.snap,
         sent' = sent, Sending => pump'.item = pump.item /\ (s \in pump'.todo <=> s \in pump.todo)
  PROVE  Done(s)' = Done(s) /\ (Pending(s)' <=> Pending(s))
BY DEF Done, Pending

(* Before the first client and between two, and past a frame of the ring.  *)
LEMMA FedGoesOn ==
  ASSUME AllInv, PumpItemDone \/ PumpSkip \/ PumpTakeEntry \/ PumpCopyEntry
                 \/ SendCheck \/ SendLookup \/ SendBegin,
         NEW d \in FDs, conn[d] \in clean
  PROVE  FedOk(d)'
<1>1. /\ TypeOK /\ IInv /\ PassInv /\ CellInv
      /\ HISTORY \in Nat \ {0} /\ sSeq \in Nat /\ sent \in Nat /\ pump.newest \in Nat
      /\ pump.seq \in Nat
  BY FeedAssumption, PumpType DEF AllInv, IInv, FeedAssumption
<1>2. UNCHANGED <<conn, kind, httpd, sSeq, sServer, got, sFd, sSnapshot>>
  BY DEF PumpItemDone, PumpSkip, PumpTakeEntry, PumpCopyEntry, SendCheck, SendLookup, SendBegin, PumpKeeps,
         dispVars, srvVars, connVars, listVars
<1>3. Passing /\ Passing' /\ SameCopy /\ (Reachable' => Reachable)
  BY <1>1, <1>2, PumpItemDoneDoes, PumpSkipDoes, PumpTakeEntryDoes, PumpCopyEntryDoes,
     SendCheckDoes, SendLookupDoes, SendBeginDoes DEF Passing, Reachable
<1>4. \A s \in Slots : Done(s) \in Int
  BY <1>1, DoneType
<1> DEFINE Steady(s) == /\ (Pending(s)' <=> Pending(s)) /\ Done(s)' \in Int /\ Done(s) <= Done(s)'
                       /\ \A m \in Done(s) + 1..Done(s)' : m <= sSeq - HISTORY
<1>5. ASSUME NEW s \in Slots, pump.fds[s] = d PROVE Steady(s)
  <2>0. d # NoFd /\ Done(s) \in Int
    BY <1>1, <1>4, ConnTypes
  <2>1. Done(s)' = Done(s) /\ (Pending(s)' <=> Pending(s)) => Steady(s)
    BY <2>0
  <2> HIDE DEF Steady
  <2>2. CASE SendCheck \/ SendLookup \/ SendBegin \/ PumpTakeEntry
    <3>1. /\ (Sending' <=> Sending) /\ pump'.seq = pump.seq /\ pump'.snap = pump.snap
          /\ sent' = sent
          /\ (Sending => pump'.item = pump.item /\ (s \in pump'.todo <=> s \in pump.todo))
      BY <1>1, <2>2, SendCheckDoes, SendLookupDoes, SendBeginDoes, PumpTakeEntryDoes
         DEF Sending, SameCopy, SendCheck, SendLookup, SendBegin, PumpTakeEntry
    <3> QED BY <2>1, <3>1, DoneSame
  <2>3. CASE PumpItemDone
    <3>1. /\ pump.pc = "check" /\ pump.todo = {} /\ pump'.pc = "next" /\ SameCopy
          /\ pump'.seq = (IF pump.item = Status THEN Oldest ELSE pump.seq + 1)
          /\ sent' = (IF pump.item = Status THEN Larger(sent, Oldest - 1) ELSE sent)
      BY <1>1, <2>3, PumpItemDoneDoes DEF PumpItemDone
    <3>2. ~Pending(s) /\ ~Pending(s)' /\ Sending /\ ~Sending'
      BY <3>1 DEF Pending, Sending
    <3>3. CASE pump.item = Status
      <4>1. /\ Done(s) = (IF pump.snap[s] THEN 0 ELSE Larger(sent, 0))
            /\ Done(s)' = (IF pump.snap[s] THEN Oldest - 1 ELSE Larger(Larger(sent, Oldest - 1), Oldest - 1))
        BY <3>1, <3>2, <3>3 DEF Done, SameCopy
      <4>2. Oldest \in Nat /\ Oldest >= 1 /\ (Oldest = 1 \/ Oldest - 1 <= sSeq - HISTORY)
        BY <1>1, OldestIs DEF Larger, PassInv
      <4> QED BY <1>1, <3>2, <4>1, <4>2 DEF Larger, Steady
    <3>4. CASE pump.item # Status
      <4>1. Done(s)' = Done(s)
        BY <1>1, <3>1, <3>2, <3>4 DEF Done, SameCopy
      <4> QED BY <2>1, <3>2, <4>1
    <3> QED BY <3>3, <3>4
  <2>4. CASE PumpSkip
    <3>1. /\ pump.pc = "next" /\ pump'.pc = "next" /\ SameCopy /\ Wanting = {}
          /\ pump'.seq = pump.seq + 1 /\ sent' = sent
      BY <1>1, <2>4, PumpSkipDoes DEF PumpSkip
    <3>2. ~pump.snap[s] /\ pump.seq <= sent
      BY <1>1, <1>5, <2>0, <3>1 DEF Wanting
    <3>3. Done(s)' = Done(s) /\ (Pending(s)' <=> Pending(s))
      BY <1>1, <3>1, <3>2 DEF Done, Pending, Sending, Larger, SameCopy
    <3> QED BY <2>1, <3>3
  <2>5. CASE PumpCopyEntry
    <3>1. /\ pump.pc = "entry" /\ SameCopy /\ sent' = sent /\ lock = "pump"
          /\ pump.seq >= 1 /\ pump.seq <= pump.newest
      BY <1>1, <2>5, PumpCopyEntryDoes DEF PumpCopyEntry, IInv, PumpInv
    <3>2. CASE pump.item = pump.seq
      <4>1. /\ pump'.pc = "check" /\ pump'.todo = Wanting /\ pump'.seq = pump.seq
            /\ pump'.item = sHist[Cell(pump.seq)].body
        BY <1>1, <2>5, <3>2, PumpCopyEntryDoes
      <4>2. pump'.item = pump.seq
        <5>1. Cell(pump.seq) \in 0..HISTORY - 1
          BY <1>1, <3>1, CellType
        <5> QED BY <1>1, <3>1, <3>2, <4>1, <5>1 DEF CellInv
      <4>3. s \notin Wanting => ~pump.snap[s] /\ pump.seq <= sent
        BY <1>1, <1>5, <2>0 DEF Wanting
      <4>4. ~Pending(s) /\ ~Pending(s)'
        BY <3>1, <4>1, <4>2 DEF Pending, Sending, Status
      <4>5. /\ Done(s) = (IF pump.snap[s] THEN pump.seq - 1 ELSE Larger(sent, pump.seq - 1))
            /\ Done(s)' = (LET n == IF s \in Wanting THEN pump.seq - 1 ELSE pump.seq
                           IN  IF pump.snap[s] THEN n ELSE Larger(sent, n))
        BY <3>1, <4>1, <4>2 DEF Done, Sending, SameCopy, Status
      <4>6. Done(s)' = Done(s)
        BY <1>1, <4>3, <4>5 DEF Larger
      <4> QED BY <2>1, <4>4, <4>6
    <3>3. CASE pump.item # pump.seq
      <4>1. pump'.pc = "next" /\ pump'.seq = pump.seq + 1
        BY <1>1, <2>5, <3>3, PumpCopyEntryDoes
      <4>2. pump.seq <= sSeq - HISTORY
        <5>1. SUFFICES ASSUME pump.seq > sSeq - HISTORY PROVE FALSE
          BY <1>1
        <5>2. pump.seq \in Larger(sSeq - HISTORY + 1, 1)..sSeq
          BY <1>1, <3>1, <5>1 DEF Larger, PassInv
        <5>3. sHist[Cell(pump.seq)] = [seq |-> pump.seq, body |-> pump.seq]
          BY <1>1, <3>1, <5>1, <5>2 DEF IInv, RingInv, Whole
        <5> QED BY <1>1, <3>1, <3>3, <5>3 DEF CellInv
      <4>3. ~Pending(s) /\ ~Pending(s)'
        BY <3>1, <4>1 DEF Pending, Sending
      <4>4. /\ Done(s) = (IF pump.snap[s] THEN pump.seq - 1 ELSE Larger(sent, pump.seq - 1))
            /\ Done(s)' = (IF pump.snap[s] THEN pump.seq ELSE Larger(sent, pump.seq))
        BY <1>1, <3>1, <4>1 DEF Done, Sending, SameCopy
      <4> QED BY <1>1, <4>2, <4>3, <4>4 DEF Larger, Steady
    <3> QED BY <3>2, <3>3
  <2> QED BY <2>2, <2>3, <2>4, <2>5
<1> QED BY <1>2, <1>3, <1>4, <1>5, PassSteady DEF SameCopy

(* The end of a pass, the pass without a client and the one without a      *)
(* server.                                                                 *)
LEMMA FedRests ==
  ASSUME AllInv, PumpWake \/ PumpOffline \/ PumpDone, NEW d \in FDs, conn[d] \in clean
  PROVE  FedOk(d)'
<1>1. /\ TypeOK /\ PassInv /\ NewOk(d) /\ SeenOk(d) /\ GapOk(d) /\ d # NoFd
      /\ sSeq \in Nat /\ sent \in Nat /\ pump.newest \in Nat /\ pump.seq \in Nat
  BY FeedAssumption, PumpType, ConnTypes DEF AllInv, IInv, FeedAssumption, FedInv, FedOk
<1>2. UNCHANGED <<conn, kind, httpd, sSeq, sServer, got, sFd, sSnapshot>>
  BY DEF PumpWake, PumpOffline, PumpDone, PumpKeeps, dispVars, srvVars, connVars, listVars
<1>3. /\ \A s \in Slots : pump'.fds[s] = d => pump.fds[s] = d
      /\ ~Passing'
  BY <1>1, PumpWakeDoes, RestingFields
     DEF PumpOffline, PumpDone, SameCopy, Free, Passing
<1>4. \A n : (Upto(conn[d], n)' <=> Upto(conn[d], n)) /\ (Complete(conn[d], n)' <=> Complete(conn[d], n))
  BY <1>2 DEF Upto, Complete, Fresh, Items
<1>5. NewOk(d)'
  BY <1>1, <1>2, <1>3 DEF NewOk, Listed, Fresh
<1>6. \A i \in DOMAIN got[conn[d]] : got[conn[d]][i] \in 0..MaxFrames
  <2>1. got[conn[d]] \in Seq(0..MaxFrames)
    BY <1>1, PumpType, ConnTypes
  <2> QED BY <2>1, Elements
<1>7. CASE PumpDone
  <2>1. pump.pc = "next" /\ pump.seq > pump.newest /\ sent' = pump.newest /\ pump' = Resting
    BY <1>7 DEF PumpDone
  <2>2. \A s \in Slots : pump'.fds[s] # d
    BY <1>1, <2>1, RestingFields DEF Free
  <2>3. ASSUME NEW s \in Slots, sFd'[s] = d, ~sSnapshot'[s]
        PROVE  pump.fds[s] = d /\ ~Pending(s) /\ Done(s) = sent'
    <3>1. pump.fds[s] = d
      BY <1>1, <1>2, <2>1, <2>3 DEF PassInv, Passing
    <3>2. Done(s) = pump.newest
      <4>1. pump.seq - 1 = pump.newest /\ sent <= pump.newest
        BY <1>1, <2>1 DEF PassInv, Passing
      <4>2. Done(s) = IF pump.snap[s] THEN pump.seq - 1 ELSE Larger(sent, pump.seq - 1)
        BY <2>1 DEF Done, Sending
      <4> QED BY <1>1, <4>1, <4>2 DEF Larger
    <3> QED BY <2>1, <3>1, <3>2 DEF Pending, Sending
  <2>4. SeenOk(d)'
    <3> SUFFICES ASSUME NEW s \in Slots, sFd'[s] = d, ~sSnapshot'[s] PROVE Upto(conn[d], sent)'
      BY <2>2 DEF SeenOk
    <3>1. Upto(conn[d], sent')
      BY <1>1, <2>3 DEF SeenOk
    <3> QED BY <1>2, <3>1 DEF Upto, Fresh
  <2>5. GapOk(d)'
    <3> SUFFICES ASSUME Reachable', NEW s \in Slots, sFd'[s] = d, ~sSnapshot'[s]
                 PROVE  pump'.pc # "offline" /\ Complete(conn[d], sent)'
      BY <2>2 DEF GapOk
    <3>1. Reachable /\ pump'.pc = "wait"
      BY <1>2, <2>1, RestingFields DEF Reachable
    <3>2. Complete(conn[d], sent')
      BY <1>1, <2>3, <3>1 DEF GapOk
    <3> QED BY <1>2, <3>1, <3>2 DEF Complete, Items
  <2> QED BY <1>5, <2>4, <2>5 DEF FedOk
<1>8. CASE PumpOffline
  <2>1. pump.pc = "offline" /\ sent' = sSeq /\ pump' = Resting /\ ~Passing /\ sent <= sSeq
    BY <1>1, <1>8 DEF PumpOffline, Passing, PassInv
  <2>2. \A s \in Slots : pump'.fds[s] # d
    BY <1>1, <2>1, RestingFields DEF Free
  <2>3. SeenOk(d)'
    <3> SUFFICES ASSUME NEW s \in Slots, sFd'[s] = d, ~sSnapshot'[s] PROVE Upto(conn[d], sent)'
      BY <2>2 DEF SeenOk
    <3>1. Upto(conn[d], sent)
      BY <1>1, <1>2, <2>1 DEF SeenOk
    <3> QED BY <1>1, <1>2, <1>6, <2>1, <3>1 DEF Upto, Fresh
  <2>4. GapOk(d)'
    <3> SUFFICES ASSUME Reachable', NEW s \in Slots, sFd'[s] = d, ~sSnapshot'[s] PROVE FALSE
      BY <2>2 DEF GapOk
    <3>1. Reachable
      BY <1>2, <2>1, RestingFields DEF Reachable
    <3> QED BY <1>1, <1>2, <2>1, <3>1 DEF GapOk
  <2> QED BY <1>5, <2>3, <2>4 DEF FedOk
<1>9. CASE PumpWake
  <2>1. /\ pump.pc = "wait" /\ pump'.pc = (IF sServer = Null THEN "offline" ELSE "copy")
        /\ SameCopy /\ sent' = sent /\ ~Passing
    BY <1>1, <1>9, PumpWakeDoes DEF PumpWake, Passing
  <2>2. \A s \in Slots : pump'.fds[s] # d
    BY <1>1, <2>1 DEF PassInv, Free, SameCopy
  <2>3. SeenOk(d)'
    <3> SUFFICES ASSUME NEW s \in Slots, sFd'[s] = d, ~sSnapshot'[s] PROVE Upto(conn[d], sent)'
      BY <2>2 DEF SeenOk
    <3>1. Upto(conn[d], sent)
      BY <1>1, <1>2, <2>1 DEF SeenOk
    <3> QED BY <1>2, <2>1, <3>1 DEF Upto, Fresh
  <2>4. GapOk(d)'
    <3> SUFFICES ASSUME Reachable', NEW s \in Slots, sFd'[s] = d, ~sSnapshot'[s]
                 PROVE  pump'.pc # "offline" /\ Complete(conn[d], sent)'
      BY <2>2 DEF GapOk
    <3>1. sServer # Null /\ Reachable /\ pump'.pc = "copy"
      BY <1>2, <2>1 DEF Reachable
    <3>2. Complete(conn[d], sent)
      BY <1>1, <1>2, <2>1, <3>1 DEF GapOk
    <3> QED BY <1>2, <2>1, <3>1, <3>2 DEF Complete, Items
  <2> QED BY <1>5, <2>3, <2>4 DEF FedOk
<1> QED BY <1>7, <1>8, <1>9

(* The start of a pass.                                                    *)
LEMMA FedCopy ==
  ASSUME AllInv, PumpCopy, NEW d \in FDs, conn[d] \in clean PROVE FedOk(d)'
<1>1. /\ TypeOK /\ PassInv /\ NewOk(d) /\ SeenOk(d) /\ GapOk(d) /\ d # NoFd /\ sent \in Nat
      /\ UNCHANGED <<conn, kind, httpd, sSeq, sServer, got, sFd>> /\ ~Passing
      /\ sSnapshot' = Nobody /\ pump.pc = "copy"
  BY FeedAssumption, PumpType, ConnTypes, PumpCopyDoes
     DEF AllInv, IInv, FeedAssumption, FedInv, FedOk, PumpCopy, PumpKeeps, dispVars, srvVars,
         connVars, Passing
<1>2. \A s \in Slots : pump'.fds[s] = d => sFd[s] = d
  BY <1>1, PumpCopyDoes, RestingFields DEF Free
<1>3. NewOk(d)'
  <2>1. \A s \in Slots : ~sSnapshot'[s]
    BY <1>1 DEF Nobody
  <2> QED BY <1>1, <1>2, <2>1 DEF NewOk, Listed, Fresh
<1>4. CASE \A s \in Slots : sFd[s] = NoFd
  <2>1. \A s \in Slots : sFd'[s] # d /\ pump'.fds[s] # d
    BY <1>1, <1>2, <1>4
  <2> QED BY <1>3, <2>1 DEF FedOk, SeenOk, GapOk
<1>5. CASE ~\A s \in Slots : sFd[s] = NoFd
  <2>1. /\ pump'.pc = "check" /\ pump'.fds = sFd /\ pump'.snap = sSnapshot
        /\ pump'.item = Status /\ pump'.todo = {s \in Slots : sFd[s] # NoFd} /\ sent' = sent
    BY <1>1, <1>5, PumpCopyDoes
  <2>2. ASSUME NEW s \in Slots, sFd[s] = d
        PROVE  /\ Pending(s)' <=> sSnapshot[s]
               /\ ~sSnapshot[s] => Done(s)' = sent
    BY <1>1, <2>1, <2>2 DEF Pending, Done, Sending, Larger
  <2>3. Passing'
    BY <2>1 DEF Passing
  <2>4. SeenOk(d)'
    <3> SUFFICES ASSUME NEW s \in Slots, pump'.fds[s] = d
                 PROVE  IF Pending(s)' THEN Fresh(conn[d])' ELSE Upto(conn[d], Done(s))'
      BY <1>1, <2>3 DEF SeenOk
    <3>1. CASE sSnapshot[s]
      BY <1>1, <1>2, <2>2, <3>1 DEF NewOk, Fresh
    <3>2. CASE ~sSnapshot[s]
      <4>1. Upto(conn[d], sent)
        BY <1>1, <1>2, <3>2 DEF SeenOk
      <4> QED BY <1>1, <1>2, <2>2, <3>2, <4>1 DEF Upto, Fresh
    <3> QED BY <3>1, <3>2
  <2>5. GapOk(d)'
    <3> SUFFICES ASSUME Reachable', NEW s \in Slots, pump'.fds[s] = d, ~Pending(s)'
                 PROVE  Complete(conn[d], Done(s))'
      BY <2>3 DEF GapOk
    <3>1. Reachable /\ ~sSnapshot[s]
      BY <1>1, <1>2, <2>1, <2>2 DEF Reachable
    <3>2. Complete(conn[d], sent)
      BY <1>1, <1>2, <3>1 DEF GapOk
    <3> QED BY <1>1, <1>2, <2>2, <3>1, <3>2 DEF Complete, Items
  <2> QED BY <1>3, <2>4, <2>5 DEF FedOk
<1> QED BY <1>4, <1>5

(* The descriptor being sent to is one of the server's.                    *)
LEMMA FdType ==
  ASSUME TypeOK, PassInv, Sending, pump.todo # {}
  PROVE  Fd \in FDs /\ Client \in Slots /\ Client \in pump.todo /\ pump.fds[Client] = Fd
<1>1. Client \in pump.todo /\ Client \in Slots
  BY ClientLeft
<1>2. pump.fds \in [Slots -> FDs \cup {NoFd}]
  BY PumpType DEF PumpState
<1> QED BY <1>1, <1>2 DEF PassInv, Fd

(* A client that is sent an item, as it was before and as it is then.      *)
LEMMA Receives ==
  ASSUME AllInv, SendWrite, conn[Fd] \in clean, got' # got
  PROVE  /\ pump.pc = "write" /\ pump.h # Null /\ got' = [got EXCEPT ![conn[Fd]] = Append(@, pump.item)]
         /\ Pending(Client) \/ pump.item # Status
         /\ Pending(Client) => Fresh(conn[Fd]) /\ pump.item = Status /\ pump.snap[Client]
         /\ ~Pending(Client) =>
              /\ ~Fresh(conn[Fd]) /\ pump.item = pump.seq /\ pump.seq \in Nat \ {0}
              /\ Upto(conn[Fd], pump.seq - 1) /\ Complete(conn[Fd], pump.seq - 1)
              /\ Done(Client) = pump.seq - 1
<1>1. /\ TypeOK /\ PassInv /\ pump.pc = "write" /\ pump.h # Null /\ Sending /\ pump.todo # {}
      /\ got' = Sent(conn[Fd], pump.item)
  BY SendWriteDoes DEF AllInv, IInv, PassInv, Sending
<1>2. /\ Fd \in FDs /\ Client \in Slots /\ Client \in pump.todo /\ pump.fds[Client] = Fd
  BY <1>1, FdType
<1>3. /\ got' = [got EXCEPT ![conn[Fd]] = Append(@, pump.item)]
      /\ pump.item # Status \/ Fresh(conn[Fd])
  BY <1>1 DEF Sent, Fresh
<1>4. SeenOk(Fd) /\ GapOk(Fd) /\ Reachable
  BY <1>1, <1>2 DEF AllInv, FedInv, FedOk, Reachable
<1>5. Pending(Client) => Fresh(conn[Fd]) /\ pump.item = Status /\ pump.snap[Client]
  BY <1>2, <1>4 DEF SeenOk, Pending
<1>6. ASSUME ~Pending(Client)
      PROVE  /\ ~Fresh(conn[Fd]) /\ pump.item = pump.seq /\ pump.seq \in Nat \ {0}
             /\ Upto(conn[Fd], pump.seq - 1) /\ Complete(conn[Fd], pump.seq - 1)
             /\ Done(Client) = pump.seq - 1
  <2>1. Upto(conn[Fd], Done(Client)) /\ Complete(conn[Fd], Done(Client))
    BY <1>2, <1>4, <1>6 DEF SeenOk, GapOk
  <2>2. ~Fresh(conn[Fd]) /\ pump.item # Status /\ pump.item = pump.seq
    BY <1>1, <1>3, <2>1 DEF Upto, PassInv
  <2>3. pump.seq \in Nat \ {0} /\ sent \in Nat /\ (pump.snap[Client] \/ pump.seq > sent)
    <3>1. pump.seq \in 0..MaxFrames + 1 /\ sent \in 0..MaxFrames /\ MaxFrames \in Nat
      BY <1>1, PumpType
    <3>2. pump.snap[Client] \/ pump.seq > sent
      BY <1>1, <1>2, <2>2 DEF AllInv, WantInv
    <3> QED BY <2>2, <3>1, <3>2 DEF Status
  <2>4. Done(Client) = IF pump.snap[Client] THEN pump.seq - 1 ELSE Larger(sent, pump.seq - 1)
    BY <1>1, <1>2, <2>2 DEF Done
  <2>5. Done(Client) = pump.seq - 1
    BY <2>3, <2>4 DEF Larger
  <2> QED BY <2>1, <2>2, <2>3, <2>5
<1> QED BY <1>1, <1>3, <1>5, <1>6

LEMMA FedWrite ==
  ASSUME AllInv, SendWrite, NEW d \in FDs, conn[d] \in clean PROVE FedOk(d)'
<1>1. /\ TypeOK /\ PassInv /\ pump.pc = "write" /\ Sending /\ pump.todo # {} /\ SameCopy
      /\ pump'.seq = pump.seq /\ pump'.item = pump.item /\ pump'.pc \in {"check", "drop"}
      /\ UNCHANGED <<conn, kind, httpd, clean, sSeq, sServer, sFd, sSnapshot, sent>>
      /\ d # NoFd
  BY SendWriteDoes, ConnTypes
     DEF AllInv, IInv, PassInv, Sending, SendWrite, PumpKeeps, dispVars, srvVars, connVars, listVars
<1>2. /\ Fd \in FDs /\ Client \in Slots /\ Client \in pump.todo /\ pump.fds[Client] = Fd
  BY <1>1, FdType
<1>3. Sending' /\ Passing' /\ (Reachable' => Reachable)
  BY <1>1 DEF Sending, Passing, Reachable
<1>4. \/ pump'.todo = pump.todo /\ got' = got
      \/ /\ pump'.todo = pump.todo \ {Client} /\ pump.h # Null /\ conn[Fd] # NoConn
         /\ got' = Sent(conn[Fd], pump.item)
  BY <1>1, SendWriteDoes
<1>5. ASSUME NEW s \in Slots, s # Client \/ pump'.todo = pump.todo
      PROVE  Done(s)' = Done(s) /\ (Pending(s)' <=> Pending(s)) /\ Done(s) \in Int
  <2>1. s \in pump'.todo <=> s \in pump.todo
    BY <1>4, <1>5
  <2> QED BY <1>1, <1>3, <2>1, DoneSame, DoneType DEF SameCopy
<1>6. CASE d # Fd \/ pump'.todo = pump.todo
  <2>1. got'[conn[d]] = got[conn[d]]
    <3>1. CASE got' = got
      BY <3>1
    <3>2. CASE d # Fd /\ conn[Fd] # NoConn /\ got' = Sent(conn[Fd], pump.item)
      <4>1. conn[d] # conn[Fd] /\ got \in [Conns -> Seq(0..MaxFrames)] /\ conn[d] \in Conns
        BY <1>1, <1>2, <3>2, PumpType, ConnTypes DEF AllInv, ConnInv
      <4> QED BY <3>2, <4>1 DEF Sent
    <3>3. pump'.todo # pump.todo \ {Client} => got' = got
      BY <1>4
    <3>4. pump'.todo = pump.todo => got' = got
      BY <1>2, <3>3
    <3> QED BY <1>4, <1>6, <3>1, <3>2, <3>4
  <2>2. ASSUME NEW s \in Slots, pump'.fds[s] = d
        PROVE  /\ pump.fds[s] = d /\ (Pending(s)' <=> Pending(s))
               /\ Done(s) \in Int /\ Done(s)' \in Int /\ Done(s) <= Done(s)'
               /\ \A m \in Done(s) + 1..Done(s)' : m <= sSeq - HISTORY
    <3>1. pump.fds[s] = d /\ (s # Client \/ pump'.todo = pump.todo)
      BY <1>1, <1>2, <1>6, <2>2 DEF SameCopy
    <3>2. Done(s)' = Done(s) /\ (Pending(s)' <=> Pending(s)) /\ Done(s) \in Int
      BY <1>5, <3>1
    <3> QED BY <3>1, <3>2
  <2> QED BY <1>1, <1>3, <2>1, <2>2, PassSteady
<1>7. CASE d = Fd /\ pump'.todo # pump.todo
  <2>1. /\ pump'.todo = pump.todo \ {Client} /\ pump.h # Null /\ got' = Sent(conn[d], pump.item)
    BY <1>4, <1>7
  <2>2. NewOk(d) /\ SeenOk(d) /\ GapOk(d) /\ Reachable /\ Listed(d)
    BY <1>1, <1>2, <1>7, <2>1 DEF AllInv, FedInv, FedOk, Reachable, Listed
  <2>3. NewOk(d)'
    BY <1>1, <1>2, <1>7, <2>2 DEF NewOk
  <2> PICK k \in Slots : k = Client
    BY <1>2
  <2>4. \A s \in Slots : pump'.fds[s] = d => s = k
    BY <1>1, <1>2, <1>7 DEF SameCopy, PassInv
  <2>5. ~Pending(k)'
    BY <2>1 DEF Pending
  <2>6. Upto(conn[d], Done(k))' /\ Complete(conn[d], Done(k))'
    <3>1. CASE got' = got
      <4>1. pump.item = Status /\ ~Fresh(conn[d])
        <5>1. SUFFICES ASSUME pump.item # Status \/ Fresh(conn[d]) PROVE FALSE
          OBVIOUS
        <5>2. got[conn[d]] \in Seq(0..MaxFrames) /\ conn[d] \in Conns /\ got \in [Conns -> Seq(0..MaxFrames)]
          BY <1>1, PumpType, ConnTypes
        <5>3. got'[conn[d]] = Append(got[conn[d]], pump.item)
          BY <2>1, <5>1, <5>2 DEF Sent, Fresh
        <5>4. Len(Append(got[conn[d]], pump.item)) = Len(got[conn[d]]) + 1 /\ Len(got[conn[d]]) \in Nat
          BY <5>2
        <5> QED BY <3>1, <5>3, <5>4
      <4>2. ~Pending(Client)
        BY <1>2, <1>7, <2>2, <4>1 DEF SeenOk
      <4>3. Upto(conn[d], Done(Client)) /\ Complete(conn[d], Done(Client))
        BY <1>2, <1>7, <2>2, <4>2 DEF SeenOk, GapOk
      <4>4. Done(k)' = Done(k)
        <5>1. pump'.item = Status /\ pump.item = Status /\ Sending /\ Sending' /\ sent' = sent /\ pump'.snap = pump.snap
          BY <1>1, <1>3, <4>1 DEF SameCopy
        <5> QED BY <5>1 DEF Done
      <4> QED BY <1>1, <3>1, <4>3, <4>4 DEF Upto, Complete, Fresh, Items
    <3>2. CASE got' # got
      <4> DEFINE q == got[conn[d]]
      <4>1. got'[conn[d]] = Append(q, pump.item) /\ q \in Seq(0..MaxFrames)
        BY <1>1, <1>7, <3>2, Receives, PumpType, ConnTypes
      <4>2. /\ Len(q) \in Nat /\ got'[conn[d]] # <<>> /\ DOMAIN got'[conn[d]] = 1..Len(q) + 1
            /\ \A i \in 1..Len(q) : got'[conn[d]][i] = q[i] /\ q[i] \in 0..MaxFrames
            /\ got'[conn[d]][Len(q) + 1] = pump.item /\ DOMAIN q = 1..Len(q)
        <5>1. Len(q) \in Nat /\ DOMAIN q = 1..Len(q) /\ pump.item \in {NoItem} \cup 0..MaxFrames
          BY <1>1, <4>1, PumpType
        <5>2. \A i \in DOMAIN q : q[i] \in 0..MaxFrames
          BY <4>1, Elements
        <5> HIDE DEF q
        <5>3. /\ DOMAIN Append(q, pump.item) = 1..Len(q) + 1 /\ Append(q, pump.item)[Len(q) + 1] = pump.item
              /\ \A i \in 1..Len(q) : Append(q, pump.item)[i] = q[i]
          BY <4>1, <5>1
        <5>4. Append(q, pump.item) # <<>>
          BY <5>1, <5>3
        <5> QED BY <4>1, <5>1, <5>2, <5>3, <5>4
      <4>3. \A m : m \in Items(conn[d])' <=> m \in Items(conn[d]) \/ m = pump.item
        <5>1. Items(conn[d]) = {q[i] : i \in 1..Len(q)}
          BY <4>2 DEF Items
        <5>2. Items(conn[d])' = {got'[conn[d]][i] : i \in 1..Len(q) + 1}
          BY <1>1, <4>2 DEF Items
        <5> HIDE DEF q
        <5> QED BY <4>2, <5>1, <5>2
      <4> HIDE DEF q
      <4>4. CASE Pending(Client)
        <5>1. pump.item = Status /\ q = <<>> /\ pump.snap[k]
          BY <1>7, <3>2, <4>4, Receives DEF Fresh, q
        <5>2. Done(k)' = 0
          BY <1>1, <1>3, <5>1 DEF Done, SameCopy
        <5>3. \A i \in DOMAIN got'[conn[d]] : got'[conn[d]][i] <= 0
          BY <4>2, <5>1 DEF Status
        <5> QED BY <1>1, <4>2, <5>2, <5>3 DEF Upto, Complete, Fresh
      <4>5. CASE ~Pending(Client)
        <5>1. /\ pump.item = pump.seq /\ pump.seq \in Nat \ {0} /\ Upto(conn[d], pump.seq - 1)
              /\ Complete(conn[d], pump.seq - 1) /\ Done(Client) = pump.seq - 1
          BY <1>7, <3>2, <4>5, Receives
        <5>2. Done(k)' = pump.seq
          <6>1. Done(k)' = IF pump.snap[k] THEN pump.seq ELSE Larger(sent, pump.seq)
            BY <1>1, <1>3, <2>1, <5>1 DEF Done, SameCopy, Status
          <6>2. pump.snap[Client] \/ pump.seq > sent
            BY <1>1, <1>2, <5>1 DEF AllInv, WantInv, Status
          <6>3. sent \in Int
            BY <1>1, PumpType
          <6> QED BY <5>1, <6>1, <6>2, <6>3 DEF Larger
        <5>3. \A i \in DOMAIN got'[conn[d]] : got'[conn[d]][i] <= pump.seq
          <6>1. \A i \in 1..Len(q) : q[i] <= pump.seq - 1
            BY <4>2, <5>1 DEF Upto, q
          <6> QED BY <4>2, <5>1, <6>1
        <5>4. \A m \in 1..pump.seq : m \in Items(conn[d])' \/ m <= sSeq - HISTORY
          BY <4>3, <5>1 DEF Complete
        <5> QED BY <1>1, <4>2, <5>2, <5>3, <5>4 DEF Upto, Complete, Fresh
      <4> QED BY <4>4, <4>5
    <3> QED BY <3>1, <3>2
  <2>7. SeenOk(d)' /\ GapOk(d)'
    BY <1>1, <1>3, <2>4, <2>5, <2>6 DEF SeenOk, GapOk
  <2> QED BY <2>3, <2>7 DEF FedOk
<1> QED BY <1>6, <1>7

LEMMA FedDrop ==
  ASSUME AllInv, PumpDrop, NEW d \in FDs, conn[d] \in clean PROVE FedOk(d)'
<1>1. /\ TypeOK /\ PassInv /\ pump.pc = "drop" /\ Sending /\ pump.todo # {}
      /\ pump'.pc = "check" /\ pump'.seq = pump.seq /\ pump'.item = pump.item
      /\ pump'.todo = pump.todo \ {Client} /\ pump'.snap = pump.snap
      /\ pump'.fds = [pump.fds EXCEPT ![Client] = NoFd]
      /\ UNCHANGED <<conn, kind, httpd, clean, sSeq, sServer, got, sent>> /\ ClientDrop(Fd)
      /\ d # NoFd
  BY PumpDropDoes, ConnTypes
     DEF AllInv, IInv, PassInv, Sending, PumpDrop, PumpKeeps, dispVars, srvVars, connVars
<1>2. /\ Fd \in FDs /\ Client \in Slots /\ pump.fds[Client] = Fd
  BY <1>1, FdType
<1>3. /\ \A s \in Slots : pump'.fds[s] = IF s = Client THEN NoFd ELSE pump.fds[s]
      /\ \A s \in Slots : sFd'[s] = IF sFd[s] = Fd THEN NoFd ELSE sFd[s]
      /\ \A s \in Slots : sSnapshot'[s] <=> (sFd[s] # Fd /\ sSnapshot[s])
  <2>1. pump.fds \in [Slots -> FDs \cup {NoFd}]
    BY <1>1, PumpType DEF PumpState
  <2> QED BY <1>1, <2>1 DEF ClientDrop
<1>4. Sending' /\ Passing' /\ (Reachable' => Reachable)
  BY <1>1 DEF Sending, Passing, Reachable
<1>5. ASSUME NEW s \in Slots, pump'.fds[s] = d
      PROVE  /\ pump.fds[s] = d /\ (Pending(s)' <=> Pending(s))
             /\ Done(s) \in Int /\ Done(s)' \in Int /\ Done(s) <= Done(s)'
             /\ \A m \in Done(s) + 1..Done(s)' : m <= sSeq - HISTORY
  <2>1. s # Client /\ pump.fds[s] = d
    BY <1>1, <1>3, <1>5
  <2>2. s \in pump'.todo <=> s \in pump.todo
    BY <1>1, <2>1
  <2>3. Done(s)' = Done(s) /\ (Pending(s)' <=> Pending(s)) /\ Done(s) \in Int
    BY <1>1, <1>4, <2>2, DoneSame, DoneType
  <2> QED BY <2>1, <2>3
<1>6. \A s \in Slots : sFd'[s] = d => sFd[s] = d /\ (sSnapshot'[s] => sSnapshot[s])
  BY <1>1, <1>3
<1>7. got'[conn[d]] = got[conn[d]]
  BY <1>1
<1> QED BY <1>1, <1>4, <1>5, <1>6, <1>7, PassSteady

LEMMA FedPump ==
  ASSUME AllInv, PumpTask, NEW d \in FDs PROVE FedOk(d)'
<1>1. conn' = conn /\ clean' = clean
  BY DEF PumpTask, PumpWake, PumpOffline, PumpCopy, PumpItemDone, PumpSkip, PumpTakeEntry,
         PumpCopyEntry, PumpDone, SendCheck, SendLookup, SendBegin, SendWrite, PumpDrop, PumpKeeps, connVars
<1> SUFFICES ASSUME conn[d] \in clean PROVE FedOk(d)'
  BY <1>1 DEF FedOk
<1> QED BY FedGoesOn, FedRests, FedCopy, FedWrite, FedDrop DEF PumpTask

-----------------------------------------------------------------------------
LEMMA InitAllInv == Init => AllInv
<1> SUFFICES ASSUME Init PROVE AllInv
  OBVIOUS
<1>1. IInv /\ TypeOK
  BY InitIInv DEF IInv
<1>2. /\ pump = Resting /\ sent = 0 /\ sSeq = 0 /\ lock = "free" /\ clean = {} /\ sFd = Free
      /\ conn = [d \in FDs |-> NoConn] /\ kind = [c \in Conns |-> "none"]
      /\ got = [c \in Conns |-> <<>>] /\ evPc = "offline" /\ live = Null /\ ~routes
      /\ httpd = <<"idle", NoFd>>
      /\ sHist = [c \in 0..HISTORY - 1 |-> [seq |-> 0, body |-> 0]]
  BY DEF Init
<1>3. PassInv /\ WantInv
  BY <1>2, RestingFields DEF PassInv, WantInv, Passing, Sending, Free
<1>4. CellInv
  BY <1>2, RestingFields DEF CellInv
<1>5. ConnInv /\ ServerInv
  BY <1>2 DEF ConnInv, ServerInv, Fresh
<1>6. FedInv
  BY <1>2 DEF FedInv, FedOk
<1> QED BY <1>1, <1>3, <1>4, <1>5, <1>6 DEF AllInv

LEMMA NextAllInv == ASSUME AllInv, [Next]_vars PROVE AllInv'
<1>1. CASE Next
  <2>1. IInv'
    BY <1>1, NextIInv DEF AllInv
  <2>2. PassInv' /\ CellInv'
    BY <1>1, OutsidePass, PumpPass DEF AllInv, Next
  <2>3. ConnInv' /\ ServerInv'
    BY <1>1, HttpdConn, OtaConn, OtherConn DEF AllInv, Next
  <2>4. WantInv'
    BY <1>1, WantKeeps DEF AllInv
  <2>5. FedInv'
    <3> SUFFICES ASSUME NEW d \in FDs PROVE FedOk(d)'
      BY DEF FedInv
    <3> QED BY <1>1, FedDispatch, FedHttpd, FedOta, FedPump DEF Next
  <2> QED BY <2>1, <2>2, <2>3, <2>4, <2>5 DEF AllInv
<1>2. CASE UNCHANGED vars
  <2>1. IInv'
    BY NextIInv DEF AllInv
  <2>2. /\ PassInv' /\ WantInv' /\ CellInv' /\ ConnInv' /\ ServerInv'
    BY <1>2 DEF AllInv, PassInv, WantInv, CellInv, ConnInv, ServerInv, Passing, Sending, Cell, Fresh,
                vars, dispVars, listVars, srvVars, connVars, pumpVars
  <2>3. FedInv'
    <3> SUFFICES ASSUME NEW d \in FDs, FedOk(d) PROVE FedOk(d)'
      BY DEF AllInv, FedInv
    <3> QED BY <1>2 DEF FedOk, NewOk, SeenOk, GapOk, Reachable, Upto, Complete, Fresh, Items, Pending,
                Done, Listed, Passing, Sending, vars, dispVars, listVars, srvVars, connVars, pumpVars
  <2> QED BY <2>1, <2>2, <2>3 DEF AllInv
<1> QED BY <1>1, <1>2

LEMMA AllInvHolds == Spec => []AllInv
BY InitAllInv, NextAllInv, PTL DEF Spec

-----------------------------------------------------------------------------
(* What a browser has been sent by now, in order and without a gap.        *)

InOrder(c) ==
  /\ ~Fresh(c) => got[c][1] = Status
  /\ \A i, j \in DOMAIN got[c] : i < j => got[c][i] < got[c][j]
NoGap(c) ==
  \A last \in Items(c) : \A m \in 1..last - 1 : m \in Items(c) \/ m <= sSeq - HISTORY
HistoryInv == \A c \in clean : InOrder(c) /\ NoGap(c)

LEMMA InitHistory == Init => HistoryInv
BY DEF Init, HistoryInv

LEMMA IntervalInt == \A n \in Int : \A m \in 1..n - 1 : m \in Int
OBVIOUS

LEMMA LaterBound ==
  ASSUME NEW a \in Int, NEW b \in Int, a <= b
  PROVE  \A m \in Int, h \in Int : m <= a - h => m <= b - h
OBVIOUS

(* Who is sent nothing new stays in order, and the ring only moves on.     *)
LEMMA HistoryStays ==
  ASSUME NEW c, InOrder(c), NoGap(c), got'[c] = got[c], got[c] \in Seq(0..MaxFrames),
         HISTORY \in Int, sSeq \in Int, sSeq' \in Int, sSeq <= sSeq'
  PROVE  InOrder(c)' /\ NoGap(c)'
<1>1. InOrder(c)'
  BY DEF InOrder, Fresh
<1>2. Items(c)' = Items(c)
  BY DEF Items
<1>3. NoGap(c)'
  <2> SUFFICES ASSUME NEW last \in Items(c), NEW m \in 1..last - 1
               PROVE  m \in Items(c) \/ m <= sSeq' - HISTORY
    BY <1>2 DEF NoGap
  <2>1. m \in Items(c) \/ m <= sSeq - HISTORY
    BY DEF NoGap
  <2>2. last \in Int
    <3>1. \A i \in DOMAIN got[c] : got[c][i] \in 0..MaxFrames
      BY Elements
    <3> QED BY <3>1 DEF Items
  <2>3. m <= sSeq - HISTORY => m <= sSeq' - HISTORY
    <3>1. m \in Int
      BY <2>2, IntervalInt
    <3> QED BY <3>1, LaterBound
  <2> QED BY <2>1, <2>3
<1> QED BY <1>1, <1>3

LEMMA NextHistory == ASSUME AllInv, HistoryInv, [Next]_vars PROVE HistoryInv'
<1>1. /\ TypeOK /\ HISTORY \in Int /\ MaxFrames \in Nat /\ sSeq \in 0..MaxFrames
      /\ \A c \in clean : got[c] \in Seq(0..MaxFrames)
  BY PumpType, ConnTypes DEF AllInv, IInv
<1>2. sSeq \in Int /\ sSeq' \in Int /\ sSeq <= sSeq'
  <2>1. sSeq' \in {sSeq, sSeq + 1}
    BY DEF Next, WebOnMessage, RecordSeq, RecordBody, Httpd, WsGet, Accept, Upgrade, WsGetFails,
           Close, WsGetHandshake, WsGetDrops, OtaSetOnline, StartServer, Attach, RegisterRoutes,
           Detach, ClearClients, StopServer, PumpTask, PumpWake, PumpOffline, PumpCopy, PumpItemDone,
           PumpSkip, PumpTakeEntry, PumpCopyEntry, PumpDone, SendCheck, SendLookup, SendBegin, SendWrite,
           PumpDrop, PumpKeeps, dispVars, vars
  <2> QED BY <1>1, <2>1
<1>3. CASE \E fd \in FDs, c \in Conns : Accept(fd, c)
  <2>1. PICK fd \in FDs, b \in Conns : Accept(fd, b)
    BY <1>3
  <2>2. got' = got /\ clean' \subseteq clean \cup {b} /\ got[b] = <<>>
    BY <2>1 DEF Accept, pumpVars, AllInv, ConnInv, Fresh
  <2>3. ASSUME NEW c \in clean PROVE InOrder(c)' /\ NoGap(c)'
    <3>1. InOrder(c) /\ NoGap(c)
      BY DEF HistoryInv
    <3> QED BY <1>1, <1>2, <2>2, <3>1, HistoryStays
  <2>4. InOrder(b)' /\ NoGap(b)'
    BY <2>2 DEF InOrder, NoGap, Fresh, Items
  <2> QED BY <2>2, <2>3, <2>4 DEF HistoryInv
<1>4. CASE SendWrite /\ got' # got
  <2>1. clean' = clean /\ sSeq' = sSeq /\ got' = Sent(conn[Fd], pump.item)
    BY <1>1, <1>4, SendWriteDoes DEF SendWrite, PumpKeeps, connVars, dispVars
  <2>2. got \in [Conns -> Seq(0..MaxFrames)] /\ clean \subseteq Conns
    BY <1>1, PumpType, ConnTypes
  <2> SUFFICES ASSUME NEW c \in clean, InOrder(c), NoGap(c) PROVE InOrder(c)' /\ NoGap(c)'
    BY <2>1 DEF HistoryInv
  <2>3. CASE c # conn[Fd]
    <3>1. got'[c] = got[c]
      BY <2>1, <2>2, <2>3 DEF Sent
    <3> QED BY <1>1, <1>2, <3>1, HistoryStays
  <2>4. CASE c = conn[Fd]
    <3> DEFINE q == got[c]
               n == pump.item
    <3>1. got'[c] = Append(q, n) /\ q \in Seq(0..MaxFrames)
      BY <1>4, <2>2, <2>4, Receives
    <3>2. /\ Len(q) \in Nat /\ DOMAIN q = 1..Len(q) /\ (q = <<>> <=> Len(q) = 0)
          /\ \A i \in DOMAIN q : q[i] \in 0..MaxFrames
      <4>1. \A i \in DOMAIN q : q[i] \in 0..MaxFrames
        BY <3>1, Elements
      <4> HIDE DEF q
      <4>2. Len(q) \in Nat /\ DOMAIN q = 1..Len(q) /\ (q = <<>> <=> Len(q) = 0)
        BY <3>1
      <4> QED BY <4>1, <4>2
    <3>3. /\ n \in {NoItem} \cup 0..MaxFrames
      BY <1>1, PumpType
    <3> HIDE DEF q, n
    <3>4. /\ DOMAIN got'[c] = 1..Len(q) + 1 /\ got'[c][Len(q) + 1] = n
          /\ \A i \in 1..Len(q) : got'[c][i] = q[i]
      <4>1. DOMAIN Append(q, n) = 1..Len(q) + 1 /\ Append(q, n)[Len(q) + 1] = n
            /\ \A i \in 1..Len(q) : Append(q, n)[i] = q[i]
        BY <3>1, <3>2
      <4> QED BY <3>1, <4>1
    <3>5. Items(c) = {q[i] : i \in 1..Len(q)} /\ Items(c)' = {got'[c][i] : i \in 1..Len(q) + 1}
      BY <3>2, <3>4 DEF Items, q
    <3>6. \A m : m \in Items(c)' <=> m \in Items(c) \/ m = n
      BY <3>2, <3>4, <3>5
    <3>7. /\ \A i, j \in 1..Len(q) : i < j => q[i] < q[j]
          /\ q # <<>> => q[1] = Status
      BY <3>2 DEF InOrder, Fresh, q
    <3>8. CASE Pending(Client)
      <4>1. q = <<>> /\ n = Status /\ Len(q) = 0
        BY <1>4, <2>4, <3>2, <3>8, Receives DEF Fresh, q, n
      <4>2. InOrder(c)'
        BY <3>4, <4>1 DEF InOrder
      <4>3. \A m : m \in Items(c)' => m = 0
        BY <3>5, <3>6, <4>1 DEF Status
      <4> QED BY <4>2, <4>3 DEF NoGap
    <3>9. CASE ~Pending(Client)
      <4>1. q # <<>> /\ n \in Nat \ {0} /\ Upto(c, n - 1) /\ Complete(c, n - 1)
        BY <1>4, <2>4, <3>9, Receives DEF Fresh, q, n
      <4>2. \A i \in 1..Len(q) : q[i] < n /\ q[i] \in Int
        BY <3>2, <4>1 DEF Upto, q
      <4>3. Len(q) >= 1
        BY <3>2, <4>1
      <4>4. InOrder(c)'
        <5>1. got'[c][1] = Status
          BY <3>4, <3>7, <4>1, <4>3
        <5>2. ASSUME NEW i \in 1..Len(q) + 1, NEW j \in 1..Len(q) + 1, i < j
              PROVE  got'[c][i] < got'[c][j]
          <6>1. i \in 1..Len(q)
            BY <3>2, <5>2
          <6>2. CASE j \in 1..Len(q)
            BY <3>4, <3>7, <5>2, <6>1, <6>2
          <6>3. CASE j = Len(q) + 1
            BY <3>4, <4>2, <6>1, <6>3
          <6> QED BY <3>2, <6>2, <6>3
        <5> QED BY <3>4, <5>1, <5>2 DEF InOrder
      <4>5. NoGap(c)'
        <5> SUFFICES ASSUME NEW last \in Items(c)', NEW m \in 1..last - 1
                     PROVE  m \in Items(c)' \/ m <= sSeq - HISTORY
          BY <2>1 DEF NoGap
        <5>1. CASE last \in Items(c)
          BY <3>6, <5>1 DEF NoGap
        <5>2. CASE last = n
          BY <3>6, <4>1, <5>2 DEF Complete
        <5> QED BY <3>6, <5>1, <5>2
      <4> QED BY <4>4, <4>5
    <3> QED BY <3>8, <3>9
  <2> QED BY <2>3, <2>4
<1>5. CASE got' = got /\ clean' = clean
  <2> SUFFICES ASSUME NEW c \in clean PROVE InOrder(c)' /\ NoGap(c)'
    BY <1>5 DEF HistoryInv
  <2>1. InOrder(c) /\ NoGap(c)
    BY DEF HistoryInv
  <2> QED BY <1>1, <1>2, <1>5, <2>1, HistoryStays
<1>6. \/ \E fd \in FDs, c \in Conns : Accept(fd, c)
      \/ SendWrite
      \/ got' = got /\ clean' = clean
  BY DEF Next, WebOnMessage, RecordSeq, RecordBody, Httpd, WsGet, Upgrade, WsGetFails,
         Close, WsGetHandshake, WsGetDrops, OtaSetOnline, StartServer, Attach, RegisterRoutes,
         Detach, ClearClients, StopServer, PumpTask, PumpWake, PumpOffline, PumpCopy, PumpItemDone,
         PumpSkip, PumpTakeEntry, PumpCopyEntry, PumpDone, SendCheck, SendLookup, SendBegin,
         PumpDrop, PumpKeeps, connVars, pumpVars, vars
<1>7. SendWrite => clean' = clean
  BY DEF SendWrite, PumpKeeps, connVars
<1> QED BY <1>3, <1>4, <1>5, <1>6, <1>7

LEMMA HistoryHolds == Spec => [](AllInv /\ HistoryInv)
<1>1. Init => AllInv /\ HistoryInv
  BY InitAllInv, InitHistory
<1>2. AllInv /\ HistoryInv /\ [Next]_vars => (AllInv /\ HistoryInv)'
  BY NextAllInv, NextHistory
<1> QED BY <1>1, <1>2, PTL DEF Spec

(* A browser on a descriptor nobody listed any more is sent nothing before *)
(* it asks for the feed, then the status, then frames in order and none of *)
(* them twice: for every ring, list and number of descriptors, through     *)
(* every reconnect and restart of the server.                              *)
THEOREM FeedInOrderAlways == Spec => []FeedInOrder
<1>1. AllInv /\ HistoryInv => FeedInOrder
  <2> SUFFICES ASSUME AllInv, HistoryInv, NEW c \in clean
               PROVE  /\ kind[c] \in {"none", "http"} => got[c] = <<>>
                      /\ got[c] # <<>> => got[c][1] = Status
                      /\ \A i, j \in DOMAIN got[c] : i < j => got[c][i] < got[c][j]
    BY DEF FeedInOrder
  <2>1. c \in Conns
    BY ConnTypes DEF AllInv, IInv
  <2>2. kind[c] = "none" => got[c] = <<>>
    BY <2>1 DEF AllInv, ConnInv, Fresh
  <2>3. ASSUME kind[c] = "http" PROVE got[c] = <<>>
    <3>1. PICK d \in FDs : conn[d] = c
      BY <2>1, <2>3 DEF AllInv, ConnInv
    <3> QED BY <2>3, <3>1 DEF AllInv, FedInv, FedOk, NewOk, Fresh
  <2>4. InOrder(c)
    BY DEF HistoryInv
  <2> QED BY <2>2, <2>3, <2>4 DEF InOrder, Fresh
<1> QED BY <1>1, HistoryHolds, PTL

(* Such a browser misses only frames the ring had already moved past.      *)
THEOREM OnlyOverwrittenMissedAlways == Spec => []OnlyOverwrittenMissed
<1>1. AllInv /\ HistoryInv => OnlyOverwrittenMissed
  BY DEF HistoryInv, NoGap, OnlyOverwrittenMissed
<1> QED BY <1>1, HistoryHolds, PTL

(* Together: at any moment a browser has been sent, in order, every frame  *)
(* up to its last but those the ring had moved past.                       *)
THEOREM FedAsPromisedAlways == Spec => []FedAsPromised
<1>1. FeedInOrder /\ OnlyOverwrittenMissed => FedAsPromised
  BY DEF FedAsPromised
<1> QED BY <1>1, FeedInOrderAlways, OnlyOverwrittenMissedAlways, PTL

-----------------------------------------------------------------------------
(* The refinement of BrowserFeed.  Only Accept and SendWrite change what a *)
(* browser counts as having been sent; a new browser starts with nothing.  *)

(* The last of a sequence that grows, and where it stands among the rest.  *)
LEMMA LastOf ==
  ASSUME NEW S, NEW q \in Seq(S), q # <<>>
  PROVE  Len(q) \in DOMAIN q /\ Len(q) \in Nat /\ DOMAIN q = 1..Len(q) /\ q[Len(q)] \in S
OBVIOUS

LEMMA LatestKeeps ==
  ASSUME NEW c, got'[c] = got[c], c \in clean' <=> c \in clean
  PROVE  Latest(c)' = Latest(c)
BY DEF Latest

LEMMA LastsChange ==
  ASSUME NEW b \in Conns, \A c \in Conns \ {b} : Latest(c)' = Latest(c)
  PROVE  [c \in Conns |-> Latest(c)'] = [[c \in Conns |-> Latest(c)] EXCEPT ![b] = Latest(b)']
OBVIOUS

(* A browser is sent its status, or a frame that is due to it.             *)
LEMMA WriteFeeds ==
  ASSUME AllInv, HistoryInv, HistoryInv', SendWrite, got' # got,
         NEW b, b = conn[Fd], b \in clean
  PROVE  /\ b \in Conns
         /\ \/ Latest(b) = NoItem /\ Latest(b)' = Status
            \/ Latest(b) # NoItem /\ Latest(b)' \in Feed!Due(Latest(b))
<1> DEFINE q == got[b]
           n == pump.item
<1>1. /\ TypeOK /\ HISTORY \in Int /\ MaxFrames \in Nat /\ sSeq \in 0..MaxFrames
      /\ b \in Conns /\ b \in clean' /\ sSeq' = sSeq /\ pump.pc = "write"
      /\ got \in [Conns -> Seq(0..MaxFrames)]
  BY PumpType, ConnTypes, SendWriteDoes
     DEF AllInv, IInv, SendWrite, PumpKeeps, connVars, dispVars
<1>2. got'[b] = Append(q, n) /\ q \in Seq(0..MaxFrames)
  BY <1>1, Receives
<1>3. n \in {NoItem} \cup 0..MaxFrames
  BY <1>1, PumpType
<1>4. InOrder(b) /\ InOrder(b)' /\ NoGap(b)'
  BY <1>1 DEF HistoryInv
<1> HIDE DEF q, n
<1>5. /\ Append(q, n) # <<>> /\ Len(Append(q, n)) = Len(q) + 1 /\ Len(q) \in Nat
      /\ Append(q, n)[Len(q) + 1] = n
  BY <1>2, <1>3
<1>6. Latest(b)' = n
  BY <1>1, <1>2, <1>5 DEF Latest
<1>7. CASE Pending(Client)
  <2>1. q = <<>> /\ n = Status
    BY <1>7, Receives DEF Fresh, q, n
  <2> QED BY <1>1, <1>6, <2>1 DEF Latest, q
<1>8. CASE ~Pending(Client)
  <2> DEFINE k == q[Len(q)]
  <2>1. q # <<>> /\ n \in Nat \ {0} /\ Upto(b, n - 1)
    BY <1>8, Receives DEF Fresh, q, n
  <2>2. /\ Len(q) \in DOMAIN q /\ DOMAIN q = 1..Len(q) /\ k \in 0..MaxFrames
    BY <1>2, <2>1, LastOf
  <2>3. Latest(b) = k
    BY <2>1 DEF Latest, q
  <2> HIDE DEF k
  <2>4. k \in Nat /\ k <= n - 1
    <3>1. k <= n - 1
      BY <2>1, <2>2 DEF Upto, q, k
    <3>2. k \in Nat
      BY <1>1, <2>2
    <3> QED BY <3>1, <3>2
  <2>5. n <= sSeq
    <3>1. pump.newest <= sSeq /\ n \in 1..pump.newest /\ pump.newest \in Nat
      BY <1>1, <1>8, <2>1, Receives, PumpType DEF AllInv, IInv, PumpInv, PassInv, Status, n
    <3> QED BY <1>1, <3>1
  <2>6. n = k + 1 \/ n - 1 <= sSeq - HISTORY
    <3> SUFFICES ASSUME n # k + 1 PROVE n - 1 <= sSeq - HISTORY
      OBVIOUS
    <3>1. n - 1 \in 1..n - 1 /\ n - 1 > k
      BY <2>1, <2>4
    <3>2. /\ DOMAIN Append(q, n) = 1..Len(q) + 1
          /\ \A i \in 1..Len(q) : Append(q, n)[i] = q[i]
      BY <1>2, <1>3
    <3>3. n \in Items(b)'
      <4>1. Len(q) + 1 \in DOMAIN got'[b]
        BY <1>2, <1>5, <3>2
      <4> QED BY <1>2, <1>5, <4>1 DEF Items
    <3>4. n - 1 \notin Items(b)'
      <4> SUFFICES ASSUME NEW i \in DOMAIN got'[b], got'[b][i] = n - 1 PROVE FALSE
        BY DEF Items
      <4>1. i \in 1..Len(q) + 1
        BY <1>2, <3>2
      <4>2. i # Len(q) + 1
        BY <1>2, <1>5, <2>1, <4>1
      <4>3. i \in 1..Len(q) /\ q[i] = n - 1
        BY <1>2, <1>5, <3>2, <4>1, <4>2
      <4>4. i = Len(q) \/ q[i] < k
        <5>1. \A x, y \in DOMAIN q : x < y => q[x] < q[y]
          BY <1>4 DEF InOrder, q
        <5> QED BY <1>5, <2>2, <4>3, <5>1 DEF k
      <4> QED BY <2>1, <2>4, <3>1, <4>3, <4>4 DEF k
    <3> QED BY <1>1, <1>4, <3>1, <3>3, <3>4 DEF NoGap
  <2>7. n \in k + 1..sSeq
    BY <1>1, <2>1, <2>4, <2>5
  <2>8. n \in Feed!Due(k) /\ k # NoItem
    BY <2>4, <2>6, <2>7 DEF Feed!Due, NoItem
  <2> QED BY <1>1, <1>6, <2>3, <2>8
<1> QED BY <1>7, <1>8

LEMMA FeedStep ==
  ASSUME AllInv, HistoryInv, HistoryInv', [Next]_vars
  PROVE  [Feed!Next]_(Feed!feedVars)
<1> DEFINE was == [c \in Conns |-> Latest(c)]
           is == [c \in Conns |-> Latest(c)']
<1>1. /\ TypeOK /\ sSeq \in Nat /\ clean \subseteq Conns /\ got \in [Conns -> Seq(0..MaxFrames)]
  BY PumpType, ConnTypes, FeedAssumption DEF AllInv, IInv, TypeOK, FeedAssumption
<1>2. CASE RecordSeq
  <2>1. sSeq' = sSeq + 1 /\ got' = got /\ clean' = clean
    BY <1>2 DEF RecordSeq, connVars, pumpVars
  <2>2. is = was
    BY <2>1 DEF Latest
  <2> QED BY <2>1, <2>2 DEF Feed!Next, Feed!Record
<1>3. CASE UNCHANGED <<sSeq, got, clean>>
  <2>1. is = was
    BY <1>3 DEF Latest
  <2> QED BY <1>3, <2>1 DEF Feed!feedVars
<1>4. CASE \E fd \in FDs, c \in Conns : Accept(fd, c)
  <2>1. PICK fd \in FDs, b \in Conns : Accept(fd, b)
    BY <1>4
  <2>2. /\ sSeq' = sSeq /\ got' = got /\ got[b] = <<>>
        /\ clean' \subseteq clean \cup {b} /\ clean \subseteq clean'
    BY <2>1 DEF Accept, dispVars, pumpVars, AllInv, ConnInv, Fresh
  <2>3. is = was
    BY <2>2 DEF Latest
  <2> QED BY <2>2, <2>3 DEF Feed!feedVars
<1>5. CASE SendWrite /\ got' # got
  <2> PICK b : b = conn[Fd]
    OBVIOUS
  <2>1. /\ sSeq' = sSeq /\ clean' = clean /\ got' = Sent(b, pump.item)
    BY <1>1, <1>5, SendWriteDoes DEF SendWrite, PumpKeeps, connVars, dispVars
  <2>2. \A c \in Conns \ {b} : Latest(c)' = Latest(c)
    <3>1. \A c \in Conns \ {b} : got'[c] = got[c]
      BY <1>1, <2>1 DEF Sent
    <3> QED BY <2>1, <3>1, LatestKeeps
  <2>3. CASE b \notin clean
    <3>1. is = was
      <4>1. Latest(b)' = Latest(b)
        BY <2>1, <2>3 DEF Latest
      <4> QED BY <2>2, <4>1
    <3> QED BY <2>1, <3>1 DEF Feed!feedVars
  <2>4. CASE b \in clean
    <3>1. /\ b \in Conns
          /\ \/ Latest(b) = NoItem /\ Latest(b)' = Status
             \/ Latest(b) # NoItem /\ Latest(b)' \in Feed!Due(Latest(b))
      BY <1>5, <2>4, WriteFeeds
    <3>2. is = [was EXCEPT ![b] = Latest(b)'] /\ was[b] = Latest(b)
      BY <2>2, <3>1, LastsChange
    <3>3. CASE Latest(b) = NoItem /\ Latest(b)' = Status
      <4>1. Feed!Greet(b)
        BY <2>1, <3>1, <3>2, <3>3 DEF Feed!Greet, Feed!Nothing, Feed!Greeting, NoItem, Status
      <4> QED BY <3>1, <4>1 DEF Feed!Next
    <3>4. CASE Latest(b) # NoItem /\ Latest(b)' \in Feed!Due(Latest(b))
      <4>1. Feed!Feed(b)
        BY <2>1, <3>1, <3>2, <3>4 DEF Feed!Feed, Feed!Nothing, NoItem
      <4> QED BY <3>1, <4>1 DEF Feed!Next
    <3> QED BY <3>1, <3>3, <3>4
  <2> QED BY <2>3, <2>4
<1>6. \/ RecordSeq
      \/ UNCHANGED <<sSeq, got, clean>>
      \/ \E fd \in FDs, c \in Conns : Accept(fd, c)
      \/ SendWrite
  BY DEF Next, WebOnMessage, RecordBody, Httpd, WsGet, Upgrade, WsGetFails,
         Close, WsGetHandshake, WsGetDrops, OtaSetOnline, StartServer, Attach, RegisterRoutes,
         Detach, ClearClients, StopServer, PumpTask, PumpWake, PumpOffline, PumpCopy, PumpItemDone,
         PumpSkip, PumpTakeEntry, PumpCopyEntry, PumpDone, SendCheck, SendLookup, SendBegin,
         PumpDrop, PumpKeeps, dispVars, connVars, pumpVars, vars
<1>7. SendWrite => clean' = clean /\ sSeq' = sSeq
  BY DEF SendWrite, PumpKeeps, connVars, dispVars
<1> QED BY <1>2, <1>3, <1>4, <1>5, <1>6, <1>7

(* Ring, list, pump and server together keep the promise of BrowserFeed to *)
(* every browser on a fresh descriptor: one status, then frames in order,  *)
(* and a frame passed over only when the ring had no more of it.           *)
THEOREM ImplementsFeedAlways == Spec => ImplementsFeed
<1>1. Init => Feed!Init
  <2> SUFFICES ASSUME Init PROVE Feed!Init
    OBVIOUS
  <2>1. sSeq = 0 /\ clean = {}
    BY DEF Init
  <2>2. [c \in Conns |-> Latest(c)] = [c \in Conns |-> NoItem]
    BY <2>1 DEF Latest
  <2> QED BY <2>1, <2>2 DEF Feed!Init, Feed!Nothing, NoItem
<1>2. AllInv /\ HistoryInv /\ (AllInv /\ HistoryInv)' /\ [Next]_vars => [Feed!Next]_(Feed!feedVars)
  BY FeedStep
<1> QED BY <1>1, <1>2, HistoryHolds, PTL DEF Spec, ImplementsFeed, Feed!Spec

-----------------------------------------------------------------------------
(* Termination of a pass.  That a browser is fed in the end is liveness;   *)
(* what it rests on is that no pass goes on for ever, however many frames  *)
(* and browsers come meanwhile: the entries it still has to look at, then  *)
(* how far it is with one, then the clients it has yet to send it to, then *)
(* how far it is with one of those.                                        *)
Left ==
  IF Sending /\ pump.item = Status THEN pump.newest + 1 ELSE pump.newest + 1 - pump.seq
EntryStage(pc) == CASE pc = "next" -> 2 [] pc = "entry" -> 1 [] OTHER -> 0
SendStage(pc) ==
  CASE pc = "check" -> 4 [] pc = "look" -> 3 [] pc = "begin" -> 2 [] pc = "write" -> 1
    [] OTHER -> 0

NearerDone ==
  \/ Left' < Left
  \/ Left' = Left /\ EntryStage(pump'.pc) < EntryStage(pump.pc)
  \/ /\ Left' = Left /\ EntryStage(pump'.pc) = EntryStage(pump.pc)
     /\ \/ pump'.todo \subseteq pump.todo /\ pump'.todo # pump.todo
        \/ pump'.todo = pump.todo /\ SendStage(pump'.pc) < SendStage(pump.pc)

PassAdvances ==
  [][ /\ PumpTask /\ Passing => ~Passing' \/ NearerDone
      /\ WebOnMessage \/ Httpd \/ OtaSetOnline => UNCHANGED pump ]_vars

LEMMA LeftType ==
  ASSUME AllInv, Passing
  PROVE  /\ Left \in Nat /\ pump.newest \in Nat /\ pump.seq \in Nat
         /\ pump.pc \in {"next", "entry"} => pump.seq >= 1
         /\ Sending /\ pump.item # Status => pump.seq >= 1 /\ pump.seq <= pump.newest
<1>1. /\ pump.newest \in Nat /\ pump.seq \in Nat
      /\ pump.pc \in {"next", "entry"} \/ Sending
  BY PumpType DEF AllInv, IInv, Passing, Sending, PumpState, PumpPcs
<1>2. /\ pump.pc \in {"next", "entry"} => pump.seq >= 1 /\ pump.seq <= pump.newest + 1
      /\ Sending /\ pump.item # Status => pump.seq >= 1 /\ pump.seq <= pump.newest
  BY <1>1 DEF AllInv, IInv, PumpInv, PassInv, Sending
<1>3. Left \in Nat
  BY <1>1, <1>2 DEF Left
<1> QED BY <1>1, <1>2, <1>3

LEMMA PassNearer == ASSUME AllInv, PumpTask, Passing, Passing' PROVE NearerDone
<1>1. TypeOK /\ PumpInv /\ PassInv /\ CellInv
  BY DEF AllInv, IInv
<1>2. /\ Left \in Nat /\ pump.newest \in Nat /\ pump.seq \in Nat
      /\ pump.pc \in {"next", "entry"} => pump.seq >= 1
      /\ Sending /\ pump.item # Status => pump.seq >= 1 /\ pump.seq <= pump.newest
  BY LeftType
<1>3. CASE PumpItemDone
  <2>1. /\ pump.pc = "check" /\ pump'.pc = "next" /\ pump'.newest = pump.newest
        /\ pump'.seq = IF pump.item = Status THEN Oldest ELSE pump.seq + 1
    BY <1>1, <1>3, PumpItemDoneDoes DEF SameCopy
  <2>2. Oldest \in Nat /\ Oldest >= 1
    BY <1>1, <1>2, FeedAssumption, OldestIs DEF Larger, FeedAssumption
  <2>3. Left' = pump.newest + 1 - pump'.seq
    BY <2>1 DEF Left, Sending
  <2>4. Sending
    BY <2>1 DEF Sending
  <2>5. Left' < Left
    BY <1>2, <2>1, <2>2, <2>3, <2>4 DEF Left
  <2> QED BY <2>5 DEF NearerDone
<1>4. CASE PumpSkip
  <2>1. /\ pump.pc = "next" /\ pump'.pc = "next" /\ pump'.newest = pump.newest
        /\ pump'.seq = pump.seq + 1
    BY <1>1, <1>4, PumpSkipDoes DEF SameCopy
  <2>2. Left' < Left
    BY <1>2, <2>1 DEF Left, Sending
  <2> QED BY <2>2 DEF NearerDone
<1>5. CASE PumpTakeEntry
  <2>1. /\ pump.pc = "next" /\ pump'.pc = "entry" /\ pump'.newest = pump.newest
        /\ pump'.seq = pump.seq
    BY <1>1, <1>5, PumpTakeEntryDoes DEF SameCopy
  <2>2. Left' = Left /\ EntryStage(pump'.pc) < EntryStage(pump.pc)
    BY <2>1 DEF Left, Sending, EntryStage
  <2> QED BY <2>2 DEF NearerDone
<1>6. CASE PumpCopyEntry
  <2>1. /\ pump.pc = "entry" /\ pump'.newest = pump.newest
        /\ pump'.seq = IF pump.item = pump.seq THEN pump.seq ELSE pump.seq + 1
        /\ pump.item = pump.seq => pump'.pc = "check" /\ pump'.item = sHist[Cell(pump.seq)].body
        /\ pump.item # pump.seq => pump'.pc = "next"
    BY <1>1, <1>6, PumpCopyEntryDoes DEF SameCopy
  <2>2. CASE pump.item = pump.seq
    <3>1. Cell(pump.seq) \in 0..HISTORY - 1
      BY <1>2, <2>1, CellType
    <3>2. sHist[Cell(pump.seq)].body = pump.seq
      BY <1>1, <2>1, <2>2, <3>1 DEF CellInv, PumpInv
    <3>3. pump'.item # Status
      BY <1>2, <2>1, <2>2, <3>2 DEF Status
    <3>4. Left' = Left /\ EntryStage(pump'.pc) < EntryStage(pump.pc)
      BY <2>1, <2>2, <3>3 DEF Left, Sending, EntryStage
    <3> QED BY <3>4 DEF NearerDone
  <2>3. CASE pump.item # pump.seq
    <3>1. Left' < Left
      BY <1>2, <2>1, <2>3 DEF Left, Sending
    <3> QED BY <3>1 DEF NearerDone
  <2> QED BY <2>2, <2>3
<1>7. CASE SendCheck \/ SendLookup \/ SendBegin
  <2>1. /\ pump'.newest = pump.newest /\ pump'.seq = pump.seq /\ pump'.item = pump.item
        /\ pump'.todo = pump.todo
        /\ \/ pump.pc = "check" /\ pump'.pc = "look"
           \/ pump.pc = "look" /\ pump'.pc \in {"begin", "drop"}
           \/ pump.pc = "begin" /\ pump'.pc = "write"
    BY <1>1, <1>7, SendCheckDoes, SendLookupDoes, SendBeginDoes DEF SameCopy
  <2>2. /\ Left' = Left /\ EntryStage(pump'.pc) = EntryStage(pump.pc)
        /\ SendStage(pump'.pc) < SendStage(pump.pc)
    BY <2>1 DEF Left, Sending, EntryStage, SendStage
  <2> QED BY <2>1, <2>2 DEF NearerDone
<1>8. CASE SendWrite \/ PumpDrop
  <2>1. /\ pump'.newest = pump.newest /\ pump'.seq = pump.seq /\ pump'.item = pump.item
        /\ \/ pump.pc = "write" /\ pump'.pc = "drop" /\ pump'.todo = pump.todo
           \/ /\ pump.pc \in {"write", "drop"} /\ pump'.pc = "check"
              /\ pump'.todo = pump.todo \ {Client}
    BY <1>1, <1>8, SendWriteDoes, PumpDropDoes DEF SameCopy
  <2>2. Client \in pump.todo
    <3>1. pump.todo # {}
      BY <1>1, <2>1 DEF PassInv
    <3> QED BY <1>1, <3>1, ClientLeft
  <2>3. Left' = Left /\ EntryStage(pump'.pc) = EntryStage(pump.pc)
    BY <2>1 DEF Left, Sending, EntryStage
  <2>4. \/ pump'.todo \subseteq pump.todo /\ pump'.todo # pump.todo
        \/ pump'.todo = pump.todo /\ SendStage(pump'.pc) < SendStage(pump.pc)
    BY <2>1, <2>2 DEF SendStage
  <2> QED BY <2>3, <2>4 DEF NearerDone
<1>9. CASE PumpWake \/ PumpOffline \/ PumpCopy
  BY <1>9 DEF PumpWake, PumpOffline, PumpCopy, Passing
<1>10. CASE PumpDone
  BY <1>10, RestingFields DEF PumpDone, Passing
<1> QED BY <1>3, <1>4, <1>5, <1>6, <1>7, <1>8, <1>9, <1>10 DEF PumpTask

(* Every step of a pass brings it nearer to its end, in an order without   *)
(* infinite descent, and no other task sets it back: frames recorded and   *)
(* browsers connected during a pass never prolong it.                      *)
THEOREM PassAdvancesAlways == Spec => PassAdvances
<1>1. AllInv /\ PumpTask /\ Passing => ~Passing' \/ NearerDone
  BY PassNearer
<1>2. WebOnMessage \/ Httpd \/ OtaSetOnline => UNCHANGED pump
  BY DEF WebOnMessage, RecordSeq, RecordBody, Httpd, WsGet, Accept, Upgrade, WsGetFails,
         Close, WsGetHandshake, WsGetDrops, OtaSetOnline, StartServer, Attach, RegisterRoutes,
         Detach, ClearClients, StopServer, pumpVars
<1> QED BY <1>1, <1>2, AllInvHolds, PTL DEF Spec, PassAdvances

(* The pump task sends, drops and waits with the lock free or in another   *)
(* task's hands: it holds it for the copy of one entry only.               *)
SendsUnlocked == pump.pc # "entry" => lock # "pump"

THEOREM SendsUnlockedAlways == Spec => []SendsUnlocked
<1>1. IInv => SendsUnlocked
  BY DEF IInv, PumpInv, SendsUnlocked
<1> QED BY <1>1, Inductive, PTL
=============================================================================
