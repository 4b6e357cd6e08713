--------------------------- MODULE StatusPage_proofs ---------------------------
(***************************************************************************)
(* The rows of the page for any ring, any number of frames, of lost        *)
(* connections and of reboots, and any clicks.                             *)
(*                                                                         *)
(* The argument lays what is under way and what is in the table end to end *)
(* and counts back from the last frame sent: behind it come the numbers    *)
(* before it, without a gap, at least as far as the ring still goes.       *)
(* Sending, overwriting and receiving keep that; once nothing is under way *)
(* it says that the table is the ring.                                     *)
(***************************************************************************)
EXTENDS StatusPage, SequenceTheorems, TLAPS

(* What of this connection's frames is in the table.                       *)
Taken == IF sock = "open" THEN rows ELSE <<>>

(* Counting back from the last one sent.                                   *)
Count == Len(wire) + Len(Taken)
Back(p) == IF p < Len(wire) THEN wire[Len(wire) - p] ELSE Taken[p - Len(wire) + 1]

FeedInv ==
  listed =>
    /\ sock \in {"accepted", "open"}
    /\ \A p \in 0..Count - 1 : Back(p).boot = boots /\ Back(p).seq + p <= sent
    /\ \A p, q \in 0..Count - 1 : p < q => Back(q).seq < Back(p).seq
    /\ \A p \in Nat : Oldest + p <= sent => p < Count /\ Back(p).seq = sent - p

(* The status, with the size of the ring, is read before any frame.        *)
CapInv ==
  sock \in {"accepted", "open"} /\ (listed \/ wire # <<>>) =>
    \/ sock = "open" /\ cap = HISTORY
    \/ wire # <<>> /\ Head(wire).seq = 0

SentInv == sent <= newest

(* No number is in the table twice, pinned or not.                         *)
RowsApart ==
  /\ \A i, j \in 1..Len(rows) : i # j => rows[i].seq # rows[j].seq
  /\ pinned # NoFrame => \A i \in 1..Len(rows) : rows[i].seq # pinned.seq

IInv ==
  TypeOK /\ SentInv /\ CapInv /\ FeedInv /\ RowsApart /\ PinnedIsSelected

-----------------------------------------------------------------------------
(* Numbers and sequences *)

LEMMA Constants ==
  /\ HISTORY \in Nat /\ HISTORY > 0 /\ FirstCap \in Nat /\ FirstCap > 0
  /\ MaxFrames \in Nat /\ MaxMishaps \in Nat /\ MaxBoots \in Nat /\ MaxBoots > 0
BY PageAssumption DEF PageAssumption

LEMMA OldestFacts ==
  ASSUME newest \in Nat
  PROVE  /\ Oldest \in Nat /\ Oldest >= 1
         /\ Oldest <= newest + 1 /\ newest < Oldest + HISTORY
         /\ newest > HISTORY => newest + 1 = Oldest + HISTORY
         /\ newest <= HISTORY => Oldest = 1
BY Constants DEF Oldest

LEMMA SeqsOf ==
  ASSUME NEW S, NEW q \in Seq(S)
  PROVE  /\ \A x : x \in Seqs(q) <=> \E i \in 1..Len(q) : q[i].seq = x
         /\ \A x : x \in ToSet(q) <=> \E i \in 1..Len(q) : q[i] = x
BY DEF Seqs, ToSet

(* A row in front, and what the cap leaves of it.                          *)
LEMMA Unshifted ==
  ASSUME NEW S, rows \in Seq(S), NEW m \in S
  PROVE  /\ Unshift(m) \in Seq(S) /\ Len(Unshift(m)) = Len(rows) + 1
         /\ Unshift(m)[1] = m
         /\ \A i \in 1..Len(rows) : Unshift(m)[i + 1] = rows[i]
         /\ \A i \in 2..Len(rows) + 1 : Unshift(m)[i] = rows[i - 1]
<1>1. <<m>> \in Seq(S) /\ Len(<<m>>) = 1 /\ <<m>>[1] = m
  OBVIOUS
<1>2. /\ Unshift(m) \in Seq(S) /\ Len(Unshift(m)) = 1 + Len(rows)
      /\ \A i \in 1..1 + Len(rows) :
           Unshift(m)[i] = IF i <= 1 THEN <<m>>[i] ELSE rows[i - 1]
  BY <1>1, ConcatProperties DEF Unshift
<1>3. Len(rows) \in Nat
  OBVIOUS
<1> HIDE DEF Unshift
<1> QED BY <1>1, <1>2, <1>3

LEMMA KeptFacts ==
  ASSUME NEW S, NEW list \in Seq(S), cap \in Nat
  PROVE  LET n == IF Len(list) < cap THEN Len(list) ELSE cap
         IN  /\ Kept(list) \in Seq(S) /\ Len(Kept(list)) = n
             /\ \A i \in 1..n : Kept(list)[i] = list[i]
<1> DEFINE n == IF Len(list) < cap THEN Len(list) ELSE cap
<1>1. n \in Nat /\ n <= Len(list) /\ Len(list) \in Nat
  OBVIOUS
<1> HIDE DEF n
<1>2. /\ SubSeq(list, 1, n) \in Seq(S) /\ Len(SubSeq(list, 1, n)) = n
      /\ \A i \in 1..n : SubSeq(list, 1, n)[i] = list[i]
  BY <1>1
<1> QED BY <1>2 DEF Kept, n
-----------------------------------------------------------------------------
(* One frame added *)

(* The table after a number it did not have.                               *)
LEMMA RowsAfter ==
  ASSUME rows \in Seq(Frames), cap \in Nat, cap > 0, NEW m \in Frames,
         m.seq \notin Seqs(rows), AddMsg(m)
  PROVE  /\ rows' \in Seq(Frames) /\ rows' = Kept(Unshift(m))
         /\ Len(rows') = IF Len(rows) + 1 < cap THEN Len(rows) + 1 ELSE cap
         /\ Len(rows') >= 1 /\ Len(rows) \in Nat
         /\ rows'[1] = m
         /\ \A i \in 2..Len(rows') : rows'[i] = rows[i - 1]
<1>1. rows' = Kept(Unshift(m))
  BY DEF AddMsg
<1>2. /\ Unshift(m) \in Seq(Frames) /\ Len(Unshift(m)) = Len(rows) + 1
      /\ Unshift(m)[1] = m
      /\ \A i \in 2..Len(rows) + 1 : Unshift(m)[i] = rows[i - 1]
  BY Unshifted
<1> DEFINE u == Unshift(m)  n == IF Len(u) < cap THEN Len(u) ELSE cap
<1>3. /\ Kept(u) \in Seq(Frames) /\ Len(Kept(u)) = n
      /\ \A i \in 1..n : Kept(u)[i] = u[i]
  <2>1. u \in Seq(Frames)
    BY <1>2
  <2> HIDE DEF u
  <2> QED BY <2>1, KeptFacts
<1>4. Len(rows) \in Nat /\ n = IF Len(rows) + 1 < cap THEN Len(rows) + 1 ELSE cap
  BY <1>2
<1> HIDE DEF u, n
<1>5. 1 \in 1..n /\ \A i \in 2..n : i \in 1..n /\ i \in 2..Len(rows) + 1
  BY <1>4
<1> QED BY <1>1, <1>2, <1>3, <1>4, <1>5 DEF u

(* What goes is a row; the one selected is pinned, and no other.           *)
LEMMA PinnedAfter ==
  ASSUME rows \in Seq(Frames), cap \in Nat, cap > 0, NEW m \in Frames,
         m.seq \notin Seqs(rows), AddMsg(m), pinned \in Frames \cup {NoFrame},
         RowsApart, PinnedIsSelected
  PROVE  /\ pinned' \in Frames \cup {NoFrame}
         /\ pinned' # NoFrame => pinned'.seq = sel
         /\ pinned' # NoFrame => \A i \in 1..Len(rows') : rows'[i].seq # pinned'.seq
         /\ \A i \in 1..Len(rows) :
              rows[i].seq = sel /\ (\A j \in 1..Len(rows') : rows'[j].seq # sel)
                => pinned' # NoFrame /\ pinned'.seq = sel
         /\ pinned # NoFrame /\ (\A j \in 1..Len(rows') : rows'[j].seq # sel)
                => pinned' # NoFrame /\ pinned'.seq = sel
<1> DEFINE gone == ToSet(Unshift(m)) \ ToSet(Kept(Unshift(m)))
<1>0. pinned' = Pin(m, gone)
  BY DEF AddMsg
<1>1. /\ rows' \in Seq(Frames) /\ rows' = Kept(Unshift(m))
      /\ Len(rows') >= 1 /\ Len(rows) \in Nat /\ Len(rows') \in Nat
      /\ rows'[1] = m
      /\ \A i \in 2..Len(rows') : rows'[i] = rows[i - 1]
      /\ Len(rows') <= Len(rows) + 1
  BY RowsAfter
<1>2. /\ Unshift(m) \in Seq(Frames) /\ Len(Unshift(m)) = Len(rows) + 1
      /\ Unshift(m)[1] = m
      /\ \A i \in 1..Len(rows) : Unshift(m)[i + 1] = rows[i]
      /\ \A i \in 2..Len(rows) + 1 : Unshift(m)[i] = rows[i - 1]
  BY Unshifted
<1>3. \A i \in 1..Len(rows) : rows[i].seq # m.seq
  BY SeqsOf
<1>4. ASSUME NEW f \in gone
      PROVE  /\ f \in Frames /\ f # NoFrame
             /\ \E i \in 1..Len(rows) : f = rows[i] /\ i + 1 > Len(rows')
  <2>1. PICK i \in 1..Len(rows) + 1 : f = Unshift(m)[i]
    <3>1. f \in ToSet(Unshift(m))
      OBVIOUS
    <3> HIDE DEF gone
    <3> QED BY <1>2, <3>1, SeqsOf
  <2>2. ~ \E j \in 1..Len(rows') : rows'[j] = f
    <3>1. f \notin ToSet(rows')
      BY <1>1
    <3> HIDE DEF gone
    <3> QED BY <1>1, <3>1, SeqsOf
  <2> HIDE DEF gone
  <2>3. i # 1
    BY <1>1, <1>2, <2>1, <2>2
  <2>4. i \in 2..Len(rows) + 1 /\ f = rows[i - 1] /\ i - 1 \in 1..Len(rows)
    BY <1>1, <1>2, <2>1, <2>3
  <2>5. ~(i <= Len(rows'))
    BY <1>1, <2>2, <2>4
  <2>6. f \in Frames
    BY <2>4
  <2>7. f # NoFrame
    BY <2>6, Constants DEF Frames, NoFrame
  <2>8. (i - 1) + 1 > Len(rows')
    BY <1>1, <2>4, <2>5
  <2> QED BY <2>4, <2>6, <2>7, <2>8
<1>5. ASSUME NEW f \in gone, NEW j \in 1..Len(rows') PROVE rows'[j].seq # f.seq
  <2>1. PICK i \in 1..Len(rows) : f = rows[i] /\ i + 1 > Len(rows')
    BY <1>4
  <2> HIDE DEF gone
  <2>2. CASE j = 1
    BY <1>1, <1>3, <2>1, <2>2
  <2>3. CASE j # 1
    <3>1. j - 1 \in 1..Len(rows) /\ rows'[j] = rows[j - 1] /\ j - 1 # i
      BY <1>1, <2>1, <2>3
    <3> QED BY <2>1, <3>1 DEF RowsApart
  <2> QED BY <2>2, <2>3
<1>6. ASSUME NEW i \in 1..Len(rows), \A j \in 1..Len(rows') : rows'[j].seq # rows[i].seq
      PROVE  rows[i] \in gone
  <2>1. rows[i] \in ToSet(Unshift(m))
    <3>1. i + 1 \in 1..Len(rows) + 1 /\ Unshift(m)[i + 1] = rows[i]
      BY <1>1, <1>2
    <3> QED BY <1>2, <3>1, SeqsOf
  <2>2. rows[i] \notin ToSet(rows')
    <3>1. \A j \in 1..Len(rows') : rows'[j] # rows[i]
      BY <1>6
    <3> QED BY <1>1, <3>1, SeqsOf
  <2> QED BY <1>1, <2>1, <2>2
<1> HIDE DEF gone
<1>7. CASE \E f \in gone : f.seq = sel
  <2>1. pinned' \in gone /\ pinned'.seq = sel
    BY <1>0, <1>7 DEF Pin
  <2> QED BY <1>4, <1>5, <2>1
<1>8. CASE ~ \E f \in gone : f.seq = sel
  <2>1. \A i \in 1..Len(rows) : rows[i].seq = sel => \E j \in 1..Len(rows') : rows'[j].seq = sel
    BY <1>6, <1>8
  <2>2. CASE pinned.seq = m.seq
    <3>1. pinned' = NoFrame
      BY <1>0, <1>8, <2>2 DEF Pin
    <3>2. pinned # NoFrame => rows'[1].seq = sel /\ 1 \in 1..Len(rows')
      BY <1>1, <2>2 DEF PinnedIsSelected
    <3> QED BY <2>1, <3>1, <3>2
  <2>3. CASE pinned.seq # m.seq
    <3>1. pinned' = pinned
      BY <1>0, <1>8, <2>3 DEF Pin
    <3>2. ASSUME pinned # NoFrame, NEW i \in 1..Len(rows') PROVE rows'[i].seq # pinned.seq
      <4>1. CASE i = 1
        BY <1>1, <2>3, <4>1
      <4>2. CASE i # 1
        <5>1. rows'[i] = rows[i - 1] /\ i - 1 \in 1..Len(rows)
          BY <1>1, <4>2
        <5> QED BY <3>2, <5>1 DEF RowsApart
      <4> QED BY <4>1, <4>2
    <3> QED BY <2>1, <3>1, <3>2 DEF PinnedIsSelected
  <2> QED BY <2>2, <2>3
<1> QED BY <1>7, <1>8
-----------------------------------------------------------------------------
(* The device and the network *)

Messages == [boot : 1..MaxBoots, seq : 0..MaxFrames]

LEMMA CountFacts ==
  ASSUME TypeOK
  PROVE  /\ Taken \in Seq(Frames) /\ Len(Taken) \in Nat
         /\ wire \in Seq(Messages) /\ Len(wire) \in Nat /\ Count \in Nat
         /\ sent \in Nat /\ newest \in Nat /\ boots \in Nat
         /\ \A p \in 0..Count - 1 : Back(p) \in Messages /\ Back(p).seq \in Nat
<1>1. /\ Taken \in Seq(Frames) /\ Len(Taken) \in Nat
      /\ wire \in Seq(Messages) /\ Len(wire) \in Nat
      /\ sent \in Nat /\ newest \in Nat /\ boots \in Nat
  BY Constants DEF TypeOK, Taken, Messages
<1>2. Count \in Nat
  BY <1>1 DEF Count
<1>3. Frames \subseteq Messages
  BY Constants DEF Frames, Messages
<1>4. \A m \in Messages : m.seq \in Nat
  BY Constants DEF Messages
<1>5. ASSUME NEW p \in 0..Count - 1 PROVE Back(p) \in Messages
  <2>1. CASE p < Len(wire)
    <3>1. Len(wire) - p \in 1..Len(wire)
      BY <1>1, <2>1, <1>2
    <3> QED BY <1>1, <2>1, <3>1 DEF Back
  <2>2. CASE ~(p < Len(wire))
    <3>1. p - Len(wire) + 1 \in 1..Len(Taken)
      BY <1>1, <1>2, <2>2 DEF Count
    <3>2. Taken[p - Len(wire) + 1] \in Frames
      BY <1>1, <3>1
    <3> QED BY <1>3, <2>2, <3>2 DEF Back
  <2> QED BY <2>1, <2>2
<1> QED BY <1>1, <1>2, <1>4, <1>5

OldestOf(n) == IF n > HISTORY THEN n - HISTORY + 1 ELSE 1

LEMMA OldestGrows ==
  ASSUME NEW m \in Nat, NEW n \in Nat, m <= n
  PROVE  OldestOf(m) \in Nat /\ OldestOf(n) \in Nat /\ OldestOf(m) <= OldestOf(n)
BY Constants DEF OldestOf

(* The feed as long as nothing but the ring moves.                         *)
LEMMA FeedKept ==
  ASSUME TypeOK, TypeOK', FeedInv, newest <= newest',
         UNCHANGED <<boots, listed, sent, wire>>,
         sock \in {"accepted", "open"} => sock' \in {"accepted", "open"} /\ Taken' = Taken
  PROVE  FeedInv'
<1> SUFFICES ASSUME listed' PROVE FeedInv'
  BY DEF FeedInv
<1>1. /\ Count' = Count /\ \A p : Back(p)' = Back(p)
      /\ sock' \in {"accepted", "open"}
  BY DEF FeedInv, Count, Back
<1>2. sent \in Nat /\ newest \in Nat /\ newest' \in Nat /\ Oldest \in Nat
  <2>1. newest' \in Nat
    BY Constants DEF TypeOK
  <2> QED BY <2>1, CountFacts, OldestFacts
<1>3. ASSUME NEW p \in Nat, Oldest' + p <= sent' PROVE Oldest + p <= sent
  <2> DEFINE o == Oldest  later == Oldest'
  <2>1. o \in Nat /\ later \in Nat /\ o <= later
    BY <1>2, OldestGrows DEF Oldest, OldestOf
  <2>2. later + p <= sent
    BY <1>3
  <2> HIDE DEF o, later
  <2>3. o + p <= sent
    BY <1>2, <2>1, <2>2
  <2> USE DEF o
  <2> QED BY <2>3
<1>4. ASSUME NEW p \in Nat, Oldest' + p <= sent' PROVE (p < Count /\ Back(p).seq = sent - p)'
  <2>1. p < Count /\ Back(p).seq = sent - p
    BY <1>3, <1>4 DEF FeedInv
  <2> QED BY <1>1, <2>1
<1>5. /\ \A p \in 0..Count - 1 : Back(p).boot = boots /\ Back(p).seq + p <= sent
      /\ \A p, q \in 0..Count - 1 : p < q => Back(q).seq < Back(p).seq
  BY DEF FeedInv
<1>6. boots' = boots
  OBVIOUS
<1> QED BY <1>1, <1>4, <1>5, <1>6 DEF FeedInv

LEMMA RecordIInv == ASSUME IInv, Record PROVE IInv'
<1>1. /\ newest' = newest + 1 /\ newest < MaxFrames
      /\ UNCHANGED <<boots, listed, sent, wire, mishaps, sock, live, rows, cap, sel, pinned>>
  BY DEF Record, pageVars
<1>2. TypeOK'
  <2>1. newest' \in 0..MaxFrames
    BY <1>1, Constants DEF IInv, TypeOK
  <2> QED BY <1>1, <2>1 DEF IInv, TypeOK
<1>3. SentInv' /\ newest <= newest'
  BY <1>1, Constants DEF IInv, TypeOK, SentInv
<1>4. FeedInv'
  BY <1>1, <1>2, <1>3, FeedKept DEF IInv, Taken
<1> QED BY <1>1, <1>2, <1>3, <1>4 DEF IInv, CapInv, RowsApart, PinnedIsSelected

LEMMA AcceptIInv == ASSUME IInv, Accept PROVE IInv'
<1>1. /\ sock' = "accepted" /\ listed' = TRUE /\ sent' = 0 /\ wire' = <<Status>>
      /\ UNCHANGED <<boots, newest, mishaps, live, rows, cap, sel, pinned>>
  BY DEF Accept, pageVars
<1>2. Status \in Messages /\ Status.seq = 0 /\ Status.boot = boots
  BY Constants DEF Status, Messages, IInv, TypeOK
<1>3. /\ wire' \in Seq(Messages) /\ Len(wire') = 1 /\ wire'[1] = Status
      /\ Head(wire') = Status /\ wire' # <<>>
  <2> HIDE DEF Status
  <2> QED BY <1>1, <1>2
<1>4. TypeOK'
  BY <1>1, <1>3, Constants DEF IInv, TypeOK, Messages
<1>5. SentInv'
  BY <1>1 DEF IInv, TypeOK, SentInv
<1>6. CapInv'
  BY <1>1, <1>2, <1>3 DEF CapInv
<1>7. FeedInv'
  <2>1. Count' = 1
    BY <1>1, <1>3 DEF Count, Taken
  <2>2. Back(0)' = Status
    BY <1>3 DEF Back
  <2>3. Oldest' >= 1 /\ Oldest' \in Nat
    BY <1>1, OldestFacts DEF IInv, TypeOK, Oldest
  <2>4. \A p \in 0..Count' - 1 : p = 0
    BY <2>1
  <2>5. ASSUME NEW p \in Nat PROVE ~(Oldest' + p <= sent')
    <3> DEFINE o == Oldest'
    <3>1. o \in Nat /\ o >= 1
      BY <2>3
    <3> HIDE DEF o
    <3>2. ~(o + p <= 0)
      BY <3>1
    <3> USE DEF o
    <3> QED BY <1>1, <3>2
  <2>6. \A p \in 0..Count' - 1 : Back(p)'.boot = boots' /\ Back(p)'.seq + p <= sent'
    BY <1>1, <1>2, <2>2, <2>4
  <2>7. \A p, q \in 0..Count' - 1 : ~(p < q)
    BY <2>4
  <2> QED BY <1>1, <2>5, <2>6, <2>7 DEF FeedInv
<1> QED BY <1>1, <1>4, <1>5, <1>6, <1>7 DEF IInv, RowsApart, PinnedIsSelected

(* The next frame is newer than all of them, and where it leaves a gap the *)
(* ring has one too.                                                       *)
LEMMA SendIInv == ASSUME IInv, Send PROVE IInv'
<1>1. /\ listed
      /\ UNCHANGED <<boots, newest, listed, mishaps, sock, live, rows, cap, sel, pinned>>
  BY DEF Send, pageVars
<1> PICK n \in Feed!Due(sent) : sent' = n /\ wire' = Append(wire, Frame(n))
  BY DEF Send
<1>2. /\ n \in Nat /\ n > sent /\ n <= newest /\ n >= 1
      /\ n <= Oldest \/ n = sent + 1
      /\ Oldest \in Nat /\ sent \in Nat /\ newest \in Nat /\ newest <= MaxFrames
  <2>1. sent \in Nat /\ newest \in Nat /\ newest <= MaxFrames
    BY Constants DEF IInv, TypeOK
  <2>2. n \in sent + 1..newest /\ (n = sent + 1 \/ n - 1 <= newest - HISTORY)
    BY DEF Feed!Due
  <2>3. Oldest \in Nat /\ (n <= Oldest \/ n = sent + 1)
    BY <2>1, <2>2, Constants DEF Oldest
  <2> QED BY <2>1, <2>2, <2>3
<1>3. Frame(n) \in Messages /\ Frame(n).seq = n /\ Frame(n).boot = boots
  BY <1>2, Constants DEF Frame, Messages, IInv, TypeOK
<1>4. /\ wire \in Seq(Messages) /\ Len(wire) \in Nat
      /\ wire' \in Seq(Messages) /\ Len(wire') = Len(wire) + 1
      /\ wire'[Len(wire) + 1] = Frame(n)
      /\ \A i \in 1..Len(wire) : wire'[i] = wire[i]
      /\ wire' # <<>> /\ (wire # <<>> => Head(wire') = Head(wire))
  <2>1. wire \in Seq(Messages)
    BY DEF IInv, TypeOK, Messages
  <2> HIDE DEF Frame
  <2>2. /\ wire' \in Seq(Messages) /\ Len(wire') = Len(wire) + 1 /\ Len(wire) \in Nat
        /\ wire'[Len(wire) + 1] = Frame(n)
        /\ \A i \in 1..Len(wire) : wire'[i] = wire[i]
        /\ wire' # <<>>
    BY <1>1, <1>3, <2>1, AppendProperties
  <2>3. wire # <<>> => Head(wire') = Head(wire)
    BY <2>1, <2>2
  <2> QED BY <2>1, <2>2, <2>3
<1>5. TypeOK'
  <2>1. n \in 0..MaxFrames
    BY <1>2, Constants
  <2> QED BY <1>1, <1>4, <2>1 DEF IInv, TypeOK, Messages
<1>6. SentInv'
  BY <1>1, <1>2 DEF SentInv
<1>7. CapInv'
  <2>1. wire # <<>> \/ (sock = "open" /\ cap = HISTORY) \/ sock \notin {"accepted", "open"}
    BY <1>1 DEF IInv, CapInv
  <2> QED BY <1>1, <1>4, <2>1 DEF IInv, CapInv
<1>8. FeedInv'
  <2>1. /\ Count' = Count + 1 /\ Count \in Nat /\ Taken' = Taken
    <3>1. Taken' = Taken
      BY <1>1 DEF Taken
    <3>2. Len(Taken) \in Nat /\ Len(wire) \in Nat /\ Len(wire') = Len(wire) + 1
      BY <1>4, CountFacts DEF IInv
    <3> QED BY <3>1, <3>2 DEF Count
  <2>2. Back(0)' = Frame(n)
    BY <1>4 DEF Back
  <2>3. ASSUME NEW p \in 0..Count - 1 PROVE Back(p + 1)' = Back(p) /\ Back(p).seq \in Nat
    <3>1. Back(p).seq \in Nat
      BY CountFacts DEF IInv
    <3>2. CASE p < Len(wire)
      <4>1. p + 1 < Len(wire') /\ Len(wire') - (p + 1) = Len(wire) - p
            /\ Len(wire) - p \in 1..Len(wire)
        BY <1>4, <2>1, <3>2
      <4> QED BY <1>4, <3>1, <3>2, <4>1 DEF Back
    <3>3. CASE ~(p < Len(wire))
      <4>1. ~(p + 1 < Len(wire')) /\ (p + 1) - Len(wire') + 1 = p - Len(wire) + 1
        BY <1>4, <2>1, <3>3
      <4> QED BY <2>1, <3>1, <3>3, <4>1 DEF Back
    <3> QED BY <3>2, <3>3
  <2>4. ASSUME NEW p \in 0..Count' - 1
        PROVE  p = 0 \/ (p - 1 \in 0..Count - 1 /\ Back(p)' = Back(p - 1))
    <3>1. CASE p # 0
      <4>1. p - 1 \in 0..Count - 1 /\ (p - 1) + 1 = p
        BY <2>1, <3>1
      <4>2. Back((p - 1) + 1)' = Back(p - 1)
        BY <2>3, <4>1
      <4> QED BY <4>1, <4>2
    <3> QED BY <3>1
  <2>5. ASSUME NEW p \in 0..Count' - 1 PROVE Back(p)'.boot = boots' /\ Back(p)'.seq + p <= sent'
    <3>1. CASE p = 0
      BY <1>1, <1>2, <1>3, <2>2, <3>1
    <3>2. CASE p # 0
      <4>1. p - 1 \in 0..Count - 1 /\ Back(p)' = Back(p - 1)
        BY <2>4, <3>2
      <4>2. Back(p - 1).boot = boots /\ Back(p - 1).seq + (p - 1) <= sent /\ Back(p - 1).seq \in Nat
        BY <1>1, <2>3, <4>1 DEF IInv, FeedInv
      <4> QED BY <1>1, <1>2, <4>1, <4>2
    <3> QED BY <3>1, <3>2
  <2>6. ASSUME NEW p \in 0..Count' - 1, NEW q \in 0..Count' - 1, p < q
        PROVE  Back(q)'.seq < Back(p)'.seq
    <3>1. q - 1 \in 0..Count - 1 /\ Back(q)' = Back(q - 1) /\ Back(q - 1).seq \in Nat
          /\ Back(q - 1).seq + (q - 1) <= sent
      BY <1>1, <2>1, <2>3, <2>4, <2>6 DEF IInv, FeedInv
    <3>2. CASE p = 0
      BY <1>1, <1>2, <1>3, <2>2, <2>6, <3>1, <3>2
    <3>3. CASE p # 0
      <4>1. p - 1 \in 0..Count - 1 /\ Back(p)' = Back(p - 1) /\ p - 1 < q - 1
        BY <2>1, <2>4, <2>6, <3>3
      <4> QED BY <1>1, <3>1, <4>1 DEF IInv, FeedInv
    <3> QED BY <3>2, <3>3
  <2>7. ASSUME NEW p \in Nat, Oldest' + p <= sent' PROVE p < Count' /\ Back(p)'.seq = sent' - p
    <3>1. Oldest' = Oldest
      BY <1>1 DEF Oldest
    <3>2. CASE p = 0
      BY <1>1, <1>2, <1>3, <2>1, <2>2, <3>2
    <3>3. CASE p # 0
      <4>1. n = sent + 1 /\ p - 1 \in Nat /\ Oldest + (p - 1) <= sent
        BY <1>1, <1>2, <2>7, <3>1, <3>3
      <4>2. p - 1 < Count /\ Back(p - 1).seq = sent - (p - 1)
        BY <1>1, <4>1 DEF IInv, FeedInv
      <4>3. p \in 0..Count' - 1 /\ p < Count'
        BY <2>1, <4>1, <4>2
      <4>4. Back(p)' = Back(p - 1)
        BY <2>4, <3>3, <4>3
      <4> QED BY <1>1, <1>2, <4>1, <4>2, <4>3, <4>4
    <3> QED BY <3>2, <3>3
  <2>8. sock' \in {"accepted", "open"}
    BY <1>1 DEF IInv, FeedInv
  <2> HIDE DEF Back, Count, Oldest
  <2> QED BY <2>5, <2>6, <2>7, <2>8 DEF FeedInv
<1> QED BY <1>1, <1>5, <1>6, <1>7, <1>8 DEF IInv, RowsApart, PinnedIsSelected

(* A connection that ends leaves the page as it was.                       *)
LEMMA MishapIInv == ASSUME IInv, Mishap PROVE IInv'
<1>1. CASE Unlist
  <2>1. /\ mishaps < MaxMishaps /\ mishaps' = mishaps + 1 /\ listed' = FALSE
        /\ UNCHANGED <<boots, newest, sent, wire, sock, live, rows, cap, sel, pinned>>
    BY <1>1 DEF Unlist, pageVars
  <2>2. TypeOK'
    <3>1. mishaps' \in 0..MaxMishaps
      BY <2>1, Constants DEF IInv, TypeOK
    <3> QED BY <2>1, <3>1 DEF IInv, TypeOK
  <2> QED BY <2>1, <2>2
      DEF IInv, SentInv, CapInv, FeedInv, RowsApart, PinnedIsSelected
<1>2. CASE Hangup
  <2>1. /\ mishaps < MaxMishaps /\ mishaps' = mishaps + 1 /\ listed' = FALSE
        /\ wire' = <<>> /\ sock' = "closing"
        /\ UNCHANGED <<boots, newest, sent, live, rows, cap, sel, pinned>>
    BY <1>2 DEF Hangup, pageVars
  <2>2. TypeOK'
    <3>1. mishaps' \in 0..MaxMishaps /\ <<>> \in Seq(Messages)
      BY <2>1, Constants DEF IInv, TypeOK
    <3> QED BY <2>1, <3>1 DEF IInv, TypeOK, Messages
  <2> QED BY <2>1, <2>2
      DEF IInv, SentInv, CapInv, FeedInv, RowsApart, PinnedIsSelected
<1>3. CASE Reboot
  <2>1. /\ boots < MaxBoots /\ boots' = boots + 1
        /\ newest' = 0 /\ listed' = FALSE /\ sent' = 0 /\ wire' = <<>>
        /\ sock' = (IF sock \in {"connecting", "accepted"} THEN "closing" ELSE sock)
        /\ UNCHANGED <<mishaps, live, rows, cap, sel, pinned>>
    BY <1>3 DEF Reboot, pageVars
  <2>2. TypeOK'
    <3>1. boots' \in 1..MaxBoots /\ 0 \in 0..MaxFrames /\ <<>> \in Seq(Messages)
      BY <2>1, Constants DEF IInv, TypeOK
    <3>2. sock' \in {"none", "connecting", "accepted", "open", "closing"}
      BY <2>1 DEF IInv, TypeOK
    <3> QED BY <2>1, <3>1, <3>2 DEF IInv, TypeOK, Messages
  <2> QED BY <2>1, <2>2
      DEF IInv, SentInv, CapInv, FeedInv, RowsApart, PinnedIsSelected
<1> QED BY <1>1, <1>2, <1>3 DEF Mishap
-----------------------------------------------------------------------------
(* The script *)

LEMMA InitIInv == Init => IInv
<1> SUFFICES ASSUME Init PROVE IInv
  OBVIOUS
<1>1. <<>> \in Seq(Messages) /\ <<>> \in Seq(Frames) /\ Len(<<>>) = 0
  OBVIOUS
<1>2. /\ 0 \in 0..MaxFrames /\ 0 \in 0..MaxMishaps /\ 1 \in 1..MaxBoots
      /\ 0 <= HISTORY
  BY Constants
<1>3. TypeOK
  <2> HIDE DEF NoFrame
  <2> QED BY <1>1, <1>2 DEF Init, TypeOK, Messages
<1> QED BY <1>1, <1>3
    DEF Init, IInv, SentInv, CapInv, FeedInv, RowsApart, PinnedIsSelected

LEMMA ConnectIInv == ASSUME IInv, Connect PROVE IInv'
<1>1. /\ sock = "none" /\ sock' = "connecting"
      /\ UNCHANGED <<boots, newest, listed, sent, mishaps, wire, live, rows, cap, sel, pinned>>
  BY DEF Connect, deviceVars, pageVars
<1>2. ~listed
  BY <1>1 DEF IInv, FeedInv
<1> QED BY <1>1, <1>2
    DEF IInv, TypeOK, SentInv, CapInv, FeedInv, RowsApart, PinnedIsSelected

(* The rows of the last connection go before any frame of this one comes.  *)
LEMMA OnOpenIInv == ASSUME IInv, OnOpen PROVE IInv'
<1>1. /\ sock = "accepted" /\ sock' = "open" /\ live' = TRUE /\ rows' = <<>>
      /\ UNCHANGED <<boots, newest, listed, sent, mishaps, wire, cap, sel, pinned>>
  BY DEF OnOpen, deviceVars
<1>2. rows' \in Seq(Frames) /\ Len(rows') = 0
  BY <1>1
<1>3. TypeOK'
  <2>1. HISTORY \in Nat
    BY Constants
  <2> QED BY <1>1, <1>2, <2>1 DEF IInv, TypeOK
<1>4. FeedInv'
  BY <1>1, <1>3, FeedKept DEF IInv, Taken, TypeOK
<1>5. CapInv'
  BY <1>1 DEF IInv, CapInv
<1> QED BY <1>1, <1>2, <1>3, <1>4, <1>5 DEF IInv, SentInv, RowsApart, PinnedIsSelected

LEMMA WatchdogIInv == ASSUME IInv, Watchdog PROVE IInv'
<1>1. /\ sock' = "closing" /\ live' = FALSE /\ listed' = FALSE /\ wire' = <<>>
      /\ UNCHANGED <<boots, newest, sent, rows, cap, sel, pinned>>
      /\ mishaps' \in 0..MaxMishaps
  BY Constants DEF IInv, TypeOK, Watchdog, pageVars
<1>2. wire' \in Seq(Messages)
  BY <1>1
<1>3. TypeOK'
  BY <1>1, <1>2 DEF IInv, TypeOK, Messages
<1> QED BY <1>1, <1>3
    DEF IInv, SentInv, CapInv, FeedInv, RowsApart, PinnedIsSelected

LEMMA OnCloseIInv == ASSUME IInv, OnClose PROVE IInv'
<1>1. /\ sock = "closing" /\ sock' = "none" /\ live' = FALSE
      /\ UNCHANGED <<boots, newest, listed, sent, mishaps, wire, rows, cap, sel, pinned>>
  BY DEF OnClose, deviceVars, pageVars
<1>2. ~listed
  BY <1>1 DEF IInv, FeedInv
<1> QED BY <1>1, <1>2
    DEF IInv, TypeOK, SentInv, CapInv, FeedInv, RowsApart, PinnedIsSelected

(* A click changes what is selected and what is pinned, no row.            *)
LEMMA UserIInv == ASSUME IInv, User PROVE IInv'
<1>1. /\ UNCHANGED <<boots, newest, listed, sent, mishaps, wire, sock, live, rows, cap>>
      /\ sel' \in 0..MaxFrames /\ pinned' \in {pinned, NoFrame}
      /\ PinnedIsSelected'
  <2>1. CASE ClearSelection
    BY <2>1, Constants DEF ClearSelection, deviceVars, PinnedIsSelected
  <2>2. CASE \E f \in ToSet(Shown) : Select(f)
    <3>1. PICK f \in ToSet(Shown) : Select(f)
      BY <2>2
    <3>2. f \in Frames
      <4>1. rows \in Seq(Frames) /\ (pinned # NoFrame => pinned \in Frames)
        BY DEF IInv, TypeOK
      <4>2. Shown \in Seq(Frames)
        BY <4>1 DEF Shown
      <4> QED BY <4>2, SeqsOf
    <3>3. f.seq \in 0..MaxFrames
      BY <3>2, Constants DEF Frames
    <3> QED BY <3>1, <3>3 DEF Select, deviceVars, PinnedIsSelected
  <2> QED BY <2>1, <2>2 DEF User
<1>2. TypeOK'
  BY <1>1 DEF IInv, TypeOK
<1>3. FeedInv'
  BY <1>1 DEF IInv, FeedInv, Count, Back, Taken, Oldest
<1>4. RowsApart'
  BY <1>1 DEF IInv, RowsApart
<1> QED BY <1>1, <1>2, <1>3, <1>4 DEF IInv, SentInv, CapInv

-----------------------------------------------------------------------------
(* A message *)

LEMMA TailFacts ==
  ASSUME NEW S, NEW q \in Seq(S), q # <<>>
  PROVE  /\ Head(q) \in S /\ Head(q) = q[1] /\ Tail(q) \in Seq(S)
         /\ Len(q) \in Nat /\ Len(q) >= 1 /\ Len(Tail(q)) = Len(q) - 1
         /\ \A i \in 1..Len(q) - 1 : Tail(q)[i] = q[i + 1]
         /\ Tail(q) # <<>> => Len(q) >= 2
OBVIOUS

(* The number at the far end of the way is behind all those in the table.  *)
LEMMA NextIsNewer ==
  ASSUME IInv, listed, sock = "open", wire # <<>>
  PROVE  \A i \in 1..Len(rows) : rows[i].seq < Head(wire).seq
<1>1. /\ Len(wire) \in Nat /\ Len(wire) >= 1 /\ Head(wire) = wire[1]
      /\ Len(rows) \in Nat /\ Count = Len(wire) + Len(rows) /\ Taken = rows
  BY TailFacts, CountFacts DEF IInv, Taken, Count
<1>2. Back(Len(wire) - 1) = Head(wire)
  BY <1>1 DEF Back
<1> SUFFICES ASSUME NEW i \in 1..Len(rows) PROVE rows[i].seq < Head(wire).seq
  OBVIOUS
<1>3. Back(Len(wire) + i - 1) = rows[i]
  <2>1. ~(Len(wire) + i - 1 < Len(wire)) /\ Len(wire) + i - 1 - Len(wire) + 1 = i
    BY <1>1
  <2> QED BY <1>1, <2>1 DEF Back
<1>4. /\ Len(wire) - 1 \in 0..Count - 1 /\ Len(wire) + i - 1 \in 0..Count - 1
      /\ Len(wire) - 1 < Len(wire) + i - 1
  BY <1>1
<1> QED BY <1>2, <1>3, <1>4 DEF IInv, FeedInv

LEMMA StatusIInv == ASSUME IInv, OnMessage, Head(wire).seq = 0 PROVE IInv'
<1>1. /\ sock = "open" /\ wire # <<>> /\ wire' = Tail(wire) /\ cap' = HISTORY
      /\ UNCHANGED <<boots, newest, listed, sent, mishaps, sock, live, rows, sel, pinned>>
  BY DEF OnMessage, deviceVars
<1>2. /\ wire' \in Seq(Messages) /\ Len(wire') = Len(wire) - 1
      /\ Len(wire) \in Nat /\ Len(wire) >= 1 /\ Head(wire) = wire[1]
      /\ \A i \in 1..Len(wire) - 1 : wire'[i] = wire[i + 1]
  BY <1>1, TailFacts, CountFacts DEF IInv
<1>3. TypeOK'
  BY <1>1, <1>2 DEF IInv, TypeOK, Messages
<1>4. FeedInv'
  <2> SUFFICES ASSUME listed PROVE FeedInv'
    BY <1>1 DEF FeedInv
  <2>1. Len(rows) = 0 /\ Taken = rows /\ Taken' = rows
    <3>1. Taken = rows /\ Taken' = rows /\ Len(rows) \in Nat
      BY <1>1, CountFacts DEF Taken, IInv
    <3>2. \A i \in 1..Len(rows) : rows[i] \in Frames /\ ~(rows[i].seq < 0)
      <4>1. rows \in Seq(Frames)
        BY DEF IInv, TypeOK
      <4>2. \A f \in Frames : f.seq \in Nat
        BY Constants DEF Frames
      <4>3. \A i \in 1..Len(rows) : rows[i] \in Frames
        BY <4>1
      <4> QED BY <4>2, <4>3
    <3>3. \A i \in 1..Len(rows) : FALSE
      BY <1>1, <3>2, NextIsNewer
    <3> QED BY <3>1, <3>3
  <2>2. Count = Len(wire) /\ Count' = Len(wire) - 1
    BY <1>2, <2>1 DEF Count
  <2>3. ASSUME NEW p \in 0..Count' - 1 PROVE Back(p)' = Back(p) /\ p \in 0..Count - 1
    <3>1. /\ p < Len(wire) /\ p < Len(wire') /\ p \in 0..Count - 1
          /\ Len(wire') - p \in 1..Len(wire) - 1 /\ (Len(wire') - p) + 1 = Len(wire) - p
      BY <1>2, <2>2
    <3> QED BY <1>2, <3>1 DEF Back
  <2>4. ASSUME NEW p \in Nat, Oldest' + p <= sent' PROVE p < Count' /\ Back(p)'.seq = sent' - p
    <3>1. Oldest + p <= sent /\ Oldest \in Nat /\ Oldest >= 1 /\ sent \in Nat
      BY <1>1, <2>4, OldestFacts, CountFacts DEF Oldest, IInv
    <3>2. p < Count /\ Back(p).seq = sent - p
      BY <3>1 DEF IInv, FeedInv
    <3>3. p # Len(wire) - 1
      <4>1. Back(Len(wire) - 1) = Head(wire)
        BY <1>2 DEF Back
      <4> HIDE DEF Back, Oldest
      <4> QED BY <3>1, <3>2, <4>1
    <3>4. p \in 0..Count' - 1 /\ p < Count'
      BY <1>2, <2>2, <3>2, <3>3
    <3> QED BY <1>1, <2>3, <3>2, <3>4
  <2>5. /\ \A p \in 0..Count - 1 : Back(p).boot = boots /\ Back(p).seq + p <= sent
        /\ \A p, q \in 0..Count - 1 : p < q => Back(q).seq < Back(p).seq
    BY DEF IInv, FeedInv
  <2>6. boots' = boots /\ sent' = sent /\ sock' \in {"accepted", "open"}
    BY <1>1
  <2> QED BY <2>3, <2>4, <2>5, <2>6 DEF FeedInv
<1>5. CapInv'
  BY <1>1 DEF CapInv
<1> QED BY <1>1, <1>3, <1>4, <1>5 DEF IInv, SentInv, RowsApart, PinnedIsSelected

(* A frame moves from the way into the table.  What the cap takes off is   *)
(* what the ring has lost.                                                 *)
LEMMA FrameIInv == ASSUME IInv, OnMessage, Head(wire).seq # 0 PROVE IInv'
<1> DEFINE m == Head(wire)
<1>1. /\ sock = "open" /\ wire # <<>> /\ wire' = Tail(wire) /\ cap' = cap /\ AddMsg(m)
      /\ UNCHANGED <<boots, newest, listed, sent, mishaps, sock, live, sel>>
  BY DEF OnMessage, deviceVars
<1>2. /\ wire' \in Seq(Messages) /\ Len(wire') = Len(wire) - 1
      /\ Len(wire) \in Nat /\ Len(wire) >= 1 /\ m = wire[1] /\ m \in Messages
      /\ \A i \in 1..Len(wire) - 1 : wire'[i] = wire[i + 1]
  BY <1>1, TailFacts, CountFacts DEF IInv
<1>3. m \in Frames
  BY <1>2, Constants DEF Messages, Frames
<1>4. cap = HISTORY
  BY <1>1 DEF IInv, CapInv
<1>5. /\ rows \in Seq(Frames) /\ cap \in Nat /\ cap > 0 /\ Len(rows) \in Nat
      /\ Len(rows) <= HISTORY /\ pinned \in Frames \cup {NoFrame}
  BY <1>4, Constants DEF IInv, TypeOK
<1> HIDE DEF m
<1>6. CapInv'
  BY <1>1, <1>4 DEF CapInv
<1>7. CASE m.seq \in Seqs(rows)
  <2>1. UNCHANGED <<rows, pinned>>
    BY <1>1, <1>7 DEF AddMsg
  <2>2. TypeOK'
    BY <1>1, <1>2, <2>1 DEF IInv, TypeOK, Messages
  <2>3. ~listed
    <3>1. PICK i \in 1..Len(rows) : rows[i].seq = m.seq
      BY <1>5, <1>7, SeqsOf
    <3>2. rows[i].seq \in Nat
      <4>1. rows[i] \in Frames
        BY <1>5
      <4> QED BY <4>1, Constants DEF Frames
    <3> QED BY <1>1, <3>1, <3>2, NextIsNewer DEF m
  <2> QED BY <1>1, <1>6, <2>1, <2>2, <2>3
      DEF IInv, SentInv, FeedInv, RowsApart, PinnedIsSelected
<1>8. CASE m.seq \notin Seqs(rows)
  <2>1. /\ rows' \in Seq(Frames)
        /\ Len(rows') = IF Len(rows) + 1 < cap THEN Len(rows) + 1 ELSE cap
        /\ Len(rows') >= 1 /\ rows'[1] = m
        /\ \A i \in 2..Len(rows') : rows'[i] = rows[i - 1]
    BY <1>1, <1>3, <1>5, <1>8, RowsAfter
  <2>2. /\ Len(rows') \in Nat /\ Len(rows') <= HISTORY /\ Len(rows') <= Len(rows) + 1
        /\ Len(rows') = Len(rows) + 1 \/ Len(rows') = HISTORY
    BY <1>4, <1>5, <2>1
  <2>3. /\ pinned' \in Frames \cup {NoFrame}
        /\ pinned' # NoFrame => pinned'.seq = sel
        /\ pinned' # NoFrame => \A i \in 1..Len(rows') : rows'[i].seq # pinned'.seq
    BY <1>1, <1>3, <1>5, <1>8, PinnedAfter DEF IInv
  <2>4. TypeOK'
    BY <1>1, <1>2, <2>1, <2>2, <2>3 DEF IInv, TypeOK, Messages
  <2>5. RowsApart'
    <3>1. ASSUME NEW i \in 1..Len(rows'), NEW j \in 1..Len(rows'), i < j
          PROVE  rows'[i].seq # rows'[j].seq
      <4>1. j \in 2..Len(rows') /\ j - 1 \in 1..Len(rows) /\ rows'[j] = rows[j - 1]
        BY <1>5, <2>1, <2>2, <3>1
      <4>2. CASE i = 1
        <5>1. rows[j - 1].seq # m.seq
          BY <1>5, <1>8, <4>1, SeqsOf
        <5> QED BY <2>1, <4>1, <4>2, <5>1
      <4>3. CASE i # 1
        <5>1. i - 1 \in 1..Len(rows) /\ rows'[i] = rows[i - 1] /\ i - 1 # j - 1
          BY <1>5, <2>1, <2>2, <3>1, <4>3
        <5> QED BY <4>1, <5>1 DEF IInv, RowsApart
      <4> QED BY <4>2, <4>3
    <3>2. ASSUME NEW i \in 1..Len(rows'), NEW j \in 1..Len(rows'), i # j
          PROVE  rows'[i].seq # rows'[j].seq
      <4>1. i < j \/ j < i
        BY <2>2, <3>2
      <4> QED BY <3>1, <4>1
    <3> QED BY <2>3, <3>2 DEF RowsApart
  <2>6. FeedInv'
    <3> SUFFICES ASSUME listed PROVE FeedInv'
      BY <1>1 DEF FeedInv
    <3>1. /\ Count = Len(wire) + Len(rows) /\ Count' = Len(wire) - 1 + Len(rows')
          /\ Taken = rows /\ Taken' = rows' /\ Count' <= Count /\ Count' \in Nat
      BY <1>1, <1>2, <1>5, <2>2 DEF Count, Taken
    <3>2. ASSUME NEW p \in 0..Count' - 1 PROVE Back(p)' = Back(p) /\ p \in 0..Count - 1
      <4>0. p \in 0..Count - 1
        BY <1>2, <1>5, <2>2, <3>1
      <4>1. CASE p < Len(wire) - 1
        <5>1. /\ p < Len(wire) /\ p < Len(wire')
              /\ Len(wire') - p \in 1..Len(wire) - 1 /\ (Len(wire') - p) + 1 = Len(wire) - p
          BY <1>2, <4>1
        <5> QED BY <1>2, <4>0, <5>1 DEF Back
      <4>2. CASE p = Len(wire) - 1
        <5>1. p < Len(wire) /\ ~(p < Len(wire')) /\ p - Len(wire') + 1 = 1 /\ Len(wire) - p = 1
          BY <1>2, <4>2
        <5> QED BY <1>2, <2>1, <3>1, <4>0, <5>1 DEF Back
      <4>3. CASE p > Len(wire) - 1
        <5> DEFINE w == Len(wire)  later == Len(wire')  r == Len(rows')  c == Count'
        <5>0. /\ w \in Nat /\ later = w - 1 /\ r \in Nat /\ c = w - 1 + r /\ p \in 0..c - 1
              /\ w >= 1 /\ p > w - 1
          BY <1>2, <2>2, <3>1, <4>3
        <5> HIDE DEF w, later, r, c
        <5>1. /\ ~(p < w) /\ ~(p < later)
              /\ p - later + 1 \in 2..r
              /\ (p - later + 1) - 1 = p - w + 1
          BY <5>0
        <5> USE DEF w, later, r
        <5> QED BY <2>1, <3>1, <4>0, <5>1 DEF Back
      <4> QED BY <1>2, <4>1, <4>2, <4>3
    <3>3. ASSUME NEW p \in Nat, Oldest' + p <= sent' PROVE p < Count' /\ Back(p)'.seq = sent' - p
      <4>1. /\ Oldest + p <= sent /\ Oldest \in Nat /\ Oldest >= 1 /\ sent \in Nat
            /\ newest < Oldest + HISTORY /\ newest \in Nat
        BY <1>1, <3>3, OldestFacts, CountFacts DEF Oldest, IInv
      <4>2. p < Count /\ Back(p).seq = sent - p
        BY <4>1 DEF IInv, FeedInv
      <4>3. p < HISTORY
        <5> DEFINE o == Oldest
        <5>1. o + p <= sent /\ newest < o + HISTORY /\ o \in Nat /\ newest \in Nat /\ sent \in Nat
          BY <4>1
        <5>2. sent <= newest
          BY DEF IInv, SentInv
        <5> HIDE DEF o
        <5> QED BY <5>1, <5>2, Constants
      <4>4. p < Count' /\ p \in 0..Count' - 1
        BY <1>2, <1>5, <2>2, <3>1, <4>2, <4>3, Constants
      <4> QED BY <1>1, <3>2, <4>2, <4>4
    <3>4. /\ \A p \in 0..Count - 1 : Back(p).boot = boots /\ Back(p).seq + p <= sent
          /\ \A p, q \in 0..Count - 1 : p < q => Back(q).seq < Back(p).seq
      BY DEF IInv, FeedInv
    <3>5. boots' = boots /\ sent' = sent /\ sock' \in {"accepted", "open"}
      BY <1>1
    <3> QED BY <3>2, <3>3, <3>4, <3>5 DEF FeedInv
  <2>7. PinnedIsSelected' /\ SentInv'
    BY <1>1, <2>3 DEF IInv, SentInv, PinnedIsSelected
  <2> QED BY <1>6, <2>4, <2>5, <2>6, <2>7 DEF IInv
<1> QED BY <1>7, <1>8

LEMMA OnMessageIInv == ASSUME IInv, OnMessage PROVE IInv'
BY StatusIInv, FrameIInv

LEMMA NextIInv == IInv /\ [Next]_vars => IInv'
<1> SUFFICES ASSUME IInv, [Next]_vars PROVE IInv'
  OBVIOUS
<1>1. CASE UNCHANGED vars
  BY <1>1 DEF vars, deviceVars, pageVars, IInv, TypeOK, SentInv, CapInv, FeedInv, Count,
              Back, Taken, Oldest, RowsApart, PinnedIsSelected
<1>2. CASE Record
  BY <1>2, RecordIInv
<1>3. CASE Device
  BY <1>3, AcceptIInv, SendIInv DEF Device
<1>4. CASE Mishap
  BY <1>4, MishapIInv
<1>5. CASE Transport
  BY <1>5, ConnectIInv, OnOpenIInv, OnMessageIInv, WatchdogIInv, OnCloseIInv DEF Transport
<1>6. CASE User
  BY <1>6, UserIInv
<1> QED BY <1>1, <1>2, <1>3, <1>4, <1>5, <1>6 DEF Next

LEMMA IInvAlways == Spec => []IInv
BY InitIInv, NextIInv, PTL DEF Spec

-----------------------------------------------------------------------------
(* What the table shows *)

LEMMA ShownHas ==
  ASSUME NEW r \in Seq(Frames), NEW p \in Frames \cup {NoFrame}, NEW x
  PROVE  x \in Seqs(IF p = NoFrame THEN r ELSE Append(r, p))
           <=> (\E i \in 1..Len(r) : r[i].seq = x) \/ (p # NoFrame /\ p.seq = x)
<1>1. CASE p = NoFrame
  BY <1>1, SeqsOf
<1>2. CASE p # NoFrame
  <2> DEFINE s == Append(r, p)
  <2>1. /\ s \in Seq(Frames) /\ Len(s) = Len(r) + 1 /\ Len(r) \in Nat
        /\ s[Len(r) + 1] = p /\ \A i \in 1..Len(r) : s[i] = r[i]
    BY <1>2
  <2> HIDE DEF s
  <2>2. x \in Seqs(s) <=> \E i \in 1..Len(s) : s[i].seq = x
    BY <2>1, SeqsOf
  <2>3. \A i : i \in 1..Len(s) <=> i \in 1..Len(r) \/ i = Len(r) + 1
    BY <2>1
  <2>4. (\E i \in 1..Len(s) : s[i].seq = x) <=> (\E i \in 1..Len(r) : r[i].seq = x) \/ p.seq = x
    BY <2>1, <2>3
  <2> QED BY <1>2, <2>2, <2>4 DEF s
<1> QED BY <1>1, <1>2

(* Nothing is pinned that is also a row, so no frame is shown twice, and   *)
(* only the selection is pinned, through every reconnect and reboot.       *)
THEOREM PinInvAlways == Spec => []PinInv
<1>1. IInv => PinInv
  <2> SUFFICES ASSUME IInv PROVE ShownOnce
    BY DEF IInv, PinInv
  <2> SUFFICES ASSUME Len(Shown) = Len(rows) + 1 PROVE pinned.seq \notin Seqs(rows)
    BY DEF ShownOnce
  <2>1. rows \in Seq(Frames) /\ Len(rows) \in Nat
    BY DEF IInv, TypeOK
  <2>2. pinned # NoFrame
    <3>1. Len(rows) # Len(rows) + 1
      BY <2>1
    <3> QED BY <3>1 DEF Shown
  <2> QED BY <2>1, <2>2, SeqsOf DEF IInv, RowsApart
<1> QED BY <1>1, IInvAlways, PTL

(* Once nothing is under way the table is the ring, frame for frame,       *)
(* whatever was lost, overwritten or started over before.                  *)
THEOREM RowsMirrorRingAlways == Spec => []RowsMirrorRing
<1>1. IInv => RowsMirrorRing
  <2> SUFFICES ASSUME IInv, UpToDate PROVE rows = Ring
    BY DEF RowsMirrorRing
  <2>1. /\ rows \in Seq(Frames) /\ Len(rows) \in Nat /\ Len(rows) <= HISTORY
        /\ sent = newest /\ newest \in Nat /\ Oldest \in Nat /\ Oldest >= 1
        /\ Oldest <= newest + 1 /\ HISTORY \in Nat
    BY CountFacts, OldestFacts, Constants DEF IInv, TypeOK, UpToDate
  <2>2. Count = Len(rows) /\ \A p \in 0..Len(rows) - 1 : Back(p) = rows[p + 1]
    <3>1. Taken = rows /\ Len(wire) = 0
      BY DEF UpToDate, Taken
    <3>2. Count = Len(rows)
      BY <2>1, <3>1 DEF Count
    <3>3. ASSUME NEW p \in 0..Len(rows) - 1 PROVE Back(p) = rows[p + 1]
      <4>1. ~(p < Len(wire)) /\ p - Len(wire) + 1 = p + 1
        BY <2>1, <3>1
      <4> QED BY <3>1, <4>1 DEF Back
    <3> QED BY <3>2, <3>3
  <2> DEFINE k == newest - Oldest + 1
  <2>3. ASSUME NEW i \in 1..k PROVE i \in 1..Len(rows) /\ rows[i].seq = newest - i + 1
    <3> DEFINE o == Oldest  p == i - 1
    <3>1. p \in Nat /\ o + p <= newest
      <4>1. o \in Nat /\ i \in 1..newest - o + 1
        BY <2>1
      <4> HIDE DEF o
      <4> QED BY <2>1, <4>1
    <3>2. p < Len(rows) /\ Back(p).seq = newest - p
      <4>1. Oldest + p <= sent
        BY <2>1, <3>1
      <4> HIDE DEF p
      <4>2. p < Count /\ Back(p).seq = sent - p
        BY <3>1, <4>1 DEF IInv, FeedInv, UpToDate
      <4> QED BY <2>1, <2>2, <4>2
    <3>3. p \in 0..Len(rows) - 1 /\ p + 1 = i
      BY <2>1, <3>1, <3>2
    <3>4. rows[i].seq = newest - p
      BY <2>2, <3>2, <3>3
    <3> QED BY <2>1, <3>1, <3>3, <3>4
  <2>4. k \in Nat /\ k <= Len(rows)
    <3>1. k \in Nat
      <4> DEFINE o == Oldest
      <4>1. o \in Nat /\ o <= newest + 1
        BY <2>1
      <4> HIDE DEF o
      <4>2. newest - o + 1 \in Nat
        BY <2>1, <4>1
      <4> USE DEF o
      <4> QED BY <4>2
    <3> HIDE DEF k
    <3>2. CASE k >= 1
      <4>1. k \in 1..k
        BY <3>1, <3>2
      <4>2. k \in 1..Len(rows)
        BY <2>3, <4>1
      <4> QED BY <2>1, <3>1, <4>2
    <3>3. CASE ~(k >= 1)
      BY <2>1, <3>1, <3>3
    <3> QED BY <3>2, <3>3
  <2>5. ~(k < Len(rows))
    <3> SUFFICES ASSUME k < Len(rows) PROVE FALSE
      OBVIOUS
    <3>1. CASE newest > HISTORY
      <4>1. Oldest = newest - HISTORY + 1
        BY <2>1, <3>1 DEF Oldest
      <4>2. k = HISTORY
        BY <2>1, <4>1
      <4> HIDE DEF k
      <4> QED BY <2>1, <4>2
    <3>2. CASE ~(newest > HISTORY)
      <4>1. Oldest = 1
        BY <3>2 DEF Oldest
      <4>2. k = newest
        BY <2>1, <4>1
      <4> HIDE DEF k
      <4>3. newest \in 0..Len(rows) - 1 /\ newest + 1 \in 1..Len(rows)
        BY <2>1, <4>2
      <4>4. rows[newest + 1].seq + newest <= newest
        BY <2>1, <2>2, <4>3 DEF IInv, FeedInv, UpToDate
      <4>5. rows[newest + 1].seq \in Nat /\ rows[newest + 1].seq >= 1
        <5>1. rows[newest + 1] \in Frames
          BY <2>1, <4>3
        <5> QED BY <5>1, Constants DEF Frames
      <4> QED BY <2>1, <4>4, <4>5
    <3> QED BY <3>1, <3>2
  <2>6. Len(rows) = k
    <3> HIDE DEF k
    <3> QED BY <2>1, <2>4, <2>5
  <2>7. ASSUME NEW i \in 1..k PROVE rows[i] = Frame(newest - i + 1)
    <3>1. i \in 1..Len(rows) /\ rows[i].seq = newest - i + 1
      BY <2>3
    <3>2. rows[i] \in Frames
      BY <2>1, <3>1
    <3>3. rows[i].boot = boots
      <4>1. i - 1 \in 0..Len(rows) - 1 /\ (i - 1) + 1 = i
        BY <2>1, <3>1
      <4>2. Back(i - 1).boot = boots
        BY <2>2, <4>1 DEF IInv, FeedInv, UpToDate
      <4> QED BY <2>2, <4>1, <4>2
    <3> QED BY <3>1, <3>2, <3>3 DEF Frames, Frame
  <2> DEFINE ring(i) == Frame(newest - i + 1)
  <2>8. Ring = [i \in 1..k |-> ring(i)]
    BY DEF Ring
  <2>9. \A i \in 1..k : ring(i) = rows[i]
    BY <2>7
  <2>10. /\ Ring = [i \in 1..Len(rows) |-> rows[i]]
    <3> HIDE DEF ring, k
    <3> QED BY <2>6, <2>8, <2>9
  <2> QED BY <2>1, <2>10
<1> QED BY <1>1, IInvAlways, PTL

(* A message never takes the selected row out of sight: what the cap pushes*)
(* out of the table is pinned below it.                                    *)
THEOREM SelectionSinksAlways == Spec => SelectionSinks
<1>1. IInv /\ [Next]_vars => [OnMessage /\ sel \in Seqs(Shown) => sel \in Seqs(Shown)']_vars
  <2> SUFFICES ASSUME IInv, OnMessage, sel \in Seqs(Shown) PROVE sel \in Seqs(Shown')
    BY DEF Shown
  <2>1. rows \in Seq(Frames) /\ pinned \in Frames \cup {NoFrame} /\ cap \in Nat /\ cap > 0
    BY Constants DEF IInv, TypeOK
  <2>2. rows' \in Seq(Frames) /\ pinned' \in Frames \cup {NoFrame}
    BY OnMessageIInv DEF IInv, TypeOK
  <2>3. CASE UNCHANGED <<rows, pinned>>
    BY <2>3 DEF Shown
  <2>4. CASE Head(wire).seq # 0 /\ Head(wire).seq \notin Seqs(rows)
    <3> DEFINE m == Head(wire)
    <3>1. m \in Frames
      <4>1. wire \in Seq(Messages) /\ wire # <<>>
        BY CountFacts DEF IInv, OnMessage
      <4>2. m \in Messages
        BY <4>1
      <4> HIDE DEF m
      <4>3. m.seq # 0
        BY <2>4 DEF m
      <4> QED BY <4>2, <4>3, Constants DEF Messages, Frames
    <3>2. AddMsg(m)
      BY <2>4 DEF OnMessage
    <3>3. (\E i \in 1..Len(rows) : rows[i].seq = sel) \/ (pinned # NoFrame /\ pinned.seq = sel)
      BY <2>1, ShownHas DEF Shown
    <3> HIDE DEF m
    <3>4. /\ \A i \in 1..Len(rows) :
               rows[i].seq = sel /\ (\A j \in 1..Len(rows') : rows'[j].seq # sel)
                 => pinned' # NoFrame /\ pinned'.seq = sel
          /\ pinned # NoFrame /\ (\A j \in 1..Len(rows') : rows'[j].seq # sel)
                 => pinned' # NoFrame /\ pinned'.seq = sel
      BY <2>1, <2>4, <3>1, <3>2, PinnedAfter DEF IInv, m
    <3>5. (\E i \in 1..Len(rows') : rows'[i].seq = sel) \/ (pinned' # NoFrame /\ pinned'.seq = sel)
      BY <3>3, <3>4
    <3> QED BY <2>2, <3>5, ShownHas DEF Shown
  <2> QED BY <2>3, <2>4 DEF OnMessage, AddMsg
<1> QED BY <1>1, IInvAlways, PTL DEF Spec, SelectionSinks
=============================================================================
