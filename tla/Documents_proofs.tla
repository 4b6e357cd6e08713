--------------------------- MODULE Documents_proofs ---------------------------
(***************************************************************************)
(* What holds of the pages' text for any buffer, document, image, address  *)
(* and interleaving of the three tasks.                                    *)
(*                                                                         *)
(* A document that is sent is the whole one: build() looks at nothing jb() *)
(* leaves behind, so the invariant says what a buffer without an overflow  *)
(* holds after each call.  A reader of the address stays inside its array: *)
(* the last character is a terminator at every moment, and one that met no *)
(* write has read what is there.                                           *)
(***************************************************************************)
EXTENDS Documents, FrameJson, SequenceTheorems, WellFoundedInduction, TLAPS

-----------------------------------------------------------------------------

(* Numbers and recursive functions                                        *)

Below == {p \in Nat \X Nat : p[1] < p[2]}

LEMMA BelowWellFounded == IsWellFoundedOn(Below, Nat)
<1> DEFINE R == OpToRel(<, Nat)
<1>1. IsWellFoundedOn(R, Nat)
  BY NatLessThanWellFounded
<1>2. Below \cap (Nat \X Nat) \subseteq R
  BY DEF OpToRel, Below
<1> HIDE DEF R
<1> QED BY <1>1, <1>2, IsWellFoundedOnSubrelation

(* A set of numbers that is not empty has a least one. *)
LEMMA Least ==
  ASSUME NEW S \in SUBSET Nat, S # {}
  PROVE  \E x \in S : \A y \in S : x <= y
<1>1. PICK x \in S : \A y \in S : <<y, x>> \notin Below
  BY BelowWellFounded, WFMin
<1>2. ASSUME NEW y \in S PROVE x <= y
  <2>1. x \in Nat /\ y \in Nat /\ <<y, x>> \notin Below
    BY <1>1
  <2> QED BY <2>1 DEF Below
<1> QED BY <1>2

(* What holds of 0, and of each number up to n if of the one before, holds *)
(* of all of them: induction, over the set of those it holds of.           *)
LEMMA Reaches ==
  ASSUME NEW n \in Nat, NEW T, 0 \in T, \A i \in 1..n : i - 1 \in T => i \in T
  PROVE  0..n \subseteq T
<1> DEFINE Bad == {i \in 0..n : i \notin T}
<1> SUFFICES ASSUME Bad # {} PROVE FALSE
  OBVIOUS
<1>1. PICK x \in Bad : \A y \in Bad : x <= y
  <2>1. Bad \in SUBSET Nat
    OBVIOUS
  <2> HIDE DEF Bad
  <2> QED BY <2>1, Least
<1>2. x \in 1..n /\ x - 1 \in 0..n /\ x \notin T
  OBVIOUS
<1>3. x - 1 \notin Bad
  BY <1>1, <1>2
<1> QED BY <1>2, <1>3

(* A recursive function over 0..n: it exists, so its definition holds.     *)
Recurs(f, n, e, F) ==
  f = [i \in 0..n |-> IF i = 0 THEN e ELSE F[<<i, f[i - 1]>>]]

LEMMA RecursionExists ==
  ASSUME NEW n \in Nat, NEW R, NEW e \in R, NEW F \in [(1..n) \X R -> R]
  PROVE  \E f \in [0..n -> R] : Recurs(f, n, e, F)
<1> DEFINE Upto(f, m) == /\ f \in [0..m -> R] /\ f[0] = e
                         /\ \A i \in 1..m : f[i] = F[<<i, f[i - 1]>>]
           T == {m \in 0..n : \E f : Upto(f, m)}
<1>1. 0 \in T
  <2> DEFINE g == [i \in 0..0 |-> e]
  <2>1. Upto(g, 0)
    OBVIOUS
  <2> HIDE DEF g, Upto
  <2> QED BY <2>1
<1>2. ASSUME NEW m \in 1..n, m - 1 \in T PROVE m \in T
  <2>1. PICK f : Upto(f, m - 1)
    BY <1>2
  <2>2. m - 1 \in Nat /\ f[m - 1] \in R /\ <<m, f[m - 1]>> \in (1..n) \X R
    BY <2>1
  <2>3. F[<<m, f[m - 1]>>] \in R
    BY <2>2
  <2> DEFINE g == [i \in 0..m |-> IF i = m THEN F[<<m, f[m - 1]>>] ELSE f[i]]
  <2>4. g \in [0..m -> R] /\ g[0] = e
    BY <2>1, <2>3
  <2>5. ASSUME NEW i \in 1..m PROVE g[i] = F[<<i, g[i - 1]>>]
    <3>1. i - 1 \in 0..m /\ i - 1 # m /\ g[i - 1] = f[i - 1]
      OBVIOUS
    <3>2. CASE i = m
      BY <3>1, <3>2
    <3>3. CASE i # m
      <4>1. i \in 1..m - 1 /\ g[i] = f[i]
        BY <3>3
      <4> QED BY <2>1, <3>1, <4>1
    <3> QED BY <3>2, <3>3
  <2> HIDE DEF g
  <2>6. Upto(g, m)
    BY <2>4, <2>5
  <2> QED BY <2>6
<1>3. 0..n \subseteq T
  <2> HIDE DEF T
  <2> QED BY <1>1, <1>2, Reaches
<1>4. PICK f : Upto(f, n)
  BY <1>3
<1>5. f = [i \in 0..n |-> f[i]]
  BY <1>4
<1>6. ASSUME NEW i \in 0..n PROVE f[i] = IF i = 0 THEN e ELSE F[<<i, f[i - 1]>>]
  BY <1>4
<1>7. f \in [0..n -> R]
  BY <1>4
<1> HIDE DEF Upto
<1> QED BY <1>5, <1>6, <1>7 DEF Recurs

(* Of an image the bootloader takes every segment is walked. *)
LEMMA WalkedAll ==
  ASSUME NEW img \in Images, Len(img.segments) <= MaxSegments
  PROVE  Walked(img) = Len(img.segments)
BY InfoAssumption DEF InfoAssumption, Walked

(* The image as the page walks it and by its format. *)
LEMMA EndsAndSums ==
  ASSUME NEW img \in Images, Len(img.segments) <= MaxSegments
  PROVE  \E sum \in Nat :
           /\ SegmentsEnd(img) \in {0, HeaderLen + sum}
           /\ HeaderLen + sum <= SlotSize => SegmentsEnd(img) = HeaderLen + sum
           /\ FormatLen(img) =
                LET body == CHOOSE k \in (HeaderLen + sum) + 1..(HeaderLen + sum) + 16 : k % 16 = 0
                IN  IF img.hash THEN body + HashLen ELSE body
<1> DEFINE n == Len(img.segments)
           seg == img.segments
           EndOf(p) == IF p[2] = 0 \/ p[2] + SegmentLen + seg[p[1]] > SlotSize THEN 0
                       ELSE p[2] + SegmentLen + seg[p[1]]
           Ends == [p \in (1..n) \X Nat |-> EndOf(p)]
           Sums == [p \in (1..n) \X Nat |-> p[2] + SegmentLen + seg[p[1]]]
           off == CHOOSE off : off = [i \in 0..n |->
                    IF i = 0 THEN HeaderLen
                    ELSE LET end == off[i - 1] + SegmentLen + seg[i]
                         IN  IF off[i - 1] = 0 \/ end > SlotSize THEN 0 ELSE end]
           sum == CHOOSE sum : sum = [i \in 0..n |->
                    IF i = 0 THEN 0 ELSE sum[i - 1] + SegmentLen + seg[i]]
<1>0. SegmentsEnd(img) = off[n]
  BY WalkedAll DEF SegmentsEnd
<1>1. FormatLen(img) = LET body == CHOOSE k \in (HeaderLen + sum[n]) + 1..(HeaderLen + sum[n]) + 16 : k % 16 = 0
                IN  IF img.hash THEN body + HashLen ELSE body
  BY DEF FormatLen
<1>2. n \in Nat /\ \A i \in 1..n : seg[i] \in Nat
  BY InfoAssumption DEF InfoAssumption
<1>3. /\ off[0] = HeaderLen
      /\ \A i \in 1..n : off[i] = EndOf(<<i, off[i - 1]>>)
  <2> DEFINE Unfolds(f) == f = [i \in 0..n |->
                    IF i = 0 THEN HeaderLen
                    ELSE LET end == f[i - 1] + SegmentLen + seg[i]
                         IN  IF f[i - 1] = 0 \/ end > SlotSize THEN 0 ELSE end]
  <2>1. Ends \in [(1..n) \X Nat -> Nat] /\ HeaderLen \in Nat
    BY <1>2, InfoAssumption DEF InfoAssumption, HeaderLen, SegmentLen
  <2>2. PICK f \in [0..n -> Nat] : Recurs(f, n, HeaderLen, Ends)
    <3> HIDE DEF Ends
    <3> QED BY <1>2, <2>1, RecursionExists
  <2>3. ASSUME NEW i \in 1..n
        PROVE  Ends[<<i, f[i - 1]>>] = EndOf(<<i, f[i - 1]>>)
    <3>1. i - 1 \in 0..n
      BY <1>2
    <3> HIDE DEF n
    <3>2. <<i, f[i - 1]>> \in (1..n) \X Nat
      BY <2>2, <3>1
    <3> QED BY <3>2 DEF n
  <2>4. f = [i \in 0..n |-> IF i = 0 THEN HeaderLen ELSE EndOf(<<i, f[i - 1]>>)]
    <3> DEFINE g == [i \in 0..n |-> IF i = 0 THEN HeaderLen ELSE Ends[<<i, f[i - 1]>>]]
               h == [i \in 0..n |-> IF i = 0 THEN HeaderLen ELSE EndOf(<<i, f[i - 1]>>)]
    <3>1. f = g
      BY <2>2 DEF Recurs
    <3>2. ASSUME NEW i \in 0..n PROVE g[i] = h[i]
      <4>1. i = 0 \/ i \in 1..n
        BY <1>2
      <4> HIDE DEF Ends, EndOf
      <4> QED BY <2>3, <4>1
    <3>3. g = h
      <4> HIDE DEF Ends, EndOf
      <4> QED BY <3>2
    <3> QED BY <3>1, <3>3
  <2>5. Unfolds(f)
    BY <2>4
  <2>6. \E g : Unfolds(g)
    <3> HIDE DEF Unfolds
    <3> QED BY <2>5
  <2>7. off = CHOOSE g : Unfolds(g)
    OBVIOUS
  <2>8. Unfolds(off)
    <3> HIDE DEF Unfolds, off
    <3> QED BY <2>6, <2>7
  <2> HIDE DEF off
  <2>9. 0 \in 0..n /\ \A i \in 1..n : i \in 0..n /\ i # 0
    BY <1>2
  <2> QED BY <2>8, <2>9
<1>4. /\ sum \in [0..n -> Nat] /\ sum[0] = 0
      /\ \A i \in 1..n : sum[i] = sum[i - 1] + SegmentLen + seg[i]
  <2> DEFINE Unfolds(f) == f = [i \in 0..n |->
                    IF i = 0 THEN 0 ELSE f[i - 1] + SegmentLen + seg[i]]
  <2>1. Sums \in [(1..n) \X Nat -> Nat]
    BY <1>2 DEF SegmentLen
  <2>2. PICK f \in [0..n -> Nat] : Recurs(f, n, 0, Sums)
    <3> HIDE DEF Sums
    <3> QED BY <1>2, <2>1, RecursionExists
  <2>3. ASSUME NEW i \in 1..n
        PROVE  Sums[<<i, f[i - 1]>>] = f[i - 1] + SegmentLen + seg[i]
    <3>1. i - 1 \in 0..n
      BY <1>2
    <3> HIDE DEF n
    <3>2. <<i, f[i - 1]>> \in (1..n) \X Nat
      BY <2>2, <3>1
    <3> QED BY <3>2 DEF n
  <2>4. Unfolds(f)
    <3> DEFINE g == [i \in 0..n |-> IF i = 0 THEN 0 ELSE Sums[<<i, f[i - 1]>>]]
               h == [i \in 0..n |-> IF i = 0 THEN 0 ELSE f[i - 1] + SegmentLen + seg[i]]
    <3>1. f = g
      BY <2>2 DEF Recurs
    <3>2. ASSUME NEW i \in 0..n PROVE g[i] = h[i]
      <4>1. i = 0 \/ i \in 1..n
        BY <1>2
      <4> HIDE DEF Sums
      <4> QED BY <2>3, <4>1
    <3>3. g = h
      <4> HIDE DEF Sums
      <4> QED BY <3>2
    <3> QED BY <3>1, <3>3
  <2>5. \E g : Unfolds(g)
    <3> HIDE DEF Unfolds
    <3> QED BY <2>4
  <2>6. sum = CHOOSE g : Unfolds(g)
    OBVIOUS
  <2>7. Unfolds(sum)
    <3> HIDE DEF Unfolds, sum
    <3> QED BY <2>5, <2>6
  <2> HIDE DEF sum
  <2>8. 0 \in 0..n /\ \A i \in 1..n : i \in 0..n /\ i # 0
    BY <1>2
  <2>9. sum[0] = 0 /\ \A i \in 1..n : sum[i] = sum[i - 1] + SegmentLen + seg[i]
    BY <2>7, <2>8
  <2>10. sum \in [0..n -> Nat]
    <3> DEFINE T == {i \in 0..n : sum[i] \in Nat}
    <3>1. 0 \in T
      BY <2>8, <2>9
    <3>2. ASSUME NEW i \in 1..n, i - 1 \in T PROVE i \in T
      <4>1. /\ sum[i - 1] \in Nat /\ seg[i] \in Nat /\ i \in 0..n
            /\ sum[i] = sum[i - 1] + SegmentLen + seg[i]
        BY <1>2, <2>9, <3>2
      <4> HIDE DEF seg
      <4>2. sum[i] \in Nat
        BY <4>1 DEF SegmentLen
      <4> QED BY <4>1, <4>2
    <3>3. 0..n \subseteq T
      <4> HIDE DEF T
      <4> QED BY <1>2, <3>1, <3>2, Reaches
    <3> QED BY <2>7, <3>3
  <2> QED BY <2>9, <2>10
<1> HIDE DEF off, sum
<1>5. /\ off[n] \in {0, HeaderLen + sum[n]}
      /\ HeaderLen + sum[n] <= SlotSize => off[n] = HeaderLen + sum[n]
  <2> DEFINE T == {i \in 0..n :
                    /\ off[i] \in {0, HeaderLen + sum[i]}
                    /\ HeaderLen + sum[i] <= SlotSize => off[i] = HeaderLen + sum[i]}
  <2>1. 0 \in T
    BY <1>2, <1>3, <1>4 DEF HeaderLen
  <2>2. ASSUME NEW i \in 1..n, i - 1 \in T PROVE i \in T
    <3> DEFINE end == off[i - 1] + SegmentLen + seg[i]
    <3>1. /\ sum[i - 1] \in Nat /\ seg[i] \in Nat /\ SlotSize \in Nat
          /\ sum[i] = sum[i - 1] + SegmentLen + seg[i]
          /\ off[i] = IF off[i - 1] = 0 \/ end > SlotSize THEN 0 ELSE end
          /\ off[i - 1] \in {0, HeaderLen + sum[i - 1]}
          /\ HeaderLen + sum[i - 1] <= SlotSize => off[i - 1] = HeaderLen + sum[i - 1]
      BY <1>2, <1>3, <1>4, <2>2, InfoAssumption DEF InfoAssumption
    <3> HIDE DEF seg
    <3>2. /\ off[i] \in {0, HeaderLen + sum[i]}
          /\ HeaderLen + sum[i] <= SlotSize => off[i] = HeaderLen + sum[i]
      <4> DEFINE o == off[i - 1]  t == sum[i - 1]  g == seg[i]
      <4>1. /\ t \in Nat /\ g \in Nat /\ SlotSize \in Nat /\ o \in {0, HeaderLen + t}
            /\ HeaderLen + t <= SlotSize => o = HeaderLen + t
            /\ sum[i] = t + SegmentLen + g
            /\ off[i] = IF o = 0 \/ o + SegmentLen + g > SlotSize THEN 0 ELSE o + SegmentLen + g
        BY <3>1
      <4> HIDE DEF o, t, g
      <4> QED BY <4>1 DEF HeaderLen, SegmentLen
    <3> QED BY <1>2, <3>2
  <2>3. 0..n \subseteq T
    <3> HIDE DEF T
    <3> QED BY <1>2, <2>1, <2>2, Reaches
  <2> QED BY <1>2, <2>3
<1>6. sum[n] \in Nat
  BY <1>2, <1>4
<1> QED BY <1>0, <1>1, <1>5, <1>6

(* The size of an image that the bootloader takes is exact or not reported, *)
(* for any lengths of its segments, any slot and any read that fails       *)
(* (image_size(), info.c lines 105 to 133).                                *)
THEOREM SizeIsExact == SizeExact
<1> SUFFICES ASSUME NEW img \in Images, NEW reads \in 0..MaxSegments + 1,
                    Len(img.segments) <= MaxSegments
             PROVE  /\ ImageSize(img, reads) \in {0, FormatLen(img)}
                    /\ img.magic /\ reads > Len(img.segments) /\ FormatLen(img) <= SlotSize
                         => ImageSize(img, reads) = FormatLen(img)
  BY DEF SizeExact
<1>0. Walked(img) = Len(img.segments) /\ Len(img.segments) \in Nat /\ MaxSegments \in Nat
  BY WalkedAll, InfoAssumption DEF InfoAssumption
<1>1. PICK sum \in Nat :
         /\ SegmentsEnd(img) \in {0, HeaderLen + sum}
         /\ HeaderLen + sum <= SlotSize => SegmentsEnd(img) = HeaderLen + sum
         /\ FormatLen(img) =
              LET body == CHOOSE k \in (HeaderLen + sum) + 1..(HeaderLen + sum) + 16 : k % 16 = 0
              IN  IF img.hash THEN body + HashLen ELSE body
  BY EndsAndSums
<1> DEFINE bytes == HeaderLen + sum
           body == CHOOSE k \in bytes + 1..bytes + 16 : k % 16 = 0
<1>2. bytes \in Nat /\ bytes > 0
  BY DEF HeaderLen
<1> HIDE DEF bytes
<1>3. Padded(bytes) \in bytes + 1..bytes + 16 /\ Padded(bytes) % 16 = 0
  BY <1>2 DEF Padded
<1>4. body \in bytes + 1..bytes + 16 /\ body % 16 = 0
  BY <1>3
<1> HIDE DEF body
<1>5. body = Padded(bytes)
  <2>1. ASSUME NEW a \in bytes + 1..bytes + 16, NEW b \in bytes + 1..bytes + 16,
               a % 16 = 0, b % 16 = 0
        PROVE  a = b
    BY <1>2, <2>1
  <2> QED BY <1>3, <1>4, <2>1
<1>6. FormatLen(img) = IF img.hash THEN body + HashLen ELSE body
  BY <1>1 DEF body, bytes
<1>7. FormatLen(img) <= SlotSize => bytes <= SlotSize
  BY <1>2, <1>4, <1>6, InfoAssumption DEF InfoAssumption, HashLen
<1>8. SegmentsEnd(img) \in {0, bytes} /\ (FormatLen(img) <= SlotSize => SegmentsEnd(img) = bytes)
  BY <1>1, <1>7 DEF bytes
<1>9. SegmentsEnd(img) = bytes =>
        Padded(SegmentsEnd(img)) + (IF img.hash THEN HashLen ELSE 0) = FormatLen(img)
  BY <1>2, <1>4, <1>5, <1>6 DEF HashLen
<1>10. FormatLen(img) \in Nat /\ SlotSize \in Nat
  BY <1>2, <1>4, <1>6, InfoAssumption DEF InfoAssumption, HashLen
<1>11. ImageSize(img, reads) \in {0, FormatLen(img)}
  BY <1>8, <1>9 DEF ImageSize
<1>12. ASSUME img.magic, reads > Len(img.segments), FormatLen(img) <= SlotSize
       PROVE  ImageSize(img, reads) = FormatLen(img)
  <2>1. SegmentsEnd(img) = bytes /\ SegmentsEnd(img) # 0
    BY <1>2, <1>8, <1>12
  <2>2. ~(reads <= Walked(img)) /\ ~(FormatLen(img) > SlotSize)
    BY <1>0, <1>10, <1>12
  <2> QED BY <1>9, <1>12, <2>1, <2>2 DEF ImageSize
<1> QED BY <1>11, <1>12

-----------------------------------------------------------------------------
(* The address *)

Tasks == {"pump", "httpd"}

(* The character of t at i, and what is behind its last one.               *)
Char(t, i) == IF i < Len(t) THEN t[i + 1] ELSE Ip!Nul

Reader == [pc : {"rest", "measure", "copy", "done"}, at : 0..Width + 1,
           length : 0..Width + 1, copy : Seq(Ip!Chars), of : Texts, quiet : BOOLEAN]

(* The last character is a terminator whatever is being put; what is put   *)
(* is there.                                                               *)
FieldInv ==
  /\ field[Width] = Ip!Nul
  /\ \A i \in Ip!Cells : i < put => field[i] = Char(value, i)

(* A copy that met no write is of the address up to its end, or beyond.    *)
IsCopy(copy, t) == \A i \in 0..Len(t) : i < Len(copy) => copy[i + 1] = Char(t, i)

True(rd) == rd.length \in {Len(rd.of), Width + 1} /\ IsCopy(rd.copy, rd.of)

ReaderInv(r) ==
  LET rd == reader[r] IN
    /\ rd.pc = "measure" => rd.at <= Width /\ rd.copy = <<>>
    /\ rd.pc = "copy" => Len(rd.copy) = rd.at /\ rd.at <= rd.length
    /\ rd.pc = "done" => Len(rd.copy) = rd.length
    /\ rd.quiet /\ rd.pc \in {"measure", "copy"} => ~Ip!Writing /\ rd.of = value
    /\ rd.quiet /\ rd.pc = "measure" => rd.at <= Len(rd.of)
    /\ rd.quiet /\ rd.pc \in {"copy", "done"} => True(rd)

IpInv ==
  /\ Ip!TypeOK /\ reader \in [Tasks -> Reader]
  /\ FieldInv
  /\ \A r \in Tasks : ReaderInv(r)

-----------------------------------------------------------------------------
LEMMA TextFacts ==
  /\ Width \in Nat /\ NoIpText \in Texts
  /\ \A t \in Texts :
       /\ t \in Seq(STRING) /\ Len(t) \in Nat /\ Len(t) <= Width
       /\ \A i \in 1..Len(t) : t[i] # Ip!Nul /\ t[i] \in Ip!Chars
  /\ Ip!Nul \in Ip!Chars
<1>1. Width \in Nat /\ NoIpText \in Texts /\ Ip!Nul \in Ip!Chars
  BY IpAssumption DEF Ip!TextAssumption, Ip!Chars
<1>2. ASSUME NEW t \in Texts
      PROVE  /\ t \in Seq(STRING) /\ Len(t) \in Nat /\ Len(t) <= Width
             /\ \A i \in 1..Len(t) : t[i] # Ip!Nul /\ t[i] \in Ip!Chars
  <2>1. t \in Seq(STRING \ {Ip!Nul}) /\ Len(t) <= Width
    BY IpAssumption DEF Ip!TextAssumption
  <2>2. t \in Seq(STRING) /\ Len(t) \in Nat /\ DOMAIN t = 1..Len(t)
    BY <2>1
  <2>3. ASSUME NEW i \in 1..Len(t) PROVE t[i] # Ip!Nul /\ t[i] \in Ip!Chars
    <3>1. t[i] \in STRING \ {Ip!Nul}
      BY <2>1
    <3>2. t[i] \in {t[j] : j \in DOMAIN t}
      BY <2>2
    <3> QED BY <3>1, <3>2 DEF Ip!Chars
  <2> QED BY <2>1, <2>2, <2>3
<1> QED BY <1>1, <1>2

LEMMA CharFacts ==
  ASSUME NEW t \in Texts, NEW i \in Nat
  PROVE  /\ Char(t, i) \in Ip!Chars
         /\ Char(t, i) = Ip!Nul <=> i >= Len(t)
<1>1. CASE i < Len(t)
  <2>1. i + 1 \in 1..Len(t)
    BY <1>1, TextFacts
  <2> QED BY <1>1, <2>1, TextFacts DEF Char
<1>2. CASE ~(i < Len(t))
  BY <1>2, TextFacts DEF Char
<1> QED BY <1>1, <1>2

(* A copy of a text and its end, or of all of it, printed is the text.     *)
LEMMA CutAtEnd ==
  ASSUME NEW copy \in Seq(Ip!Chars), NEW of \in Texts,
         Len(copy) \in {Len(of), Width + 1},
         IsCopy(copy, of)
  PROVE  LET cuts == {i \in DOMAIN copy : copy[i] = Ip!Nul}
             cut  == IF cuts = {} THEN Len(copy)
                     ELSE CHOOSE i \in 0..Len(copy) :
                            i + 1 \in cuts /\ \A j \in cuts : i < j
         IN  SubSeq(copy, 1, cut) = of
<1> DEFINE cuts == {i \in DOMAIN copy : copy[i] = Ip!Nul}
           Len1 == IF cuts = {} THEN Len(copy)
                   ELSE CHOOSE i \in 0..Len(copy) :
                          i + 1 \in cuts /\ \A j \in cuts : i < j
<1>1. /\ Len(copy) \in Nat
      /\ Len(of) \in Nat /\ Len(of) <= Width /\ Width \in Nat
      /\ Len(copy) = Len(of) \/ Len(copy) = Width + 1
  BY TextFacts
<1>2. ASSUME NEW i \in 1..Len(of) PROVE i \in DOMAIN copy /\ copy[i] = of[i] /\ copy[i] # Ip!Nul
  <2>1. i \in 1..Len(copy) /\ i - 1 \in 0..Len(of) /\ i - 1 < Len(of) /\ (i - 1) + 1 = i
    BY <1>1
  <2>2. copy[(i - 1) + 1] = Char(of, i - 1)
    BY <1>1, <2>1 DEF IsCopy
  <2>3. Char(of, i - 1) = of[i]
    BY <2>1 DEF Char
  <2> QED BY <1>1, <2>1, <2>2, <2>3, TextFacts
<1>3. Len1 = Len(of)
  <2>1. CASE Len(copy) = Len(of)
    BY <1>1, <1>2, <2>1
  <2>2. CASE Len(copy) = Width + 1
    <3>1. Len(of) + 1 \in 1..Len(copy) /\ copy[Len(of) + 1] = Ip!Nul
      <4>1. Len(of) + 1 \in 1..Len(copy) /\ Len(of) \in 0..Len(of)
        BY <1>1, <2>2
      <4>2. copy[Len(of) + 1] = Char(of, Len(of))
        BY <1>1, <4>1 DEF IsCopy
      <4> QED BY <1>1, <4>1, <4>2 DEF Char
    <3>2. ASSUME NEW j \in cuts PROVE j \in Nat /\ Len(of) < j
      BY <1>1, <1>2
    <3>3. Len(of) + 1 \in cuts
      BY <1>1, <3>1
    <3> HIDE DEF cuts
    <3>4. ASSUME NEW i \in 0..Len(copy), i + 1 \in cuts, \A j \in cuts : i < j
          PROVE  i = Len(of)
      <4>1. i < Len(of) + 1 /\ Len(of) < i + 1
        BY <3>2, <3>3, <3>4
      <4> QED BY <1>1, <4>1
    <3>5. Len(of) \in 0..Len(copy)
      BY <1>1, <2>2
    <3> QED BY <3>2, <3>3, <3>4, <3>5
  <2> QED BY <1>1, <2>1, <2>2
<1>4. SubSeq(copy, 1, Len(of)) = of
  <2>1. of \in Seq(Ip!Chars)
    <3>1. of \in Seq(STRING) /\ \A i \in 1..Len(of) : of[i] \in Ip!Chars
      BY <1>1, TextFacts
    <3> QED BY <3>1
  <2>2. Len(of) <= Len(copy)
    BY <1>1
  <2>3. ASSUME NEW i \in 1..Len(of) PROVE copy[i] \in Ip!Chars
    BY <1>1, <1>2
  <2> DEFINE n == Len(of)  s == SubSeq(copy, 1, n)
  <2>4. s \in Seq(Ip!Chars) /\ Len(s) = n /\ \A i \in 1..n : s[i] = copy[i]
    BY <1>1, <2>2
  <2> HIDE DEF s
  <2> QED BY <1>2, <2>1, <2>4, SeqEqual DEF s
<1> QED BY <1>3, <1>4

(* Printing a copy that met no write shows the address.                    *)
LEMMA TrueShows ==
  ASSUME NEW r \in Tasks, reader[r].copy \in Seq(Ip!Chars), reader[r].of \in Texts,
         True(reader[r]), Len(reader[r].copy) = reader[r].length
  PROVE  Ip!Shown(r) = reader[r].of
BY CutAtEnd DEF Ip!Shown, True

-----------------------------------------------------------------------------
LEMMA InitIpInv == Ip!Init => IpInv
<1> SUFFICES ASSUME Ip!Init PROVE IpInv
  OBVIOUS
<1>1. /\ value = NoIpText /\ put = Len(NoIpText) + 1
      /\ field = [i \in Ip!Cells |-> Char(NoIpText, i)]
      /\ reader = [r \in Tasks |-> Ip!AtRest]
  BY DEF Ip!Init, Char, Tasks
<1>2. Width \in Nat /\ Width \in Ip!Cells /\ \A i \in Ip!Cells : i \in Nat
  BY TextFacts DEF Ip!Cells
<1>3. FieldInv /\ field \in [Ip!Cells -> Ip!Chars]
  BY <1>1, <1>2, TextFacts, CharFacts DEF FieldInv
<1>4. Ip!AtRest \in Reader
  BY <1>2, TextFacts DEF Ip!AtRest, Reader
<1>5. reader \in [Tasks -> Reader]
  BY <1>1, <1>4
<1>6. Ip!TypeOK
  BY <1>1, <1>3, <1>5, TextFacts DEF Ip!TypeOK, Reader, Tasks
<1>7. ASSUME NEW r \in Tasks PROVE ReaderInv(r)
  BY <1>1 DEF ReaderInv, Ip!AtRest
<1> QED BY <1>3, <1>5, <1>6, <1>7 DEF IpInv

(* What a task reads leaves the array alone; only its own place changes.   *)
LEMMA ReadsIpInv ==
  ASSUME IpInv, NEW r \in Tasks, NEW now \in Reader, Ip!Reads(r, now),
         now.pc = "measure" => now.at <= Width /\ now.copy = <<>>,
         now.pc = "copy" => Len(now.copy) = now.at /\ now.at <= now.length,
         now.pc = "done" => Len(now.copy) = now.length,
         now.quiet /\ now.pc \in {"measure", "copy"} => ~Ip!Writing /\ now.of = value,
         now.quiet /\ now.pc = "measure" => now.at <= Len(now.of),
         now.quiet /\ now.pc \in {"copy", "done"} => True(now)
  PROVE  IpInv'
<1>1. reader' = [reader EXCEPT ![r] = now] /\ UNCHANGED <<field, value, put>>
  BY DEF Ip!Reads
<1>2. reader' \in [Tasks -> Reader]
  BY <1>1 DEF IpInv
<1>3. FieldInv'
  BY <1>1 DEF IpInv, FieldInv
<1>4. Ip!TypeOK'
  BY <1>1, <1>2 DEF IpInv, Ip!TypeOK, Reader, Tasks
<1>5. ASSUME NEW q \in Tasks PROVE ReaderInv(q)'
  <2>1. CASE q = r
    <3>1. reader'[q] = now
      BY <1>1, <2>1 DEF IpInv
    <3> QED BY <1>1, <3>1 DEF ReaderInv, Ip!Writing
  <2>2. CASE q # r
    <3>1. reader'[q] = reader[q]
      BY <1>1, <2>2 DEF IpInv
    <3> QED BY <1>1, <3>1 DEF IpInv, ReaderInv, Ip!Writing
  <2> QED BY <2>1, <2>2
<1> QED BY <1>2, <1>3, <1>4, <1>5 DEF IpInv

LEMMA BeginWriteIpInv ==
  ASSUME IpInv, NEW t \in Texts, Ip!BeginWrite(t) PROVE IpInv'
<1>1. /\ value' = t /\ put' = 0 /\ field' = field
      /\ reader' = [q \in Tasks |->
                     IF reader[q].pc \in {"measure", "copy"}
                     THEN [reader[q] EXCEPT !.quiet = FALSE] ELSE reader[q]]
  BY DEF Ip!BeginWrite, Tasks
<1>2. FieldInv'
  BY <1>1 DEF IpInv, FieldInv, Ip!Cells
<1>3. reader' \in [Tasks -> Reader]
  <2>1. ASSUME NEW q \in Tasks PROVE reader'[q] \in Reader
    BY <1>1 DEF IpInv, Reader
  <2> QED BY <1>1, <2>1
<1>4. Ip!TypeOK'
  <2>1. value' \in Texts /\ Len(t) \in Nat /\ put' \in 0..Len(value') + 1
    BY <1>1, TextFacts
  <2> QED BY <1>1, <1>3, <2>1 DEF IpInv, Ip!TypeOK, Reader, Tasks
<1>5. ASSUME NEW q \in Tasks PROVE ReaderInv(q)'
  <2>1. CASE reader[q].pc \in {"measure", "copy"}
    <3>1. reader'[q] = [reader[q] EXCEPT !.quiet = FALSE] /\ reader[q] \in Reader
      BY <1>1, <2>1 DEF IpInv
    <3> QED BY <2>1, <3>1 DEF IpInv, ReaderInv, Reader
  <2>2. CASE reader[q].pc \notin {"measure", "copy"}
    <3>1. reader'[q] = reader[q]
      BY <1>1, <2>2
    <3> QED BY <2>2, <3>1 DEF IpInv, ReaderInv
  <2> QED BY <2>1, <2>2
<1> QED BY <1>2, <1>3, <1>4, <1>5 DEF IpInv

LEMMA WriteCharIpInv == ASSUME IpInv, Ip!WriteChar PROVE IpInv'
<1>1. /\ put \in Nat /\ put <= Len(value) /\ value \in Texts
      /\ Len(value) \in Nat /\ Len(value) <= Width /\ Width \in Nat /\ put \in Ip!Cells
  BY TextFacts DEF Ip!WriteChar, Ip!Writing, IpInv, Ip!TypeOK, Ip!Cells
<1>2. /\ field' = [field EXCEPT ![put] = Char(value, put)] /\ put' = put + 1
      /\ UNCHANGED <<value, reader>>
  BY DEF Ip!WriteChar, Char
<1>3. /\ Char(value, put) \in Ip!Chars
      /\ put = Width => Char(value, put) = Ip!Nul
  BY <1>1, CharFacts
<1>4. field' \in [Ip!Cells -> Ip!Chars] /\ Width \in Ip!Cells
  BY <1>1, <1>2, <1>3 DEF IpInv, Ip!TypeOK, Ip!Cells
<1>5. FieldInv'
  <2>1. field'[Width] = Ip!Nul
    BY <1>2, <1>3, <1>4 DEF IpInv, FieldInv, Ip!TypeOK
  <2>2. ASSUME NEW i \in Ip!Cells, i < put' PROVE field'[i] = Char(value, i)
    <3>1. i = put \/ i < put
      BY <1>1, <1>2, <2>2 DEF Ip!Cells
    <3> QED BY <1>2, <3>1 DEF IpInv, FieldInv, Ip!TypeOK
  <2> QED BY <1>2, <2>1, <2>2 DEF FieldInv
<1>6. put' \in 0..Len(value') + 1
  BY <1>1, <1>2
<1>7. Ip!TypeOK'
  BY <1>2, <1>4, <1>6 DEF IpInv, Ip!TypeOK
<1>8. ASSUME NEW q \in Tasks PROVE ReaderInv(q)'
  <2>1. Ip!Writing
    BY DEF Ip!WriteChar
  <2> QED BY <1>2, <2>1 DEF IpInv, ReaderInv
<1> QED BY <1>2, <1>5, <1>7, <1>8 DEF IpInv

LEMMA BeginReadIpInv ==
  ASSUME IpInv, NEW r \in Tasks, Ip!BeginRead(r) PROVE IpInv'
<1> DEFINE now == [pc |-> IF r \in {"pump"} THEN "measure" ELSE "copy", at |-> 0,
                   length |-> IF r \in {"pump"} THEN 0 ELSE Width + 1,
                   copy |-> <<>>, of |-> value, quiet |-> ~Ip!Writing]
<1>1. Ip!Reads(r, now)
  BY DEF Ip!BeginRead
<1>2. value \in Texts /\ Ip!Writing \in BOOLEAN /\ Width \in Nat /\ Len(value) \in Nat
  BY TextFacts DEF IpInv, Ip!TypeOK, Ip!Writing
<1>3. now = [pc |-> IF r \in {"pump"} THEN "measure" ELSE "copy", at |-> 0,
             length |-> IF r \in {"pump"} THEN 0 ELSE Width + 1,
             copy |-> <<>>, of |-> value, quiet |-> ~Ip!Writing]
  OBVIOUS
<1> HIDE DEF now
<1>4. /\ now.pc \in {"measure", "copy"} /\ now.at = 0 /\ now.copy = <<>>
      /\ now.of = value /\ (now.quiet => ~Ip!Writing)
      /\ now.pc = "copy" => now.length = Width + 1
  BY <1>3
<1>5. now \in Reader
  <2>1. /\ (IF r \in {"pump"} THEN 0 ELSE Width + 1) \in 0..Width + 1 /\ 0 \in 0..Width + 1
        /\ <<>> \in Seq(Ip!Chars) /\ (~Ip!Writing) \in BOOLEAN
        /\ (IF r \in {"pump"} THEN "measure" ELSE "copy") \in {"rest", "measure", "copy", "done"}
    BY <1>2
  <2> QED BY <1>2, <1>3, <2>1 DEF Reader
<1>6. now.pc = "copy" => True(now)
  BY <1>2, <1>4 DEF True, IsCopy
<1>7. Len(now.copy) = 0 /\ 0 <= Width /\ 0 <= Width + 1 /\ 0 <= Len(value)
  BY <1>2, <1>4
<1> QED BY <1>1, <1>4, <1>5, <1>6, <1>7, ReadsIpInv

LEMMA MeasureIpInv ==
  ASSUME IpInv, NEW r \in Tasks, Ip!Measure(r) PROVE IpInv'
<1> DEFINE rd == reader[r]
<1>1. /\ rd \in Reader /\ rd.pc = "measure" /\ rd.copy = <<>>
      /\ rd.at \in Nat /\ rd.at <= Width /\ Width \in Nat
      /\ rd.quiet => ~Ip!Writing /\ rd.of = value /\ rd.at <= Len(rd.of)
      /\ rd.of \in Texts /\ Len(rd.of) \in Nat /\ Len(rd.of) <= Width
  BY TextFacts DEF Ip!Measure, Ip!Reading, IpInv, ReaderInv, Reader
<1>2. rd.at \in Ip!Cells /\ (rd.at = Width => field[rd.at] = Ip!Nul)
  BY <1>1 DEF Ip!Cells, IpInv, FieldInv
<1>3. rd.quiet => field[rd.at] = Char(rd.of, rd.at)
  <2>1. rd.quiet => rd.at < put
    BY <1>1 DEF Ip!Writing, IpInv, Ip!TypeOK
  <2> QED BY <1>1, <1>2, <2>1 DEF IpInv, FieldInv
<1>4. CASE field[rd.at] = Ip!Nul
  <2> DEFINE now == [rd EXCEPT !.pc = "copy", !.length = rd.at, !.at = 0]
  <2>1. Ip!Reads(r, now)
    BY <1>4 DEF Ip!Measure
  <2>2. now.pc = "copy" /\ now.length = rd.at /\ now.at = 0 /\ now.copy = <<>>
        /\ now.of = rd.of /\ now.quiet = rd.quiet /\ now \in Reader
    <3>1. rd.at \in 0..Width + 1 /\ 0 \in 0..Width + 1
      BY <1>1
    <3> QED BY <1>1, <3>1 DEF Reader
  <2> HIDE DEF now
  <2>3. rd.quiet => rd.at = Len(rd.of)
    BY <1>1, <1>3, <1>4, CharFacts
  <2>4. now.quiet => True(now)
    BY <1>1, <2>2, <2>3 DEF True, IsCopy
  <2> QED BY <1>1, <2>1, <2>2, <2>4, ReadsIpInv
<1>5. CASE field[rd.at] # Ip!Nul
  <2> DEFINE now == [rd EXCEPT !.at = rd.at + 1]
  <2>1. Ip!Reads(r, now)
    BY <1>5 DEF Ip!Measure
  <2>2. rd.at + 1 <= Width /\ rd.at + 1 \in 0..Width + 1
    BY <1>1, <1>2, <1>5
  <2>3. now.pc = "measure" /\ now.at = rd.at + 1 /\ now.copy = <<>>
        /\ now.of = rd.of /\ now.quiet = rd.quiet /\ now \in Reader
    BY <1>1, <2>2 DEF Reader
  <2> HIDE DEF now
  <2>4. rd.quiet => rd.at + 1 <= Len(rd.of)
    BY <1>1, <1>3, <1>5, CharFacts
  <2> QED BY <1>1, <2>1, <2>2, <2>3, <2>4, ReadsIpInv
<1> QED BY <1>4, <1>5

LEMMA CopyCharIpInv ==
  ASSUME IpInv, NEW r \in Tasks, Ip!CopyChar(r) PROVE IpInv'
<1> DEFINE rd == reader[r]
<1>1. /\ rd \in Reader /\ rd.pc = "copy" /\ Len(rd.copy) = rd.at
      /\ rd.at \in Nat /\ rd.at <= rd.length /\ rd.length \in 0..Width + 1 /\ Width \in Nat
      /\ rd.quiet => ~Ip!Writing /\ rd.of = value /\ True(rd)
      /\ rd.of \in Texts /\ Len(rd.of) \in Nat /\ Len(rd.of) <= Width
      /\ rd.copy \in Seq(Ip!Chars)
  BY TextFacts DEF Ip!CopyChar, Ip!Reading, IpInv, ReaderInv, Reader
<1>2. CASE rd.at < rd.length
  <2> DEFINE ch == field[rd.at]
             copy == Append(rd.copy, ch)
             now == [rd EXCEPT !.copy = copy, !.at = rd.at + 1]
  <2>1. Ip!Reads(r, now)
    BY <1>2 DEF Ip!CopyChar
  <2>2. rd.at \in Ip!Cells /\ ch \in Ip!Chars /\ rd.at + 1 \in 0..Width + 1
        /\ rd.at + 1 <= rd.length
    BY <1>1, <1>2 DEF Ip!Cells, IpInv, Ip!TypeOK
  <2>3. /\ copy \in Seq(Ip!Chars) /\ Len(copy) = rd.at + 1
        /\ \A i \in 1..rd.at : copy[i] = rd.copy[i]
        /\ copy[rd.at + 1] = ch
    <3> HIDE DEF ch
    <3> QED BY <1>1, <2>2, AppendProperties
  <2> HIDE DEF copy
  <2>4. now.pc = "copy" /\ now.at = rd.at + 1 /\ now.length = rd.length
        /\ now.copy = copy /\ now.of = rd.of /\ now.quiet = rd.quiet /\ now \in Reader
    BY <1>1, <2>2, <2>3 DEF Reader
  <2> HIDE DEF now
  <2>5. ASSUME rd.quiet PROVE True(now)
    <3>1. ASSUME NEW i \in 0..Len(rd.of), i < Len(copy) PROVE copy[i + 1] = Char(rd.of, i)
      <4>1. CASE i < rd.at
        <5>1. rd.copy[i + 1] = Char(rd.of, i)
          BY <1>1, <2>5, <4>1 DEF True, IsCopy
        <5>2. i + 1 \in 1..rd.at
          BY <1>1, <4>1
        <5> QED BY <2>3, <5>1, <5>2
      <4>2. CASE i = rd.at
        <5>1. rd.at < put
          BY <1>1, <2>5, <4>2 DEF Ip!Writing, IpInv, Ip!TypeOK
        <5>2. ch = Char(value, rd.at)
          BY <2>2, <5>1 DEF IpInv, FieldInv
        <5> QED BY <1>1, <2>3, <2>5, <4>2, <5>2
      <4> QED BY <1>1, <2>3, <3>1, <4>1, <4>2
    <3> QED BY <1>1, <2>4, <2>5, <3>1 DEF True, IsCopy
  <2> QED BY <1>1, <2>1, <2>2, <2>3, <2>4, <2>5, ReadsIpInv
<1>3. CASE ~(rd.at < rd.length)
  <2> DEFINE now == [rd EXCEPT !.pc = "done"]
  <2>1. Ip!Reads(r, now)
    BY <1>3 DEF Ip!CopyChar
  <2>2. now.pc = "done" /\ now.at = rd.at /\ now.length = rd.length
        /\ now.copy = rd.copy /\ now.of = rd.of /\ now.quiet = rd.quiet /\ now \in Reader
    BY <1>1 DEF Reader
  <2> HIDE DEF now
  <2>3. Len(now.copy) = now.length
    BY <1>1, <1>3, <2>2
  <2>4. now.quiet => True(now)
    BY <1>1, <2>2 DEF True
  <2> QED BY <1>1, <2>1, <2>2, <2>3, <2>4, ReadsIpInv
<1> QED BY <1>2, <1>3

LEMMA EndReadIpInv ==
  ASSUME IpInv, NEW r \in Tasks, Ip!EndRead(r) PROVE IpInv'
<1>1. Ip!Reads(r, Ip!AtRest)
  BY DEF Ip!EndRead
<1>2. Ip!AtRest \in Reader /\ Ip!AtRest.pc = "rest"
  BY TextFacts DEF Ip!AtRest, Reader
<1> QED BY <1>1, <1>2, ReadsIpInv

(* Every step of this model is one of the readers, of the writer, or none. *)
LEMMA StepIpInv == IpInv /\ [Step]_allVars => IpInv'
<1> SUFFICES ASSUME IpInv, [Step]_allVars PROVE IpInv'
  OBVIOUS
<1>1. CASE OnEvent
  BY <1>1, BeginWriteIpInv, WriteCharIpInv DEF OnEvent
<1>2. CASE EthIpStr
  BY <1>2, BeginReadIpInv, MeasureIpInv, CopyCharIpInv, EndReadIpInv DEF EthIpStr, Tasks
<1>3. CASE GetInfo
  BY <1>3, BeginReadIpInv, CopyCharIpInv DEF GetInfo, Tasks
<1>4. CASE PrintAddress
  BY <1>4, EndReadIpInv DEF PrintAddress, Tasks
<1>5. CASE UNCHANGED ipVars
  <2>1. UNCHANGED <<field, value, put, reader>>
    BY <1>5 DEF ipVars
  <2>2. Ip!TypeOK' /\ FieldInv' /\ (reader \in [Tasks -> Reader])'
    BY <2>1 DEF IpInv, Ip!TypeOK, FieldInv
  <2>3. ASSUME NEW r \in Tasks PROVE ReaderInv(r)'
    BY <2>1 DEF IpInv, ReaderInv, Ip!Writing
  <2> QED BY <2>2, <2>3 DEF IpInv
<1> QED BY <1>1, <1>2, <1>3, <1>4, <1>5 DEF Step, InfoJsonGet, allVars

LEMMA IpInvCopies == IpInv => CopiesEnd
<1> SUFFICES ASSUME IpInv PROVE CopiesEnd
  OBVIOUS
<1>1. Ip!TypeOK
  BY DEF IpInv
<1>2. Ip!EndInside
  BY DEF IpInv, ReaderInv, Ip!EndInside, Ip!Reading, Tasks
<1>3. ASSUME NEW r \in Tasks, Ip!Reading(r, "done"), reader[r].quiet
      PROVE  Ip!Shown(r) = reader[r].of
  <2>1. reader[r] \in Reader /\ ReaderInv(r) /\ reader[r].pc = "done"
    BY <1>3 DEF IpInv, Ip!Reading
  <2> QED BY <1>3, <2>1, TrueShows DEF Reader, ReaderInv
<1>4. Ip!QuietCopyTrue
  BY <1>3 DEF Ip!QuietCopyTrue, Tasks
<1> QED BY <1>1, <1>2, <1>4 DEF CopiesEnd

(* Whatever has been copied, what is shown of it has a length.             *)
LEMMA ShownLen ==
  ASSUME IpInv, NEW r \in Tasks PROVE Len(Ip!Shown(r)) \in Nat
<1>1. reader[r].copy \in Seq(Ip!Chars)
  BY DEF IpInv, Reader
<1>2. ASSUME NEW copy \in Seq(Ip!Chars)
      PROVE  Len(LET cuts == {i \in DOMAIN copy : copy[i] = Ip!Nul}
                     cut  == IF cuts = {} THEN Len(copy)
                             ELSE CHOOSE i \in 0..Len(copy) :
                                    i + 1 \in cuts /\ \A j \in cuts : i < j
                 IN  SubSeq(copy, 1, cut)) \in Nat
  <2> DEFINE cuts == {i \in DOMAIN copy : copy[i] = Ip!Nul}
             cut == IF cuts = {} THEN Len(copy)
                    ELSE CHOOSE i \in 0..Len(copy) : i + 1 \in cuts /\ \A j \in cuts : i < j
  <2>1. \A i \in cuts : i \in 1..Len(copy)
    OBVIOUS
  <2>2. Len(copy) \in Nat
    OBVIOUS
  <2> HIDE DEF cuts
  <2>3. ASSUME cuts # {} PROVE \E i \in 0..Len(copy) : i + 1 \in cuts /\ \A j \in cuts : i < j
    <3>1. cuts \in SUBSET Nat
      BY <2>1, <2>2
    <3>2. PICK x \in cuts : \A y \in cuts : x <= y
      BY <2>3, <3>1, Least
    <3>3. x - 1 \in 0..Len(copy) /\ (x - 1) + 1 = x /\ \A j \in cuts : x - 1 < j
      BY <2>1, <2>2, <3>2
    <3> QED BY <3>2, <3>3
  <2>4. cut \in 0..Len(copy)
    BY <2>2, <2>3
  <2> HIDE DEF cut
  <2>5. Len(SubSeq(copy, 1, cut)) \in Nat
    BY <2>2, <2>4
  <2> QED BY <2>5 DEF cut, cuts
<1> QED BY <1>1, <1>2 DEF Ip!Shown

-----------------------------------------------------------------------------
(* /info.json *)

Names == {Document[i] : i \in DOMAIN Document}
Words == {"identity", "temp", "slot", "ip", "services", "part", "end"}

(* Only a finished request has an answer. *)
AnswerInv == at = "build" => answer = "none"

IInv == TypeOK /\ AnswerInv /\ BufferFreed /\ SensorHeld /\ WholeOrRefused

-----------------------------------------------------------------------------
LEMMA DocumentIsSeq ==
  /\ Document \in Seq(Names)
  /\ Len(Document) \in Nat
  /\ SubSeq(Document, 1, 0) = <<>>
<1> DEFINE parts == [i \in 1..Partitions |-> "part"]
           opening == <<"identity", "temp", "slot", "ip", "services">>
<1>1. opening \in Seq(Words) /\ <<"end">> \in Seq(Words)
  BY DEF Words
<1>2. parts \in Seq(Words)
  <2>1. Partitions \in Nat /\ "part" \in Words
    BY InfoAssumption DEF InfoAssumption, Words
  <2> QED BY <2>1
<1>3. Document \in Seq(Words)
  <2> HIDE DEF parts, opening
  <2>1. opening \o parts \in Seq(Words)
    BY <1>1, <1>2
  <2>2. (opening \o parts) \o <<"end">> \in Seq(Words)
    BY <1>1, <2>1
  <2> QED BY <2>2 DEF Document, parts, opening
<1> HIDE DEF parts, opening
<1>4. Document \in Seq(Names)
  BY <1>3 DEF Names
<1> QED BY <1>3, <1>4, SubSeqEmpty

(* One call of jb(): the field is added whole, or never again one.         *)
LEMMA JbFacts ==
  ASSUME TypeOK, NEW width \in Nat, Jb(width), next <= Len(Document),
         ~ovf => written = SubSeq(Document, 1, next - 1)
  PROVE  /\ len' \in 0..JsonCap - 1 /\ ovf' \in BOOLEAN
         /\ written' \in Seq(Names)
         /\ ~ovf' => written' = SubSeq(Document, 1, next)
<1>1. next \in 1..Len(Document) /\ len \in 0..JsonCap - 1 /\ JsonCap \in Nat
  BY DocumentIsSeq, InfoAssumption DEF TypeOK, InfoAssumption
<1>2. written \in Seq(Names) /\ ovf \in BOOLEAN
  BY DEF TypeOK, Names
<1>3. CASE ovf
  BY <1>1, <1>2, <1>3 DEF Jb
<1>4. CASE ~ovf /\ width >= JsonCap - len
  BY <1>1, <1>2, <1>4 DEF Jb
<1>5. CASE ~ovf /\ ~(width >= JsonCap - len)
  <2>1. /\ len' = len + width /\ written' = Append(written, Document[next])
        /\ ovf' = ovf
    BY <1>5 DEF Jb
  <2>2. Document[next] \in Names
    BY <1>1, DocumentIsSeq DEF Names
  <2>3. written' \in Seq(Names) /\ written' = written \o <<Document[next]>>
    BY <1>2, <2>1, <2>2, AppendProperties, AppendIsConcat
  <2>4. SubSeq(Document, 1, next) = SubSeq(Document, 1, next - 1) \o <<Document[next]>>
    BY <1>1, DocumentIsSeq, SubSeqRecursiveSecond
  <2> QED BY <1>1, <1>2, <1>5, <2>1, <2>3, <2>4
<1> QED BY <1>3, <1>4, <1>5

LEMMA EmitIInv ==
  ASSUME IInv, NEW name, NEW width \in Nat, Emit(name, width),
         SensorHeld', tsens' \in BOOLEAN, sensor' \in {"none", "installed", "enabled"}
  PROVE  IInv'
<1>1. next <= Len(Document) /\ Jb(width) /\ next \in Nat
  BY DocumentIsSeq DEF Emit, IInv, TypeOK
<1>2. /\ at = "build" /\ answer = "none" /\ buffers = 1
      /\ UNCHANGED <<at, buffers, answer>> /\ next' = next + 1
  BY DEF Emit, IInv, AnswerInv, BufferFreed
<1>3. /\ len' \in 0..JsonCap - 1 /\ ovf' \in BOOLEAN /\ written' \in Seq(Names)
      /\ ~ovf' => written' = SubSeq(Document, 1, next)
  BY <1>1, <1>2, JbFacts DEF IInv, WholeOrRefused
<1>4. next' \in 1..Len(Document) + 1 /\ next = next' - 1
  BY <1>1, <1>2, DocumentIsSeq DEF IInv, TypeOK
<1>5. TypeOK'
  BY <1>2, <1>3, <1>4 DEF IInv, TypeOK, Names
<1>6. WholeOrRefused'
  BY <1>2, <1>3, <1>4 DEF WholeOrRefused
<1> QED BY <1>2, <1>5, <1>6 DEF IInv, AnswerInv, BufferFreed

-----------------------------------------------------------------------------
LEMMA InitIInv == Init => IInv
<1> SUFFICES ASSUME Init PROVE IInv
  OBVIOUS
<1>1. 0 \in 0..JsonCap - 1 /\ 1 \in 1..Len(Document) + 1
  BY InfoAssumption, DocumentIsSeq DEF InfoAssumption
<1>2. <<>> \in Seq(Names)
  OBVIOUS
<1> QED BY <1>1, <1>2 DEF Init, IInv, TypeOK, AnswerInv, BufferFreed, SensorHeld,
           WholeOrRefused, Names

LEMMA StepIInv == IInv /\ IpInv /\ [Step]_allVars => IInv'
<1> SUFFICES ASSUME IInv, IpInv, [Step]_allVars PROVE IInv'
  OBVIOUS
<1>1. CASE Malloc
  <2>1. 0 \in 0..JsonCap - 1 /\ 1 \in 1..Len(Document) + 1 /\ <<>> \in Seq(Names)
    BY InfoAssumption, DocumentIsSeq DEF InfoAssumption
  <2>2. buffers \in Nat /\ tsens' = tsens /\ sensor' = sensor
    BY <1>1 DEF Malloc, IInv, TypeOK
  <2>3. /\ at' \in {"idle", "build", "free"} /\ buffers' \in Nat
        /\ answer' \in {"none", "document", "500"}
    BY <1>1, <2>2 DEF Malloc
  <2>4. next' = 1 /\ len' = 0 /\ ovf' = FALSE /\ written' = <<>>
    BY <1>1 DEF Malloc
  <2>5. TypeOK'
    BY <2>1, <2>2, <2>3, <2>4 DEF IInv, TypeOK, Names
  <2>6. WholeOrRefused'
    BY <1>1, DocumentIsSeq DEF Malloc, WholeOrRefused
  <2> QED BY <1>1, <2>5, <2>6 DEF Malloc, IInv, AnswerInv, BufferFreed, SensorHeld
<1>2. ASSUME NEW width \in Widths, PrintField(width) PROVE IInv'
  <2>1. UNCHANGED <<tsens, sensor>> /\ \E name : Emit(name, width)
    BY <1>2 DEF PrintField
  <2> QED BY <2>1, EmitIInv, InfoAssumption DEF IInv, TypeOK, SensorHeld, InfoAssumption
<1>3. ASSUME NEW width \in Widths, PrintTemp(width) PROVE IInv'
  <2>1. SensorHeld' /\ tsens' \in BOOLEAN /\ sensor' \in {"none", "installed", "enabled"}
    BY <1>3 DEF PrintTemp, TempCelsius, IInv, TypeOK, SensorHeld
  <2> QED BY <1>3, <2>1, EmitIInv, InfoAssumption DEF PrintTemp, InfoAssumption
<1>4. CASE PrintAddress
  <2>1. Len(Ip!Shown("httpd")) \in Nat
    BY ShownLen DEF Tasks
  <2> HIDE DEF Ip!Shown
  <2> QED BY <1>4, <2>1, EmitIInv DEF PrintAddress, PrintIp, IInv, TypeOK, SensorHeld
<1>5. CASE Send
  <2>1. next = Len(Document) + 1
    BY <1>5, DocumentIsSeq DEF Send, IInv, TypeOK
  <2>2. ~ovf => written = Document
    BY <1>5, <2>1, DocumentIsSeq, SubSeqFull DEF Send, IInv, WholeOrRefused
  <2>3. TypeOK'
    BY <1>5 DEF Send, IInv, TypeOK
  <2>4. WholeOrRefused'
    BY <1>5, <2>2 DEF Send, WholeOrRefused
  <2> QED BY <1>5, <2>3, <2>4 DEF Send, IInv, AnswerInv, BufferFreed, SensorHeld
<1>6. CASE Free
  <2>1. buffers = 1
    BY <1>6 DEF Free, IInv, BufferFreed
  <2> QED BY <1>6, <2>1
      DEF Free, IInv, TypeOK, AnswerInv, BufferFreed, SensorHeld, WholeOrRefused
<1>7. CASE UNCHANGED vars
  <2>1. UNCHANGED <<at, next, len, ovf, written, buffers, tsens, sensor, answer>>
    BY <1>7 DEF vars
  <2> QED BY <2>1 DEF IInv, TypeOK, AnswerInv, BufferFreed, SensorHeld, WholeOrRefused
<1> QED BY <1>1, <1>2, <1>3, <1>4, <1>5, <1>6, <1>7
         DEF Step, OnEvent, EthIpStr, GetInfo, InfoJsonGet, allVars

-----------------------------------------------------------------------------
LEMMA BothInvAlways == DocumentsSpec => [](IInv /\ IpInv)
<1>1. Begin => IInv /\ IpInv
  BY InitIInv, InitIpInv DEF Begin
<1> QED BY <1>1, StepIInv, StepIpInv, PTL DEF DocumentsSpec

(* The document that reaches the browser is complete, though build() goes  *)
(* on printing after a field that found no room, and though the address in *)
(* it is as long as its copy says.                                         *)
THEOREM WholeOrRefusedAlways == DocumentsSpec => []WholeOrRefused
<1>1. IInv => WholeOrRefused
  BY DEF IInv
<1> QED BY <1>1, BothInvAlways, PTL

(* The buffer of a request is freed on every way out, the handle tells     *)
(* whether the driver is installed, whichever of its two calls fails, and  *)
(* the image is as long as the page says.                                  *)
THEOREM InfoInvAlways == DocumentsSpec => []InfoInv
<1>1. IInv => InfoInv
  BY SizeIsExact DEF IInv, InfoInv
<1> QED BY <1>1, BothInvAlways, PTL

(* No reader leaves the array, and a copy that met no write is true: for   *)
(* any set of addresses, with any terminators left over from longer ones.  *)
THEOREM CopiesEndAlways == DocumentsSpec => []CopiesEnd
<1>1. IpInv => CopiesEnd
  BY IpInvCopies
<1> QED BY <1>1, BothInvAlways, PTL

-----------------------------------------------------------------------------
(* Reading back what is written: a trace of the reader over the characters *)
(* behind the first h is carried on from one character to the next.        *)

At(read, part) == [bytes |-> read, part |-> part]

Reads(t, h, so) ==
  \E f : /\ f = [i \in 0..Len(t) - h |->
                   IF i = 0 THEN Unread ELSE ReadChar(f[i - 1], t[h + i])]
         /\ f[Len(t) - h] = so

LEMMA ReadsNothing ==
  ASSUME NEW S, NEW t \in Seq(S)
  PROVE  Reads(t, Len(t), Unread)
<1> DEFINE f == [i \in 0..0 |-> Unread]
           g == [i \in 0..0 |->
                   IF i = 0 THEN Unread ELSE ReadChar(f[i - 1], t[Len(t) + i])]
<1>1. Len(t) - Len(t) = 0
  OBVIOUS
<1>2. f[0] = Unread
  OBVIOUS
<1>3. f = g
  OBVIOUS
<1> HIDE DEF f
<1> QED BY <1>1, <1>2, <1>3 DEF Reads

LEMMA ReadsOn ==
  ASSUME NEW S, NEW t \in Seq(S), NEW h \in 0..Len(t), NEW so, Reads(t, h, so), NEW ch \in S
  PROVE  Reads(Append(t, ch), h, ReadChar(so, ch))
<1> DEFINE n == Len(t) - h
           u == Append(t, ch)
           Read(f, i) == IF i = 0 THEN Unread ELSE ReadChar(f[i - 1], u[h + i])
<1>1. n \in Nat /\ Len(u) - h = n + 1 /\ h + (n + 1) = Len(t) + 1 /\ h \in Nat
  OBVIOUS
<1>2. u[h + (n + 1)] = ch /\ \A i \in 1..n : u[h + i] = t[h + i]
  <2>1. u[Len(t) + 1] = ch /\ \A j \in 1..Len(t) : u[j] = t[j]
    OBVIOUS
  <2>2. \A i \in 1..n : h + i \in 1..Len(t)
    OBVIOUS
  <2> HIDE DEF u, n
  <2> QED BY <1>1, <2>1, <2>2
<1>3. PICK f : /\ f = [i \in 0..n |->
                   IF i = 0 THEN Unread ELSE ReadChar(f[i - 1], t[h + i])]
               /\ f[n] = so
  BY DEF Reads
<1> HIDE DEF u, n
<1> DEFINE g == [i \in 0..n + 1 |-> IF i = n + 1 THEN ReadChar(so, ch) ELSE f[i]]
           k == [i \in 0..n + 1 |-> Read(g, i)]
<1>4. ASSUME NEW i \in 0..n + 1 PROVE g[i] = Read(g, i)
  <2>1. CASE i = 0
    <3>1. 0 \in 0..n /\ i # n + 1
      BY <1>1, <2>1
    <3>2. f[0] = Unread
      BY <1>3, <3>1
    <3> QED BY <2>1, <3>1, <3>2
  <2>2. CASE i \in 1..n
    <3>1. i # n + 1 /\ i \in 0..n /\ i # 0 /\ i - 1 \in 0..n + 1 /\ i - 1 # n + 1
      BY <1>1, <2>2
    <3>2. f[i] = ReadChar(f[i - 1], t[h + i])
      BY <1>3, <3>1
    <3>3. g[i] = f[i] /\ g[i - 1] = f[i - 1]
      BY <3>1
    <3> HIDE DEF g
    <3> QED BY <1>2, <2>2, <3>1, <3>2, <3>3
  <2>3. CASE i = n + 1
    <3>1. i # 0 /\ i - 1 = n /\ n \in 0..n + 1 /\ n # n + 1
      BY <1>1, <2>3
    <3>2. g[n + 1] = ReadChar(so, ch) /\ g[n] = f[n]
      BY <2>3, <3>1
    <3> HIDE DEF g
    <3> QED BY <1>2, <1>3, <2>3, <3>1, <3>2
  <2> QED BY <1>1, <2>1, <2>2, <2>3
<1>5. g = k
  <2>1. g = [i \in 0..n + 1 |-> g[i]]
    OBVIOUS
  <2> HIDE DEF g, Read
  <2> QED BY <1>4, <2>1
<1>6. g[n + 1] = ReadChar(so, ch)
  BY <1>1
<1> HIDE DEF g
<1> QED BY <1>1, <1>5, <1>6 DEF Reads, u

(* The trace is what the page's reading comes to.                          *)
LEMMA ReadingIs ==
  ASSUME NEW S, text \in Seq(S), head \in 0..Len(text), NEW so, Reads(text, head, so)
  PROVE  Reading = so
<1> DEFINE n == Len(text) - head
           Unfolds(f) == f = [i \in 0..n |->
                   IF i = 0 THEN Unread ELSE ReadChar(f[i - 1], text[head + i])]
           read == CHOOSE f : f = [i \in 0..n |->
                   IF i = 0 THEN Unread ELSE ReadChar(f[i - 1], text[head + i])]
<1>1. n \in Nat
  OBVIOUS
<1>2. PICK f : Unfolds(f) /\ f[n] = so
  BY DEF Reads
<1>3. Unfolds(read)
  <2>1. \E g : Unfolds(g)
    <3> HIDE DEF Unfolds
    <3> QED BY <1>2
  <2>2. read = CHOOSE g : Unfolds(g)
    OBVIOUS
  <2> HIDE DEF Unfolds, read
  <2> QED BY <2>1, <2>2
<1>4. Reading = read[n]
  BY DEF Reading
<1> HIDE DEF read, n
<1> DEFINE T == {i \in 0..n : f[i] = read[i]}
<1>5. 0 \in T
  <2>1. 0 \in 0..n
    BY <1>1
  <2>2. f[0] = Unread /\ read[0] = Unread
    BY <1>2, <1>3, <2>1
  <2> QED BY <2>1, <2>2
<1>6. ASSUME NEW i \in 1..n, i - 1 \in T PROVE i \in T
  <2>1. i \in 0..n /\ i # 0
    BY <1>1
  <2>2. /\ f[i] = ReadChar(f[i - 1], text[head + i])
        /\ read[i] = ReadChar(read[i - 1], text[head + i])
    BY <1>2, <1>3, <2>1
  <2>3. f[i - 1] = read[i - 1]
    BY <1>6
  <2> QED BY <2>1, <2>2, <2>3
<1>7. 0..n \subseteq T
  <2> HIDE DEF T
  <2> QED BY <1>1, <1>5, <1>6, Reaches
<1> QED BY <1>1, <1>2, <1>4, <1>7

(* How each character is taken.                                            *)
LEMMA CharRead ==
  ASSUME NEW read
  PROVE  /\ ReadChar(At(read, "string"), Backslash) = At(read, "escape")
         /\ ReadChar(At(read, "string"), Quote) = At(read, "closed")
         /\ \A b \in Printable :
              ReadChar(At(read, "string"), b) = At(Append(read, b), "string")
         /\ ReadChar(At(read, "escape"), "u") = At(read, "u")
         /\ \A b \in {Quote, Backslash} :
              ReadChar(At(read, "escape"), b) = At(Append(read, b), "string")
         /\ ReadChar(At(read, "u"), "0") = At(read, "u0")
         /\ ReadChar(At(read, "u0"), "0") = At(read, "u00")
         /\ \A b \in Opaque :
              /\ ReadChar(At(read, "u00"), b) = At(read, "digit")
              /\ ReadChar(At(read, "digit"), b) = At(Append(read, b), "string")
         /\ ReadChar(At(read, "closed"), Field) = At(read, "end")
<1>0. /\ {"quote", "backslash", "field"} \cap (Printable \cup Opaque) = {}
      /\ Printable \cap Opaque = {}
  BY JsonAssumption DEF JsonAssumption, Quote, Backslash, Field
<1> USE <1>0 DEF ReadChar, At, Quote, Backslash, Field
<1>1. ReadChar(At(read, "string"), Backslash) = At(read, "escape")
  OBVIOUS
<1>2. ReadChar(At(read, "string"), Quote) = At(read, "closed")
  OBVIOUS
<1>3. ASSUME NEW b \in Printable
      PROVE  ReadChar(At(read, "string"), b) = At(Append(read, b), "string")
  <2>1. b # Quote /\ b # Backslash
    OBVIOUS
  <2> QED BY <2>1
<1>4. ReadChar(At(read, "escape"), "u") = At(read, "u")
  OBVIOUS
<1>5. ASSUME NEW b \in {Quote, Backslash}
      PROVE  ReadChar(At(read, "escape"), b) = At(Append(read, b), "string")
  OBVIOUS
<1>6. ReadChar(At(read, "u"), "0") = At(read, "u0")
  OBVIOUS
<1>7. ReadChar(At(read, "u0"), "0") = At(read, "u00")
  OBVIOUS
<1>8. ASSUME NEW b \in Opaque
      PROVE  /\ ReadChar(At(read, "u00"), b) = At(read, "digit")
             /\ ReadChar(At(read, "digit"), b) = At(Append(read, b), "string")
  OBVIOUS
<1>9. ReadChar(At(read, "closed"), Field) = At(read, "end")
  OBVIOUS
<1> QED
  <2> USE <1>1, <1>2, <1>3, <1>4, <1>5, <1>6, <1>7, <1>8, <1>9
  <2> HIDE DEF ReadChar, At, Quote, Backslash, Field
  <2> QED OBVIOUS

LEMMA ConcatAppend ==
  ASSUME NEW S, NEW t \in Seq(S), NEW s \in Seq(S), NEW c \in S
  PROVE  t \o Append(s, c) = Append(t \o s, c)
<1>1. /\ <<c>> \in Seq(S) /\ t \o s \in Seq(S)
      /\ Append(s, c) = s \o <<c>> /\ Append(t \o s, c) = (t \o s) \o <<c>>
  BY AppendIsConcat, ConcatProperties
<1>2. (t \o s) \o <<c>> = t \o (s \o <<c>>)
  BY <1>1, ConcatAssociative
<1> QED BY <1>1, <1>2

(* The reader behind one more character.                                   *)
LEMMA ReadsMore ==
  ASSUME NEW S, NEW t \in Seq(S), NEW s \in Seq(S), NEW h \in 0..Len(t), NEW so,
         Reads(t \o s, h, so), NEW ch \in S
  PROVE  Append(s, ch) \in Seq(S) /\ Reads(t \o Append(s, ch), h, ReadChar(so, ch))
<1>1. t \o s \in Seq(S) /\ h \in 0..Len(t \o s) /\ Append(s, ch) \in Seq(S)
  OBVIOUS
<1>2. Reads(Append(t \o s, ch), h, ReadChar(so, ch))
  <2> DEFINE u == t \o s
  <2>1. u \in Seq(S) /\ h \in 0..Len(u) /\ Reads(u, h, so)
    BY <1>1
  <2> HIDE DEF u
  <2>2. Reads(Append(u, ch), h, ReadChar(so, ch))
    BY <2>1, ReadsOn
  <2> QED BY <2>2 DEF u
<1>3. t \o Append(s, ch) = Append(t \o s, ch)
  BY ConcatAppend
<1> QED BY <1>1, <1>2, <1>3

(* However a byte is escaped, it is read back as that byte.                *)
LEMMA ReadsEscaped ==
  ASSUME NEW t \in Seq(Characters), NEW h \in 0..Len(t), NEW read,
         Reads(t, h, At(read, "string")), NEW b \in Bytes
  PROVE  Reads(t \o Escaped(b), h, At(Append(read, b), "string"))
<1>1. {b, Backslash, "u", "0"} \subseteq Characters
  BY DEF Characters, Bytes
<1> DEFINE s0 == <<>>
<1>2. s0 \in Seq(Characters) /\ Reads(t \o s0, h, At(read, "string"))
  BY ConcatEmptySeq
<1> HIDE DEF s0
<1>3. CASE b \in {Quote, Backslash}
  <2> DEFINE s1 == Append(s0, Backslash)
  <2>1. Escaped(b) = Append(s1, b)
    <3>1. Escaped(b) = <<Backslash, b>>
      BY <1>3 DEF Escaped
    <3> QED BY <3>1 DEF s0
  <2>2. s1 \in Seq(Characters) /\ Reads(t \o s1, h, At(read, "escape"))
    BY <1>1, <1>2, ReadsMore, CharRead
  <2> HIDE DEF s1
  <2>3. Reads(t \o Append(s1, b), h, At(Append(read, b), "string"))
    BY <1>1, <1>3, <2>2, ReadsMore, CharRead
  <2> QED BY <2>1, <2>3
<1>4. CASE b \notin {Quote, Backslash} /\ b \in Opaque
  <2> DEFINE s1 == Append(s0, Backslash)
             s2 == Append(s1, "u")
             s3 == Append(s2, "0")
             s4 == Append(s3, "0")
             s5 == Append(s4, b)
  <2>0. Escaped(b) = Append(s5, b)
    <3>1. Escaped(b) = <<Backslash, "u", "0", "0", b, b>>
      BY <1>4 DEF Escaped
    <3> QED BY <3>1 DEF s0
  <2>1. s1 \in Seq(Characters) /\ Reads(t \o s1, h, At(read, "escape"))
    BY <1>1, <1>2, ReadsMore, CharRead
  <2> HIDE DEF s1
  <2>2. s2 \in Seq(Characters) /\ Reads(t \o s2, h, At(read, "u"))
    BY <1>1, <2>1, ReadsMore, CharRead
  <2> HIDE DEF s2
  <2>3. s3 \in Seq(Characters) /\ Reads(t \o s3, h, At(read, "u0"))
    BY <1>1, <2>2, ReadsMore, CharRead
  <2> HIDE DEF s3
  <2>4. s4 \in Seq(Characters) /\ Reads(t \o s4, h, At(read, "u00"))
    BY <1>1, <2>3, ReadsMore, CharRead
  <2> HIDE DEF s4
  <2>5. s5 \in Seq(Characters) /\ Reads(t \o s5, h, At(read, "digit"))
    BY <1>1, <1>4, <2>4, ReadsMore, CharRead
  <2> HIDE DEF s5
  <2>6. Reads(t \o Append(s5, b), h, At(Append(read, b), "string"))
    BY <1>1, <1>4, <2>5, ReadsMore, CharRead
  <2> QED BY <2>0, <2>6
<1>5. CASE b \notin {Quote, Backslash} /\ b \notin Opaque
  <2>1. Escaped(b) = Append(s0, b)
    <3>1. Escaped(b) = <<b>>
      BY <1>5 DEF Escaped
    <3> QED BY <3>1 DEF s0
  <2>2. b \in Printable
    BY <1>5 DEF Bytes
  <2>3. Reads(t \o Append(s0, b), h, At(Append(read, b), "string"))
    BY <1>1, <1>2, <2>2, ReadsMore, CharRead
  <2> QED BY <2>1, <2>3
<1> QED BY <1>3, <1>4, <1>5

(* The quote and the brace end it.                                         *)
LEMMA ReadsEnd ==
  ASSUME NEW t \in Seq(Characters), NEW h \in 0..Len(t), NEW read,
         Reads(t, h, At(read, "string"))
  PROVE  Reads(t \o <<Quote, Field>>, h, At(read, "end"))
<1> DEFINE s0 == <<>>
           s == Append(s0, Quote)
<1>1. {Quote, Field} \subseteq Characters
  BY DEF Characters, Bytes
<1>2. s0 \in Seq(Characters) /\ Reads(t \o s0, h, At(read, "string"))
  BY ConcatEmptySeq
<1>3. <<Quote, Field>> = Append(s, Field)
  OBVIOUS
<1> HIDE DEF s0
<1>4. s \in Seq(Characters) /\ Reads(t \o s, h, At(read, "closed"))
  BY <1>1, <1>2, ReadsMore, CharRead
<1> HIDE DEF s
<1>5. Reads(t \o Append(s, Field), h, At(read, "end"))
  BY <1>1, <1>4, ReadsMore, CharRead
<1> QED BY <1>3, <1>5

-----------------------------------------------------------------------------
(* A message in the pump task's buffer *)

(* What has been written when each part is about to be: JSON_MAX's sum.    *)
FilledInv ==
  /\ step \in {"idle", "head", "status"} => text = <<>>
  /\ step = "head" => head \in Heads /\ taken = 0
  /\ step \in {"idle", "status"} => head = 0 /\ taken = 0
  /\ step = "escape" => head \in Heads /\ Len(text) <= head + 6 * taken

(* And what the page makes of it.                                          *)
ReadInv ==
  /\ step = "escape" => /\ head \in 0..Len(text)
                        /\ Reads(text, head, At(SubSeq(data, 1, taken), "string"))
  /\ step = "done" /\ head # 0 => /\ head \in 0..Len(text)
                                  /\ Reads(text, head, At(data, "end"))

JsonInv == JsonTypeOK /\ FilledInv /\ InBuffer /\ NeverRefused /\ ReadInv

(* An escaped byte is one, two or six characters. *)
LEMMA EscapedFacts ==
  ASSUME NEW b \in Bytes
  PROVE  /\ Escaped(b) \in Seq(Characters)
         /\ Len(Escaped(b)) \in Nat /\ Len(Escaped(b)) <= 6
<1>1. {b, Backslash, "u", "0"} \subseteq Characters
  BY DEF Characters, Bytes
<1>2. CASE b \in {Quote, Backslash}
  <2>1. Escaped(b) = <<Backslash, b>>
    BY <1>2 DEF Escaped
  <2> QED BY <1>1, <2>1
<1>3. CASE b \notin {Quote, Backslash} /\ b \in Opaque
  <2>1. Escaped(b) = <<Backslash, "u", "0", "0", b, b>>
    BY <1>3 DEF Escaped
  <2> QED BY <1>1, <2>1
<1>4. CASE b \notin {Quote, Backslash} /\ b \notin Opaque
  <2>1. Escaped(b) = <<b>>
    BY <1>4 DEF Escaped
  <2> QED BY <1>1, <2>1
<1> QED BY <1>2, <1>3, <1>4

(* A function from 1..n is a sequence of length n. *)
LEMMA FixedFields ==
  ASSUME NEW n \in Nat
  PROVE  /\ [i \in 1..n |-> Field] \in Seq(Characters)
         /\ Len([i \in 1..n |-> Field]) = n
BY DEF Characters

LEMMA JsonRoom ==
  /\ JsonMax \in Nat /\ MaxData \in Nat
  /\ \A h \in Heads : h \in Nat /\ h + 6 * MaxData + 2 < JsonMax
  /\ StatusFields \in Nat /\ AddressMax \in Nat
  /\ StatusFields + AddressMax < JsonMax /\ 0 < JsonMax
BY JsonAssumption DEF JsonAssumption, JsonMax

LEMMA InitJson == ASSUME JsonInit PROVE JsonInv
<1>1. <<>> \in Seq(Bytes) /\ <<>> \in Seq(Characters) /\ Len(<<>>) = 0
  OBVIOUS
<1>2. JsonTypeOK /\ FilledInv
  BY <1>1, JsonRoom DEF JsonInit, JsonTypeOK, FilledInv
<1>3. InBuffer /\ NeverRefused /\ ReadInv
  BY JsonRoom DEF JsonInit, InBuffer, NeverRefused, ReadInv
<1> QED BY <1>2, <1>3 DEF JsonInv

LEMMA TakeEntryJson ==
  ASSUME JsonInv,
         NEW h \in Heads, NEW payload \in Payloads, TakeEntry(h, payload)
  PROVE  JsonInv'
<1>1. PICK n \in 0..MaxData : payload \in [1..n -> Bytes]
  BY DEF Payloads
<1>2. payload \in Seq(Bytes) /\ Len(payload) = n
  BY <1>1, JsonRoom
<1>3. data' \in Seq(Bytes) /\ Len(data') <= MaxData /\ taken' = 0 /\ Len(data') \in Nat
  BY <1>2, JsonRoom DEF TakeEntry, JsonInv, FilledInv
<1> QED BY <1>3
    DEF TakeEntry, JsonInv, JsonTypeOK, FilledInv, InBuffer, NeverRefused, ReadInv

LEMMA FmtHeadJson == ASSUME JsonInv, FmtHead PROVE JsonInv'
<1>1. head \in Heads /\ head \in Nat /\ text = <<>> /\ taken = 0
  BY JsonRoom DEF FmtHead, JsonInv, FilledInv
<1>2. head < JsonMax
  BY <1>1, JsonRoom
<1>3. Fits(head)
  BY <1>1, <1>2, JsonRoom DEF Fits
<1>4. /\ text' = [i \in 1..head |-> Field] /\ step' = "escape"
      /\ UNCHANGED <<head, data, taken, result>>
  BY <1>3 DEF FmtHead
<1>5. text' \in Seq(Characters) /\ Len(text') = head
  BY <1>1, <1>4, FixedFields
<1>6. Reads(text', head, At(SubSeq(data, 1, taken), "string"))
  <2>1. SubSeq(data, 1, taken) = <<>>
    BY <1>1 DEF JsonInv, JsonTypeOK
  <2>2. Reads(text', Len(text'), Unread)
    BY <1>5, ReadsNothing
  <2> QED BY <1>5, <2>1, <2>2 DEF At, Unread
<1>7. ReadInv'
  BY <1>1, <1>4, <1>5, <1>6 DEF ReadInv
<1> HIDE DEF Reads
<1> QED BY <1>1, <1>2, <1>4, <1>5, <1>7
    DEF JsonInv, JsonTypeOK, FilledInv, InBuffer, NeverRefused

(* The next byte finds room: no more than MaxData are ever escaped. *)
LEMMA EscapeJson == ASSUME JsonInv, JsonEscape PROVE JsonInv'
<1> DEFINE b == data[taken + 1]
           esc == Escaped(b)
<1>1. /\ taken \in Nat /\ taken + 1 \in 1..Len(data) /\ taken + 1 <= MaxData
      /\ head \in Heads /\ Len(text) <= head + 6 * taken /\ step = "escape"
      /\ Len(text) \in Nat /\ Len(data) \in Nat /\ b \in Bytes
      /\ data \in Seq(Bytes) /\ text \in Seq(Characters)
  <2>1. /\ taken \in 0..Len(data) /\ taken < Len(data) /\ Len(data) <= MaxData
        /\ head \in Heads /\ Len(text) <= head + 6 * taken /\ step = "escape"
        /\ data \in Seq(Bytes) /\ text \in Seq(Characters)
    BY DEF JsonEscape, JsonInv, JsonTypeOK, FilledInv
  <2>2. taken + 1 \in 1..Len(data)
    BY <2>1
  <2> QED BY <2>1, <2>2, JsonRoom
<1>2. esc \in Seq(Characters) /\ Len(esc) \in Nat /\ Len(esc) <= 6
  BY <1>1, EscapedFacts
<1> HIDE DEF b
<1>3. Len(text) + Len(esc) < JsonMax /\ Len(text) + Len(esc) <= head + 6 * (taken + 1)
  <2>1. head \in Nat /\ MaxData \in Nat /\ JsonMax \in Nat /\ head + 6 * MaxData + 2 < JsonMax
    BY <1>1, JsonRoom
  <2> HIDE DEF esc
  <2> QED BY <1>1, <1>2, <2>1
<1>4. /\ text' = text \o esc /\ taken' = taken + 1
      /\ UNCHANGED <<step, result, head, data>>
  BY <1>3 DEF JsonEscape, Fits, b
<1>5. text' \in Seq(Characters) /\ Len(text') = Len(text) + Len(esc)
  BY <1>1, <1>2, <1>4
<1>6. taken' \in 0..Len(data)
  BY <1>1, <1>4
<1>7. ReadInv'
  <2>1. head \in 0..Len(text) /\ Reads(text, head, At(SubSeq(data, 1, taken), "string"))
    BY <1>1 DEF JsonInv, ReadInv
  <2>2. Reads(text', head, At(Append(SubSeq(data, 1, taken), b), "string"))
    BY <1>1, <1>4, <2>1, ReadsEscaped
  <2>3. Append(SubSeq(data, 1, taken), b) = SubSeq(data, 1, taken + 1)
    BY <1>1 DEF b
  <2>4. head \in 0..Len(text')
    <3> HIDE DEF esc
    <3> QED BY <1>1, <1>2, <1>5, <2>1
  <2> QED BY <1>1, <1>4, <2>2, <2>3, <2>4 DEF ReadInv
<1> HIDE DEF esc
<1> QED BY <1>1, <1>3, <1>4, <1>5, <1>6, <1>7
    DEF JsonInv, JsonTypeOK, FilledInv, InBuffer, NeverRefused

LEMMA FmtTailJson == ASSUME JsonInv, FmtTail PROVE JsonInv'
<1>1. /\ taken = Len(data) /\ Len(data) <= MaxData /\ Len(data) \in Nat /\ step = "escape"
      /\ head \in Heads /\ Len(text) <= head + 6 * taken /\ Len(text) \in Nat
      /\ data \in Seq(Bytes) /\ text \in Seq(Characters)
  BY DEF FmtTail, JsonInv, JsonTypeOK, FilledInv
<1>2. Len(text) + 2 < JsonMax
  BY <1>1, JsonRoom
<1>3. /\ text' = text \o <<Quote, Field>> /\ step' = "done" /\ result' = "length"
      /\ UNCHANGED <<head, data, taken>>
  BY <1>2 DEF FmtTail, Fits, Return
<1>4. /\ <<Quote, Field>> \in Seq(Characters)
      /\ Len(<<Quote, Field>>) = 2
  BY DEF Characters, Bytes
<1>5. text' \in Seq(Characters) /\ Len(text') = Len(text) + 2
  BY <1>1, <1>3, <1>4
<1>6. ReadInv'
  <2>1. head \in 0..Len(text) /\ Reads(text, head, At(SubSeq(data, 1, taken), "string"))
    BY <1>1 DEF JsonInv, ReadInv
  <2>2. SubSeq(data, 1, taken) = data
    BY <1>1, SubSeqFull
  <2>3. Reads(text', head, At(data, "end"))
    BY <1>1, <1>3, <2>1, <2>2, ReadsEnd
  <2>4. head \in 0..Len(text')
    BY <1>1, <1>5, <2>1
  <2> QED BY <1>3, <2>3, <2>4 DEF ReadInv
<1> QED BY <1>1, <1>2, <1>3, <1>5, <1>6
    DEF JsonInv, JsonTypeOK, FilledInv, InBuffer, NeverRefused

LEMMA FmtStatusJson ==
  ASSUME JsonInv, NEW width \in 0..AddressMax, FmtStatus(width)
  PROVE  JsonInv'
<1>1. /\ text = <<>> /\ head = 0
      /\ StatusFields + width \in Nat /\ StatusFields + width < JsonMax
  BY JsonRoom DEF FmtStatus, JsonInv, FilledInv
<1>2. Fits(StatusFields + width)
  BY <1>1, JsonRoom DEF Fits
<1>3. /\ text' = [i \in 1..StatusFields + width |-> Field]
      /\ step' = "done" /\ result' = "length" /\ UNCHANGED <<head, data, taken>>
  BY <1>2 DEF FmtStatus, Return
<1>4. text' \in Seq(Characters) /\ Len(text') = StatusFields + width
  BY <1>1, <1>3, FixedFields
<1> QED BY <1>1, <1>3, <1>4
    DEF JsonInv, JsonTypeOK, FilledInv, InBuffer, NeverRefused, ReadInv

LEMMA NextJson == ASSUME JsonInv, [JsonNext]_jsonVars PROVE JsonInv'
<1>1. CASE TakeStatus
  BY <1>1 DEF TakeStatus, JsonInv, JsonTypeOK, FilledInv, InBuffer,
              NeverRefused, ReadInv
<1>2. CASE Deliver
  <2>1. Len(<<>>) = 0 /\ <<>> \in Seq(Bytes) /\ <<>> \in Seq(Characters)
    OBVIOUS
  <2> QED BY <1>2, <2>1, JsonRoom
      DEF Deliver, JsonInv, JsonTypeOK, FilledInv, InBuffer, NeverRefused, ReadInv
<1>3. CASE UNCHANGED jsonVars
  BY <1>3 DEF jsonVars, JsonInv, JsonTypeOK, FilledInv, InBuffer,
              NeverRefused, ReadInv, Reads
<1> QED BY <1>1, <1>2, <1>3, TakeEntryJson, FmtHeadJson, EscapeJson, FmtTailJson,
           FmtStatusJson DEF JsonNext, Format

LEMMA JsonInvAlways == JsonSpec => []JsonInv
<1>1. JsonInit => JsonInv
  BY InitJson
<1>2. JsonInv /\ [JsonNext]_jsonVars => JsonInv'
  BY NextJson
<1> QED BY <1>1, <1>2, PTL DEF JsonSpec

(* json_escape() writes without snprintf()'s protection, and needs none:   *)
(* for every payload, alphabet and width of the fields no character leaves *)
(* the buffer and no format function returns -1.                           *)
THEOREM FramesFitAlways == JsonSpec => []FramesFit
<1>1. JsonInv => FramesFit
  BY DEF JsonInv, FramesFit
<1> QED BY <1>1, JsonInvAlways, PTL

(* Whatever a sender puts on the air, what the page parses is those bytes, *)
(* none lost, none added, and the document closed behind them.             *)
THEOREM ReadsBackAlways == JsonSpec => []ReadsBack
<1>1. JsonInv => ReadsBack
  <2> SUFFICES ASSUME JsonInv, step = "done", head # 0 PROVE Reading = At(data, "end")
    BY DEF ReadsBack, At
  <2>1. text \in Seq(Characters) /\ head \in 0..Len(text) /\ Reads(text, head, At(data, "end"))
    BY DEF JsonInv, JsonTypeOK, ReadInv
  <2> QED BY <2>1, ReadingIs
<1> QED BY <1>1, JsonInvAlways, PTL
=============================================================================
