------------------------------ MODULE InfoPage ------------------------------
(***************************************************************************)
(* info.c: a request for /info.json.  build() prints the document field by *)
(* field into one heap buffer of JSON_CAP characters through jb(), which   *)
(* latches an overflow; the caller looks at it once, at the end.           *)
(*                                                                         *)
(* Everything here runs in the HTTP server's one task, so the lazily       *)
(* installed temperature sensor has no lock.  What a field says is left    *)
(* out, but for the address (AddressText) and the size of the image.       *)
(***************************************************************************)
EXTENDS Naturals, Sequences

CONSTANTS
  JsonCap,      \* JSON_CAP
  Widths,       \* how many characters one jb() call may come to
  Partitions,   \* entries of the partition table
  SlotSize,     \* size of the running partition
  MaxSegments,  \* ESP_IMAGE_MAX_SEGMENTS
  Images        \* what may be in it: the magic, segment lengths, SHA256

ASSUME InfoAssumption ==
  /\ JsonCap \in Nat \ {0} /\ Widths \subseteq Nat /\ Partitions \in Nat
  /\ SlotSize \in Nat /\ MaxSegments \in Nat
  /\ \A img \in Images :
       img.segments \in Seq(Nat) /\ img.hash \in BOOLEAN /\ img.magic \in BOOLEAN

VARIABLES
  at,       \* where info_json_get() is
  next,     \* the next field build() prints
  len,      \* j.len
  ovf,      \* j.ovf
  written,  \* the fields in the buffer
  buffers,  \* buffers allocated and not freed
  tsens,    \* whether s_tsens holds a handle
  sensor,   \* the state of the sensor's driver (external)
  answer    \* what the last request was answered with

vars == <<at, next, len, ovf, written, buffers, tsens, sensor, answer>>

(* What build() prints, in its order; each part of the table is one field. *)
Document ==
  <<"identity", "temp", "slot", "ip", "services">>
    \o [i \in 1..Partitions |-> "part"] \o <<"end">>

TypeOK ==
  /\ at \in {"idle", "build", "free"}
  /\ next \in 1..Len(Document) + 1
  /\ len \in 0..JsonCap - 1
  /\ ovf \in BOOLEAN
  /\ written \in Seq({Document[i] : i \in DOMAIN Document})
  /\ buffers \in Nat
  /\ tsens \in BOOLEAN /\ sensor \in {"none", "installed", "enabled"}
  /\ answer \in {"none", "document", "500"}

Init ==
  /\ at = "idle" /\ next = 1
  /\ len = 0 /\ ovf = FALSE /\ written = <<>>
  /\ buffers = 0
  /\ tsens = FALSE /\ sensor = "none"
  /\ answer = "none"

-----------------------------------------------------------------------------
(* info_json_get(): malloc() may fail, and so may the send. *)

Malloc ==
  /\ at = "idle"
  /\ \/ at' = "build" /\ buffers' = buffers + 1 /\ answer' = "none"
     \/ UNCHANGED <<at, buffers>> /\ answer' = "500"
  /\ next' = 1 /\ len' = 0 /\ ovf' = FALSE /\ written' = <<>>
  /\ UNCHANGED <<tsens, sensor>>

(* Fault: the overflow is not latched. *)
JbNoLatch(width) ==
  /\ IF width >= JsonCap - len
     THEN UNCHANGED <<len, written>>
     ELSE len' = len + width /\ written' = Append(written, Document[next])
  /\ UNCHANGED ovf

(* jb(): vsnprintf() truncates to the room there is. *)
Jb(width) ==
  IF ovf THEN UNCHANGED <<len, ovf, written>>
  ELSE IF width >= JsonCap - len THEN ovf' = TRUE /\ UNCHANGED <<len, written>>
  ELSE /\ len' = len + width
       /\ written' = Append(written, Document[next])
       /\ UNCHANGED ovf

Emit(name, width) ==
  /\ at = "build"
  /\ next <= Len(Document)
  /\ Document[next] = name
  /\ Jb(width)
  /\ next' = next + 1
  /\ UNCHANGED <<at, buffers, answer>>

PrintField(width) ==
  /\ \E name \in {"identity", "slot", "services", "part", "end"} : Emit(name, width)
  /\ UNCHANGED <<tsens, sensor>>

(* Fault: a sensor that cannot be enabled stays installed. *)
TempCelsiusLeaves ==
  IF tsens THEN UNCHANGED <<tsens, sensor>>
  ELSE \/ UNCHANGED <<tsens, sensor>>
       \/ sensor = "none" /\ sensor' = "installed" /\ UNCHANGED tsens
       \/ sensor = "none" /\ sensor' = "enabled" /\ tsens' = TRUE

(* temp_celsius(): a driver that is installed cannot be installed again; if*)
(* it cannot be enabled it is uninstalled and the handle cleared.          *)
TempCelsius ==
  IF tsens THEN UNCHANGED <<tsens, sensor>>
  ELSE \/ UNCHANGED <<tsens, sensor>>
       \/ sensor = "none" /\ sensor' = "enabled" /\ tsens' = TRUE

PrintTemp(width) == Emit("temp", width) /\ TempCelsius

(* eth_get_info() has filled the copy the address is printed from. *)
PrintIp(width) == Emit("ip", width) /\ UNCHANGED <<tsens, sensor>>

Send ==
  /\ at = "build" /\ next > Len(Document)
  /\ at' = "free"
  /\ answer' = IF ovf THEN "500" ELSE "document"
  /\ UNCHANGED <<next, len, ovf, written, buffers, tsens, sensor>>

(* Fault: the buffer of a refused document is not freed. *)
FreeUnlessRefused ==
  /\ at = "free"
  /\ at' = "idle"
  /\ buffers' = IF ovf THEN buffers ELSE buffers - 1
  /\ UNCHANGED <<next, len, ovf, written, tsens, sensor, answer>>

Free ==
  /\ at = "free"
  /\ at' = "idle"
  /\ buffers' = buffers - 1
  /\ UNCHANGED <<next, len, ovf, written, tsens, sensor, answer>>

Next ==
  \/ Malloc
  \/ \E width \in Widths : PrintField(width) \/ PrintTemp(width) \/ PrintIp(width)
  \/ Send
  \/ Free

Spec == Init /\ [][Next]_vars

-----------------------------------------------------------------------------
(* image_size(): the segment headers are walked the way the bootloader     *)
(* does, as many of them as an image may have.  0 stands for an image that *)
(* is not one, and for a read that failed: `reads' is how many succeed     *)
(* before one does, that of the image's own header first.  The image that  *)
(* runs has passed the bootloader, so its lengths do not wrap in 32 bits.  *)

HeaderLen == 24
SegmentLen == 8
HashLen == 32

Walked(img) ==
  IF Len(img.segments) < MaxSegments THEN Len(img.segments) ELSE MaxSegments

SegmentsEnd(img) ==
  LET off[i \in 0..Walked(img)] ==
        IF i = 0 THEN HeaderLen
        ELSE LET end == off[i - 1] + SegmentLen + img.segments[i]
             IN  IF off[i - 1] = 0 \/ end > SlotSize THEN 0 ELSE end
  IN  off[Walked(img)]

(* One checksum byte, then up to a multiple of 16. *)
Padded(off) == LET n == off + 1 + 15 IN n - (n % 16)

ImageSize(img, reads) ==
  LET off == SegmentsEnd(img)
      end == Padded(off) + IF img.hash THEN HashLen ELSE 0
  IN  IF reads <= Walked(img) \/ ~img.magic \/ off = 0 \/ end > SlotSize
      THEN 0 ELSE end

(* The length by the image format (external), header to hash. *)
FormatLen(img) ==
  LET sum[i \in 0..Len(img.segments)] ==
        IF i = 0 THEN 0 ELSE sum[i - 1] + SegmentLen + img.segments[i]
      data == HeaderLen + sum[Len(img.segments)]
      body == CHOOSE n \in data + 1..data + 16 : n % 16 = 0
  IN  IF img.hash THEN body + HashLen ELSE body

-----------------------------------------------------------------------------
(* Properties *)

(* A document that is sent is the whole one, however many fields were      *)
(* printed after the one that had no room; everything else is an error     *)
(* (info.c lines 57-61: "the caller can emit the entire document and check *)
(* once at the end").                                                      *)
WholeOrRefused ==
  /\ answer = "document" => written = Document
  /\ at = "build" /\ ~ovf => written = SubSeq(Document, 1, next - 1)

(* The one buffer a request has is freed on every way out.                 *)
BufferFreed == buffers = IF at = "idle" THEN 0 ELSE 1

(* A sensor that failed half-way is not left installed, or it could never  *)
(* be installed again (info.c lines 203-207).                              *)
SensorHeld == IF tsens THEN sensor = "enabled" ELSE sensor = "none"

(* An image of no more segments than the bootloader takes is reported with *)
(* its exact length or not at all, whichever read fails; and if none does, *)
(* one that fits its slot is reported, to the last byte of the slot.       *)
SizeExact ==
  \A img \in Images, reads \in 0..MaxSegments + 1 :
    Len(img.segments) <= MaxSegments =>
      /\ ImageSize(img, reads) \in {0, FormatLen(img)}
      /\ img.magic /\ reads > Len(img.segments) /\ FormatLen(img) <= SlotSize
           => ImageSize(img, reads) = FormatLen(img)

(* All of it, with every variable's type. *)
InfoInv == TypeOK /\ BufferFreed /\ SensorHeld /\ SizeExact
=============================================================================
