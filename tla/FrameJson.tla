----------------------------- MODULE FrameJson -----------------------------
(***************************************************************************)
(* web.c: fmt_message() with json_escape(), and fmt_status(), which write  *)
(* into pump_task()'s one buffer of JSON_MAX characters.                   *)
(*                                                                         *)
(* A character of the fixed fields is Field whatever it says.  The payload *)
(* is kept byte by byte, since what the page reads back depends on it; of  *)
(* the six characters \u00xy the last two stand for the byte's digits.     *)
(***************************************************************************)
EXTENDS Naturals, Sequences

CONSTANTS
  Printable,    \* bytes from 0x20 to 0x7e but the two below
  Opaque,       \* every other byte
  MaxData,      \* ESP_NOW_MAX_DATA_LEN
  Slack,        \* what JSON_MAX adds for the fixed fields
  Heads,        \* widths of a message's fields in front of the payload
  StatusFields, \* width of a status frame but for the address in it
  AddressMax    \* characters of the longest address

Quote == "quote"
Backslash == "backslash"
Field == "field"
Bytes == Printable \cup Opaque \cup {Quote, Backslash}

(* Fault: a byte is taken to escape to two characters at most. *)
JsonMaxDouble == 2 * MaxData + Slack

JsonMax == 6 * MaxData + Slack

(* JSON_MAX's comment: the fixed fields, `"}' and the terminator fit the   *)
(* slack.  The four kinds of byte are told apart.                          *)
ASSUME JsonAssumption ==
  /\ MaxData \in Nat /\ Slack \in Nat /\ AddressMax \in Nat /\ StatusFields \in Nat
  /\ Heads \subseteq Nat /\ \A h \in Heads : h + 2 < Slack
  /\ StatusFields + AddressMax < JsonMax
  /\ {Quote, Backslash, Field} \cap (Printable \cup Opaque) = {}
  /\ Printable \cap Opaque = {}

VARIABLES
  step,    \* where the pump task is: about to write this part
  head,    \* the width of this message's fields
  data,    \* its payload
  taken,   \* bytes of the payload already escaped
  text,    \* the characters in `json' so far
  result   \* what the last format function returned: its length, or -1

jsonVars == <<step, head, data, taken, text, result>>

Characters == Bytes \cup {Field, "u", "0"}

JsonTypeOK ==
  /\ step \in {"idle", "head", "escape", "status", "done"}
  /\ head \in Heads \cup {0}
  /\ data \in Seq(Bytes) /\ Len(data) <= MaxData
  /\ taken \in 0..Len(data)
  /\ text \in Seq(Characters)
  /\ result \in {"none", "length", "-1"}

JsonInit ==
  /\ step = "idle"
  /\ head = 0 /\ data = <<>> /\ taken = 0
  /\ text = <<>>
  /\ result = "none"

-----------------------------------------------------------------------------
(* snprintf() truncates, and its callers take what it returns for a        *)
(* failure from JsonMax on, the terminator having no room.                 *)
Fits(more) == Len(text) + more < JsonMax

Return(r) == step' = "done" /\ result' = r

(* The pump task has copied an entry of the ring, or turns to the status. *)
TakeEntry(h, payload) ==
  /\ step = "idle"
  /\ step' = "head" /\ head' = h /\ data' = payload
  /\ UNCHANGED <<taken, text, result>>

TakeStatus ==
  /\ step = "idle"
  /\ step' = "status"
  /\ UNCHANGED <<head, data, taken, text, result>>

FmtHead ==
  /\ step = "head"
  /\ IF Fits(head)
     THEN /\ text' = [i \in 1..head |-> Field]
          /\ step' = "escape"
          /\ UNCHANGED result
     ELSE Return("-1") /\ UNCHANGED text
  /\ UNCHANGED <<head, data, taken>>

(* Fault: the backslash is left as it is. *)
EscapedQuoteOnly(b) ==
  IF b = Quote THEN <<Backslash, b>>
  ELSE IF b \in Opaque THEN <<Backslash, "u", "0", "0", b, b>>
  ELSE <<b>>

(* json_escape(), one byte. *)
Escaped(b) ==
  IF b \in {Quote, Backslash} THEN <<Backslash, b>>
  ELSE IF b \in Opaque THEN <<Backslash, "u", "0", "0", b, b>>
  ELSE <<b>>

JsonEscape ==
  /\ step = "escape"
  /\ taken < Len(data)
  /\ LET esc == Escaped(data[taken + 1])
     IN  IF Fits(Len(esc))
         THEN /\ text' = text \o esc
              /\ taken' = taken + 1
              /\ UNCHANGED <<step, result>>
         ELSE Return("-1") /\ UNCHANGED <<taken, text>>
  /\ UNCHANGED <<head, data>>

(* The closing quote and brace. *)
FmtTail ==
  /\ step = "escape"
  /\ taken = Len(data)
  /\ IF Fits(2)
     THEN text' = text \o <<Quote, Field>> /\ Return("length")
     ELSE Return("-1") /\ UNCHANGED text
  /\ UNCHANGED <<head, data, taken>>

FmtStatus(width) ==
  /\ step = "status"
  /\ IF Fits(StatusFields + width)
     THEN text' = [i \in 1..StatusFields + width |-> Field] /\ Return("length")
     ELSE Return("-1") /\ UNCHANGED text
  /\ UNCHANGED <<head, data, taken>>

(* A length: the text goes to the browsers.  -1: the pump task goes on     *)
(* without it, and a message is never formatted again.                     *)
Deliver ==
  /\ step = "done"
  /\ step' = "idle" /\ head' = 0 /\ data' = <<>> /\ taken' = 0
  /\ text' = <<>> /\ result' = "none"

Format == FmtHead \/ JsonEscape \/ FmtTail \/ Deliver

Payloads == UNION {[1..n -> Bytes] : n \in 0..MaxData}

JsonNext ==
  \/ \E h \in Heads, payload \in Payloads : TakeEntry(h, payload)
  \/ TakeStatus
  \/ Format
  \/ \E width \in 0..AddressMax : FmtStatus(width)

JsonSpec == JsonInit /\ [][JsonNext]_jsonVars

-----------------------------------------------------------------------------
(* What JSON.parse() in index.html makes of the characters from the head   *)
(* on: the bytes read, and what the next character is part of.             *)
Unread == [bytes |-> <<>>, part |-> "string"]

ReadChar(so, ch) ==
  LET Goes(part) == [bytes |-> so.bytes, part |-> part]
      Reads(b) == [bytes |-> Append(so.bytes, b), part |-> "string"]
  IN  CASE so.part = "string" /\ ch = Backslash -> Goes("escape")
        [] so.part = "string" /\ ch = Quote -> Goes("closed")
        [] so.part = "string" /\ ch \in Printable -> Reads(ch)
        [] so.part = "escape" /\ ch = "u" -> Goes("u")
        [] so.part = "escape" /\ ch \in {Quote, Backslash} -> Reads(ch)
        [] so.part = "u" /\ ch = "0" -> Goes("u0")
        [] so.part = "u0" /\ ch = "0" -> Goes("u00")
        [] so.part = "u00" /\ ch \in Opaque -> Goes("digit")
        [] so.part = "digit" /\ ch \in Opaque -> Reads(ch)
        [] so.part = "closed" /\ ch = Field -> Goes("end")
        [] OTHER -> Goes("error")

Reading ==
  LET read[i \in 0..Len(text) - head] ==
        IF i = 0 THEN Unread ELSE ReadChar(read[i - 1], text[head + i])
  IN  read[Len(text) - head]

(* No write leaves the buffer, its terminator included: json_escape()      *)
(* writes without snprintf()'s protection.                                 *)
InBuffer == Len(text) < JsonMax

(* No message and no status is ever refused, whatever the payload, so none *)
(* goes missing between ring and browser: JSON_MAX is large enough (web.c  *)
(* line 27).                                                               *)
NeverRefused == result # "-1"

(* "the frame stays parseable whatever a sender puts on the air" (web.c    *)
(* line 71), and means the bytes that came over it.                        *)
ReadsBack ==
  step = "done" /\ head # 0 => Reading = [bytes |-> data, part |-> "end"]

FramesFit == JsonTypeOK /\ InBuffer /\ NeverRefused
=============================================================================
