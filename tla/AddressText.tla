---------------------------- MODULE AddressText ----------------------------
(***************************************************************************)
(* The text of the address in eth.c's s_info: a character array that the   *)
(* event loop task rewrites with snprintf() while eth_ip_str(), in the     *)
(* pump task, and eth_get_info(), in the server's, read it with no lock.   *)
(*                                                                         *)
(* Each character is written and read in its own step.  eth_ip_str()      *)
(* looks for the end first and then copies up to it; eth_get_info() copies *)
(* the whole array.                                                        *)
(***************************************************************************)
EXTENDS Naturals, Sequences

CONSTANTS
  Texts,     \* the addresses, as sequences of characters
  NoIpText,  \* "0.0.0.0"
  Width,     \* the array has Width characters and a terminator
  Readers,   \* the tasks that read, and ...
  Measuring  \* ... those of them that do so with eth_ip_str()

Nul == "NUL"

(* Whoever instantiates this module assumes it. *)
TextAssumption ==
  /\ Width \in Nat /\ Measuring \subseteq Readers
  /\ NoIpText \in Texts
  /\ \A t \in Texts : t \in Seq(STRING \ {Nul}) /\ Len(t) <= Width

VARIABLES
  field,   \* s_info.ip
  value,   \* the address it was last given or is being given
  put,     \* how many characters of it are there, the terminator included
  reader   \* what each reader does, has found and has copied

vars == <<field, value, put, reader>>

Chars == {Nul} \cup UNION {{t[i] : i \in DOMAIN t} : t \in Texts}
Cells == 0..Width

(* History: "of" is the address when the reader began, "quiet" whether no  *)
(* write met its reading.                                                  *)
AtRest == [pc |-> "rest", at |-> 0, length |-> 0, copy |-> <<>>,
           of |-> NoIpText, quiet |-> TRUE]

TypeOK ==
  /\ field \in [Cells -> Chars]
  /\ value \in Texts
  /\ put \in 0..Len(value) + 1
  /\ \A r \in Readers :
       /\ reader[r].pc \in {"rest", "measure", "copy", "done"}
       /\ reader[r].copy \in Seq(Chars)
       /\ reader[r].of \in Texts /\ reader[r].quiet \in BOOLEAN

Init ==
  /\ field = [i \in Cells |-> IF i < Len(NoIpText) THEN NoIpText[i + 1] ELSE Nul]
  /\ value = NoIpText /\ put = Len(NoIpText) + 1
  /\ reader = [r \in Readers |-> AtRest]

-----------------------------------------------------------------------------
(* snprintf(s_info.ip, ...) in the event loop task. *)

Writing == put <= Len(value)

BeginWrite(text) ==
  /\ ~Writing
  /\ value' = text
  /\ put' = 0
  /\ reader' = [r \in Readers |->
                  IF reader[r].pc \in {"measure", "copy"}
                  THEN [reader[r] EXCEPT !.quiet = FALSE] ELSE reader[r]]
  /\ UNCHANGED field

(* Fault: the characters are copied without the terminator. *)
WriteCharNoNul ==
  /\ Writing
  /\ field' = IF put < Len(value)
              THEN [field EXCEPT ![put] = value[put + 1]] ELSE field
  /\ put' = put + 1
  /\ UNCHANGED <<value, reader>>

WriteChar ==
  /\ Writing
  /\ field' = [field EXCEPT ![put] =
                 IF put < Len(value) THEN value[put + 1] ELSE Nul]
  /\ put' = put + 1
  /\ UNCHANGED <<value, reader>>

-----------------------------------------------------------------------------
Reading(r, pc) == reader[r].pc = pc

Reads(r, now) ==
  /\ reader' = [reader EXCEPT ![r] = now]
  /\ UNCHANGED <<field, value, put>>

BeginRead(r) ==
  /\ Reading(r, "rest")
  /\ Reads(r, [pc |-> IF r \in Measuring THEN "measure" ELSE "copy", at |-> 0,
               length |-> IF r \in Measuring THEN 0 ELSE Width + 1,
               copy |-> <<>>, of |-> value, quiet |-> ~Writing])

(* Where the string ends, character by character. *)
Measure(r) ==
  /\ Reading(r, "measure")
  /\ LET now == reader[r] IN
       Reads(r, IF field[now.at] = Nul
                THEN [now EXCEPT !.pc = "copy", !.length = now.at, !.at = 0]
                ELSE [now EXCEPT !.at = @ + 1])

CopyChar(r) ==
  /\ Reading(r, "copy")
  /\ LET now == reader[r] IN
       Reads(r, IF now.at < now.length
                THEN [now EXCEPT !.copy = Append(@, field[now.at]), !.at = @ + 1]
                ELSE [now EXCEPT !.pc = "done"])

EndRead(r) == Reading(r, "done") /\ Reads(r, AtRest)

Next ==
  \/ \E text \in Texts : BeginWrite(text)
  \/ WriteChar
  \/ \E r \in Readers : BeginRead(r) \/ Measure(r) \/ CopyChar(r) \/ EndRead(r)

Spec == Init /\ [][Next]_vars

-----------------------------------------------------------------------------
(* What printing the copy shows: it ends at its first terminator. *)
Shown(r) ==
  LET copy == reader[r].copy
      cuts == {i \in DOMAIN copy : copy[i] = Nul}
      len  == IF cuts = {} THEN Len(copy)
              ELSE CHOOSE i \in 0..Len(copy) : i + 1 \in cuts /\ \A j \in cuts : i < j
  IN  SubSeq(copy, 1, len)

-----------------------------------------------------------------------------
(* Properties *)

(* Whatever is being put, a reader looking for the end stays inside    *)
(* the array: the last cell is a terminator at every moment.               *)
EndInside == \A r \in Readers : Reading(r, "measure") => reader[r].at <= Width

(* A copy that met no write shows the address it was of, whatever longer   *)
(* one was there before: of what eth.c lines 30-34 promise of a plain copy,*)
(* the part that holds.                                                    *)
QuietCopyTrue ==
  \A r \in Readers :
    Reading(r, "done") /\ reader[r].quiet => Shown(r) = reader[r].of
=============================================================================
