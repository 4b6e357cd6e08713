----------------------------- MODULE Documents -----------------------------
(***************************************************************************)
(* The address on the pages: the server's task prints it into /info.json   *)
(* (InfoPage) and the pump task into its status frame while the event loop *)
(* task rewrites it (AddressText).                                         *)
(***************************************************************************)
EXTENDS InfoPage

CONSTANTS
  Texts, NoIpText, Width        \* as in AddressText

VARIABLES
  field, value, put, reader     \* as in AddressText

ipVars == <<field, value, put, reader>>
allVars == <<vars, ipVars>>

Ip == INSTANCE AddressText WITH
        Readers <- {"pump", "httpd"}, Measuring <- {"pump"}

ASSUME IpAssumption == Ip!TextAssumption

Begin == Init /\ Ip!Init

-----------------------------------------------------------------------------
OnEvent ==
  /\ (\E text \in Texts : Ip!BeginWrite(text)) \/ Ip!WriteChar
  /\ UNCHANGED vars

(* eth_ip_str() into fmt_status()'s own array, printed at once. *)
EthIpStr ==
  /\ \/ Ip!BeginRead("pump") \/ Ip!Measure("pump")
     \/ Ip!CopyChar("pump") \/ Ip!EndRead("pump")
  /\ UNCHANGED vars

AtIp == at = "build" /\ next <= Len(Document) /\ Document[next] = "ip"

(* eth_get_info(): the structure is copied when build() gets to it. *)
GetInfo ==
  /\ AtIp
  /\ Ip!BeginRead("httpd") \/ Ip!CopyChar("httpd")
  /\ UNCHANGED vars

PrintAddress ==
  /\ PrintIp(Len(Ip!Shown("httpd")))
  /\ Ip!EndRead("httpd")

InfoJsonGet ==
  /\ \/ Malloc \/ Send \/ Free
     \/ \E width \in Widths : PrintField(width) \/ PrintTemp(width)
  /\ UNCHANGED ipVars

Step == OnEvent \/ EthIpStr \/ GetInfo \/ PrintAddress \/ InfoJsonGet

DocumentsSpec == Begin /\ [][Step]_allVars

-----------------------------------------------------------------------------
(* Properties *)

(* A reader that looks for the end of the address stays inside its array   *)
(* whatever is being written, and one that met no write shows the address. *)
CopiesEnd == Ip!TypeOK /\ Ip!EndInside /\ Ip!QuietCopyTrue
=============================================================================
