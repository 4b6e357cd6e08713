----------------------------- MODULE OtaUpdate -----------------------------
(***************************************************************************)
(* ota.c: a firmware image uploaded into the slot that is not running,     *)
(* and the server that takes it.                                           *)
(*                                                                         *)
(* update_post() runs in the one task of the HTTP server, which            *)
(* ota_set_online(), in the event loop task, starts and stops as the link  *)
(* changes; httpd_stop() waits for that task, an upload included.  The     *)
(* power may fail at any step: what is in flash, and which slot the        *)
(* bootloader takes, is all that survives.                                 *)
(*                                                                         *)
(* The flash is outside the repository and modelled by what update_post()  *)
(* relies on: begin erases the slot, end verifies the image and releases   *)
(* the handle either way, each call may fail.  Bytes are counted in units  *)
(* of which OTA_CHUNK holds a few.                                         *)
(***************************************************************************)
EXTENDS Naturals

CONSTANTS
  OTA_CHUNK,      \* the units the buffer holds
  OTA_MAX_STALLS, \* consecutive silent receives tolerated
  MaxBody,        \* bound: units in an upload
  MaxUploads,     \* bound: uploads, those ended by a power loss included
  MaxLosses       \* bound: power losses

ASSUME OtaAssumption ==
  /\ OTA_CHUNK \in Nat \ {0}
  /\ OTA_MAX_STALLS \in Nat
  /\ MaxBody \in Nat /\ MaxUploads \in Nat /\ MaxLosses \in Nat

VARIABLES
  flash,      \* what each slot holds
  boot,       \* the slot the bootloader will take
  running,    \* the slot that runs
  losses,     \* how often the power failed
  serving,    \* s_server # NULL
  loop,       \* the event loop task: idle, or waiting in httpd_stop()
  uploads,    \* uploads begun
  at,         \* what update_post() is about to do
  handle,     \* whether an OTA handle is open
  total,      \* req->content_len
  remaining,  \* units still expected
  got,        \* units in the buffer
  stalls,     \* consecutive silent receives, as counted
  body,       \* what the client sends, once whole
  written,    \* units written to the slot
  silent,     \* consecutive silent receives, as they happened
  answer      \* what the client was told

flashVars == <<flash, boot, running, losses>>
serverVars == <<serving, loop>>
countVars == <<total, remaining, got, stalls, body, written, silent>>
vars == <<flashVars, serverVars, uploads, at, handle, countVars, answer>>

Slots == {"ota_0", "ota_1"}
Images == {"good", "bad", "partial"}
Answers == {"none", "ok", "bad_request", "timeout", "server_error"}

TypeOK ==
  /\ flash \in [Slots -> Images] /\ boot \in Slots /\ running \in Slots
  /\ losses \in 0..MaxLosses /\ uploads \in 0..MaxUploads
  /\ serving \in BOOLEAN /\ loop \in {"idle", "stopping"}
  /\ at \in {"idle", "begin", "recv", "write", "end", "boot", "reply", "failing"}
  /\ handle \in BOOLEAN
  /\ total \in 0..MaxBody /\ remaining \in 0..total /\ got \in 0..OTA_CHUNK
  /\ stalls \in 0..OTA_MAX_STALLS
  /\ body \in Images /\ written \in 0..total /\ silent \in Nat
  /\ answer \in Answers

Init ==
  /\ flash \in {[s \in Slots |-> IF s = "ota_0" THEN "good" ELSE other] :
                  other \in Images}
  /\ boot = "ota_0" /\ running = "ota_0" /\ losses = 0
  /\ serving = FALSE /\ loop = "idle" /\ uploads = 0
  /\ at = "idle" /\ handle = FALSE
  /\ total = 0 /\ remaining = 0 /\ got = 0 /\ stalls = 0
  /\ body = "good" /\ written = 0 /\ silent = 0
  /\ answer = "none"

-----------------------------------------------------------------------------
(* ota_set_online(), in the event loop task. *)

StartServer ==
  /\ loop = "idle" /\ ~serving
  /\ serving' = TRUE
  /\ UNCHANGED <<flashVars, loop, uploads, at, handle, countVars, answer>>

StopServer ==
  /\ loop = "idle" /\ serving
  /\ loop' = "stopping"
  /\ UNCHANGED <<flashVars, serving, uploads, at, handle, countVars, answer>>

ServerStopped ==
  /\ loop = "stopping"
  /\ at = "idle"
  /\ serving' = FALSE /\ loop' = "idle"
  /\ UNCHANGED <<flashVars, uploads, at, handle, countVars, answer>>

EventLoop == StartServer \/ StopServer \/ ServerStopped

-----------------------------------------------------------------------------
(* update_post(), in the server's task. *)

(* esp_ota_get_next_update_partition(), if it finds one. *)
Target == CHOOSE s \in Slots : s # running

(* A client posts an image, sound or not; without a slot for it, or empty, *)
(* it is turned away.                                                      *)
Post ==
  /\ at = "idle" /\ serving /\ loop = "idle"
  /\ uploads < MaxUploads
  /\ uploads' = uploads + 1
  /\ \E size \in 0..MaxBody, image \in {"good", "bad"}, found \in BOOLEAN :
       /\ total' = size /\ remaining' = size /\ body' = image
       /\ at' = IF found /\ size > 0 THEN "begin" ELSE "failing"
       /\ answer' = IF ~found THEN "server_error"
                    ELSE IF size = 0 THEN "bad_request" ELSE "none"
  /\ got' = 0 /\ stalls' = 0 /\ written' = 0 /\ silent' = 0
  /\ UNCHANGED <<flashVars, serverVars, handle>>

(* fail() with the handle given up, or not there to give up. *)
Fails(code) ==
  /\ at' = "failing"
  /\ answer' = code
  /\ handle' = FALSE

Begin ==
  /\ at = "begin"
  /\ \/ /\ flash' = [flash EXCEPT ![Target] = "partial"]
        /\ handle' = TRUE /\ at' = "recv" /\ answer' = answer
     \/ /\ Fails("server_error")
        /\ flash' \in {flash, [flash EXCEPT ![Target] = "partial"]}
  /\ UNCHANGED <<boot, running, losses, serverVars, uploads, countVars>>

(* Fault: the count of stalls starts over at its limit. *)
RecvSilenceForever ==
  /\ at = "recv" /\ remaining > 0
  /\ stalls' = (stalls + 1) % (OTA_MAX_STALLS + 1)
  /\ UNCHANGED <<flashVars, serverVars, uploads, at, handle, answer, total, remaining, got,
                 body, written, silent>>

RecvSilence ==
  /\ at = "recv" /\ remaining > 0
  /\ silent' = silent + 1
  /\ IF stalls = OTA_MAX_STALLS
       THEN Fails("timeout") /\ stalls' = stalls
       ELSE stalls' = stalls + 1 /\ UNCHANGED <<at, handle, answer>>
  /\ UNCHANGED <<flashVars, serverVars, uploads, total, remaining, got, body, written>>

(* Fault: the handle stays open. *)
RecvFailsLeaking ==
  /\ at = "recv" /\ remaining > 0
  /\ at' = "failing" /\ answer' = "bad_request"
  /\ UNCHANGED <<flashVars, serverVars, uploads, handle, countVars>>

RecvFails ==
  /\ at = "recv" /\ remaining > 0
  /\ Fails("bad_request")
  /\ UNCHANGED <<flashVars, serverVars, uploads, countVars>>

Want == IF remaining < OTA_CHUNK THEN remaining ELSE OTA_CHUNK

(* Fault: the stalls of the whole upload are counted. *)
RecvDataKeepsStalls ==
  /\ at = "recv" /\ remaining > 0
  /\ got' \in 1..Want
  /\ silent' = 0
  /\ at' = "write"
  /\ UNCHANGED <<flashVars, serverVars, uploads, handle, total, remaining, stalls,
                 body, written, answer>>

RecvData ==
  /\ at = "recv" /\ remaining > 0
  /\ got' \in 1..Want
  /\ stalls' = 0 /\ silent' = 0
  /\ at' = "write"
  /\ UNCHANGED <<flashVars, serverVars, uploads, handle, total, remaining, body,
                 written, answer>>

(* Fault: what was asked for is taken as received. *)
WriteWanted ==
  /\ at = "write"
  /\ written' = written + got
  /\ flash' = [flash EXCEPT ![Target] = IF written' = total THEN body ELSE "partial"]
  /\ remaining' = remaining - Want
  /\ at' = "recv"
  /\ UNCHANGED <<boot, running, losses, serverVars, uploads, handle, total, got,
                 stalls, body, silent, answer>>

Write ==
  /\ at = "write"
  /\ written' = written + got
  /\ flash' = [flash EXCEPT ![Target] = IF written' = total THEN body ELSE "partial"]
  /\ remaining' = remaining - got
  /\ at' = "recv"
  /\ UNCHANGED <<boot, running, losses, serverVars, uploads, handle, total, got,
                 stalls, body, silent, answer>>

WriteFails ==
  /\ at = "write"
  /\ Fails("server_error")
  /\ UNCHANGED <<flashVars, serverVars, uploads, countVars>>

Received ==
  /\ at = "recv" /\ remaining = 0
  /\ at' = "end"
  /\ UNCHANGED <<flashVars, serverVars, uploads, handle, countVars, answer>>

(* Fault: the verdict of esp_ota_end() is not looked at. *)
EndUnchecked ==
  /\ at = "end"
  /\ handle' = FALSE /\ at' = "boot" /\ answer' = answer
  /\ UNCHANGED <<flashVars, serverVars, uploads, countVars>>

(* esp_ota_end(): only a sound image passes. *)
End ==
  /\ at = "end"
  /\ \/ /\ flash[Target] = "good"
        /\ handle' = FALSE /\ at' = "boot" /\ answer' = answer
     \/ Fails("bad_request")
  /\ UNCHANGED <<flashVars, serverVars, uploads, countVars>>

(* Fault: nor is that of esp_ota_set_boot_partition(). *)
SetBootUnchecked ==
  /\ at = "boot"
  /\ boot' \in {boot, Target}
  /\ at' = "reply" /\ answer' = "ok" /\ handle' = FALSE
  /\ UNCHANGED <<flash, running, losses, serverVars, uploads, countVars>>

SetBoot ==
  /\ at = "boot"
  /\ \/ boot' = Target /\ at' = "reply" /\ answer' = "ok" /\ handle' = FALSE
     \/ Fails("server_error") /\ boot' = boot
  /\ UNCHANGED <<flash, running, losses, serverVars, uploads, countVars>>

(* The error has been sent and the handler returns. *)
Failed ==
  /\ at = "failing"
  /\ at' = "idle"
  /\ UNCHANGED <<flashVars, serverVars, uploads, handle, countVars, answer>>

(* All but the flash is lost and the bootloader takes over. *)
Boots ==
  /\ running' = boot
  /\ serving' = FALSE /\ loop' = "idle"
  /\ at' = "idle" /\ handle' = FALSE /\ answer' = "none"
  /\ total' = 0 /\ remaining' = 0 /\ got' = 0 /\ stalls' = 0
  /\ body' = "good" /\ written' = 0 /\ silent' = 0
  /\ UNCHANGED <<flash, boot, uploads>>

Restart == at = "reply" /\ Boots /\ losses' = losses

UpdatePost ==
  \/ Begin \/ RecvSilence \/ RecvFails \/ RecvData \/ Write \/ WriteFails
  \/ Received \/ End \/ SetBoot \/ Failed \/ Restart

PowerLoss == losses < MaxLosses /\ losses' = losses + 1 /\ Boots

-----------------------------------------------------------------------------
Next == Post \/ UpdatePost \/ EventLoop \/ PowerLoss

(* The server's task runs, and each receive returns: with data, with an    *)
(* error, or silent once recv_wait_timeout has passed.                     *)
Spec == Init /\ [][Next]_vars /\ WF_vars(UpdatePost) /\ WF_vars(ServerStopped)

-----------------------------------------------------------------------------
(* Whenever the power fails, the bootloader finds a whole, sound image: a   *)
(* slot is not booted from before esp_ota_end() has passed it, and the one  *)
(* booted from is not erased.                                               *)
BootsVerified == flash[boot] = "good"

(* However the body arrives in pieces, esp_ota_end() comes after the last   *)
(* unit was written and not before.                                         *)
EndsWithWholeBody == at \in {"end", "boot", "reply"} => written = total

(* Every way out of update_post() gives up the handle it opened. *)
HandleReleased == at \in {"idle", "failing"} => ~handle

(* Every variable keeps its type and every handle is given up. *)
UpdateInv == TypeOK /\ HandleReleased

(* "Consecutive recv timeouts tolerated": an upload is declared dead only   *)
(* when that many receives and one more were silent in a row, and then.     *)
DeadOnlyAfterSilence == answer = "timeout" => silent = OTA_MAX_STALLS + 1

(* What the client is told is what the next boot will do. *)
AnswerTellsBoot ==
  /\ answer = "ok" => boot = Target /\ flash[boot] = body
  /\ answer \notin {"none", "ok"} => boot = running

(* The event loop task gets out of httpd_stop(), an upload under way or    *)
(* not.                                                                     *)
StopReturns == loop = "stopping" ~> loop = "idle"

=============================================================================
