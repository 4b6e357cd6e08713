-------------------------- MODULE OtaUpdate_proofs --------------------------
(***************************************************************************)
(* What holds of an update for every size of image and buffer, any number  *)
(* of tolerated stalls, of uploads and of power losses.  The inductive     *)
(* invariant says what update_post() knows at each of its stages: which    *)
(* slot will be booted, what the other one holds, how many units are       *)
(* still to come and whether the handle is open.                           *)
(***************************************************************************)
EXTENDS OtaUpdate, TLAPS

Working == {"begin", "recv", "write", "end", "boot"}

(* The boot slot changes in the last step only, to a slot that was checked. *)
BootInv ==
  /\ flash[boot] = "good"
  /\ at # "reply" => boot = running
  /\ at = "reply" => boot = Target /\ flash[Target] = body /\ answer = "ok"
  /\ at = "boot" => flash[Target] = "good"

(* What was written and what remains make up the body. *)
BodyInv ==
  /\ at \in Working \cup {"reply"} => total > 0
  /\ at = "begin" => remaining = total /\ written = 0
  /\ at \in {"recv", "write"} => remaining + written = total
  /\ at = "write" => got > 0 /\ got <= remaining
  /\ at \in {"end", "boot", "reply"} => written = total
  /\ at \in {"recv", "write", "end", "boot"} /\ written = total => flash[Target] = body

(* The client has been told nothing yet while the upload goes on. *)
AnswerInv ==
  /\ at \in Working => answer = "none"
  /\ answer = "ok" => at = "reply"

HandleInv == at \in {"idle", "failing", "begin", "boot", "reply"} => ~handle

(* The count of stalls is the silence there was. *)
SilenceInv ==
  /\ at \in {"begin", "recv", "write"} => silent = stalls
  /\ answer = "timeout" => silent = OTA_MAX_STALLS + 1

IInv == TypeOK /\ BootInv /\ BodyInv /\ AnswerInv /\ HandleInv /\ SilenceInv

-----------------------------------------------------------------------------
(* There are two slots: the one that runs and the target. *)
LEMMA TargetFacts ==
  ASSUME running \in Slots
  PROVE  /\ Target \in Slots /\ Target # running
         /\ \A s \in Slots : s # running => s = Target
<1>1. \E s \in Slots : s # running
  BY DEF Slots
<1>2. Target \in Slots /\ Target # running
  BY <1>1 DEF Target
<1> QED BY <1>2 DEF Slots

(* Erasing or writing the target leaves the slot that runs as it was. *)
LEMMA TargetWrite ==
  ASSUME TypeOK, NEW image \in Images,
         flash' = [flash EXCEPT ![Target] = image]
  PROVE  /\ flash' \in [Slots -> Images]
         /\ flash'[running] = flash[running]
         /\ flash'[Target] = image
<1>1. running \in Slots /\ flash \in [Slots -> Images]
  BY DEF TypeOK
<1>2. Target \in Slots /\ Target # running
  BY <1>1, TargetFacts
<1> QED BY <1>1, <1>2

LEMMA InitIInv == Init => IInv
<1> SUFFICES ASSUME Init PROVE IInv
  OBVIOUS
<1> USE OtaAssumption DEF Init
<1>1. flash \in [Slots -> Images] /\ flash["ota_0"] = "good"
  <2>1. PICK other \in Images : flash = [s \in Slots |-> IF s = "ota_0" THEN "good" ELSE other]
    OBVIOUS
  <2> QED BY <2>1 DEF Slots, Images
<1>2. TypeOK
  <2>1. /\ losses \in 0..MaxLosses /\ uploads \in 0..MaxUploads
        /\ total \in 0..MaxBody /\ remaining \in 0..total /\ got \in 0..OTA_CHUNK
        /\ stalls \in 0..OTA_MAX_STALLS /\ written \in 0..total /\ silent \in Nat
    BY DEF OtaAssumption
  <2>2. serving \in BOOLEAN /\ handle \in BOOLEAN
    OBVIOUS
  <2> QED BY <1>1, <2>1, <2>2 DEF TypeOK, Slots, Images, Answers
<1>3. BootInv /\ BodyInv /\ AnswerInv /\ HandleInv
  BY <1>1 DEF BootInv, BodyInv, AnswerInv, HandleInv, Working
<1>4. SilenceInv
  BY DEF SilenceInv
<1> QED BY <1>2, <1>3, <1>4 DEF IInv

-----------------------------------------------------------------------------
(* One lemma for each kind of step. *)

LEMMA EventLoopStep == IInv /\ EventLoop => IInv'
<1> SUFFICES ASSUME IInv, EventLoop PROVE IInv'
  OBVIOUS
<1>1. /\ UNCHANGED <<flash, boot, running, losses, uploads, at, handle>>
      /\ UNCHANGED <<total, remaining, got, stalls, body, written, silent, answer>>
      /\ serving' \in BOOLEAN /\ loop' \in {"idle", "stopping"}
  BY DEF EventLoop, StartServer, StopServer, ServerStopped, IInv, TypeOK,
         flashVars, countVars
<1>2. Target' = Target
  BY <1>1 DEF Target
<1>3. TypeOK'
  BY <1>1 DEF IInv, TypeOK
<1>4. (BootInv /\ BodyInv /\ AnswerInv /\ HandleInv /\ SilenceInv)'
  BY <1>1, <1>2 DEF IInv, BootInv, BodyInv, AnswerInv, HandleInv, SilenceInv
<1> QED BY <1>3, <1>4 DEF IInv

LEMMA PostStep == IInv /\ Post => IInv'
<1> SUFFICES ASSUME IInv, Post PROVE IInv'
  OBVIOUS
<1> USE OtaAssumption DEF OtaAssumption
<1>1. PICK size \in 0..MaxBody, image \in {"good", "bad"} :
        /\ total' = size /\ remaining' = size /\ body' = image
        /\ \/ at' = "begin" /\ answer' = "none" /\ size > 0
           \/ at' = "failing" /\ answer' \in {"server_error", "bad_request"}
  BY DEF Post
<1>2. /\ at = "idle" /\ uploads' \in 0..MaxUploads
      /\ got' = 0 /\ stalls' = 0 /\ written' = 0 /\ silent' = 0
      /\ UNCHANGED <<flash, boot, running, losses, serving, loop, handle>>
  BY DEF Post, IInv, TypeOK, flashVars, serverVars
<1>3. Target' = Target
  BY <1>2 DEF Target
<1>4. TypeOK'
  <2>1. /\ total' \in 0..MaxBody /\ remaining' \in 0..total' /\ written' \in 0..total'
        /\ got' \in 0..OTA_CHUNK /\ stalls' \in 0..OTA_MAX_STALLS /\ silent' \in Nat
    BY <1>1, <1>2
  <2>2. body' \in Images /\ at' \in {"failing", "begin"} /\ answer' \in Answers
    BY <1>1 DEF Images, Answers
  <2> QED BY <1>2, <2>1, <2>2 DEF IInv, TypeOK
<1>5. BootInv' /\ AnswerInv' /\ HandleInv' /\ SilenceInv'
  BY <1>1, <1>2, <1>3 DEF IInv, BootInv, AnswerInv, HandleInv, SilenceInv, Working
<1>6. BodyInv'
  BY <1>1, <1>2 DEF BodyInv, Working
<1> QED BY <1>4, <1>5, <1>6 DEF IInv

(* A failure leaves everything as it is but the stage, the answer, the     *)
(* handle and perhaps the slot and the counts of silence.                  *)
LEMMA FailsStep ==
  ASSUME IInv, at \in Working, NEW code \in Answers \ {"none", "ok"}, Fails(code),
         UNCHANGED <<boot, running, losses, serving, loop, uploads, total, remaining,
                     got, stalls, body, written>>,
         flash' \in [Slots -> Images], flash'[running] = flash[running],
         silent' \in Nat, code = "timeout" => silent' = OTA_MAX_STALLS + 1
  PROVE  IInv'
<1>1. at' = "failing" /\ answer' = code /\ handle' = FALSE
  BY DEF Fails
<1>2. boot = running
  BY DEF IInv, BootInv, Working
<1>3. TypeOK'
  BY <1>1 DEF IInv, TypeOK
<1>4. BootInv'
  BY <1>1, <1>2 DEF IInv, BootInv
<1>5. BodyInv' /\ AnswerInv' /\ HandleInv'
  BY <1>1 DEF BodyInv, AnswerInv, HandleInv, Working
<1>6. SilenceInv'
  BY <1>1 DEF SilenceInv
<1> QED BY <1>3, <1>4, <1>5, <1>6 DEF IInv

LEMMA ReceiveStep ==
  IInv /\ (RecvSilence \/ RecvFails \/ RecvData \/ Received) => IInv'
<1> USE OtaAssumption DEF OtaAssumption
<1>1. ASSUME IInv, RecvSilence PROVE IInv'
  <2>1. /\ at = "recv" /\ silent = stalls /\ stalls \in 0..OTA_MAX_STALLS
        /\ silent' = stalls + 1
        /\ UNCHANGED <<flash, boot, running, losses, serving, loop, uploads, total,
                       remaining, got, body, written>>
    BY <1>1 DEF RecvSilence, IInv, SilenceInv, TypeOK, flashVars, serverVars
  <2>2. CASE stalls = OTA_MAX_STALLS
    <3>1. Fails("timeout") /\ stalls' = stalls
      BY <1>1, <2>2 DEF RecvSilence
    <3>2. "timeout" \in Answers \ {"none", "ok"} /\ at \in Working
      BY <2>1 DEF Answers, Working
    <3>3. flash' \in [Slots -> Images] /\ flash'[running] = flash[running]
      BY <1>1, <2>1 DEF IInv, TypeOK
    <3>4. silent' \in Nat /\ silent' = OTA_MAX_STALLS + 1
      BY <2>1, <2>2
    <3> QED BY <1>1, <2>1, <3>1, <3>2, <3>3, <3>4, FailsStep
  <2>3. CASE stalls # OTA_MAX_STALLS
    <3>1. stalls' = stalls + 1 /\ UNCHANGED <<at, handle, answer>>
      BY <1>1, <2>3 DEF RecvSilence
    <3>2. stalls' \in 0..OTA_MAX_STALLS /\ silent' \in Nat /\ silent' = stalls'
      BY <2>1, <2>3, <3>1
    <3>3. TypeOK'
      BY <1>1, <2>1, <3>1, <3>2 DEF IInv, TypeOK
    <3>4. Target' = Target
      BY <2>1 DEF Target
    <3>5. (BootInv /\ BodyInv /\ AnswerInv /\ HandleInv)'
      BY <1>1, <2>1, <3>1, <3>4 DEF IInv, BootInv, BodyInv, AnswerInv, HandleInv
    <3>6. SilenceInv'
      BY <1>1, <2>1, <3>1, <3>2 DEF IInv, SilenceInv, AnswerInv, Working
    <3> QED BY <3>3, <3>5, <3>6 DEF IInv
  <2> QED BY <2>2, <2>3
<1>2. ASSUME IInv, RecvFails PROVE IInv'
  <2>1. /\ at \in Working /\ Fails("bad_request")
        /\ UNCHANGED <<flash, boot, running, losses, serving, loop, uploads, total,
                       remaining, got, stalls, body, written, silent>>
    BY <1>2 DEF RecvFails, Working, flashVars, serverVars, countVars
  <2>2. "bad_request" \in Answers \ {"none", "ok"} /\ "bad_request" # "timeout"
    BY DEF Answers
  <2>3. /\ flash' \in [Slots -> Images] /\ flash'[running] = flash[running]
        /\ silent' \in Nat
    BY <1>2, <2>1 DEF IInv, TypeOK
  <2> QED BY <1>2, <2>1, <2>2, <2>3, FailsStep
<1>3. ASSUME IInv, RecvData PROVE IInv'
  <2>1. /\ at = "recv" /\ at' = "write" /\ stalls' = 0 /\ silent' = 0
        /\ remaining \in 0..total /\ total \in 0..MaxBody /\ remaining > 0
        /\ written \in 0..total /\ got' \in 1..Want
        /\ UNCHANGED <<flash, boot, running, losses, serving, loop, uploads, handle,
                       total, remaining, body, written, answer>>
    BY <1>3 DEF RecvData, IInv, TypeOK, flashVars, serverVars
  <2>2. got' \in 0..OTA_CHUNK /\ got' > 0 /\ got' <= remaining
    BY <2>1 DEF Want
  <2>3. TypeOK'
    BY <1>3, <2>1, <2>2 DEF IInv, TypeOK
  <2>4. Target' = Target
    BY <2>1 DEF Target
  <2>5. (BootInv /\ AnswerInv /\ HandleInv /\ SilenceInv)'
    BY <1>3, <2>1, <2>4 DEF IInv, BootInv, AnswerInv, HandleInv, SilenceInv, Working
  <2>6. BodyInv'
    BY <1>3, <2>1, <2>2, <2>4 DEF IInv, BodyInv, Working
  <2> QED BY <2>3, <2>5, <2>6 DEF IInv
<1>4. ASSUME IInv, Received PROVE IInv'
  <2>1. /\ at = "recv" /\ at' = "end" /\ remaining = 0
        /\ written \in Nat /\ total \in Nat
        /\ UNCHANGED <<flash, boot, running, losses, serving, loop, uploads, handle, total,
                       remaining, got, stalls, body, written, silent, answer>>
    BY <1>4 DEF Received, IInv, TypeOK, flashVars, serverVars, countVars
  <2>2. Target' = Target
    BY <2>1 DEF Target
  <2>3. TypeOK'
    BY <1>4, <2>1 DEF IInv, TypeOK
  <2>4. (BootInv /\ AnswerInv /\ HandleInv /\ SilenceInv)'
    BY <1>4, <2>1, <2>2 DEF IInv, BootInv, AnswerInv, HandleInv, SilenceInv, Working
  <2>5. BodyInv'
    BY <1>4, <2>1, <2>2 DEF IInv, BodyInv, Working
  <2> QED BY <2>3, <2>4, <2>5 DEF IInv
<1> QED BY <1>1, <1>2, <1>3, <1>4

LEMMA FlashStep == IInv /\ (Begin \/ Write \/ WriteFails) => IInv'
<1> USE OtaAssumption DEF OtaAssumption
<1>1. ASSUME IInv, Begin PROVE IInv'
  <2>1. /\ at = "begin" /\ boot = running /\ answer = "none"
        /\ UNCHANGED <<boot, running, losses, serving, loop, uploads, total, remaining,
                       got, stalls, body, written, silent>>
    BY <1>1 DEF Begin, IInv, BootInv, AnswerInv, Working, serverVars, countVars
  <2>2. CASE flash' = [flash EXCEPT ![Target] = "partial"] /\ handle' = TRUE
             /\ at' = "recv" /\ answer' = answer
    <3>1. /\ flash' \in [Slots -> Images] /\ flash'[running] = flash[running]
      BY <1>1, <2>2, TargetWrite DEF IInv, Images
    <3>2. TypeOK'
      BY <1>1, <2>1, <2>2, <3>1 DEF IInv, TypeOK
    <3>3. (BootInv /\ AnswerInv /\ HandleInv /\ SilenceInv)'
      BY <1>1, <2>1, <2>2, <3>1 DEF IInv, BootInv, AnswerInv, HandleInv, SilenceInv, Working
    <3>4. BodyInv'
      BY <1>1, <2>1, <2>2 DEF IInv, BodyInv, TypeOK, Working
    <3> QED BY <3>2, <3>3, <3>4 DEF IInv
  <2>3. CASE /\ Fails("server_error")
             /\ flash' \in {flash, [flash EXCEPT ![Target] = "partial"]}
    <3>1. /\ flash' \in [Slots -> Images] /\ flash'[running] = flash[running]
      BY <1>1, <2>3, TargetWrite DEF IInv, TypeOK, Images
    <3>2. "server_error" \in Answers \ {"none", "ok"} /\ "server_error" # "timeout"
          /\ at \in Working /\ silent' \in Nat
      BY <1>1, <2>1 DEF Answers, Working, IInv, TypeOK
    <3> QED BY <1>1, <2>1, <2>3, <3>1, <3>2, FailsStep
  <2> QED BY <1>1, <2>2, <2>3 DEF Begin
<1>2. ASSUME IInv, Write PROVE IInv'
  <2>1. /\ at = "write" /\ at' = "recv" /\ boot = running /\ answer = "none"
        /\ remaining \in 0..total /\ total \in 0..MaxBody /\ written \in 0..total
        /\ got \in 0..OTA_CHUNK /\ got > 0 /\ got <= remaining
        /\ remaining + written = total
        /\ written' = written + got /\ remaining' = remaining - got
        /\ body \in Images
        /\ UNCHANGED <<boot, running, losses, serving, loop, uploads, handle, total, got,
                       stalls, body, silent, answer>>
    BY <1>2 DEF Write, IInv, BootInv, BodyInv, AnswerInv, TypeOK, Working, serverVars
  <2>2. /\ remaining' \in 0..total /\ written' \in 0..total
        /\ remaining' + written' = total
    BY <2>1
  <2> DEFINE image == IF written' = total THEN body ELSE "partial"
  <2>3. flash' = [flash EXCEPT ![Target] = image] /\ image \in Images
    BY <1>2, <2>1 DEF Write, Images
  <2> HIDE DEF image
  <2>4. /\ flash' \in [Slots -> Images] /\ flash'[running] = flash[running]
        /\ flash'[Target] = image
    BY <1>2, <2>3, TargetWrite DEF IInv
  <2>5. Target' = Target
    BY <2>1 DEF Target
  <2>6. TypeOK'
    BY <1>2, <2>1, <2>2, <2>4 DEF IInv, TypeOK
  <2>7. (BootInv /\ AnswerInv /\ HandleInv)'
    BY <1>2, <2>1, <2>4 DEF IInv, BootInv, AnswerInv, HandleInv, Working
  <2>8. SilenceInv'
    BY <1>2, <2>1 DEF IInv, SilenceInv
  <2>9. BodyInv'
    <3>1. written' = total => flash'[Target'] = body
      BY <2>4, <2>5 DEF image
    <3> QED BY <1>2, <2>1, <2>2, <3>1 DEF IInv, BodyInv, Working
  <2> QED BY <2>6, <2>7, <2>8, <2>9 DEF IInv
<1>3. ASSUME IInv, WriteFails PROVE IInv'
  <2>1. /\ at \in Working /\ Fails("server_error")
        /\ UNCHANGED <<flash, boot, running, losses, serving, loop, uploads, total,
                       remaining, got, stalls, body, written, silent>>
    BY <1>3 DEF WriteFails, Working, flashVars, serverVars, countVars
  <2>2. /\ "server_error" \in Answers \ {"none", "ok"} /\ "server_error" # "timeout"
        /\ flash' \in [Slots -> Images] /\ flash'[running] = flash[running]
        /\ silent' \in Nat
    BY <1>3, <2>1 DEF Answers, IInv, TypeOK
  <2> QED BY <1>3, <2>1, <2>2, FailsStep
<1> QED BY <1>1, <1>2, <1>3

LEMMA FinishStep == IInv /\ (End \/ SetBoot \/ Failed) => IInv'
<1>1. ASSUME IInv, End PROVE IInv'
  <2>1. /\ at = "end"
        /\ UNCHANGED <<flash, boot, running, losses, serving, loop, uploads, total,
                       remaining, got, stalls, body, written, silent>>
    BY <1>1 DEF End, flashVars, serverVars, countVars
  <2>2. CASE flash[Target] = "good" /\ handle' = FALSE /\ at' = "boot" /\ answer' = answer
    <3>1. Target' = Target
      BY <2>1 DEF Target
    <3>2. TypeOK'
      BY <1>1, <2>1, <2>2 DEF IInv, TypeOK
    <3>3. (BootInv /\ BodyInv /\ AnswerInv /\ HandleInv /\ SilenceInv)'
      BY <1>1, <2>1, <2>2, <3>1
         DEF IInv, BootInv, BodyInv, AnswerInv, HandleInv, SilenceInv, Working
    <3> QED BY <3>2, <3>3 DEF IInv
  <2>3. CASE Fails("bad_request")
    <3>1. /\ "bad_request" \in Answers \ {"none", "ok"} /\ "bad_request" # "timeout"
          /\ flash' \in [Slots -> Images] /\ flash'[running] = flash[running]
          /\ silent' \in Nat /\ at \in Working
      BY <1>1, <2>1 DEF Answers, IInv, TypeOK, Working
    <3> QED BY <1>1, <2>1, <2>3, <3>1, FailsStep
  <2> QED BY <1>1, <2>2, <2>3 DEF End
<1>2. ASSUME IInv, SetBoot PROVE IInv'
  <2>1. /\ at = "boot" /\ boot = running /\ flash[Target] = "good" /\ flash[Target] = body
        /\ written = total
        /\ UNCHANGED <<flash, running, losses, serving, loop, uploads, total,
                       remaining, got, stalls, body, written, silent>>
    BY <1>2 DEF SetBoot, IInv, BootInv, BodyInv, serverVars, countVars
  <2>2. CASE boot' = Target /\ at' = "reply" /\ answer' = "ok" /\ handle' = FALSE
    <3>1. Target' = Target
      BY <2>1 DEF Target
    <3>2. Target \in Slots
      BY <1>2, TargetFacts DEF IInv, TypeOK
    <3>3. TypeOK'
      BY <1>2, <2>1, <2>2, <3>2 DEF IInv, TypeOK, Answers
    <3>4. (BootInv /\ BodyInv /\ AnswerInv /\ HandleInv /\ SilenceInv)'
      BY <1>2, <2>1, <2>2, <3>1
         DEF IInv, BootInv, BodyInv, AnswerInv, HandleInv, SilenceInv, Working
    <3> QED BY <3>3, <3>4 DEF IInv
  <2>3. CASE Fails("server_error") /\ boot' = boot
    <3>1. /\ "server_error" \in Answers \ {"none", "ok"} /\ "server_error" # "timeout"
          /\ flash' \in [Slots -> Images] /\ flash'[running] = flash[running]
          /\ silent' \in Nat /\ at \in Working
      BY <1>2, <2>1 DEF Answers, IInv, TypeOK, Working
    <3> QED BY <1>2, <2>1, <2>3, <3>1, FailsStep
  <2> QED BY <1>2, <2>2, <2>3 DEF SetBoot
<1>3. ASSUME IInv, Failed PROVE IInv'
  <2>1. /\ at = "failing" /\ at' = "idle"
        /\ UNCHANGED <<flash, boot, running, losses, serving, loop, uploads, handle, total,
                       remaining, got, stalls, body, written, silent, answer>>
    BY <1>3 DEF Failed, flashVars, serverVars, countVars
  <2>2. TypeOK'
    BY <1>3, <2>1 DEF IInv, TypeOK
  <2>3. (BootInv /\ BodyInv /\ AnswerInv /\ HandleInv /\ SilenceInv)'
    BY <1>3, <2>1 DEF IInv, BootInv, BodyInv, AnswerInv, HandleInv, SilenceInv, Working
  <2> QED BY <2>2, <2>3 DEF IInv
<1> QED BY <1>1, <1>2, <1>3

(* Whatever was going on, the slot that is booted holds a sound image. *)
LEMMA BootsStep == IInv /\ (Restart \/ PowerLoss) => IInv'
<1> SUFFICES ASSUME IInv, Restart \/ PowerLoss PROVE IInv'
  OBVIOUS
<1> USE OtaAssumption DEF OtaAssumption
<1>1. Boots /\ losses' \in 0..MaxLosses
  BY DEF Restart, PowerLoss, IInv, TypeOK
<1>2. TypeOK'
  <2>1. /\ total' \in 0..MaxBody /\ remaining' \in 0..total' /\ got' \in 0..OTA_CHUNK
        /\ stalls' \in 0..OTA_MAX_STALLS /\ written' \in 0..total' /\ silent' \in Nat
    BY <1>1 DEF Boots
  <2>2. body' \in Images /\ answer' \in Answers /\ running' \in Slots
    BY <1>1 DEF Boots, Images, Answers, IInv, TypeOK
  <2> QED BY <1>1, <2>1, <2>2 DEF Boots, IInv, TypeOK
<1>3. (BootInv /\ BodyInv /\ AnswerInv /\ HandleInv)'
  BY <1>1 DEF Boots, IInv, BootInv, BodyInv, AnswerInv, HandleInv, Working
<1>4. SilenceInv'
  BY <1>1 DEF Boots, SilenceInv
<1> QED BY <1>2, <1>3, <1>4 DEF IInv

LEMMA NextIInv == IInv /\ [Next]_vars => IInv'
<1>1. ASSUME IInv, Next PROVE IInv'
  BY <1>1, EventLoopStep, PostStep, ReceiveStep, FlashStep, FinishStep, BootsStep
     DEF Next, UpdatePost
<1>2. ASSUME IInv, UNCHANGED vars PROVE IInv'
  BY <1>2 DEF vars, flashVars, serverVars, countVars, IInv, TypeOK, BootInv, BodyInv,
              AnswerInv, HandleInv, SilenceInv, Target
<1> QED BY <1>1, <1>2

LEMMA Inductive == Spec => []IInv
BY InitIInv, NextIInv, PTL DEF Spec

-----------------------------------------------------------------------------
(* For every size of image and buffer: types, and no handle left open. *)
THEOREM UpdateInvAlways == Spec => []UpdateInv
<1>1. IInv => UpdateInv
  BY DEF IInv, HandleInv, HandleReleased, UpdateInv
<1> QED BY <1>1, Inductive, PTL

(* However many uploads fail and however often the power does, the slot    *)
(* the bootloader will take holds a verified image.                        *)
THEOREM BootsVerifiedAlways == Spec => []BootsVerified
<1>1. IInv => BootsVerified
  BY DEF IInv, BootInv, BootsVerified
<1> QED BY <1>1, Inductive, PTL

(* esp_ota_end() is reached with the whole body written, however it came   *)
(* in pieces.                                                              *)
THEOREM EndsWithWholeBodyAlways == Spec => []EndsWithWholeBody
<1>1. IInv => EndsWithWholeBody
  BY DEF IInv, BodyInv, EndsWithWholeBody
<1> QED BY <1>1, Inductive, PTL

(* What the client is told is what the bootloader will do: "ok" only for   *)
(* its own image, and after a failure the image that runs stays.           *)
THEOREM AnswerTellsBootAlways == Spec => []AnswerTellsBoot
<1>1. IInv => AnswerTellsBoot
  BY DEF IInv, BootInv, AnswerInv, AnswerTellsBoot
<1> QED BY <1>1, Inductive, PTL

(* An upload is given up as dead after exactly the silence tolerated and   *)
(* one receive more.                                                       *)
THEOREM DeadOnlyAfterSilenceAlways == Spec => []DeadOnlyAfterSilence
<1>1. IInv => DeadOnlyAfterSilence
  BY DEF IInv, SilenceInv, DeadOnlyAfterSilence
<1> QED BY <1>1, Inductive, PTL

-----------------------------------------------------------------------------
(* Termination.  That the event loop gets out of httpd_stop() is liveness; *)
(* what it rests on is that update_post() cannot go on for ever, however   *)
(* the client behaves: what remains of the body, then the stage, then the  *)
(* stalls still tolerated.  TypeOK keeps all three in the naturals.        *)
Stage(a) ==
  CASE a = "idle" -> 0 [] a = "failing" -> 1 [] a = "reply" -> 2 [] a = "boot" -> 3
    [] a = "end" -> 4 [] a = "write" -> 5 [] a = "recv" -> 6 [] a = "begin" -> 7

Measured == <<remaining, at, stalls>>

Nearer ==
  \/ remaining' < remaining
  \/ remaining' = remaining /\ Stage(at') < Stage(at)
  \/ /\ remaining' = remaining /\ at' = at
     /\ OTA_MAX_STALLS - stalls' < OTA_MAX_STALLS - stalls

UpdateAdvances ==
  [][ /\ UpdatePost => Nearer
      /\ EventLoop => UNCHANGED Measured
      /\ Post => at = "idle" ]_vars

(* Every step of update_post() brings it nearer to its end, in an order    *)
(* without infinite descent, and only a new upload or a power loss sets it *)
(* back: for every size of body and buffer and every number of stalls.     *)
THEOREM UpdateAdvancesAlways == Spec => UpdateAdvances
<1>1. ASSUME IInv, UpdatePost PROVE Nearer
  <2>1. /\ remaining \in Nat /\ stalls \in Nat /\ stalls <= OTA_MAX_STALLS /\ got \in Nat
        /\ OTA_MAX_STALLS \in Nat
    BY <1>1, OtaAssumption DEF IInv, TypeOK, OtaAssumption
  <2>2. CASE Begin \/ RecvFails \/ RecvData \/ WriteFails \/ Received \/ End \/ SetBoot \/ Failed
    <3>1. remaining' = remaining
      BY <2>2 DEF Begin, RecvFails, RecvData, WriteFails, Received, End, SetBoot, Failed, countVars
    <3>2. Stage(at') < Stage(at)
      BY <2>2 DEF Begin, RecvFails, RecvData, WriteFails, Received, End, SetBoot, Failed, Fails, Stage
    <3> QED BY <3>1, <3>2 DEF Nearer
  <2>3. CASE RecvSilence
    <3>1. CASE stalls = OTA_MAX_STALLS
      <4>1. remaining' = remaining /\ at = "recv" /\ at' = "failing"
        BY <2>3, <3>1 DEF RecvSilence, Fails
      <4>2. Stage(at') < Stage(at)
        BY <4>1 DEF Stage
      <4> QED BY <4>1, <4>2 DEF Nearer
    <3>2. CASE stalls # OTA_MAX_STALLS
      <4>1. remaining' = remaining /\ at' = at /\ stalls' = stalls + 1
        BY <2>3, <3>2 DEF RecvSilence
      <4> QED BY <2>1, <4>1 DEF Nearer
    <3> QED BY <3>1, <3>2
  <2>4. CASE Write
    <3>1. got > 0 /\ remaining' = remaining - got
      BY <1>1, <2>4 DEF Write, IInv, BodyInv
    <3> QED BY <2>1, <3>1 DEF Nearer
  <2>5. CASE Restart
    <3>1. remaining' = 0 /\ at = "reply" /\ at' = "idle"
      BY <2>5 DEF Restart, Boots
    <3>2. Stage(at') < Stage(at)
      BY <3>1 DEF Stage
    <3> QED BY <2>1, <3>1, <3>2 DEF Nearer
  <2> QED BY <1>1, <2>2, <2>3, <2>4, <2>5 DEF UpdatePost
<1>2. EventLoop => UNCHANGED Measured
  BY DEF EventLoop, StartServer, StopServer, ServerStopped, countVars, Measured
<1>3. Post => at = "idle"
  BY DEF Post
<1> QED BY <1>1, <1>2, <1>3, Inductive, PTL DEF Spec, UpdateAdvances
=============================================================================
