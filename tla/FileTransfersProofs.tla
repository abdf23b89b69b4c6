------------------------ MODULE FileTransfersProofs ------------------------
(***************************************************************************)
(* Proofs about FileTransfers for bodies, files and numbers of any size.   *)
(***************************************************************************)
EXTENDS FileTransfers, TLAPS

\* Where a download stands, and what of its body is then in the file.
DownloadInv ==
  /\ dpc \in {"performing", "close", "judge"} =>
       /\ file.of = "current" /\ file.size <= sent /\ sent <= body
       /\ file.size = sent \/ lost
       /\ now = file.size
  /\ dpc \in {"close", "judge"} =>
       /\ code = "CURLE_OK" => sent = body
       /\ stopped => code = "other"
  /\ dpc \in {"create", "performing"} => ~stopped
  /\ dpc = "create" => file.of # "current"
  /\ dpc = "idle" =>
       /\ file.of = "current" => result = "ERROR_SUCCESS"
       /\ result = "ERROR_SUCCESS" =>
            file.of = "current" /\ (file.size = body \/ lost)
       /\ stopped => result # "ERROR_SUCCESS"

\* A stop that ends an upload becomes its code, and the code its result.
UploadInv ==
  /\ upc \in {"close", "judge"} /\ ustopped => ucode = "other"
  /\ upc \in {"open", "performing"} => ~ustopped
  /\ upc = "idle" /\ ustopped => uresult # "ERROR_SUCCESS"

TransferInv == TTypeOK /\ StopAccounting /\ DownloadInv /\ UploadInv

\* TransferInv holds before the first transfer.
LEMMA TransferInvInit == TInit => TransferInv
<1> SUFFICES ASSUME TInit PROVE TransferInv
  OBVIOUS
<1>1. StopTypeOK /\ StopAccounting
  <2>1. ~stop /\ stop \in BOOLEAN /\ stops = 0 /\ victims = 0
    BY DEF TInit, StopInit
  <2>2. (IF stop THEN 1 ELSE 0) = 0
    BY <2>1
  <2>3. stops \in Nat /\ victims \in Nat /\ victims + 0 <= stops
    BY <2>1
  <2> QED
    BY <2>1, <2>2, <2>3 DEF StopTypeOK, StopAccounting
<1>2. DTypeOK
  <2>1. /\ body \in 0..MaxBody /\ sent \in 0..MaxBody /\ now \in 0..MaxBody
        /\ idle \in 0..IdleLimit + 1 /\ left \in 0..Downloads
    BY DownloadAssumption DEF TInit, DInit
  <2>2. file \in [of : {"nobody", "earlier", "current"}, size : 0..MaxBody]
    BY DownloadAssumption DEF TInit, DInit, NoFile, OldFile
  <2>3. /\ dpc = "idle" /\ code \in Codes /\ result \in Results
        /\ storeFile \in BOOLEAN /\ ok200 \in BOOLEAN
        /\ lost \in BOOLEAN /\ stopped \in BOOLEAN
    BY DEF TInit, DInit, Codes, Results
  <2> QED
    BY <2>1, <2>2, <2>3 DEF DTypeOK
<1>3. UTypeOK
  <2>1. /\ size \in 0..MaxFile /\ pos \in 0..MaxFile /\ answer \in 0..MaxFile
        /\ uleft \in 0..Uploads
    BY UploadAssumption DEF TInit, UInit
  <2>2. /\ upc = "idle" /\ ucode \in UploadCodes /\ uresult \in UploadResults
        /\ srcFile \in BOOLEAN /\ uok200 \in BOOLEAN /\ ustopped \in BOOLEAN
    BY DEF TInit, UInit, UploadCodes, UploadResults
  <2> QED
    BY <2>1, <2>2 DEF UTypeOK
<1>4. DownloadInv /\ UploadInv
  BY DEF TInit, DInit, UInit, DownloadInv, UploadInv, NoFile, OldFile
<1> QED
  BY <1>1, <1>2, <1>3, <1>4 DEF TransferInv, TTypeOK

\* A step of the download keeps its types and the way of its file.
LEMMA DownloadKeeps ==
  ASSUME TransferInv, DownloadStep \/ Silence
  PROVE  DTypeOK' /\ DownloadInv'
<1> USE DownloadAssumption
    DEF TransferInv, TTypeOK, StopTypeOK, DTypeOK, Codes, Results,
        Failures, NoFile, OldFile, Kept, stopVars
<1>1. CASE RefuseDownload
  <2>a. left \in 0..Downloads /\ left > 0 /\ left' = left - 1
    BY <1>1 DEF RefuseDownload
  <2>b. left' \in 0..Downloads
    BY <2>a
  <2>c. file' \in [of : {"nobody", "earlier", "current"}, size : 0..MaxBody]
    BY <1>1 DEF RefuseDownload
  <2>1. DTypeOK'
    BY <1>1, <2>b, <2>c DEF RefuseDownload
  <2>2. DownloadInv'
    BY <1>1, <2>1 DEF RefuseDownload, DownloadInv
  <2> QED
    BY <2>1, <2>2
<1>2. CASE StartDownload
  <2>a. left \in 0..Downloads /\ left > 0 /\ left' = left - 1
    BY <1>2 DEF StartDownload
  <2>b. left' \in 0..Downloads
    BY <2>a
  <2>c. file' \in [of : {"nobody", "earlier", "current"}, size : 0..MaxBody]
    BY <1>2 DEF StartDownload
  <2>d. idle' \in 0..IdleLimit + 1
    BY <1>2 DEF StartDownload
  <2>1. DTypeOK'
    BY <1>2, <2>b, <2>c, <2>d DEF StartDownload
  <2>2. DownloadInv'
    BY <1>2, <2>1 DEF StartDownload, DownloadInv
  <2> QED
    BY <2>1, <2>2
<1>3. CASE CannotCreate
  <2>1. DTypeOK'
    BY <1>3 DEF CannotCreate, DownloadInv
  <2>2. DownloadInv'
    BY <1>3, <2>1 DEF CannotCreate, DownloadInv
  <2> QED
    BY <2>1, <2>2
<1>4. CASE CreateFile
  <2>1. DTypeOK'
    BY <1>4 DEF CreateFile, DownloadInv
  <2>2. DownloadInv'
    BY <1>4, <2>1 DEF CreateFile, DownloadInv
  <2> QED
    BY <2>1, <2>2
<1>5. CASE WriteContent
  <2>1. DTypeOK'
    BY <1>5 DEF WriteContent, DownloadInv
  <2>a. PICK w \in {0, 1} : /\ file' = [file EXCEPT !.size = @ + w]
                            /\ now' = now + w
                            /\ lost' = (lost \/ w = 0)
    BY <1>5 DEF WriteContent
  <2>b. /\ dpc = "performing" /\ dpc' = dpc /\ sent < body /\ body' = body
        /\ sent' = sent + 1 /\ stopped' = stopped
    BY <1>5 DEF WriteContent
  <2>c. /\ file.of = "current" /\ file.size <= sent /\ now = file.size
        /\ file.size = sent \/ lost
        /\ ~stopped
    BY <2>b DEF DownloadInv
  <2>d. file'.of = "current" /\ file'.size = file.size + w
    BY <2>a, <2>c
  <2>e. file'.size <= sent' /\ now' = file'.size /\ sent' <= body'
    BY <2>a, <2>b, <2>c, <2>d
  <2>f. w = 0 \/ w = 1
    BY <2>a
  <2>g. lost => lost'
    BY <2>a
  <2>h. w = 0 => lost'
    BY <2>a
  <2>i. w = 1 /\ file.size = sent => file'.size = sent'
    BY <2>b, <2>d
  <2>j. file'.size = sent' \/ lost'
    BY <2>c, <2>f, <2>g, <2>h, <2>i
  <2>2. DownloadInv'
    BY <2>b, <2>c, <2>d, <2>e, <2>j DEF DownloadInv
  <2> QED
    BY <2>1, <2>2
<1>6. CASE StopDownload
  <2>1. DTypeOK'
    BY <1>6 DEF StopDownload, DownloadInv
  <2>2. DownloadInv'
    BY <1>6, <2>1 DEF StopDownload, DownloadInv
  <2> QED
    BY <2>1, <2>2
<1>7. CASE AbortIdle
  <2>1. DTypeOK'
    BY <1>7 DEF AbortIdle, DownloadInv
  <2>2. DownloadInv'
    BY <1>7, <2>1 DEF AbortIdle, DownloadInv
  <2> QED
    BY <2>1, <2>2
<1>8. CASE EndDownload
  <2>1. DTypeOK'
    BY <1>8 DEF EndDownload, DownloadInv
  <2>2. DownloadInv'
    BY <1>8, <2>1 DEF EndDownload, DownloadInv
  <2> QED
    BY <2>1, <2>2
<1>9. CASE CloseFile
  <2>1. DTypeOK'
    BY <1>9 DEF CloseFile, DownloadInv
  <2>2. DownloadInv'
    BY <1>9, <2>1 DEF CloseFile, DownloadInv
  <2> QED
    BY <2>1, <2>2
<1>10. CASE Silence
  <2>1. DTypeOK'
    BY <1>10 DEF Silence, DownloadInv
  <2>2. DownloadInv'
    BY <1>10, <2>1 DEF Silence, DownloadInv
  <2> QED
    BY <2>1, <2>2
<1>11. CASE Judge
  <2>1. DTypeOK'
    BY <1>11 DEF Judge, DownloadInv
  <2>2. DownloadInv'
    BY <1>11, <2>1 DEF Judge, DownloadInv
  <2> QED
    BY <2>1, <2>2
<1> QED
  BY <1>1, <1>2, <1>3, <1>4, <1>5, <1>6, <1>7, <1>8, <1>9, <1>10, <1>11 DEF DownloadStep

\* A step of the upload keeps its types and how it ends.
LEMMA UploadKeeps ==
  ASSUME TransferInv, UploadStep
  PROVE  UTypeOK' /\ UploadInv'
<1> USE UploadAssumption
    DEF TransferInv, TTypeOK, StopTypeOK, UTypeOK, UploadCodes, UploadResults
<1>1. CASE StartUpload
  <2>a. uleft \in 0..Uploads /\ uleft > 0 /\ uleft' = uleft - 1
    BY <1>1 DEF StartUpload
  <2>b. uleft' \in 0..Uploads
    BY <2>a
  <2>1. UTypeOK'
    BY <1>1, <2>b DEF StartUpload
  <2>2. UploadInv'
    BY <1>1 DEF StartUpload, UploadInv
  <2> QED
    BY <2>1, <2>2
<1>2. CASE CannotOpen
  <2>1. UTypeOK'
    BY <1>2 DEF CannotOpen
  <2>2. UploadInv'
    BY <1>2 DEF CannotOpen, UploadInv
  <2> QED
    BY <2>1, <2>2
<1>3. CASE OpenFile
  <2>1. UTypeOK'
    BY <1>3 DEF OpenFile
  <2>2. UploadInv'
    BY <1>3 DEF OpenFile, UploadInv
  <2> QED
    BY <2>1, <2>2
<1>4. CASE ReadContent
  <2>1. UTypeOK'
    BY <1>4 DEF ReadContent
  <2>2. UploadInv'
    BY <1>4 DEF ReadContent, UploadInv
  <2> QED
    BY <2>1, <2>2
<1>5. CASE ReadFails
  <2>1. UTypeOK'
    BY <1>5 DEF ReadFails
  <2>2. UploadInv'
    BY <1>5 DEF ReadFails, UploadInv
  <2> QED
    BY <2>1, <2>2
<1>6. CASE ReceiveAnswer
  <2>1. UTypeOK'
    BY <1>6 DEF ReceiveAnswer, Answering
  <2>2. UploadInv'
    BY <1>6 DEF ReceiveAnswer, Answering, UploadInv
  <2> QED
    BY <2>1, <2>2
<1>7. CASE StopUpload
  <2>1. UTypeOK'
    BY <1>7 DEF StopUpload, Answering
  <2>2. UploadInv'
    BY <1>7 DEF StopUpload, Answering, UploadInv
  <2> QED
    BY <2>1, <2>2
<1>8. CASE EndUpload
  <2>1. UTypeOK'
    BY <1>8 DEF EndUpload
  <2>2. UploadInv'
    BY <1>8 DEF EndUpload, UploadInv
  <2> QED
    BY <2>1, <2>2
<1>9. CASE CloseSource
  <2>1. UTypeOK'
    BY <1>9 DEF CloseSource
  <2>2. UploadInv'
    BY <1>9 DEF CloseSource, UploadInv
  <2> QED
    BY <2>1, <2>2
<1>10. CASE JudgeUpload
  <2>1. UTypeOK'
    BY <1>10 DEF JudgeUpload
  <2>2. UploadInv'
    BY <1>10 DEF JudgeUpload, UploadInv
  <2> QED
    BY <2>1, <2>2
<1> QED
  BY <1>1, <1>2, <1>3, <1>4, <1>5, <1>6, <1>7, <1>8, <1>9, <1>10 DEF UploadStep

\* Whatever the write callbacks do with the flag, a stop counts once.
LEMMA StopKeeps ==
  ASSUME StopTypeOK, StopAccounting,
         AskStop \/ WriteRefused \/ UNCHANGED stopVars
  PROVE  StopTypeOK' /\ StopAccounting'
<1> DEFINE pending == IF stop THEN 1 ELSE 0
<1>1. victims + pending <= stops /\ pending \in {0, 1}
  BY DEF StopAccounting
<1>2. CASE AskStop
  <2>1. stop' /\ stop' \in BOOLEAN
    BY <1>2 DEF AskStop
  <2>2. pending' = 1
    BY <2>1
  <2>3. stops' = stops + 1 /\ victims' = victims /\ victims \in Nat /\ stops \in Nat
    BY <1>2 DEF AskStop, StopTypeOK
  <2>4. victims' + pending' <= stops'
    BY <1>1, <2>2, <2>3
  <2> QED
    BY <2>1, <2>3, <2>4 DEF StopTypeOK, StopAccounting
<1>3. CASE WriteRefused
  <2>1. ~stop' /\ stop' \in BOOLEAN /\ stop
    BY <1>3 DEF WriteRefused
  <2>2. pending = 1 /\ pending' = 0
    BY <2>1
  <2>3. stops' = stops /\ victims' = victims + 1 /\ victims \in Nat /\ stops \in Nat
    BY <1>3 DEF WriteRefused, StopTypeOK
  <2>4. victims' + pending' <= stops'
    BY <1>1, <2>2, <2>3
  <2> QED
    BY <2>1, <2>3, <2>4 DEF StopTypeOK, StopAccounting
<1>4. CASE UNCHANGED stopVars
  BY <1>4 DEF stopVars, StopTypeOK, StopAccounting
<1> QED
  BY <1>2, <1>3, <1>4

\* The transfers touch the flag in their write callbacks only.
LEMMA FlagMoves ==
  ASSUME DownloadStep \/ Silence \/ UploadStep
  PROVE  WriteRefused \/ UNCHANGED stopVars
<1>1. CASE DownloadStep \/ Silence
  BY <1>1 DEF DownloadStep, Silence, RefuseDownload, StartDownload, CannotCreate,
     CreateFile, WriteContent, WriteAccepted, StopDownload, AbortIdle, EndDownload,
     CloseFile, Judge
<1>2. CASE UploadStep
  BY <1>2 DEF UploadStep, StartUpload, CannotOpen, OpenFile, ReadContent, ReadFails,
     ReceiveAnswer, WriteAccepted, StopUpload, EndUpload, CloseSource, JudgeUpload
<1> QED
  BY <1>1, <1>2

\* A step of either transfer or of the host keeps TransferInv.
LEMMA TransferInvStep == TransferInv /\ [TNext]_tvars => TransferInv'
<1> SUFFICES ASSUME TransferInv, [TNext]_tvars PROVE TransferInv'
  OBVIOUS
<1>1. CASE (DownloadStep \/ Silence) /\ UNCHANGED uvars
  <2>1. UTypeOK' /\ UploadInv'
    BY <1>1 DEF TransferInv, TTypeOK, UTypeOK, UploadInv, uvars
  <2> QED
    BY <1>1, <2>1, DownloadKeeps, FlagMoves, StopKeeps DEF TransferInv, TTypeOK
<1>2. CASE UploadStep /\ UNCHANGED dvars
  <2>1. DTypeOK' /\ DownloadInv'
    BY <1>2 DEF TransferInv, TTypeOK, DTypeOK, DownloadInv, dvars
  <2> QED
    BY <1>2, <2>1, UploadKeeps, FlagMoves, StopKeeps DEF TransferInv, TTypeOK
<1>3. CASE (AskStop \/ UNCHANGED stopVars) /\ UNCHANGED <<dvars, uvars>>
  <2>1. DTypeOK' /\ DownloadInv'
    BY <1>3 DEF TransferInv, TTypeOK, DTypeOK, DownloadInv, dvars
  <2>2. UTypeOK' /\ UploadInv'
    BY <1>3 DEF TransferInv, TTypeOK, UTypeOK, UploadInv, uvars
  <2> QED
    BY <1>3, <2>1, <2>2, StopKeeps DEF TransferInv, TTypeOK
<1> QED
  BY <1>1, <1>2, <1>3 DEF TNext, tvars

\* TransferInv holds in every reachable state.
LEMMA TransferInvAlways == TSpec => []TransferInv
  BY TransferInvInit, TransferInvStep, PTL DEF TSpec

\* Type correctness of the flag and of both transfers.
THEOREM TransferTypeCorrect == TSpec => []TTypeOK
<1>1. TransferInv => TTypeOK
  BY DEF TransferInv
<1> QED
  BY TransferInvAlways, <1>1, PTL

\* One stop ends at most one transfer.
THEOREM StopsCountOnce == TSpec => []StopAccounting
<1>1. TransferInv => StopAccounting
  BY DEF TransferInv
<1> QED
  BY TransferInvAlways, <1>1, PTL

\* A transfer that the flag ended reports no success.
THEOREM StoppedTransfersFail == TSpec => []StoppedTransferFails
<1>1. TransferInv => StoppedTransferFails
  BY DEF TransferInv, DownloadInv, UploadInv, StoppedTransferFails
<1> QED
  BY TransferInvAlways, <1>1, PTL

\* ERROR_SUCCESS leaves the body of this download under the name.
THEOREM SuccessIsComplete == TSpec => []SuccessLeavesBody
<1>1. TransferInv => SuccessLeavesBody
  BY DEF TransferInv, DownloadInv, SuccessLeavesBody
<1> QED
  BY TransferInvAlways, <1>1, PTL

\* A download that failed after truncating the file leaves none.
THEOREM FailureIsClean == TSpec => []FailureLeavesNoFile
<1>1. TransferInv => FailureLeavesNoFile
  BY DEF TransferInv, DownloadInv, FailureLeavesNoFile
<1> QED
  BY TransferInvAlways, <1>1, PTL

\* The reported position is what the file holds.
THEOREM ProgressIsTrue == TSpec => []ProgressIsFileSize
<1>1. TransferInv => ProgressIsFileSize
  BY DEF TransferInv, DownloadInv, ProgressIsFileSize
<1> QED
  BY TransferInvAlways, <1>1, PTL

----------------------------------------------------------------------------
\* The flag, refined.  What one transfer may do to its state s, which becomes
\* t, and to the flag.
TaskMoves(s, t) ==
  \/ t = s /\ stop' = stop
  \/ s = "idle" /\ t = "running" /\ stop' = stop
  \/ s = "running" /\ t = "ended" /\ stop /\ stop' = FALSE
  \/ s # "idle" /\ t = "idle" /\ stop' = stop

\* A download begins where it creates its file, ends by the flag where the
\* write callback refuses, and returns where its answer is judged.
LEMMA DownloadMoves ==
  ASSUME TransferInv, DownloadStep \/ Silence
  PROVE  TaskMoves(InTransfer(dpc, stopped), InTransfer(dpc', stopped'))
<1> USE DEF TransferInv, DownloadInv, InTransfer, TaskMoves, stopVars
<1>1. CASE RefuseDownload \/ StartDownload \/ CannotCreate
  BY <1>1 DEF RefuseDownload, StartDownload, CannotCreate
<1>2. CASE CreateFile
  BY <1>2 DEF CreateFile
<1>3. CASE WriteContent
  BY <1>3 DEF WriteContent, WriteAccepted
<1>4. CASE StopDownload
  BY <1>4 DEF StopDownload, WriteRefused
<1>5. CASE AbortIdle \/ EndDownload
  BY <1>5 DEF AbortIdle, EndDownload
<1>6. CASE CloseFile
  BY <1>6 DEF CloseFile
<1>7. CASE Judge
  BY <1>7 DEF Judge
<1>8. CASE Silence
  BY <1>8 DEF Silence
<1> QED
  BY <1>1, <1>2, <1>3, <1>4, <1>5, <1>6, <1>7, <1>8 DEF DownloadStep

\* The same of an upload.
LEMMA UploadMoves ==
  ASSUME TransferInv, UploadStep
  PROVE  TaskMoves(InTransfer(upc, ustopped), InTransfer(upc', ustopped'))
<1> USE DEF TransferInv, UploadInv, InTransfer, TaskMoves, stopVars
<1>1. CASE StartUpload \/ CannotOpen
  BY <1>1 DEF StartUpload, CannotOpen
<1>2. CASE OpenFile
  BY <1>2 DEF OpenFile
<1>3. CASE ReadContent \/ ReadFails
  BY <1>3 DEF ReadContent, ReadFails
<1>4. CASE ReceiveAnswer
  BY <1>4 DEF ReceiveAnswer, Answering, WriteAccepted
<1>5. CASE StopUpload
  BY <1>5 DEF StopUpload, Answering, WriteRefused
<1>6. CASE EndUpload \/ CloseSource
  BY <1>6 DEF EndUpload, CloseSource
<1>7. CASE JudgeUpload
  BY <1>7 DEF JudgeUpload
<1> QED
  BY <1>1, <1>2, <1>3, <1>4, <1>5, <1>6, <1>7 DEF UploadStep

\* The states of the two transfers, as the flag sees them.
TaskStates == [x \in {"download", "upload"} |->
                 IF x = "download" THEN InTransfer(dpc, stopped)
                                   ELSE InTransfer(upc, ustopped)]

\* A move of the transfer x alone is a step of the abstract flag, or none.
LEMMA OneTaskMoves ==
  ASSUME NEW x \in {"download", "upload"}, NEW s, NEW t,
         s = TaskStates[x], TaskMoves(s, t),
         TaskStates' = [TaskStates EXCEPT ![x] = t]
  PROVE  [Flag!FNext]_(Flag!fvars)
<1> USE DEF TaskStates, Flag!fvars, Flag!FNext
<1>1. CASE t = s /\ stop' = stop
  <2>1. TaskStates' = TaskStates
    BY <1>1
  <2> QED
    BY <1>1, <2>1
<1>2. CASE s = "idle" /\ t = "running" /\ stop' = stop
  BY <1>2 DEF Flag!Begin
<1>3. CASE s = "running" /\ t = "ended" /\ stop /\ stop' = FALSE
  BY <1>3 DEF Flag!EndOne
<1>4. CASE s # "idle" /\ t = "idle" /\ stop' = stop
  BY <1>4 DEF Flag!Return
<1> QED
  BY <1>1, <1>2, <1>3, <1>4 DEF TaskMoves

\* A step of the transfers or of the host is a step of the abstract flag.
LEMMA FlagStep == TransferInv /\ [TNext]_tvars => [Flag!FNext]_(Flag!fvars)
<1> SUFFICES ASSUME TransferInv, [TNext]_tvars PROVE [Flag!FNext]_(Flag!fvars)
  OBVIOUS
<1>1. CASE (DownloadStep \/ Silence) /\ UNCHANGED uvars
  <2>1. UNCHANGED <<upc, ustopped>>
    BY <1>1 DEF uvars
  <2>2. TaskStates["download"] = InTransfer(dpc, stopped)
    BY DEF TaskStates
  <2>3. TaskStates' = [TaskStates EXCEPT !["download"] = InTransfer(dpc', stopped')]
    BY <2>1 DEF TaskStates, InTransfer
  <2> QED
    BY <1>1, <2>2, <2>3, DownloadMoves, OneTaskMoves
<1>2. CASE UploadStep /\ UNCHANGED dvars
  <2>1. UNCHANGED <<dpc, stopped>>
    BY <1>2 DEF dvars
  <2>2. TaskStates["upload"] = InTransfer(upc, ustopped)
    BY DEF TaskStates
  <2>3. TaskStates' = [TaskStates EXCEPT !["upload"] = InTransfer(upc', ustopped')]
    BY <2>1 DEF TaskStates, InTransfer
  <2> QED
    BY <1>2, <2>2, <2>3, UploadMoves, OneTaskMoves
<1>3. CASE (AskStop \/ UNCHANGED stopVars) /\ UNCHANGED <<dvars, uvars>>
  <2>1. TaskStates' = TaskStates
    BY <1>3 DEF dvars, uvars, TaskStates, InTransfer
  <2>2. CASE AskStop
    BY <2>1, <2>2 DEF AskStop, TaskStates, Flag!FNext, Flag!Ask
  <2>3. CASE UNCHANGED stopVars
    BY <2>1, <2>3 DEF stopVars, TaskStates, Flag!fvars
  <2> QED
    BY <1>3, <2>2, <2>3
<1> QED
  BY <1>1, <1>2, <1>3 DEF TNext, tvars

\* The flag of the library, with a download and an upload racing for it, is the
\* flag that StopFlag describes.
THEOREM StopFlagIsImplemented == TSpec => StopEndsOneTransfer
<1>1. TInit => Flag!FInit
  BY DEF TInit, StopInit, DInit, UInit, InTransfer, Flag!FInit
<1> QED
  BY <1>1, FlagStep, TransferInvAlways, PTL
     DEF TSpec, StopEndsOneTransfer, Flag!FSpec

----------------------------------------------------------------------------
\* The delivery, refined.  Steps that leave what the host sees are stutters.
LEMMA DeliveryStutters ==
  ASSUME UNCHANGED dvars
  PROVE  UNCHANGED Delivery!evars
BY DEF dvars, Delivery!evars, Phase, NameHolds, Outcome

\* What a new call finds under the name is what the last one left there.
LEMMA KeptIsEarlier ==
  ASSUME DTypeOK, dpc = "idle", file' = Kept
  PROVE  NameHolds' = Delivery!Earlier
<1>1. CASE file.of = "nobody"
  BY <1>1 DEF Kept, NameHolds, Delivery!Earlier
<1>2. CASE file.of = "earlier"
  BY <1>2 DEF Kept, NameHolds, Delivery!Earlier
<1>3. CASE file.of = "current"
  BY <1>3 DEF Kept, OldFile, NameHolds, Delivery!Earlier
<1> QED
  BY <1>1, <1>2, <1>3 DEF DTypeOK

\* A step of a download is a step of FileDelivery, or none.
LEMMA DeliveryStep ==
  ASSUME TransferInv, DownloadStep \/ Silence
  PROVE  [Delivery!ENext]_(Delivery!evars)
<1> USE DEF Delivery!ENext, Delivery!evars
<1>0. DTypeOK /\ DownloadInv
  BY DEF TransferInv, TTypeOK
<1>1. CASE RefuseDownload
  <2>1. NameHolds' = Delivery!Earlier
    BY <1>0, <1>1, KeptIsEarlier DEF RefuseDownload
  <2> QED
    BY <1>1, <2>1 DEF RefuseDownload, Phase, Outcome, Delivery!Refuse
<1>2. CASE StartDownload
  <2>1. NameHolds' = Delivery!Earlier
    BY <1>0, <1>2, KeptIsEarlier DEF StartDownload
  <2> QED
    BY <1>2, <2>1 DEF StartDownload, Phase, Outcome, Delivery!Request
<1>3. CASE CannotCreate
  <2>1. NameHolds' = NameHolds
    BY <1>0, <1>3 DEF CannotCreate, DownloadInv, NameHolds
  <2> QED
    BY <1>3, <2>1 DEF CannotCreate, Phase, Outcome, Delivery!CannotOpen
<1>4. CASE CreateFile
  <2>1. NameHolds' = "part"
    BY <1>4 DEF CreateFile, NameHolds
  <2> QED
    BY <1>4, <2>1 DEF CreateFile, Phase, Outcome, Delivery!Truncate
<1>5. CASE WriteContent
  <2>1. file.of = "current" /\ file'.of = "current" /\ dpc = "performing" /\ dpc' = dpc
    BY <1>0, <1>5 DEF WriteContent, DownloadInv, DTypeOK
  <2>2. NameHolds' = NameHolds
    BY <2>1 DEF NameHolds
  <2>3. Phase = "writing" /\ Phase' = Phase /\ Outcome' = Outcome
    BY <1>5 DEF WriteContent, Phase, Outcome
  <2>4. lost' = TRUE \/ lost' = lost
    BY <1>0, <1>5 DEF WriteContent, DTypeOK
  <2> QED
    BY <2>2, <2>3, <2>4 DEF Delivery!Lose
<1>6. CASE StopDownload \/ AbortIdle \/ EndDownload \/ CloseFile \/ Silence
  <2>1. /\ file' = file /\ body' = body /\ lost' = lost /\ result' = result
        /\ dpc \in {"performing", "close"} /\ dpc' \in {"performing", "close", "judge"}
    BY <1>6 DEF StopDownload, AbortIdle, EndDownload, CloseFile, Silence
  <2> QED
    BY <2>1 DEF Phase, NameHolds, Outcome
<1>7. CASE Judge
  <2>1. /\ dpc = "judge" /\ dpc' = "idle" /\ lost' = lost /\ body' = body
        /\ file.of = "current" /\ lost \in BOOLEAN
    BY <1>0, <1>7 DEF Judge, DownloadInv, DTypeOK
  <2>2. CASE code = "CURLE_OK" /\ ok200
    <3>1. file' = file /\ result' = "ERROR_SUCCESS"
      BY <1>7, <2>2 DEF Judge
    <3>2. file.size = body \/ lost
      BY <1>0, <2>1, <2>2 DEF DownloadInv
    <3>3. NameHolds' = IF file.size = body THEN "whole" ELSE "part"
      BY <2>1, <3>1 DEF NameHolds
    <3>4. Phase = "writing" /\ Phase' = "idle" /\ Outcome' = "success"
      BY <2>1, <3>1 DEF Phase, Outcome
    <3> QED
      BY <2>1, <3>2, <3>3, <3>4 DEF Delivery!Succeed
  <2>3. CASE ~(code = "CURLE_OK" /\ ok200)
    <3>1. file' = NoFile
      BY <1>7, <2>3 DEF Judge
    <3>2. result' \in Failures
      BY <1>0, <1>7, <2>3 DEF Judge, Failures, DTypeOK
    <3>3. Outcome' = "failed"
      BY <3>2 DEF Outcome, Failures
    <3>4. NameHolds' = "nothing"
      BY <3>1 DEF NameHolds, NoFile
    <3> QED
      BY <2>1, <3>3, <3>4 DEF Phase, Delivery!Fail
  <2> QED
    BY <2>2, <2>3
<1> QED
  BY <1>1, <1>2, <1>3, <1>4, <1>5, <1>6, <1>7 DEF DownloadStep

\* Downloads deliver their file as FileDelivery promises, whatever uploads and
\* stops do meanwhile.
THEOREM DeliveryIsImplemented == TSpec => DeliversFile
<1>1. TInit => Delivery!EInit
  <2> SUFFICES ASSUME TInit PROVE Delivery!EInit
    OBVIOUS
  <2>1. dpc = "idle" /\ lost = FALSE /\ result = "none" /\ file \in {NoFile, OldFile}
    BY DEF TInit, DInit
  <2>2. Phase = "idle" /\ Outcome = "none"
    BY <2>1 DEF Phase, Outcome
  <2>3. NameHolds \in {"nothing", "earlier"}
    BY <2>1 DEF NoFile, OldFile, NameHolds
  <2> QED
    BY <2>1, <2>2, <2>3 DEF Delivery!EInit
<1>2. TransferInv /\ [TNext]_tvars => [Delivery!ENext]_(Delivery!evars)
  BY DeliveryStep, DeliveryStutters DEF TNext, tvars
<1> QED
  BY <1>1, <1>2, TransferInvAlways, PTL DEF TSpec, DeliversFile, Delivery!ESpec
=============================================================================
