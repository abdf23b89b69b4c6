--------------------------- MODULE FileTransfers ---------------------------
(***************************************************************************)
(* A download and an upload side by side: they hold different call         *)
(* mutexes and meet only in the write callback and its stop flag.          *)
(***************************************************************************)
EXTENDS HTTPDownload, HTTPUpload

tvars == <<stopVars, dvars, uvars>>

TInit == StopInit /\ DInit /\ UInit

TNext == \/ (DownloadStep \/ Silence) /\ UNCHANGED uvars
         \/ UploadStep /\ UNCHANGED dvars
         \/ AskStop /\ UNCHANGED <<dvars, uvars>>

TSpec == TInit /\ [][TNext]_tvars

\* Nothing is assumed of an upload: httpFilePost bounds the connection only.
\* A download runs to its end whatever the upload does.
TFairSpec ==
  /\ TSpec
  /\ WF_tvars((CreateFile \/ CannotCreate) /\ UNCHANGED uvars)
  /\ WF_tvars((Silence \/ AbortIdle) /\ UNCHANGED uvars)
  /\ WF_tvars((CloseFile \/ Judge) /\ UNCHANGED uvars)

TTypeOK == StopTypeOK /\ DTypeOK /\ UTypeOK

\* However downloads and uploads race for the flag, the transfers it has ended
\* and the stop that is still pending are at most the stops asked for: no stop
\* counts twice.
StopAccounting == victims + (IF stop THEN 1 ELSE 0) <= stops

\* Where the flag finds a transfer that is at p, and that it has ended or not.
InTransfer(p, ended) ==
  IF p \notin {"performing", "close", "judge"} THEN "idle"
  ELSE IF ended THEN "ended" ELSE "running"

Flag == INSTANCE StopFlag
  WITH Tasks <- {"download", "upload"}, pending <- stop,
       state <- [x \in {"download", "upload"} |->
                   IF x = "download" THEN InTransfer(dpc, stopped)
                                     ELSE InTransfer(upc, ustopped)]

\* A stop ends one transfer that is running when it does, a download or an
\* upload, and nothing else lowers the flag: not a refused download, and not
\* one that ends by itself.
StopEndsOneTransfer == Flag!FSpec

\* A transfer that the flag ended, of either kind, reports no success.
StoppedTransferFails ==
  /\ dpc = "idle" /\ stopped => result # "ERROR_SUCCESS"
  /\ upc = "idle" /\ ustopped => uresult # "ERROR_SUCCESS"
=============================================================================
