---------------------------- MODULE HTTPDownload ----------------------------
(***************************************************************************)
(* CHTTPDownload::httpDownload: one transfer at a time (the download mutex *)
(* sees to it) into one local file, with the callbacks libcurl makes while *)
(* it performs.  The body arrives in chunks of one unit, and time passes   *)
(* in units of which IdleLimit make the fifteen minutes of the code.       *)
(***************************************************************************)
EXTENDS HTTPCallbacks, Integers

CONSTANTS
  MaxBody,     \* bound: units in a body
  IdleLimit,   \* 60 * 15 seconds without a byte
  Downloads    \* bound: downloads that are started

ASSUME DownloadAssumption ==
  MaxBody \in Nat /\ IdleLimit \in Nat /\ Downloads \in Nat

\* What LIBHTTPDownload2 hands back: NULL, the named errors, the HTTP status.
Failures == {"ERROR_HTTP_HOST", "ERROR_USER_ABORT", "ERROR_CURL_TIMEOUT", "status"}
Results  == Failures \cup {"none", "NULL", "ERROR_CREATE_FILE", "ERROR_SUCCESS"}

\* How curl_easy_perform ends.
Codes == {"CURLE_OK", "CURLE_OPERATION_TIMEDOUT", "CURLE_ABORTED_BY_CALLBACK", "other"}

VARIABLES
  dpc,        \* "idle", "create", "performing", "close" or "judge"
  storeFile,  \* m_lpStoreFile is an open file
  file,       \* the local file: whose content it has, and how much of it
  ok200,      \* the status of the answer is 200
  body,       \* units in the body
  sent,       \* units libcurl has handed to the write callback
  now,        \* m_i64DownloadNow, which progressFn reports
  idle,       \* time since m_tmLastDownloadTranslate
  lost,       \* a WriteFile of this download wrote less than it was given
  code,       \* what curl_easy_perform returned
  result,     \* what the last download returned
  stopped,    \* the stop flag ended the last download
  left        \* downloads that may still be started

dvars == <<dpc, storeFile, file, ok200, body, sent, now, idle, lost, code,
           result, stopped, left>>

NoFile  == [of |-> "nobody", size |-> 0]
OldFile == [of |-> "earlier", size |-> 0]

DTypeOK ==
  /\ dpc \in {"idle", "create", "performing", "close", "judge"}
  /\ storeFile \in BOOLEAN /\ ok200 \in BOOLEAN /\ lost \in BOOLEAN
  /\ stopped \in BOOLEAN
  /\ file \in [of : {"nobody", "earlier", "current"}, size : 0..MaxBody]
  /\ body \in 0..MaxBody /\ sent \in 0..MaxBody /\ now \in 0..MaxBody
  /\ idle \in 0..IdleLimit + 1
  /\ code \in Codes /\ result \in Results /\ left \in 0..Downloads

DInit ==
  /\ dpc = "idle" /\ storeFile = FALSE /\ file \in {NoFile, OldFile}
  /\ ok200 = TRUE /\ body = 0 /\ sent = 0 /\ now = 0 /\ idle = 0
  /\ lost = FALSE /\ code = "CURLE_OK" /\ result = "none" /\ stopped = FALSE
  /\ left = Downloads

\* A new call finds what the one before it left under the name.
Kept == IF file.of = "current" THEN OldFile ELSE file

\* Mutant: the refused download uses the stop up.
RefuseDownloadLowersFlag ==
  /\ dpc = "idle" /\ left > 0 /\ stop
  /\ stop' = FALSE
  /\ result' = "NULL" /\ stopped' = FALSE /\ left' = left - 1
  /\ file' = Kept
  /\ UNCHANGED <<stops, victims, dpc, storeFile, ok200, body, sent, now, idle,
                 lost, code>>

\* LIBHTTPDownload2 returns NULL while the flag is up.
RefuseDownload ==
  /\ dpc = "idle" /\ left > 0 /\ stop
  /\ result' = "NULL" /\ stopped' = FALSE /\ left' = left - 1
  /\ file' = Kept
  /\ UNCHANGED <<stopVars, dpc, storeFile, ok200, body, sent, now, idle,
                 lost, code>>

StartDownload ==
  /\ dpc = "idle" /\ left > 0 /\ ~stop
  /\ dpc' = "create" /\ left' = left - 1
  /\ result' = "none" /\ stopped' = FALSE /\ lost' = FALSE /\ idle' = 0
  /\ file' = Kept
  /\ UNCHANGED <<stopVars, storeFile, ok200, body, sent, now, code>>

\* Mutant: the name is cleaned up on every failure.
CannotCreateDeletes ==
  /\ dpc = "create"
  /\ dpc' = "idle" /\ result' = "ERROR_CREATE_FILE" /\ file' = NoFile
  /\ UNCHANGED <<stopVars, storeFile, ok200, body, sent, now, idle, lost,
                 code, stopped, left>>

CannotCreate ==
  /\ dpc = "create"
  /\ dpc' = "idle" /\ result' = "ERROR_CREATE_FILE"
  /\ UNCHANGED <<stopVars, storeFile, file, ok200, body, sent, now, idle, lost,
                 code, stopped, left>>

\* Mutant: OPEN_ALWAYS.
CreateFileOpens ==
  /\ dpc = "create"
  /\ dpc' = "performing" /\ storeFile' = TRUE
  /\ file' = IF file = NoFile THEN [of |-> "current", size |-> 0] ELSE file
  /\ ok200' \in BOOLEAN /\ body' \in 0..MaxBody
  /\ sent' = 0 /\ now' = 0
  /\ UNCHANGED <<stopVars, idle, lost, code, result, stopped, left>>

\* CREATE_ALWAYS truncates what is there; the server then decides the answer.
CreateFile ==
  /\ dpc = "create"
  /\ dpc' = "performing" /\ storeFile' = TRUE
  /\ file' = [of |-> "current", size |-> 0]
  /\ ok200' \in BOOLEAN /\ body' \in 0..MaxBody
  /\ sent' = 0 /\ now' = 0
  /\ UNCHANGED <<stopVars, idle, lost, code, result, stopped, left>>

\* Mutant: nSize is reported, not what WriteFile wrote.
WriteContentReportsSize ==
  /\ dpc = "performing" /\ sent < body
  /\ WriteAccepted
  /\ sent' = sent + 1 /\ idle' = 0 /\ now' = now + 1
  /\ \E written \in {0, 1} :
       /\ file' = [file EXCEPT !.size = @ + written]
       /\ lost' = (lost \/ written = 0)
  /\ UNCHANGED <<dpc, storeFile, ok200, body, code, result, stopped, left>>

\* onHTTPResponseContent: WriteFile may write the unit or, on a full disk,
\* nothing; its result is not looked at.
WriteContent ==
  /\ dpc = "performing" /\ sent < body
  /\ WriteAccepted
  /\ sent' = sent + 1 /\ idle' = 0
  /\ \E written \in {0, 1} :
       /\ file' = [file EXCEPT !.size = @ + written]
       /\ now' = now + written
       /\ lost' = (lost \/ written = 0)
  /\ UNCHANGED <<dpc, storeFile, ok200, body, code, result, stopped, left>>

\* Mutant: the callback lowers the flag but returns the size of the bytes.
StopDownloadGoesOn ==
  /\ dpc = "performing" /\ sent < body
  /\ WriteRefused
  /\ sent' = sent + 1 /\ stopped' = TRUE
  /\ UNCHANGED <<dpc, storeFile, file, ok200, body, now, idle, lost, code, result, left>>

\* The callback returns 0, which libcurl takes as a write error.
StopDownload ==
  /\ dpc = "performing" /\ sent < body
  /\ WriteRefused
  /\ dpc' = "close" /\ code' = "other" /\ stopped' = TRUE
  /\ UNCHANGED <<storeFile, file, ok200, body, sent, now, idle, lost, result, left>>

\* Mutant: the time counts from the first byte on.
AbortIdleOnceStarted ==
  /\ dpc = "performing" /\ idle > IdleLimit /\ sent > 0
  /\ dpc' = "close" /\ code' = "CURLE_ABORTED_BY_CALLBACK"
  /\ UNCHANGED <<stopVars, storeFile, file, ok200, body, sent, now, idle, lost,
                 result, stopped, left>>

\* onHTTPDownloadProgress gives up after the idle limit.
AbortIdle ==
  /\ dpc = "performing" /\ idle > IdleLimit
  /\ dpc' = "close" /\ code' = "CURLE_ABORTED_BY_CALLBACK"
  /\ UNCHANGED <<stopVars, storeFile, file, ok200, body, sent, now, idle, lost,
                 result, stopped, left>>

\* The whole body is there and the transfer is complete, or the connection fails.
EndDownload ==
  /\ dpc = "performing"
  /\ code' \in {"CURLE_OK", "CURLE_OPERATION_TIMEDOUT", "other"}
  /\ code' = "CURLE_OK" => sent = body
  /\ dpc' = "close"
  /\ UNCHANGED <<stopVars, storeFile, file, ok200, body, sent, now, idle, lost,
                 result, stopped, left>>

CloseFile ==
  /\ dpc = "close"
  /\ dpc' = "judge" /\ storeFile' = FALSE
  /\ UNCHANGED <<stopVars, file, ok200, body, sent, now, idle, lost, code,
                 result, stopped, left>>

\* Mutant: the page of an error status stays in the file.
JudgeKeepsErrorPage ==
  /\ dpc = "judge"
  /\ dpc' = "idle"
  /\ result' = CASE code = "CURLE_OK" /\ ok200 -> "ERROR_SUCCESS"
                 [] code = "CURLE_OK" /\ ~ok200 -> "status"
                 [] code = "CURLE_OPERATION_TIMEDOUT" -> "ERROR_CURL_TIMEOUT"
                 [] code = "CURLE_ABORTED_BY_CALLBACK" -> "ERROR_USER_ABORT"
                 [] OTHER -> "ERROR_HTTP_HOST"
  /\ file' = IF code = "CURLE_OK" THEN file ELSE NoFile
  /\ UNCHANGED <<stopVars, storeFile, ok200, body, sent, now, idle, lost, code,
                 stopped, left>>

\* The answer is judged: anything but a 200 that arrived deletes the file.
Judge ==
  /\ dpc = "judge"
  /\ dpc' = "idle"
  /\ result' = CASE code = "CURLE_OK" /\ ok200 -> "ERROR_SUCCESS"
                 [] code = "CURLE_OK" /\ ~ok200 -> "status"
                 [] code = "CURLE_OPERATION_TIMEDOUT" -> "ERROR_CURL_TIMEOUT"
                 [] code = "CURLE_ABORTED_BY_CALLBACK" -> "ERROR_USER_ABORT"
                 [] OTHER -> "ERROR_HTTP_HOST"
  /\ file' = IF code = "CURLE_OK" /\ ok200 THEN file ELSE NoFile
  /\ UNCHANGED <<stopVars, storeFile, ok200, body, sent, now, idle, lost, code,
                 stopped, left>>

\* No bytes for one unit of time; libcurl asks the progress callback in between.
Silence ==
  /\ dpc = "performing" /\ idle <= IdleLimit
  /\ idle' = idle + 1
  /\ UNCHANGED <<stopVars, dpc, storeFile, file, ok200, body, sent, now, lost,
                 code, result, stopped, left>>

DownloadStep == RefuseDownload \/ StartDownload \/ CannotCreate \/ CreateFile
                  \/ WriteContent \/ StopDownload \/ AbortIdle \/ EndDownload
                  \/ CloseFile \/ Judge

----------------------------------------------------------------------------
\* ERROR_SUCCESS leaves the whole body in the file, or the disk lost a part of
\* it unnoticed; a file that an earlier download left does not shine through.
SuccessLeavesBody ==
  dpc = "idle" /\ result = "ERROR_SUCCESS" =>
    /\ file.of = "current"
    /\ file.size = body \/ lost

\* A download that fails after it truncated the file leaves none behind: the
\* host never finds a partial or an error page under the name it asked for.
FailureLeavesNoFile ==
  dpc = "idle" /\ file.of = "current" => result = "ERROR_SUCCESS"

\* The position that the progressFn of a download reports is what the file holds, also after
\* short writes and repeated downloads with the same statics.
ProgressIsFileSize ==
  dpc \in {"performing", "close"} => now = file.size

\* What the host sees of a download: how far it is, what its name holds and how
\* the last one ended.
Phase == IF dpc = "idle" THEN "idle" ELSE IF dpc = "create" THEN "asked" ELSE "writing"

NameHolds ==
  CASE file.of = "nobody"  -> "nothing"
    [] file.of = "earlier" -> "earlier"
    [] file.of = "current" -> IF dpc = "idle" /\ file.size = body THEN "whole" ELSE "part"

Outcome ==
  CASE result = "none"          -> "none"
    [] result = "NULL"          -> "refused"
    [] result = "ERROR_SUCCESS" -> "success"
    [] OTHER                    -> "failed"

Delivery == INSTANCE FileDelivery
  WITH phase <- Phase, name <- NameHolds, lossy <- lost, outcome <- Outcome

\* Through any number of downloads to one name, refused, stopped, silent, short
\* and failed ones among them, the host finds under the name what FileDelivery
\* promises for the result it was given.
DeliversFile == Delivery!ESpec

\* Every download returns, the one whose server falls silent too.
DownloadReturns == dpc # "idle" ~> dpc = "idle"

=============================================================================
