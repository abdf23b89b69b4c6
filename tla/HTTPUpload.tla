----------------------------- MODULE HTTPUpload -----------------------------
(***************************************************************************)
(* CHTTPUpload::httpFilePost: one file is posted at a time; libcurl reads  *)
(* it through the read callback and passes the answer to the write         *)
(* callback, which shares the stop flag with the downloads.                *)
(***************************************************************************)
EXTENDS HTTPCallbacks, Integers

CONSTANTS
  MaxFile,   \* bound: units in the source file, and in the answer
  Uploads    \* bound: uploads that are started

ASSUME UploadAssumption == MaxFile \in Nat /\ Uploads \in Nat

\* What httpFilePost hands back.  "CURLcode" is a positive libcurl error code.
UploadResults == {"none", "ERROR_CREATE_FILE", "ERROR_CURL_TIMEOUT",
                  "ERROR_USER_ABORT", "CURLcode", "status", "ERROR_SUCCESS"}
UploadCodes == {"CURLE_OK", "CURLE_OPERATION_TIMEDOUT", "CURLE_ABORTED_BY_CALLBACK", "other"}

VARIABLES
  upc,        \* "idle", "open", "performing", "close" or "judge"
  srcFile,    \* m_hPostSrcFile is an open file
  size,       \* CURLOPT_POSTFIELDSIZE_LARGE
  pos,        \* units the read callback has handed out
  answer,     \* units of the answer that are still to come
  uok200,     \* the status of the answer is 200
  ucode,      \* what curl_easy_perform returned
  uresult,    \* what the last upload returned
  ustopped,   \* the stop flag ended the last upload
  uleft       \* uploads that may still be started

uvars == <<upc, srcFile, size, pos, answer, uok200, ucode, uresult, ustopped, uleft>>

UTypeOK ==
  /\ upc \in {"idle", "open", "performing", "close", "judge"}
  /\ srcFile \in BOOLEAN /\ uok200 \in BOOLEAN /\ ustopped \in BOOLEAN
  /\ size \in 0..MaxFile /\ pos \in 0..MaxFile /\ answer \in 0..MaxFile
  /\ ucode \in UploadCodes /\ uresult \in UploadResults /\ uleft \in 0..Uploads

UInit ==
  /\ upc = "idle" /\ srcFile = FALSE /\ size = 0 /\ pos = 0 /\ answer = 0
  /\ uok200 = TRUE /\ ucode = "CURLE_OK" /\ uresult = "none"
  /\ ustopped = FALSE /\ uleft = Uploads

StartUpload ==
  /\ upc = "idle" /\ uleft > 0
  /\ upc' = "open" /\ uleft' = uleft - 1
  /\ uresult' = "none" /\ ustopped' = FALSE
  /\ UNCHANGED <<stopVars, srcFile, size, pos, answer, uok200, ucode>>

CannotOpen ==
  /\ upc = "open"
  /\ upc' = "idle" /\ uresult' = "ERROR_CREATE_FILE"
  /\ UNCHANGED <<stopVars, srcFile, size, pos, answer, uok200, ucode, ustopped, uleft>>

\* The file size becomes the length of the post.
OpenFile ==
  /\ upc = "open"
  /\ upc' = "performing" /\ srcFile' = TRUE
  /\ size' \in 0..MaxFile /\ pos' = 0
  /\ answer' \in 0..MaxFile /\ uok200' \in BOOLEAN
  /\ UNCHANGED <<stopVars, ucode, uresult, ustopped, uleft>>

ReadContent ==
  /\ upc = "performing" /\ pos < size
  /\ pos' = pos + 1
  /\ UNCHANGED <<stopVars, upc, srcFile, size, answer, uok200, ucode, uresult,
                 ustopped, uleft>>

\* ReadFile fails: CURL_READFUNC_ABORT.
ReadFails ==
  /\ upc = "performing" /\ pos < size
  /\ upc' = "close" /\ ucode' = "CURLE_ABORTED_BY_CALLBACK"
  /\ UNCHANGED <<stopVars, srcFile, size, pos, answer, uok200, uresult, ustopped, uleft>>

\* The answer follows the file, or precedes its end when the server refuses it.
Answering == upc = "performing" /\ answer > 0 /\ (pos = size \/ ~uok200)

ReceiveAnswer ==
  /\ Answering
  /\ WriteAccepted
  /\ answer' = answer - 1
  /\ UNCHANGED <<upc, srcFile, size, pos, uok200, ucode, uresult, ustopped, uleft>>

StopUpload ==
  /\ Answering
  /\ WriteRefused
  /\ upc' = "close" /\ ucode' = "other" /\ ustopped' = TRUE
  /\ UNCHANGED <<srcFile, size, pos, answer, uok200, uresult, uleft>>

EndUpload ==
  /\ upc = "performing"
  /\ ucode' \in {"CURLE_OK", "CURLE_OPERATION_TIMEDOUT", "other"}
  /\ ucode' = "CURLE_OK" => answer = 0 /\ (pos = size \/ ~uok200)
  /\ upc' = "close"
  /\ UNCHANGED <<stopVars, srcFile, size, pos, answer, uok200, uresult, ustopped, uleft>>

CloseSource ==
  /\ upc = "close"
  /\ upc' = "judge" /\ srcFile' = FALSE
  /\ UNCHANGED <<stopVars, size, pos, answer, uok200, ucode, uresult, ustopped, uleft>>

JudgeUpload ==
  /\ upc = "judge"
  /\ upc' = "idle"
  /\ uresult' = CASE ucode = "CURLE_OK" /\ uok200 -> "ERROR_SUCCESS"
                  [] ucode = "CURLE_OK" /\ ~uok200 -> "status"
                  [] ucode = "CURLE_OPERATION_TIMEDOUT" -> "ERROR_CURL_TIMEOUT"
                  [] ucode = "CURLE_ABORTED_BY_CALLBACK" -> "ERROR_USER_ABORT"
                  [] OTHER -> "CURLcode"
  /\ UNCHANGED <<stopVars, srcFile, size, pos, answer, uok200, ucode, ustopped, uleft>>

UploadStep == StartUpload \/ CannotOpen \/ OpenFile \/ ReadContent \/ ReadFails
                \/ ReceiveAnswer \/ StopUpload \/ EndUpload \/ CloseSource
                \/ JudgeUpload

----------------------------------------------------------------------------
\* LIBHTTPUpload takes a negative result for a failure; the log of httpFilePost
\* says "return -1" for a transfer that libcurl could not complete.
FailedUploadIsNegative == upc = "idle" => uresult # "CURLcode"
=============================================================================
