------------------------------ MODULE LibHTTP ------------------------------
(***************************************************************************)
(* The former library, src/libhttp/libhttp: its exported calls on the      *)
(* threads of a host, built with the WinINet backend (USE_WININET), and    *)
(* httpFilePost, which uses libcurl in every build.  Each call has an      *)
(* object of its own, so m_gRequestMutex, a member, excludes nobody; the   *)
(* calls share the flag m_gHttpContinue and the names of the local files.  *)
(*                                                                         *)
(* A step ends where another thread can interfere: at the flag, at a file  *)
(* name and at a call into WinINet or libcurl that may take time.          *)
(***************************************************************************)
EXTENDS Integers

CONSTANTS
  Threads,   \* the threads of the host process
  Names,     \* the file names it passes
  Absent,    \* the owner of a name that has no file
  Host,      \* the owner of a file that the host put there itself
  Full,      \* MAX_READONCE_SIZE, in units of content
  Block,     \* the block that libcurl asks the read callback for, likewise
  MaxBody,   \* bound: up to here the content of a transfer is counted
  MaxCalls   \* bound: calls per thread

Kinds == {"httpRequest", "httpDownloader", "httpFileUploader", "httpFilePost"}

ASSUME OwnersAssumption == Absent \notin Threads /\ Host \notin Threads /\ Host # Absent
ASSUME SizesAssumption  ==
  Full \in Nat \ {0} /\ Block \in Nat \ {0} /\ MaxBody \in Nat /\ MaxCalls \in Nat

\* What a call can have open: the WinINet session and its two handles, the
\* handle of libcurl, the local file.
Handles == {"session", "connect", "request", "curl", "file"}

OpenErrors == {"ERROR_REQUEST_PARAM", "ERROR_CURL_TIMEOUT", "ERROR_HTTP_HOST"}
SendErrors == {"ERROR_CURL_TIMEOUT", "ERROR_HTTP_HOST"}
Results == OpenErrors \cup
           {"none", "ERROR_SUCCESS", "ERROR_CREATE_FILE", "ERROR_USER_ABORT",
            "ERROR_CURL_LIB", "ERROR_WININET_LIB", "ERROR_RESPONSE_EMPTY"}

PCs == {"idle", "entered", "file", "open", "delete", "start", "loop", "read",
        "perform", "close", "return"}

VARIABLES
  go,      \* INetCore::m_gHttpContinue
  file,    \* [Names -> who made the file of that name, or Absent]
  pc,      \* where each thread stands
  kind,    \* the call it is in, or was in last
  name,    \* szFileName of that call
  open,    \* the handles it has open
  size,    \* the size of the source file of an upload
  fill,    \* bytes of pReadedBuffer before its first zero
  got,     \* content of the response received, or of the file read
  out,     \* content appended to the response, or posted
  result,  \* what the call returns
  calls,   \* calls the thread may still make
  seen,    \* observed: what has happened to the call, see Events
  late     \* observed: blocks it moved since the flag went down

fileVars == <<file, name>>
dataVars == <<size, fill, got, out>>
vars == <<go, fileVars, pc, kind, open, dataVars, result, calls, seen, late>>

\* "aborted": abortAllRequest was called during the call; "cut": the flag ended
\* its transfer; "created": it made the local file; "opened": openRequest
\* succeeded; "ended": the content came to its end; "shared": the file could not
\* be deleted because a call reads it; "fields": the post sends its parameters
\* instead of the file.
Events == {"aborted", "cut", "created", "opened", "ended", "shared", "fields"}

Downloads(t) == kind[t] = "httpDownloader"
Receives(t)  == kind[t] \in {"httpRequest", "httpDownloader"}
Submits(t)   == kind[t] = "httpFileUploader"
Posts(t)     == kind[t] = "httpFilePost"

Writers(n) == {t \in Threads : name[t] = n /\ "file" \in open[t] /\ Downloads(t)}
Readers(n) == {t \in Threads : name[t] = n /\ "file" \in open[t] /\ ~Downloads(t)}

LTypeOK ==
  /\ go \in BOOLEAN
  /\ file \in [Names -> Threads \cup {Absent, Host}]
  /\ pc \in [Threads -> PCs]
  /\ kind \in [Threads -> Kinds] /\ name \in [Threads -> Names]
  /\ open \in [Threads -> SUBSET Handles]
  /\ size \in [Threads -> 0..MaxBody] /\ fill \in [Threads -> 0..Full]
  /\ got \in [Threads -> 0..MaxBody] /\ out \in [Threads -> 0..MaxBody]
  /\ result \in [Threads -> Results]
  /\ calls \in [Threads -> 0..MaxCalls]
  /\ seen \in [Threads -> SUBSET Events]
  /\ late \in [Threads -> 0..2]

LInit ==
  /\ go = TRUE
  /\ file = [n \in Names |-> Absent]
  /\ pc = [t \in Threads |-> "idle"]
  /\ kind = [t \in Threads |-> "httpRequest"] /\ name \in [Threads -> Names]
  /\ open = [t \in Threads |-> {}]
  /\ size = [t \in Threads |-> 0] /\ fill = [t \in Threads |-> 0]
  /\ got = [t \in Threads |-> 0] /\ out = [t \in Threads |-> 0]
  /\ result = [t \in Threads |-> "none"]
  /\ calls = [t \in Threads |-> MaxCalls]
  /\ seen = [t \in Threads |-> {}] /\ late = [t \in Threads |-> 0]

----------------------------------------------------------------------------
Goto(t, from, to) == pc[t] = from /\ pc' = [pc EXCEPT ![t] = to]
Opens(t, hs)   == open' = [open EXCEPT ![t] = @ \cup hs]
Closes(t, hs)  == open' = [open EXCEPT ![t] = @ \ hs]
Gives(t, r)    == result' = [result EXCEPT ![t] = r]
Sees(t, es)    == seen' = [seen EXCEPT ![t] = @ \cup es]
Smaller(m, n)  == IF m < n THEN m ELSE n
Larger(m, n)   == IF m < n THEN n ELSE m
Counted(n)     == Smaller(n, MaxBody)

\* One more block was moved by the call.
Late(t) == late' = [late EXCEPT ![t] = IF go THEN 0 ELSE Smaller(@ + 1, 2)]

----------------------------------------------------------------------------
(* LibHTTP.cpp: the exported calls.                                        *)

\* Mutant: the flag is raised where it is defined only.
BeginKeepsFlag(t) ==
  /\ calls[t] > 0 /\ calls' = [calls EXCEPT ![t] = @ - 1]
  /\ Goto(t, "idle", "entered")
  /\ \E k \in Kinds, n \in Names :
       /\ kind' = [kind EXCEPT ![t] = k]
       /\ name' = [name EXCEPT ![t] = n]
  /\ UNCHANGED <<go, file, open, dataVars, result, seen, late>>

\* The first statement of every call raises the flag, whoever lowered it.
Begin(t) ==
  /\ calls[t] > 0 /\ calls' = [calls EXCEPT ![t] = @ - 1]
  /\ Goto(t, "idle", "entered")
  /\ go' = TRUE
  /\ \E k \in Kinds, n \in Names :
       /\ kind' = [kind EXCEPT ![t] = k]
       /\ name' = [name EXCEPT ![t] = n]
  /\ UNCHANGED <<file, open, dataVars, result, seen, late>>

\* A NULL url or file name: only now, and the flag is up.
RefuseParam(t) ==
  /\ Goto(t, "entered", "return")
  /\ Gives(t, "ERROR_REQUEST_PARAM")
  /\ UNCHANGED <<go, fileVars, kind, open, dataVars, calls, seen, late>>

\* The object is constructed, and with it the session or the CURL handle.
Construct(t) ==
  /\ Goto(t, "entered", IF kind[t] = "httpRequest" THEN "open" ELSE "file")
  /\ Opens(t, IF Posts(t) THEN {"curl"} ELSE {"session"})
  /\ UNCHANGED <<go, fileVars, kind, dataVars, result, calls, seen, late>>

NoBackend(t) ==
  /\ Goto(t, "entered", "return")
  /\ Gives(t, IF Posts(t) THEN "ERROR_CURL_LIB" ELSE "ERROR_WININET_LIB")
  /\ UNCHANGED <<go, fileVars, kind, open, dataVars, calls, seen, late>>

\* abortAllRequest.
AbortAllRequest ==
  /\ go' = FALSE
  /\ seen' = [t \in Threads |-> IF pc[t] = "idle" THEN seen[t] ELSE seen[t] \cup {"aborted"}]
  /\ late' = [t \in Threads |-> IF go THEN 0 ELSE late[t]]
  /\ UNCHANGED <<fileVars, pc, kind, open, dataVars, result, calls>>

----------------------------------------------------------------------------
(* The local file.                                                         *)

\* CREATE_NEW, for writing.
CreateNew(t) ==
  /\ Downloads(t) /\ file[name[t]] = Absent
  /\ Goto(t, "file", "open")
  /\ file' = [file EXCEPT ![name[t]] = t]
  /\ Opens(t, {"file"}) /\ Sees(t, {"created"})
  /\ UNCHANGED <<go, name, kind, dataVars, result, calls, late>>

\* OPEN_EXISTING, for reading beside other readers.  A post with parameters
\* sends these and never reads the file.
OpenSource(t) ==
  /\ ~Downloads(t) /\ file[name[t]] # Absent /\ Writers(name[t]) = {}
  /\ Goto(t, "file", IF Posts(t) THEN "perform" ELSE "open")
  /\ \E n \in 0..MaxBody : size' = [size EXCEPT ![t] = n]
  /\ \/ UNCHANGED seen
     \/ Posts(t) /\ Sees(t, {"fields"})
  /\ Opens(t, {"file"})
  /\ UNCHANGED <<go, fileVars, kind, fill, got, out, result, calls, late>>

\* The name is taken, or missing, or the system refuses; httpFilePost has a
\* code of its own for an empty name.
NoFile(t) ==
  /\ Goto(t, "file", "return")
  /\ \E r \in {"ERROR_CREATE_FILE"} \cup IF Posts(t) THEN {"ERROR_REQUEST_PARAM"} ELSE {} :
       Gives(t, r)
  /\ UNCHANGED <<go, fileVars, kind, open, dataVars, calls, seen, late>>

\* Mutant: the name is deleted while the file is still open.
OpenFailsDeletesFirst(t) ==
  /\ \E r \in OpenErrors : Gives(t, r)
  /\ Goto(t, "open", IF Downloads(t) THEN "delete" ELSE "return")
  /\ open' = [open EXCEPT ![t] = IF Downloads(t) THEN @ ELSE @ \ {"file"}]
  /\ UNCHANGED <<go, fileVars, kind, dataVars, calls, seen, late>>

\* Mutant: InternetConnectA succeeded, and its handle is forgotten.
OpenFailsLeaks(t) ==
  /\ \E r \in OpenErrors : Gives(t, r)
  /\ Goto(t, "open", IF Downloads(t) THEN "delete" ELSE "return")
  /\ open' = [open EXCEPT ![t] = (@ \ {"file"}) \cup {"connect"}]
  /\ UNCHANGED <<go, fileVars, kind, dataVars, calls, seen, late>>

\* openRequest fails and has closed what it opened; the caller closes its file.
OpenFails(t) ==
  /\ \E r \in OpenErrors : Gives(t, r)
  /\ Goto(t, "open", IF Downloads(t) THEN "delete" ELSE "return")
  /\ Closes(t, {"file"})
  /\ UNCHANGED <<go, fileVars, kind, dataVars, calls, seen, late>>

\* DeleteFileA, which fails while any call has the file open; closeRequest.
DeleteFile(t) ==
  /\ Goto(t, "delete", "return")
  /\ IF Readers(name[t]) \cup Writers(name[t]) = {}
     THEN file' = [file EXCEPT ![name[t]] = Absent] /\ UNCHANGED seen
     ELSE /\ UNCHANGED file
          /\ IF Readers(name[t]) = {} THEN UNCHANGED seen ELSE Sees(t, {"shared"})
  /\ Closes(t, {"file", "request", "connect"})
  /\ UNCHANGED <<go, name, kind, dataVars, result, calls, late>>

\* The host adds, replaces or removes a file that no call has open.
HostFile(n) ==
  /\ Readers(n) \cup Writers(n) = {}
  /\ \E o \in {Absent, Host} : file' = [file EXCEPT ![n] = o]
  /\ UNCHANGED <<go, name, pc, kind, open, dataVars, result, calls, seen, late>>

----------------------------------------------------------------------------
(* CWinINetCore: openRequest, startRequest, startSubmitPost, closeRequest. *)

OpenRequest(t) ==
  /\ Goto(t, "open", "start")
  /\ Opens(t, {"connect", "request"})
  /\ Sees(t, {"opened"})
  /\ UNCHANGED <<go, fileVars, kind, dataVars, result, calls, late>>

\* The request is sent, and if it has an answer, that has the status 200.
Start(t) ==
  /\ Goto(t, "start", "loop")
  /\ UNCHANGED <<go, fileVars, kind, open, dataVars, result, calls, seen, late>>

StartFails(t) ==
  /\ Goto(t, "start", "close")
  /\ \E r \in SendErrors : Gives(t, r)
  /\ UNCHANGED <<go, fileVars, kind, open, dataVars, calls, seen, late>>

\* Mutant: the loop does not look at the flag.
ContinueAlways(t) ==
  /\ Goto(t, "loop", "read")
  /\ UNCHANGED <<go, fileVars, kind, open, dataVars, result, calls, seen, late>>

\* while (INetCore::m_gHttpContinue): the flag is read before each block.
Continue(t) ==
  /\ go
  /\ Goto(t, "loop", "read")
  /\ UNCHANGED <<go, fileVars, kind, open, dataVars, result, calls, seen, late>>

\* What the flag cuts is a success.
Cut(t) ==
  /\ ~go
  /\ Goto(t, "loop", "close")
  /\ Gives(t, "ERROR_SUCCESS") /\ Sees(t, {"cut"})
  /\ UNCHANGED <<go, fileVars, kind, open, dataVars, calls, late>>

\* Mutant: the buffer is not cleared when it is allocated.
ReadBlockUncleared(t) ==
  /\ Receives(t)
  /\ Goto(t, "read", "loop")
  /\ IF Downloads(t) THEN UNCHANGED dataVars
     ELSE \E n \in 1..Full :
            /\ fill' = [fill EXCEPT ![t] = Full]
            /\ got' = [got EXCEPT ![t] = Counted(@ + n)]
            /\ out' = [out EXCEPT ![t] = Counted(@ + Full)]
            /\ UNCHANGED size
  /\ Late(t)
  /\ UNCHANGED <<go, fileVars, kind, open, result, calls, seen>>

\* InternetReadFile brings 1 to Full units, and onBodyResponse takes them: a
\* download writes them to its file and tells the host; a request appends the
\* buffer up to its first zero, and there a longer block has left bytes behind.
ReadBlock(t) ==
  /\ Receives(t)
  /\ Goto(t, "read", "loop")
  /\ IF Downloads(t) THEN UNCHANGED dataVars
     ELSE \E n \in 1..Full :
            /\ fill' = [fill EXCEPT ![t] = Larger(@, n)]
            /\ got' = [got EXCEPT ![t] = Counted(@ + n)]
            /\ out' = [out EXCEPT ![t] = Counted(@ + Larger(fill[t], n))]
            /\ UNCHANGED size
  /\ Late(t)
  /\ UNCHANGED <<go, fileVars, kind, open, result, calls, seen>>

ReadEnd(t) ==
  /\ Receives(t)
  /\ Goto(t, "read", "close")
  /\ Gives(t, "ERROR_SUCCESS") /\ Sees(t, {"ended"})
  /\ UNCHANGED <<go, fileVars, kind, open, dataVars, calls, late>>

ReadFails(t) ==
  /\ Receives(t)
  /\ Goto(t, "read", "close")
  /\ Gives(t, "ERROR_HTTP_HOST")
  /\ UNCHANGED <<go, fileVars, kind, open, dataVars, calls, seen, late>>

\* doReadRequest, InternetWriteFile (whose result nobody looks at) and the
\* progress function.
SubmitBlock(t) ==
  /\ Submits(t) /\ got[t] < size[t]
  /\ Goto(t, "read", "loop")
  /\ got' = [got EXCEPT ![t] = @ + Smaller(Full, size[t] - @)]
  /\ Late(t)
  /\ UNCHANGED <<go, fileVars, size, fill, out, kind, open, result, calls, seen>>

\* The file is at its end, or ReadFile fails: nResult is not returned.
SubmitEnd(t) ==
  /\ Submits(t)
  /\ Goto(t, "read", "close")
  /\ \/ got[t] = size[t] /\ Sees(t, {"ended"})
     \/ UNCHANGED seen
  /\ UNCHANGED <<go, fileVars, kind, open, dataVars, result, calls, late>>

----------------------------------------------------------------------------
(* CHTTPUpload::httpFilePost: the callbacks of libcurl, under m_gHttpMutex. *)

ReadCallback(t) == pc[t] = "perform" /\ seen[t] \cap {"fields", "ended"} = {}

\* Mutant: "readed <= size" ends the transfer.
PostReadEndsEarly(t) ==
  /\ ReadCallback(t)
  /\ LET n == Smaller(Block, size[t] - got[t])
     IN  /\ got' = [got EXCEPT ![t] = @ + n]
         /\ IF go THEN Sees(t, {"ended"}) /\ UNCHANGED <<pc, result>>
            ELSE /\ Goto(t, "perform", "close") /\ Sees(t, {"cut"})
                 /\ Gives(t, "ERROR_USER_ABORT")
  /\ UNCHANGED <<go, fileVars, size, fill, out, kind, open, calls, late>>

\* A full block is posted, one that is not full ends the content and is not;
\* with the flag down the callback aborts the transfer.
PostRead(t) ==
  /\ ReadCallback(t)
  /\ LET n == Smaller(Block, size[t] - got[t])
     IN  /\ got' = [got EXCEPT ![t] = @ + n]
         /\ IF go
            THEN /\ out' = [out EXCEPT ![t] = IF n = Block THEN @ + n ELSE @]
                 /\ IF n = Block THEN UNCHANGED seen ELSE Sees(t, {"ended"})
                 /\ UNCHANGED <<pc, result>>
            ELSE /\ Goto(t, "perform", "close") /\ Sees(t, {"cut"})
                 /\ Gives(t, "ERROR_USER_ABORT") /\ UNCHANGED out
  /\ UNCHANGED <<go, fileVars, size, fill, kind, open, calls, late>>

\* ReadFile fails: CURL_READFUNC_ABORT.
PostReadFails(t) ==
  /\ ReadCallback(t)
  /\ Goto(t, "perform", "close")
  /\ Gives(t, "ERROR_USER_ABORT")
  /\ UNCHANGED <<go, fileVars, kind, open, dataVars, calls, seen, late>>

\* The progress callback, which libcurl calls while it waits: -1.
PostProgress(t) ==
  /\ ~go
  /\ Goto(t, "perform", "close")
  /\ Gives(t, "ERROR_USER_ABORT") /\ Sees(t, {"cut"})
  /\ UNCHANGED <<go, fileVars, kind, open, dataVars, calls, late>>

\* curl_easy_perform returns: an answer of any status, which may come before
\* the content is posted, or an error.
PostDone(t) ==
  /\ Goto(t, "perform", "close")
  /\ \E r \in SendErrors \cup {"ERROR_SUCCESS"} : Gives(t, r)
  /\ UNCHANGED <<go, fileVars, kind, open, dataVars, calls, seen, late>>

----------------------------------------------------------------------------
(* The end of a call.                                                      *)

\* The tail of a submission is sent; the file and the request are closed.
\* httpFileSubmit returns ERROR_SUCCESS, httpRequest an error if the response
\* is empty, and the others what they have.
Close(t) ==
  /\ Goto(t, "close", "return")
  /\ Closes(t, {"file", "request", "connect"})
  /\ CASE Submits(t) -> Gives(t, "ERROR_SUCCESS")
       [] kind[t] = "httpRequest" /\ result[t] = "ERROR_SUCCESS" /\ out[t] = 0
            -> Gives(t, "ERROR_RESPONSE_EMPTY")
       [] OTHER -> UNCHANGED result
  /\ UNCHANGED <<go, fileVars, kind, dataVars, calls, seen, late>>

\* The destructors close the session or the CURL handle; the call is over.
Return(t) ==
  /\ Goto(t, "return", "idle")
  /\ Closes(t, {"session", "curl"})
  /\ kind' = [kind EXCEPT ![t] = "httpRequest"]
  /\ size' = [size EXCEPT ![t] = 0] /\ fill' = [fill EXCEPT ![t] = 0]
  /\ got' = [got EXCEPT ![t] = 0] /\ out' = [out EXCEPT ![t] = 0]
  /\ Gives(t, "none")
  /\ seen' = [seen EXCEPT ![t] = {}] /\ late' = [late EXCEPT ![t] = 0]
  /\ UNCHANGED <<go, fileVars, calls>>

----------------------------------------------------------------------------
CallStep(t) ==
  \/ RefuseParam(t) \/ Construct(t) \/ NoBackend(t)
  \/ CreateNew(t) \/ OpenSource(t) \/ NoFile(t)
  \/ OpenFails(t) \/ DeleteFile(t) \/ OpenRequest(t)
  \/ Start(t) \/ StartFails(t) \/ Close(t) \/ Return(t)

TransferStep(t) ==
  \/ Continue(t) \/ Cut(t)
  \/ ReadBlock(t) \/ ReadEnd(t) \/ ReadFails(t)
  \/ SubmitBlock(t) \/ SubmitEnd(t)
  \/ PostRead(t) \/ PostReadFails(t) \/ PostProgress(t) \/ PostDone(t)

LNext ==
  \/ \E t \in Threads : Begin(t) \/ CallStep(t) \/ TransferStep(t)
  \/ AbortAllRequest
  \/ \E n \in Names : HostFile(n)

LSpec == LInit /\ [][LNext]_vars

\* A call goes on: WinINet and libcurl return from every wait by an answer, an
\* error or their own time limits, or libcurl calls back.  How long the content
\* of a transfer is, and whether it ever ends, is the server's matter.
LFairSpec == LSpec /\ \A t \in Threads : WF_vars(CallStep(t) \/ TransferStep(t))

----------------------------------------------------------------------------
\* A call that has returned, on whatever path, has closed what it opened.
HandlesReleased == \A t \in Threads : pc[t] = "idle" => open[t] = {}

\* A response or a download that is reported as a success and was not read to
\* its end was cut by an abort that came during the call, never by one that an
\* earlier call had received.
PartialOnlyIfAborted ==
  \A t \in Threads :
    /\ pc[t] = "return" /\ Receives(t) /\ result[t] = "ERROR_SUCCESS"
    /\ "ended" \notin seen[t]
    => "aborted" \in seen[t]

\* After abortAllRequest, and until a new call raises the flag again, a call
\* moves at most the one block that it was waiting for.
AbortedCallsStop == ~go => \A t \in Threads : late[t] <= 1

\* A download whose request could not even be opened leaves its name free for
\* the next try, unless an upload has opened the empty file meanwhile.
OpenFailureFreesName ==
  \A t \in Threads :
    /\ pc[t] = "return" /\ "created" \in seen[t] /\ "opened" \notin seen[t]
    => file[name[t]] # t \/ "shared" \in seen[t]

\* A response that came in one block is the body; of a longer one the text may
\* hold bytes twice, where a block was shorter than one before it.
OneBlockResponseIsBody ==
  \A t \in Threads :
    /\ pc[t] = "return" /\ kind[t] = "httpRequest" /\ result[t] = "ERROR_SUCCESS"
    /\ fill[t] = got[t]
    => out[t] = got[t]

\* When the read callback ends the content of a post, less than one block of
\* the announced file is missing.
PostMissesLessThanBlock ==
  \A t \in Threads :
    Posts(t) /\ "ended" \in seen[t] => size[t] - out[t] < Block

\* abortAllRequest ends every call that is running, however long the server
\* goes on sending, unless a call that begins later revokes it.
AbortEndsCalls == ~go ~> (go \/ \A t \in Threads : pc[t] = "idle")

----------------------------------------------------------------------------
\* INetCore.h says of the flag that when it is false all callbacks return the
\* cancel order, and HTTPGlobal.h of ERROR_USER_ABORT that the user cancelled:
\* a download that the flag cut would be reported as cancelled.
CutIsReported ==
  \A t \in Threads :
    pc[t] = "return" /\ Downloads(t) /\ "cut" \in seen[t]
    => result[t] = "ERROR_USER_ABORT"
=============================================================================
