---------------------------- MODULE LibHttpCurl ----------------------------
(***************************************************************************)
(* The exported calls of libhttpCurl as the threads of a host process run  *)
(* them: the three global call mutexes, the authorize mutex and the        *)
(* callback mutex, the shared CURL handle of CHTTPRequest, the token that  *)
(* CChannelServerMgr caches, and the stop flag of the write callback.      *)
(*                                                                         *)
(* A thread is a program counter and the few locals that outlive a step.   *)
(* A step ends where another thread can interfere: at a lock, at a curl    *)
(* transfer or callback, between two accesses to an unprotected static.    *)
(* Assigning a std::string that another thread may be reading takes two    *)
(* steps, and the value in between is Torn.                                *)
(***************************************************************************)
EXTENDS Integers, FiniteSets

CONSTANTS
  Threads,    \* the threads of the host process that call the library
  NoThread,   \* the holder of a free mutex
  Kinds,      \* the exported calls these threads make
  MaxCalls,   \* bound: calls per thread
  MaxChunks   \* bound: write callbacks per transfer

RequestKinds  == {"Request", "RequestWithoutToken", "RequestLocalIp",
                  "ReDetectChannelIp", "GetChannelIpInfo"}
UnlockedKinds == {"GetAuthLocalIp", "SetTranssionMissSpeeds"}
AllKinds      == RequestKinds \cup UnlockedKinds \cup {"Download", "Upload"}

ASSUME ThreadsAssumption == NoThread \notin Threads
ASSUME KindsAssumption   == Kinds \subseteq AllKinds
ASSUME BoundsAssumption  == MaxCalls \in Nat /\ MaxChunks \in Nat

\* g_RequestMutex, g_RequestDownloadMutex, g_RequestUploadMutex,
\* CChannelServerMgr::m_rwAuthirizeMutex and CHTTPCore::m_gHttpMutex.
Locks == {"request", "download", "upload", "auth", "callback"}

NoToken == 0     \* the empty m_strAuthirize
Torn    == -1    \* m_strAuthirize while another thread assigns it

\* What a transfer can bring back: a 200 with the expected "data" member, a
\* 200 without it (or with a body that does not parse), a 401, an error.
Replies == {"data", "nodata", "401", "error"}

PCs == {"idle", "classWait", "enter", "reconnect", "clear", "close", "token",
        "nestedWait", "redetect", "authWait", "authHost", "prepare",
        "performing", "cbWait", "callback", "consume", "copyIp", "storing",
        "authDone", "retoken", "nestedExit", "finish", "ipCheck", "firstDone",
        "speeds", "setopt"}

VARIABLES
  lock,       \* [Locks -> the thread that holds it, or NoThread]
  handle,     \* CHTTPRequest::m_pUrlRequestHandle # NULL
  stop,       \* CHTTPCore::m_bStopCurrentTask
  token,      \* m_strAuthirize: NoToken, Torn, or the number of the token
  issued,     \* how many tokens the server has issued
  recent,     \* now - m_iLastTime <= 60
  hosts,      \* a channel host of the configuration is usable
  channel,    \* m_strChannelIp and m_nChannelPort are set
  localIp,    \* m_strAuthLocalIp is not empty
  firstGetIp, \* m_bIsFirstGetIp
  pc,         \* where each thread stands
  kind,       \* the call it is in
  needAuth,   \* isNeedAuth of that call
  stage,      \* "main", or the request of httpRequestAuthirize it is at
  replied,    \* the call's own transfer is over
  tok,        \* tokenAuth, the copy of the token the call sends
  got,        \* the token parsed from the answer, not yet stored
  using,      \* the thread's pointer to the request handle
  cut,        \* the write callback ended the transfer in progress
  chunks,     \* write callbacks left in the transfer
  calls       \* calls the thread may still make

serverVars == <<token, issued, recent, hosts, channel, localIp, firstGetIp>>
callVars   == <<kind, needAuth, calls>>
flowVars   == <<stage, replied, tok, got>>
xferVars   == <<using, cut, chunks>>
vars == <<lock, handle, stop, serverVars, pc, callVars, flowVars, xferVars>>

ClassLock(k) == IF k \in RequestKinds THEN "request"
                ELSE IF k = "Download" THEN "download" ELSE "upload"
Transfers(k) == k \in {"Request", "Download", "Upload"}
OwnHandle(k) == k \in {"Download", "Upload"}

TypeOK ==
  /\ lock \in [Locks -> Threads \cup {NoThread}]
  /\ handle \in BOOLEAN /\ stop \in BOOLEAN
  /\ token \in Nat \cup {Torn} /\ issued \in Nat
  /\ recent \in BOOLEAN /\ hosts \in BOOLEAN /\ channel \in BOOLEAN
  /\ localIp \in BOOLEAN /\ firstGetIp \in BOOLEAN
  /\ pc \in [Threads -> PCs]
  /\ kind \in [Threads -> AllKinds]
  /\ needAuth \in [Threads -> BOOLEAN]
  /\ stage \in [Threads -> {"main", "time", "auth"}]
  /\ replied \in [Threads -> BOOLEAN]
  /\ tok \in [Threads -> Nat \cup {Torn}] /\ got \in [Threads -> Nat]
  /\ using \in [Threads -> {"none", "live", "freed"}]
  /\ cut \in [Threads -> BOOLEAN]
  /\ chunks \in [Threads -> Nat] /\ calls \in [Threads -> Nat]

Init ==
  /\ lock = [l \in Locks |-> NoThread]
  /\ handle = FALSE /\ stop = FALSE
  /\ token = NoToken /\ issued = 0 /\ recent = FALSE
  /\ hosts = FALSE /\ channel = FALSE /\ localIp = FALSE /\ firstGetIp = FALSE
  /\ pc = [t \in Threads |-> "idle"]
  /\ kind = [t \in Threads |-> "Request"]
  /\ needAuth = [t \in Threads |-> FALSE]
  /\ stage = [t \in Threads |-> "main"]
  /\ replied = [t \in Threads |-> FALSE]
  /\ tok = [t \in Threads |-> NoToken] /\ got = [t \in Threads |-> NoToken]
  /\ using = [t \in Threads |-> "none"]
  /\ cut = [t \in Threads |-> FALSE]
  /\ chunks = [t \in Threads |-> 0] /\ calls = [t \in Threads |-> MaxCalls]

----------------------------------------------------------------------------
Goto(t, from, to) == pc[t] = from /\ pc' = [pc EXCEPT ![t] = to]
Acquire(t, l) == lock[l] = NoThread /\ lock' = [lock EXCEPT ![l] = t]
Release(l)    == lock' = [lock EXCEPT ![l] = NoThread]

----------------------------------------------------------------------------
(* A host thread calls the library.  An unlocked call takes no call mutex. *)

Begin(t) ==
  /\ calls[t] > 0
  /\ \E k \in Kinds, a \in BOOLEAN :
       /\ a => Transfers(k)
       /\ Goto(t, "idle", CASE k = "GetAuthLocalIp" -> "ipCheck"
                            [] k = "SetTranssionMissSpeeds" -> "speeds"
                            [] OTHER -> "classWait")
       /\ kind' = [kind EXCEPT ![t] = k]
       /\ needAuth' = [needAuth EXCEPT ![t] = a]
  /\ calls' = [calls EXCEPT ![t] = @ - 1]
  /\ UNCHANGED <<lock, handle, stop, serverVars, flowVars, xferVars>>

\* Mutant: the call mutex is taken as a shared lock.
EnterClassShared(t) ==
  /\ Goto(t, "classWait", "enter")
  /\ UNCHANGED <<lock, handle, stop, serverVars, callVars, flowVars, xferVars>>

\* httpWriteLock wl(...) on the first line of a locked call.
EnterClass(t) ==
  /\ Goto(t, "classWait", "enter")
  /\ Acquire(t, ClassLock(kind[t]))
  /\ UNCHANGED <<handle, stop, serverVars, callVars, flowVars, xferVars>>

\* An early return: a NULL or empty argument, a download while the stop flag
\* is up, or a channel address that is already known.
EarlyReturn(t) ==
  /\ \/ kind[t] \notin {"ReDetectChannelIp", "GetChannelIpInfo"}
     \/ kind[t] = "GetChannelIpInfo" /\ channel
  /\ Goto(t, "enter", "finish")
  /\ UNCHANGED <<lock, handle, stop, serverVars, callVars, flowVars, xferVars>>

\* The checks pass.  A request constructs CHTTPRequest, whose constructor
\* creates the shared handle; a transfer with its own handle does not touch it.
Admit(t) ==
  /\ kind[t] = "Download" => ~stop
  /\ kind[t] = "GetChannelIpInfo" => ~channel
  /\ Goto(t, "enter",
          CASE kind[t] = "Request" -> "reconnect"
            [] OwnHandle(kind[t]) -> "token"
            [] kind[t] \in {"RequestWithoutToken", "RequestLocalIp"} -> "prepare"
            [] OTHER -> "redetect")
  /\ handle' = (handle \/ kind[t] \in {"Request", "RequestWithoutToken", "RequestLocalIp"})
  /\ UNCHANGED <<lock, stop, serverVars, callVars, flowVars, xferVars>>

----------------------------------------------------------------------------
(* LIBHTTPRequest: CheckReConnectServer and Close.                         *)

KeepServer(t) ==
  /\ recent
  /\ Goto(t, "reconnect", "token")
  /\ UNCHANGED <<lock, handle, stop, serverVars, callVars, flowVars, xferVars>>

\* More than a minute after the last answer: m_strAuthirize = "" begins.
BeginClear(t) ==
  /\ ~recent
  /\ Goto(t, "reconnect", "clear")
  /\ token' = Torn
  /\ UNCHANGED <<lock, handle, stop, issued, recent, hosts, channel, localIp,
                 firstGetIp, callVars, flowVars, xferVars>>

EndClear(t) ==
  /\ Goto(t, "clear", "close")
  /\ token' = NoToken /\ recent' = TRUE
  /\ UNCHANGED <<lock, handle, stop, issued, hosts, channel, localIp,
                 firstGetIp, callVars, flowVars, xferVars>>

\* curl_easy_cleanup: whoever still has the pointer has a freed one.
Close(t) ==
  /\ Goto(t, "close", "token")
  /\ handle' = FALSE
  /\ using' = [u \in Threads |-> IF using[u] = "live" THEN "freed" ELSE using[u]]
  /\ UNCHANGED <<lock, stop, serverVars, callVars, flowVars, cut, chunks>>

----------------------------------------------------------------------------
(* The token of an authorized call, and the re-authorization around it.    *)

\* Copying a string that is being assigned gives an empty or a torn copy.
CopyOf(v) == IF v = Torn THEN {NoToken, Torn} ELSE {v}

SkipToken(t) ==
  /\ ~needAuth[t]
  /\ Goto(t, "token", "prepare")
  /\ UNCHANGED <<lock, handle, stop, serverVars, callVars, flowVars, xferVars>>

\* getAuthirizeToken; an empty copy sends the call to re-authorize first, a
\* download or an upload under the request mutex that it takes for this.
ReadToken(t) ==
  /\ needAuth[t]
  /\ \E v \in CopyOf(token) :
       /\ tok' = [tok EXCEPT ![t] = v]
       /\ Goto(t, "token", IF v # NoToken THEN "prepare"
                           ELSE IF OwnHandle(kind[t]) THEN "nestedWait"
                           ELSE "redetect")
  /\ UNCHANGED <<lock, handle, stop, serverVars, callVars, stage, replied, got,
                 xferVars>>

\* Mutant: the re-authorization forgets the request mutex.
NestedLockMissing(t) ==
  /\ Goto(t, "nestedWait", "redetect")
  /\ UNCHANGED <<lock, handle, stop, serverVars, callVars, flowVars, xferVars>>

NestedLock(t) ==
  /\ Goto(t, "nestedWait", "redetect")
  /\ Acquire(t, "request")
  /\ UNCHANGED <<handle, stop, serverVars, callVars, flowVars, xferVars>>

\* reDetectServerHost keeps the channel when no host is usable; otherwise it
\* copies one of the two configured pairs, and that one may be the empty one.
ReDetected == IF hosts THEN BOOLEAN ELSE {channel}

ReDetect(t) ==
  /\ Goto(t, "redetect", "authWait")
  /\ channel' \in ReDetected
  /\ UNCHANGED <<lock, handle, stop, token, issued, recent, hosts, localIp,
                 firstGetIp, callVars, flowVars, xferVars>>

\* Mutant: the early return without a token leaves the request mutex locked.
ReReadTokenLeaks(t) ==
  /\ \E v \in CopyOf(token) :
       /\ tok' = [tok EXCEPT ![t] = v]
       /\ Goto(t, "retoken", IF v = NoToken THEN "finish" ELSE "prepare")
       /\ IF OwnHandle(kind[t]) /\ v # NoToken THEN Release("request") ELSE UNCHANGED lock
  /\ UNCHANGED <<handle, stop, serverVars, callVars, stage, replied, got,
                 xferVars>>

\* Mutant: the second reading is not checked.
ReReadTokenUnchecked(t) ==
  /\ \E v \in CopyOf(token) : tok' = [tok EXCEPT ![t] = v]
  /\ Goto(t, "retoken", "prepare")
  /\ IF OwnHandle(kind[t]) THEN Release("request") ELSE UNCHANGED lock
  /\ UNCHANGED <<handle, stop, serverVars, callVars, stage, replied, got,
                 xferVars>>

\* Back in the call with the token read again, under the request mutex of a
\* download or an upload, which the end of the block releases.
ReReadToken(t) ==
  /\ \E v \in CopyOf(token) :
       /\ tok' = [tok EXCEPT ![t] = v]
       /\ Goto(t, "retoken", IF v = NoToken THEN "finish" ELSE "prepare")
  /\ IF OwnHandle(kind[t]) THEN Release("request") ELSE UNCHANGED lock
  /\ UNCHANGED <<handle, stop, serverVars, callVars, stage, replied, got,
                 xferVars>>

\* Mutant: the block after a 401 does not release the request mutex.
NestedExitLeaks(t) ==
  /\ Goto(t, "nestedExit", "finish")
  /\ UNCHANGED <<lock, handle, stop, serverVars, callVars, flowVars, xferVars>>

NestedExit(t) ==
  /\ Goto(t, "nestedExit", "finish")
  /\ Release("request")
  /\ UNCHANGED <<handle, stop, serverVars, callVars, flowVars, xferVars>>

----------------------------------------------------------------------------
(* CChannelServerMgr::httpRequestAuthirize: the server time, then a token. *)

\* Mutant: httpRequestAuthirize takes no mutex.
AuthLockMissing(t) ==
  /\ Goto(t, "authWait", "authHost")
  /\ stage' = [stage EXCEPT ![t] = "time"]
  /\ UNCHANGED <<lock, handle, stop, serverVars, callVars, replied, tok, got, xferVars>>

AuthLock(t) ==
  /\ Goto(t, "authWait", "authHost")
  /\ Acquire(t, "auth")
  /\ stage' = [stage EXCEPT ![t] = "time"]
  /\ UNCHANGED <<handle, stop, serverVars, callVars, replied, tok, got, xferVars>>

\* Without a channel address it re-detects, and gives up if there is still none.
AuthHost(t) ==
  /\ channel' \in IF channel THEN {TRUE} ELSE ReDetected
  /\ Goto(t, "authHost", IF channel' THEN "prepare" ELSE "authDone")
  /\ UNCHANGED <<lock, handle, stop, token, issued, recent, hosts, localIp,
                 firstGetIp, callVars, flowVars, xferVars>>

\* The server time: an answer sets the local ip whatever its body says, and a
\* body with 'data' the time of the last answer, even if the data is empty and
\* the authorization fails.
TimeReply(t) ==
  /\ stage[t] = "time"
  /\ \E r \in IF cut[t] THEN {"error"} ELSE Replies, empty \in BOOLEAN :
       LET time == r = "data" /\ ~empty
       IN  /\ Goto(t, "copyIp", IF time THEN "prepare" ELSE "authDone")
           /\ stage' = [stage EXCEPT ![t] = IF time THEN "auth" ELSE @]
           /\ localIp' = (localIp \/ r \in {"data", "nodata"})
           /\ recent' = (recent \/ r = "data")
  /\ using' = [using EXCEPT ![t] = "none"] /\ cut' = [cut EXCEPT ![t] = FALSE]
  /\ UNCHANGED <<lock, handle, stop, token, issued, hosts, channel, firstGetIp,
                 callVars, replied, tok, got, chunks>>

\* The authorize answer brings a new token or an empty one, and the assignment
\* to m_strAuthirize begins; any other answer leaves the token as it was.
AuthReply(t) ==
  /\ stage[t] = "auth"
  /\ \E r \in IF cut[t] THEN {"error"} ELSE Replies, g \in {NoToken, issued + 1} :
       IF r = "data"
       THEN /\ Goto(t, "copyIp", "storing")
            /\ got' = [got EXCEPT ![t] = g]
            /\ issued' = IF g = NoToken THEN issued ELSE g
            /\ token' = Torn
       ELSE Goto(t, "copyIp", "authDone") /\ UNCHANGED <<got, issued, token>>
  /\ using' = [using EXCEPT ![t] = "none"] /\ cut' = [cut EXCEPT ![t] = FALSE]
  /\ UNCHANGED <<lock, handle, stop, recent, hosts, channel, localIp, firstGetIp,
                 callVars, stage, replied, tok, chunks>>

StoreToken(t) ==
  /\ Goto(t, "storing", "authDone")
  /\ token' = got[t]
  /\ UNCHANGED <<lock, handle, stop, issued, recent, hosts, channel, localIp,
                 firstGetIp, callVars, flowVars, xferVars>>

\* The mutex is released and the caller goes on.
AuthDone(t) ==
  /\ Goto(t, "authDone",
          CASE kind[t] = "GetAuthLocalIp" -> "firstDone"
            [] Transfers(kind[t]) /\ ~replied[t] -> "retoken"
            [] OwnHandle(kind[t]) /\ replied[t] -> "nestedExit"
            [] OTHER -> "finish")
  /\ Release("auth")
  /\ stage' = [stage EXCEPT ![t] = "main"]
  /\ UNCHANGED <<handle, stop, serverVars, callVars, replied, tok, got, xferVars>>

----------------------------------------------------------------------------
(* One transfer: httpRequest, httpDownload or httpFilePost.                *)

SharesHandle(t) == ~(OwnHandle(kind[t]) /\ stage[t] = "main")

\* The options are set on the handle, which getUrlResHandle creates if need be.
Prepare(t) ==
  /\ Goto(t, "prepare", "performing")
  /\ handle' = (handle \/ SharesHandle(t))
  /\ using' = [using EXCEPT ![t] = IF SharesHandle(t) THEN "live" ELSE "none"]
  /\ chunks' = [chunks EXCEPT ![t] = MaxChunks]
  /\ UNCHANGED <<lock, stop, serverVars, callVars, flowVars, cut>>

\* libcurl calls HTTPWriteCallback, which takes the callback mutex.
Receive(t) ==
  /\ chunks[t] > 0
  /\ Goto(t, "performing", "cbWait")
  /\ chunks' = [chunks EXCEPT ![t] = @ - 1]
  /\ UNCHANGED <<lock, handle, stop, serverVars, callVars, flowVars, using, cut>>

\* Mutant: the callback mutex is a member of each transfer instead of a static.
CallbackLockPerTransfer(t) ==
  /\ Goto(t, "cbWait", "callback")
  /\ UNCHANGED <<lock, handle, stop, serverVars, callVars, flowVars, xferVars>>

CallbackLock(t) ==
  /\ Goto(t, "cbWait", "callback")
  /\ Acquire(t, "callback")
  /\ UNCHANGED <<handle, stop, serverVars, callVars, flowVars, xferVars>>

\* The flag is down: the bytes are taken and the mutex released.
Deliver(t) ==
  /\ ~stop
  /\ Goto(t, "callback", "performing")
  /\ Release("callback")
  /\ UNCHANGED <<handle, stop, serverVars, callVars, flowVars, xferVars>>

SeeStop(t) ==
  /\ stop
  /\ Goto(t, "callback", "consume")
  /\ UNCHANGED <<lock, handle, stop, serverVars, callVars, flowVars, xferVars>>

\* m_bStopCurrentTask = false; return 0: libcurl fails this transfer.
ConsumeStop(t) ==
  /\ Goto(t, "consume", "performing")
  /\ stop' = FALSE
  /\ Release("callback")
  /\ cut' = [cut EXCEPT ![t] = TRUE] /\ chunks' = [chunks EXCEPT ![t] = 0]
  /\ UNCHANGED <<handle, serverVars, callVars, flowVars, using>>

\* curl_easy_perform returns, by an answer, an error or a timeout; getinfo asks
\* the current handle, created again if it is gone, for the local ip.
EndPerform(t) ==
  /\ Goto(t, "performing", "copyIp")
  /\ handle' = (handle \/ SharesHandle(t))
  /\ using' = [using EXCEPT ![t] = IF SharesHandle(t) THEN "live" ELSE "none"]
  /\ chunks' = [chunks EXCEPT ![t] = 0]
  /\ UNCHANGED <<lock, stop, serverVars, callVars, flowVars, cut>>

\* Mutant: a 401 is retried by calling the same exported function again.
MainReplyRecurses(t) ==
  /\ stage[t] = "main"
  /\ \E r \in IF cut[t] THEN {"error"} ELSE {"data", "401", "error"} :
       Goto(t, "copyIp", IF r = "401" /\ Transfers(kind[t]) THEN "classWait" ELSE "finish")
  /\ replied' = [replied EXCEPT ![t] = TRUE]
  /\ using' = [using EXCEPT ![t] = "none"] /\ cut' = [cut EXCEPT ![t] = FALSE]
  /\ UNCHANGED <<lock, handle, stop, serverVars, callVars, stage, tok, got, chunks>>

\* The call's own answer.  A 401 re-authorizes and returns the 401.
MainReply(t) ==
  /\ stage[t] = "main"
  /\ \E r \in IF cut[t] THEN {"error"} ELSE {"data", "401", "error"} :
       Goto(t, "copyIp", IF r = "401" /\ Transfers(kind[t])
                         THEN IF OwnHandle(kind[t]) THEN "nestedWait" ELSE "redetect"
                         ELSE "finish")
  /\ replied' = [replied EXCEPT ![t] = TRUE]
  /\ using' = [using EXCEPT ![t] = "none"] /\ cut' = [cut EXCEPT ![t] = FALSE]
  /\ UNCHANGED <<lock, handle, stop, serverVars, callVars, stage, tok, got, chunks>>

----------------------------------------------------------------------------
(* The calls without a call mutex, and the return of every call.           *)

\* getAuthLocalIp looks at m_strAuthLocalIp under the authorize mutex, and
\* authorizes itself if it is empty and m_bIsFirstGetIp is not set yet.
CheckLocalIp(t) ==
  /\ lock["auth"] = NoThread
  /\ Goto(t, "ipCheck", IF localIp \/ firstGetIp THEN "finish" ELSE "authWait")
  /\ UNCHANGED <<lock, handle, stop, serverVars, callVars, flowVars, xferVars>>

FirstDone(t) ==
  /\ Goto(t, "firstDone", "finish")
  /\ firstGetIp' = TRUE
  /\ UNCHANGED <<lock, handle, stop, token, issued, recent, hosts, channel,
                 localIp, callVars, flowVars, xferVars>>

\* LIBHTTPSetTranssionMissSpeeds passes the handle pointer, as it is now, to
\* updateExistTransmisSpeeds, which sets options on it if it is not NULL.
ReadHandle(t) ==
  /\ Goto(t, "speeds", IF handle THEN "setopt" ELSE "finish")
  /\ using' = [using EXCEPT ![t] = IF handle THEN "live" ELSE "none"]
  /\ UNCHANGED <<lock, handle, stop, serverVars, callVars, flowVars, cut, chunks>>

SetSpeeds(t) ==
  /\ Goto(t, "setopt", "finish")
  /\ using' = [using EXCEPT ![t] = "none"]
  /\ UNCHANGED <<lock, handle, stop, serverVars, callVars, flowVars, cut, chunks>>

\* The call returns: its mutex is released and its locals are gone.
Finish(t) ==
  /\ Goto(t, "finish", "idle")
  /\ IF kind[t] \in UnlockedKinds THEN UNCHANGED lock ELSE Release(ClassLock(kind[t]))
  /\ kind' = [kind EXCEPT ![t] = "Request"]
  /\ needAuth' = [needAuth EXCEPT ![t] = FALSE]
  /\ replied' = [replied EXCEPT ![t] = FALSE]
  /\ tok' = [tok EXCEPT ![t] = NoToken] /\ got' = [got EXCEPT ![t] = NoToken]
  /\ UNCHANGED <<handle, stop, serverVars, calls, stage, xferVars>>

----------------------------------------------------------------------------
(* The calls that are one unprotected step, and the clock.                 *)

\* LIBHTTPSetChannelInfo: new hosts, and a detection that takes no mutex.
SetChannelInfo ==
  /\ hosts' \in BOOLEAN
  /\ channel' \in IF hosts' THEN BOOLEAN ELSE {channel}
  /\ UNCHANGED <<lock, handle, stop, token, issued, recent, localIp, firstGetIp,
                 pc, callVars, flowVars, xferVars>>

\* LIBHTTPStopCurrentDownloadTask.
StopCurrentDownloadTask ==
  /\ stop' = TRUE
  /\ UNCHANGED <<lock, handle, serverVars, pc, callVars, flowVars, xferVars>>

\* A minute passes without an answer.
Tick ==
  /\ recent' = FALSE
  /\ UNCHANGED <<lock, handle, stop, token, issued, hosts, channel, localIp,
                 firstGetIp, pc, callVars, flowVars, xferVars>>

----------------------------------------------------------------------------
ApiStep(t) ==
  \/ EnterClass(t) \/ EarlyReturn(t) \/ Admit(t)
  \/ KeepServer(t) \/ BeginClear(t) \/ EndClear(t) \/ Close(t)

TokenStep(t) ==
  \/ SkipToken(t) \/ ReadToken(t) \/ NestedLock(t) \/ ReDetect(t)
  \/ ReReadToken(t) \/ NestedExit(t)

AuthorizeStep(t) ==
  \/ AuthLock(t) \/ AuthHost(t) \/ TimeReply(t) \/ AuthReply(t)
  \/ StoreToken(t) \/ AuthDone(t)

TransferStep(t) ==
  \/ Prepare(t) \/ CallbackLock(t) \/ Deliver(t) \/ SeeStop(t)
  \/ ConsumeStop(t) \/ MainReply(t)

OtherStep(t) ==
  \/ CheckLocalIp(t) \/ FirstDone(t) \/ ReadHandle(t) \/ SetSpeeds(t)
  \/ Finish(t)

\* The steps that the thread itself takes as soon as it is scheduled.
Run(t) == \/ ApiStep(t) \/ TokenStep(t) \/ AuthorizeStep(t)
          \/ TransferStep(t) \/ OtherStep(t)

Environment == SetChannelInfo \/ StopCurrentDownloadTask \/ Tick

Next ==
  \/ \E t \in Threads : Begin(t) \/ Run(t) \/ Receive(t) \/ EndPerform(t)
  \/ Environment

Spec == Init /\ [][Next]_vars

\* httpRequest sets CURLOPT_TIMEOUT_MS and the progress callback of a download
\* ends it after fifteen idle minutes, but httpFilePost bounds the connection
\* only: nothing ends the main transfer of an upload whose peer is silent.
Bounded(t) == kind[t] # "Upload" \/ stage[t] # "main"

FairSpec ==
  /\ Spec
  /\ \A t \in Threads : WF_vars(Run(t)) /\ WF_vars(Bounded(t) /\ EndPerform(t))

----------------------------------------------------------------------------
(* Which mutexes a thread holds, and which one it waits for.               *)

Locked(t) == pc[t] \notin {"idle", "classWait"} /\ kind[t] \notin UnlockedKinds

\* A download or an upload inside its block with the request mutex.
Reauthorizing(t) ==
  \/ pc[t] \in {"redetect", "authWait", "retoken", "nestedExit"}
  \/ stage[t] # "main"

Holds(t, l) ==
  CASE l = "callback" -> pc[t] \in {"callback", "consume"}
    [] l = "auth"     -> stage[t] # "main"
    [] l = "request"  -> /\ Locked(t)
                         /\ OwnHandle(kind[t]) => Reauthorizing(t)
    [] l = "download" -> Locked(t) /\ kind[t] = "Download"
    [] OTHER          -> Locked(t) /\ kind[t] = "Upload"

WaitsFor(t, l) ==
  \/ pc[t] = "classWait" /\ l = ClassLock(kind[t])
  \/ pc[t] = "nestedWait" /\ l = "request"
  \/ pc[t] \in {"authWait", "ipCheck"} /\ l = "auth"
  \/ pc[t] = "cbWait" /\ l = "callback"

Rank(l) == CASE l \in {"download", "upload"} -> 1
             [] l = "request" -> 2
             [] l = "auth" -> 3
             [] OTHER -> 4

\* Every mutex is held by exactly the thread whose position in the code says
\* so, whatever path of early returns and nested blocks brought it there: no
\* path leaks a mutex, releases one twice or enters with another still inside.
LockDiscipline ==
  \A l \in Locks, t \in Threads : lock[l] = t <=> Holds(t, l)

\* A thread that waits holds only mutexes of a lower rank, so no cycle of
\* waiting threads can form between the nested request, authorize and callback
\* mutexes of requests, downloads and uploads.
LockOrder ==
  \A t \in Threads, l, m \in Locks :
    WaitsFor(t, l) /\ lock[m] = t => Rank(m) < Rank(l)

\* Close in LIBHTTPRequest frees the request handle under g_RequestMutex: of
\* all the threads that still have the pointer, only one in a call that skips
\* g_RequestMutex can be left with a freed one.
LockedCallsKeepHandle ==
  \A t \in Threads : using[t] = "freed" => kind[t] \in UnlockedKinds

\* Two threads use the one request handle at a time only if one of them is in
\* a call that skips g_RequestMutex; the re-authorizations of downloads and
\* uploads do not overlap with requests on it.
HandleSharedOnlyWithUnlocked ==
  \A t, u \in Threads :
    t # u /\ using[t] # "none" /\ using[u] # "none" =>
      kind[t] \in UnlockedKinds \/ kind[u] \in UnlockedKinds

\* A call that needs authorization never sends its own transfer without one,
\* also when the token vanished between its check and its second reading.
AuthedTransferCarriesToken ==
  \A t \in Threads :
    pc[t] \in {"prepare", "performing"} /\ stage[t] = "main" /\ needAuth[t] =>
      tok[t] # NoToken

\* A call that holds g_RequestMutex, a download or an upload in its block with
\* it among them, reads a token that is being assigned only while
\* LIBHTTPGetAuthLocalIp authorizes without that mutex.
TornTokenNeedsUnlockedAccess ==
  \A t \in Threads :
    lock["request"] = t /\ pc[t] \in {"token", "retoken"} /\ token = Torn =>
      \E u \in Threads : kind[u] = "GetAuthLocalIp" /\ pc[u] = "storing"

\* A write callback that saw the stop flag still finds it up when it lowers it:
\* no other callback of any transfer has lowered it in between.
StopConsumedOnce ==
  \A t \in Threads : pc[t] = "consume" => stop

\* m_strAuthirize only ever changes to the newest token the server issued, or
\* to none: authorizations that overlap do not store theirs in reverse order.
StoresNewestToken ==
  [][token' # token => token' \in {NoToken, Torn, issued'}]_vars

\* Every call but an upload returns, however the threads contend for the
\* mutexes, stop requests arrive and an upload hangs on a silent peer.
NonUploadCallsReturn ==
  \A t \in Threads :
    (pc[t] # "idle" /\ kind[t] # "Upload") ~> (pc[t] = "idle")

----------------------------------------------------------------------------
(* The calls implement SerialCalls.                                        *)

CallPhase == [t \in Threads |->
  IF pc[t] = "idle" THEN "idle" ELSE IF pc[t] = "classWait" THEN "queued" ELSE "active"]

CallClass == [t \in Threads |->
  IF pc[t] = "idle" \/ kind[t] \in UnlockedKinds THEN "none" ELSE ClassLock(kind[t])]

Serial == INSTANCE SerialCalls
  WITH Classes <- {"request", "download", "upload"}, NoClass <- "none",
       phase <- CallPhase, class <- CallClass

\* Requests, downloads and uploads are each served one call at a time, although
\* downloads and uploads re-enter the request mutex in the middle of a call.
CallsAreSerial == Serial!SSpec

----------------------------------------------------------------------------
(* The write callbacks implement StopFlag.                                 *)

\* Where a thread has a transfer, and where the flag can end it.
Transferring == {"prepare", "performing", "cbWait", "callback", "consume", "copyIp"}
InFlight     == Transferring \ {"prepare"}

TransferState == [t \in Threads |->
  IF pc[t] \notin InFlight THEN "idle" ELSE IF cut[t] THEN "ended" ELSE "running"]

Flag == INSTANCE StopFlag
  WITH Tasks <- Threads, pending <- stop, state <- TransferState

\* One stop ends one transfer, of whatever call, however many write callbacks
\* test the flag at the same time; a transfer that was stopped stays stopped.
StopsEndTransfers == Flag!FSpec

----------------------------------------------------------------------------
(* No thread waits for ever, and no call goes round in circles.            *)

Blocked(t) == \E l \in Locks : WaitsFor(t, l) /\ lock[l] # NoThread

\* Whenever calls are under way, one of them waits for no mutex: the calls of
\* any number of threads cannot stop each other.
SomeCallRuns ==
  (\E t \in Threads : pc[t] # "idle") =>
    \E t \in Threads : pc[t] # "idle" /\ ~Blocked(t)

\* An upper bound for the steps a call has still to take.  OneTransfer is what
\* a transfer takes with all its callbacks, Again what a re-authorization
\* after a 401 takes, with its two transfers.
OneTransfer == 4 * MaxChunks + 3
Again       == 2 * OneTransfer + 9

\* At the point p of a transfer that has c write callbacks left.
InTransfer(p, c) ==
  CASE p = "prepare"    -> OneTransfer
    [] p = "performing" -> 4 * c + 2
    [] p = "cbWait"     -> 4 * c + 5
    [] p = "callback"   -> 4 * c + 4
    [] p = "consume"    -> 4 * c + 3
    [] p = "copyIp"     -> 1

\* After an authorization, which follows the answer of the call or precedes it.
AfterAuthorize(r) == IF r THEN 3 ELSE Again + OneTransfer + 2

\* After a transfer: the call's own, or the second or first of an authorization.
AfterTransfer(s, r) == CASE s = "main" -> Again
                         [] s = "auth" -> 1 + AfterAuthorize(r)
                         [] s = "time" -> OneTransfer + 2 + AfterAuthorize(r)

BeforeToken == 3 * OneTransfer + Again + 9

StepsAt(p, s, r, c) ==
  IF p \in Transferring THEN InTransfer(p, c) + AfterTransfer(s, r)
  ELSE CASE p = "classWait"  -> BeforeToken + 5
         [] p = "enter"      -> BeforeToken + 4
         [] p = "reconnect"  -> BeforeToken + 3
         [] p = "clear"      -> BeforeToken + 2
         [] p = "close"      -> BeforeToken + 1
         [] p \in {"token", "ipCheck"} -> BeforeToken
         [] p = "nestedWait" -> 2 * OneTransfer + 6 + AfterAuthorize(r)
         [] p = "redetect"   -> 2 * OneTransfer + 5 + AfterAuthorize(r)
         [] p = "authWait"   -> 2 * OneTransfer + 4 + AfterAuthorize(r)
         [] p = "authHost"   -> 2 * OneTransfer + 3 + AfterAuthorize(r)
         [] p = "storing"    -> 1 + AfterAuthorize(r)
         [] p = "authDone"   -> AfterAuthorize(r)
         [] p = "retoken"    -> OneTransfer + Again + 1
         [] p = "speeds"     -> 3
         [] p \in {"nestedExit", "firstDone", "setopt"} -> 2
         [] p = "finish"     -> 1
         [] p = "idle"       -> 0

StepsLeft(t) == StepsAt(pc[t], stage[t], replied[t], chunks[t])

\* Every step of a call brings it nearer to its return, and no step of another
\* thread or of the host puts it back: a call re-authorizes at most once before
\* its transfer and once after it, and never starts over.
CallsAdvance ==
  [][\A t \in Threads : pc[t] # "idle" =>
       IF pc'[t] = pc[t] THEN StepsLeft(t)' = StepsLeft(t)
       ELSE 0 <= StepsLeft(t)' /\ StepsLeft(t)' < StepsLeft(t)]_vars

----------------------------------------------------------------------------
(* What the source says of the program and the program does not do.        *)

\* The pointer that getinfo returns must not be freed before httpRequest has
\* copied the local ip from it.
LocalIpPointerNotFreed ==
  \A t \in Threads : pc[t] = "copyIp" => using[t] # "freed"
=============================================================================
