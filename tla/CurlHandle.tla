----------------------------- MODULE CurlHandle -----------------------------
(***************************************************************************)
(* The options of a static CURL handle: that of the requests, of the       *)
(* downloads or of the uploads.  They share nothing but the speed limits,  *)
(* so a behaviour follows one of them.  The handle outlives the calls that *)
(* use it and keeps every option that the next call does not set; what an  *)
(* option points to dies with its call.                                    *)
(*                                                                         *)
(* The "owner" is the call that holds the mutex of the handle.  The        *)
(* request handle has a second user: LIBHTTPGetAuthLocalIp authorizes      *)
(* without g_RequestMutex.  That "guest" holds m_rwAuthirizeMutex alone,   *)
(* as an authorization inside a call holds both.                           *)
(***************************************************************************)
EXTENDS Integers

CONSTANTS
  Speeds,          \* the limits the host may set; 0: none
  Lengths,         \* the lengths of URL and data of a request
  Timeouts,        \* the timeouts a caller gives, in milliseconds; 0: default
  MaxWriteSize,    \* CURL_MAX_WRITE_SIZE
  DefaultTimeout,  \* HTTP_TIME_OUT_MS
  Width,           \* bits of an int
  MaxCalls,        \* bound: calls on the handle
  MaxStores        \* bound: limits that are stored

ASSUME HandleAssumption ==
  /\ Speeds \subseteq Int /\ Lengths \subseteq Nat /\ Timeouts \subseteq Nat
  /\ MaxWriteSize \in Nat \ {0} /\ DefaultTimeout \in Nat \ {0}
  /\ Width \in Nat \ {0} /\ MaxCalls \in Nat /\ MaxStores \in Nat
  /\ \A n \in Timeouts \cup {DefaultTimeout} : n < 2^(Width - 1)

\* Arithmetic that the provers do not know of powers.
ASSUME PowersAssumption ==
  2^(Width - 1) \in Nat \ {0} /\ 2^Width = 2 * 2^(Width - 1)

Callers == {"owner", "guest"}

\* What an option points to: an object of the call of a caller, or one that
\* has been freed.
Points  == Callers \cup {"none", "old"}

VARIABLES
  kind,     \* which of the three handles it is
  opts,     \* the options of the handle
  pc,       \* how far each caller has configured it
  args,     \* what the call of each was given
  met,      \* the call in progress has met one of the other caller
  down, up, \* ms_uMaxDownloadSpeeds, ms_uMaxUploadSpeeds
  changed,  \* per caller and limit, since its call began: "no", "stored", or
            \* "applied" to the handle that performs
  calls,    \* calls that are left
  stores    \* and limits that may still be stored

vars == <<kind, opts, pc, args, met, down, up, changed, calls, stores>>

NoArgs == [auth |-> FALSE, data |-> FALSE, len |-> 0, headers |-> FALSE,
           post |-> FALSE, timeout |-> 0]
Kept   == [down |-> "no", up |-> "no"]
Fresh  == [post |-> FALSE, fields |-> "none", size |-> "none", headers |-> "none",
           target |-> "none", recv |-> 0, send |-> 0, buffer |-> MaxWriteSize,
           timeout |-> 0]

Places == {"idle", "init", "speeds", "attach", "timeout", "divide", "body",
           "headers", "perform", "dead"}

OptTypeOK ==
  /\ kind \in {"request", "download", "upload"}
  /\ opts \in [post : BOOLEAN, fields : Points, size : Points \cup {"zero"},
              headers : Points, target : Points, recv : Speeds \cup {0},
              send : Speeds \cup {0}, buffer : Speeds \cup {MaxWriteSize},
              timeout : Nat]
  /\ pc \in [Callers -> Places]
  /\ args \in [Callers -> [auth : BOOLEAN, data : BOOLEAN, len : Lengths \cup {0},
                          headers : BOOLEAN, post : BOOLEAN,
                          timeout : Timeouts \cup {0}]]
  /\ met \in BOOLEAN
  /\ down \in Speeds \cup {0} /\ up \in Speeds \cup {0}
  /\ changed \in [Callers -> [down : {"no", "applied", "stored"},
                             up : {"no", "applied", "stored"}]]
  /\ calls \in 0..MaxCalls /\ stores \in 0..MaxStores

Init ==
  /\ kind \in {"request", "download", "upload"}
  /\ opts = Fresh /\ pc = [c \in Callers |-> "idle"]
  /\ args = [c \in Callers |-> NoArgs] /\ met = FALSE
  /\ down = 0 /\ up = 0
  /\ changed = [c \in Callers |-> Kept]
  /\ calls = MaxCalls /\ stores = MaxStores

Goto(c, from, to) == pc[c] = from /\ pc' = [pc EXCEPT ![c] = to]
limits == <<down, up, stores>>

\* The other caller is on its way.
Busy(c) == \E other \in Callers \ {c} : pc[other] # "idle"

Leave(c, from) ==
  /\ Goto(c, from, "idle")
  /\ args' = [args EXCEPT ![c] = NoArgs]
  /\ changed' = [changed EXCEPT ![c] = Kept]
  /\ met' = (met /\ Busy(c))

----------------------------------------------------------------------------
(* A call begins.                                                          *)

AuthMutexIsFree == \A c \in Callers : ~args[c].auth

StartCall(c, given) ==
  /\ calls > 0 /\ calls' = calls - 1
  /\ Goto(c, "idle", "init")
  /\ args' = [args EXCEPT ![c] = given]
  /\ met' = Busy(c)
  /\ changed' = [changed EXCEPT ![c] = Kept]
  /\ UNCHANGED <<kind, limits>>

\* Upload and download take no method.  A request may be one of the two of an
\* authorization; LIBHTTPRequest may find that the last reconnect is a minute
\* ago and start with a new handle.
Begin ==
  /\ \E auth, data, headers, post \in BOOLEAN, len \in Lengths \cup {0}, timeout \in Timeouts :
       /\ kind = "upload" => ~data
       /\ IF kind = "request" THEN len \in Lengths ELSE len = 0 /\ ~post
       /\ auth => kind = "request" /\ ~data /\ ~headers /\ ~post /\ AuthMutexIsFree
       /\ StartCall("owner", [auth |-> auth, data |-> data, len |-> len,
                              headers |-> headers, post |-> post, timeout |-> timeout])
  /\ \/ opts' = opts
     \/ kind = "request" /\ opts' = Fresh

StartGuest ==
  /\ kind = "request"
  /\ \E len \in Lengths, timeout \in Timeouts :
       StartCall("guest", [auth |-> TRUE, data |-> FALSE, len |-> len,
                           headers |-> FALSE, post |-> FALSE, timeout |-> timeout])
  /\ UNCHANGED opts

\* Mutant: getAuthLocalIp authorizes without any mutex.
BeginGuestUnlocked == StartGuest

\* getAuthLocalIp finds no address and authorizes.
BeginGuest == AuthMutexIsFree /\ StartGuest

----------------------------------------------------------------------------
(* A caller configures the handle.                                         *)

\* curlOptInit detaches the callbacks; httpRequest or httpDownload attach
\* those of the call further down.
CurlOptInit(c) ==
  /\ Goto(c, "init", "speeds")
  /\ opts' = [opts EXCEPT !.target = "none"]
  /\ UNCHANGED <<kind, args, met, limits, changed, calls>>

\* ERROR_CURL_LIB, or a local file that cannot be opened.
GiveUp(c) ==
  /\ Leave(c, "speeds")
  /\ UNCHANGED <<kind, opts, limits, calls>>

\* Mutant: the larger limit decides.
BufferOfLarger ==
  IF down = 0 /\ up = 0 THEN MaxWriteSize
  ELSE LET limit == IF up < down THEN down ELSE up
       IN  IF limit < MaxWriteSize THEN limit ELSE MaxWriteSize

\* The buffer is no larger than the smaller of the limits that are set.
BufferSize ==
  IF down = 0 /\ up = 0 THEN MaxWriteSize
  ELSE LET limit == IF up = 0 THEN down
                    ELSE IF down = 0 THEN up
                    ELSE IF up < down THEN up ELSE down
       IN  IF limit < MaxWriteSize THEN limit ELSE MaxWriteSize

\* libcurl refuses a negative limit and keeps the one it has.
Accepted(limit, old) == IF limit < 0 THEN old ELSE limit

\* What libcurl takes for a limit.  Without limits the code passes an int 0
\* where libcurl reads 64 bits, and the Win32 build fills the upper half with
\* what lies on the stack: 0, a limit too high to matter, which counts as 0
\* here, or a negative one.
Limited == down # 0 \/ up # 0
Taken(limit, old) == IF Limited THEN {Accepted(limit, old)} ELSE {0, old}

SetTransmissionSpeeds(c) ==
  /\ Goto(c, "speeds", "attach")
  /\ \E recv \in Taken(down, opts.recv), send \in Taken(up, opts.send) :
       opts' = [opts EXCEPT !.recv = recv, !.send = send, !.buffer = BufferSize]
  /\ UNCHANGED <<kind, args, met, limits, changed, calls>>

\* WRITEDATA and HEADERDATA are the caller's own object.
Attach(c) ==
  /\ Goto(c, "attach", "timeout")
  /\ opts' = [opts EXCEPT !.target = c]
  /\ UNCHANGED <<kind, args, met, limits, changed, calls>>

\* setTimeout
TimeoutOf(c) == IF args[c].timeout = 0 THEN DefaultTimeout ELSE args[c].timeout

\* Mutant: the limit is not compared with 0.
CheckLimitAssumed(c) ==
  /\ kind = "request"
  /\ Goto(c, "timeout", "divide")
  /\ UNCHANGED <<kind, opts, args, met, limits, changed, calls>>

\* Only a request looks at the upload limit for its timeout.
CheckLimit(c) ==
  /\ kind = "request" /\ up # 0
  /\ Goto(c, "timeout", "divide")
  /\ UNCHANGED <<kind, opts, args, met, limits, changed, calls>>

KeepTimeout(c) ==
  /\ kind = "request" => up = 0
  /\ Goto(c, "timeout", "body")
  /\ opts' = [opts EXCEPT !.timeout = TimeoutOf(c)]
  /\ UNCHANGED <<kind, args, met, limits, changed, calls>>

\* The time a request needs at the upload limit, computed in 64 bits, where
\* division rounds towards 0, and then stored in an int.
Quotient(n, m) == IF m < 0 THEN -(n \div (-m)) ELSE n \div m
Needed(c) == (Quotient(args[c].len, up) + 3) * 1000
AsInt(n)  == ((n + 2^(Width - 1)) % 2^Width) - 2^(Width - 1)

\* Mutant: a request has the time of its transfer alone.
ExtendTimeoutAlways(c) ==
  /\ up # 0
  /\ Goto(c, "divide", "body")
  /\ opts' = [opts EXCEPT !.timeout = AsInt(Needed(c))]
  /\ UNCHANGED <<kind, args, met, limits, changed, calls>>

ExtendTimeout(c) ==
  /\ up # 0
  /\ Goto(c, "divide", "body")
  /\ opts' = [opts EXCEPT !.timeout =
                IF AsInt(Needed(c)) >= TimeoutOf(c) THEN AsInt(Needed(c)) ELSE TimeoutOf(c)]
  /\ UNCHANGED <<kind, args, met, limits, changed, calls>>

\* The limit is read a second time, and 0 by now: the process ends.
DivideByZero(c) ==
  /\ up = 0
  /\ Goto(c, "divide", "dead")
  /\ UNCHANGED <<kind, opts, args, met, limits, changed, calls>>

\* Mutant: a request without data leaves the size alone.
BodyKeepsSize(c) ==
  [opts EXCEPT
     !.post   = CASE kind = "upload" \/ args[c].data -> TRUE
                  [] kind = "request" /\ ~args[c].data -> args[c].post
                  [] OTHER -> @,
     !.fields = IF args[c].data THEN c ELSE @,
     !.size   = IF kind = "upload" \/ args[c].data THEN c ELSE @]

\* The method and the body.  Data makes a POST of any call, a request without
\* data has the length 0, an upload the length of its file, and a download
\* without data sets nothing.
Body(c) ==
  [opts EXCEPT
     !.post   = CASE kind = "upload" \/ args[c].data -> TRUE
                  [] kind = "request" /\ ~args[c].data -> args[c].post
                  [] OTHER -> @,
     !.fields = IF args[c].data THEN c ELSE @,
     !.size   = CASE kind = "upload" \/ args[c].data -> c
                  [] kind = "request" /\ ~args[c].data -> "zero"
                  [] OTHER -> @]

SetBody(c) ==
  /\ Goto(c, "body", "headers")
  /\ opts' = Body(c)
  /\ UNCHANGED <<kind, args, met, limits, changed, calls>>

\* Mutant: an empty list is not handed to libcurl.
HeaderListKept(c) == IF args[c].headers \/ kind = "upload" THEN c ELSE opts.headers

\* The list of a call without headers is NULL; an upload always has three.
HeaderList(c) == IF args[c].headers \/ kind = "upload" THEN c ELSE "none"

SetHeaders(c) ==
  /\ Goto(c, "headers", "perform")
  /\ opts' = [opts EXCEPT !.headers = HeaderList(c)]
  /\ UNCHANGED <<kind, args, met, limits, changed, calls>>

\* The call returns: its data, its header list and itself are freed.
Aged(c, p) == IF p = c THEN "old" ELSE p

Return(c) ==
  /\ Leave(c, "perform")
  /\ opts' = [opts EXCEPT !.fields = Aged(c, @), !.size = Aged(c, @),
                          !.headers = Aged(c, @), !.target = Aged(c, @)]
  /\ UNCHANGED <<kind, limits, calls>>

----------------------------------------------------------------------------
(* The host changes the limits at any time and without a mutex: it stores  *)
(* one, then the other, and may apply both to the handle, one by one.      *)
(* The steps of several setters mix in any order, and one that stores the  *)
(* value that is there changes nothing, so a setter has no state here.     *)

StoreDownload ==
  /\ stores > 0 /\ stores' = stores - 1
  /\ \E limit \in Speeds : down' = limit
  /\ changed' = [c \in Callers |-> IF pc[c] = "idle" THEN changed[c]
                                   ELSE [changed[c] EXCEPT !.down = "stored"]]
  /\ UNCHANGED <<kind, opts, pc, args, met, up, calls>>

StoreUpload ==
  /\ stores > 0 /\ stores' = stores - 1
  /\ \E limit \in Speeds : up' = limit
  /\ changed' = [c \in Callers |-> IF pc[c] = "idle" THEN changed[c]
                                   ELSE [changed[c] EXCEPT !.up = "stored"]]
  /\ UNCHANGED <<kind, opts, pc, args, met, down, calls>>

\* updateExistTransmisSpeeds, for one handle.
ApplyDownload ==
  /\ opts' = [opts EXCEPT !.recv = Accepted(down, @)]
  /\ changed' = [c \in Callers |-> IF pc[c] = "perform"
                                   THEN [changed[c] EXCEPT !.down = "applied"] ELSE changed[c]]
  /\ UNCHANGED <<kind, pc, args, met, limits, calls>>

ApplyUpload ==
  /\ opts' = [opts EXCEPT !.send = Accepted(up, @)]
  /\ changed' = [c \in Callers |-> IF pc[c] = "perform"
                                   THEN [changed[c] EXCEPT !.up = "applied"] ELSE changed[c]]
  /\ UNCHANGED <<kind, pc, args, met, limits, calls>>

Running == \A c \in Callers : pc[c] # "dead"

CallStep(c) ==
  \/ CurlOptInit(c) \/ GiveUp(c) \/ SetTransmissionSpeeds(c) \/ Attach(c)
  \/ CheckLimit(c) \/ KeepTimeout(c) \/ ExtendTimeout(c) \/ DivideByZero(c)
  \/ SetBody(c) \/ SetHeaders(c) \/ Return(c)

SetterStep == StoreDownload \/ StoreUpload \/ ApplyDownload \/ ApplyUpload

Next == /\ Running
        /\ \/ Begin \/ BeginGuest
           \/ \E c \in Callers : CallStep(c)
           \/ SetterStep

Spec == Init /\ [][Next]_vars

----------------------------------------------------------------------------
\* A caller that has the handle for itself: it met nobody, or holds both
\* mutexes.
Alone(c) == ~met \/ (c = "owner" /\ args[c].auth)

\* While libcurl performs, it calls back the object and sends the header list
\* of the call that performs: always for an authorization under both mutexes,
\* and for any other call that met no authorization of LIBHTTPGetAuthLocalIp.
\* A call under g_RequestMutex never sends a freed list, whoever it met.
TransferUsesOwnObjects ==
  /\ \A c \in Callers : pc[c] = "perform" /\ Alone(c) =>
       opts.target = c /\ opts.headers \in {c, "none"}
  /\ pc["owner"] = "perform" => opts.headers # "old"

\* A request or an upload never posts the data of an earlier call, whoever it
\* met: what CURLOPT_POSTFIELDS still points to is cut off by the length.  For
\* a guest that holds when it is alone.
PostsOwnBody ==
  \A c \in Callers :
    pc[c] = "perform" /\ (c = "owner" \/ Alone(c)) =>
      (kind # "download" /\ opts.post /\ opts.fields = "old" => opts.size = "zero")

\* A transfer runs at the limits in force when its handle was configured, if
\* there were any, or at later ones that were applied to it, and the buffer it
\* asks for never exceeds the limits.  Another caller on the handle does not
\* disturb this; limits below 0 are refused.
SpeedsOfTransfer ==
  \A c \in Callers : pc[c] = "perform" /\ (c = "owner" \/ Alone(c)) =>
    LET held(how) == how = "applied" \/ (changed[c] = Kept /\ Limited)
    IN  /\ held(changed[c].down) /\ down >= 0 => opts.recv = down
        /\ held(changed[c].up) /\ up >= 0 => opts.send = up
        /\ changed[c] = Kept => \A limit \in {down, up} \ {0} : opts.buffer <= limit

\* A request that is alone is never given less time than its caller asked for,
\* nor less than its upload needs at the limit, as long as that fits an int.
TimeoutCoversUpload ==
  \A c \in Callers : kind = "request" /\ pc[c] = "perform" /\ Alone(c) =>
    /\ opts.timeout >= TimeoutOf(c)
    /\ changed[c].up = "no" /\ up # 0 /\ Needed(c) < 2^(Width - 1)
         => opts.timeout >= Needed(c)

\* A request divides by an upload limit of 0 only when the limit was removed
\* after the call began: the check covers every limit set before.
ZeroLimitIsSeen ==
  \A c \in Callers : pc[c] = "dead" => changed[c].up = "stored" /\ up = 0

----------------------------------------------------------------------------
\* libhttp.h declares LIBHTTPDownload with "int method = HTTP_METHOD_GET": a
\* download without data is not a POST of what an earlier one has sent.
GetDownloadStaysGet ==
  kind = "download" /\ pc["owner"] = "perform" /\ ~args["owner"].data => ~opts.post
=============================================================================
