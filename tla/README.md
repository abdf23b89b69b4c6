# libHttpcurl in TLA+

A verification development for `src/libhttp/libhttpCurl`, the library a Windows
host process uses for its HTTP requests, downloads and uploads, and for its
predecessor `src/libhttp/libhttp`. It models what the threads of the host can do
to each other through the library's mutexes, static handles, settings and flags,
what a transfer leaves behind, and how the library chooses the server it talks
to. TLC checks the models on small instances; TLAPS proves every safety property
that the passing runs check for every value of the constants.

Paths without a directory are those of `src/libhttp/libhttpCurl`.

## Inventory

| Component | State | Operations | What is hard | Correct when |
|---|---|---|---|---|
| Exported calls, `libhttpCurl.cpp` | `g_RequestMutex`, `g_RequestDownloadMutex`, `g_RequestUploadMutex` | 20 exported functions | three call mutexes, nested `g_RequestMutex` inside downloads and uploads; some calls take no mutex | calls of a class are serial, no cycle of waiting threads, no leaked mutex |
| Authorization, `ChannelServerMgr.cpp:110-138, 274-399` | token, time of the last request, local ip, `m_bIsFirstGetIp`, `m_rwAuthirizeMutex` | `httpRequestAuthirize`, `CheckReConnectServer`, `getAuthLocalIp` | the token is read without a mutex and cleared under another one | a call never sends an empty token, an old token never replaces a new one |
| Choice of the host, `ChannelServerMgr.cpp:78-88, 140-272` | two configured hosts, the channel address and port | `setChannelHTTPHostInfo`, `reDetectServerHost`, `getUrlHead` | address and port are written one by one, read without a mutex | the channel is one host of the configuration in force |
| Probe, `detectIpPort` | none | TCP connect with a time limit | outcome of the network | returns |
| Requests, `HTTPRequest.cpp` | one static CURL handle for all requests, `Close` frees it | `httpRequest` | the handle is freed and made anew while other threads may have it | no locked call is left with a freed handle |
| Downloads, `HTTPDownload.cpp` | static handle, local file, position, time of the last byte | `httpDownload`, write and progress callbacks | short writes, error pages, silent servers, stop requests | the result tells what the file holds |
| Uploads, `HTTPUpload.cpp` | static handle, source file | `httpFilePost`, read and write callbacks | early answers, read errors, silent servers | failures are told from answers |
| Options and callbacks, `HTTPCore.cpp` | stop flag, speed limits, proxy, `m_gHttpMutex`, header list | `curlOptInit`, `setTransmissionSpeeds`, the callbacks | handles keep options between calls; limits change at any time | a transfer uses its own options only |
| Logging, `CLogPrint.cpp` | listener, one text buffer, `m_mtxCallback` | `setLogCallback`, `printf` | the host destroys listeners | a replaced listener is quiet |
| Responses, `CHTTPResponse.cpp` | an immutable record | getters, `Release` | nothing | - |
| Identity of the host, `ChannelServerMgr.cpp:45-76` | uuid, tenant | `setChannelUUIDInfo`, `getChannelUUIDInfo` | no mutex at all; a default is looked up and assigned while the host may set | the default never replaces what the host has set before; a call sends and signs with one identity |
| Proxy, `HTTPCore.cpp:164-184` | address, port, user, password; options of a handle | `LIBHTTPSetProxy`, `setProxy` | four assignments without a mutex, options that stay in a handle | a transfer uses the proxy that is set |
| Former library, `src/libhttp/libhttp` | the flag `m_gHttpContinue`; per call a WinINet session or a CURL handle and a local file | `httpRequest`, `httpDownloader`, `httpFileUploader`, `httpFilePost`, `abortAllRequest` | the flag is shared and every call raises it; the mutex is a member and excludes nobody; many early returns with handles open | an abort ends what runs and nothing else; everything is closed; a success is complete |

How they interact. A host thread calls an exported function, which takes the
mutex of its class (requests, downloads, uploads). If the call needs a token
and there is none, or its answer is a 401, it detects the host again and runs
`httpRequestAuthirize`, which makes two requests on the handle of the requests;
a download or upload takes `g_RequestMutex` for that. libcurl calls back into
`CHTTPCore` under `m_gHttpMutex`. `LIBHTTPStopCurrentDownloadTask` raises a
flag which the write callback of any transfer checks and lowers. Every
component logs through `CLogPrint`. The setters of the identity and of the proxy
write what any call may be reading. The former library is a program of its own:
nothing connects it with the other one.

The hazards with their lines are listed in `PROJECT.json`.

## Modules

| Module | Models | State and actions |
|---|---|---|
| `LibHttpCurl` | the exported calls on any number of threads | `pc[t]` is the place in the code, `lock` the five mutexes, `handle`/`using` the request handle and a thread's pointer to it, `token`/`tok`/`got` the cached token, a call's copy and the one just parsed. One action per lock, transfer, callback and unprotected access |
| `SerialCalls` | the abstract promise of the call mutexes | a call is idle, queued or active; one active call per class |
| `StopFlag` | the abstract promise of the stop flag | a stop that was asked for waits, ends one transfer that runs at that moment, and is used up |
| `HTTPCallbacks` | the write callback and the stop flag | `AskStop`, `WriteRefused`, `WriteAccepted` |
| `HTTPDownload` | `httpDownload` and its callbacks | `dpc` is the phase, `file` the local file, `sent` the bytes libcurl delivered, `idle` the time since the last byte |
| `HTTPUpload` | `httpFilePost` and its callbacks | `upc`, `pos`/`size` of the source file, `answer` units still to come |
| `FileTransfers` | a download and an upload together | they share the stop flag only |
| `FileDelivery` | the abstract promise of a download to the host | the local name is not touched until it is opened; from then on it ends as the whole body with success (the part the disk took, if it lost some) or as nothing with a failure |
| `CurlHandle` | the options of one static handle, which the `owner` uses under the mutex of the handle and, on the request handle, a `guest`, the authorization of `LIBHTTPGetAuthLocalIp`, without it | an option belongs to the call of one of the two, is `old` (of a call that returned) or `none`; each call goes through `curlOptInit`, the speeds, the callback target, the timeout, the body and the headers, step by step and mixed with the other's; setters store and apply each limit in a step of its own |
| `ChannelHost` | configuration, detection and URL head | a field is the number of the `SetChannelInfo` call that wrote it; detection is one action per decision and per assignment |
| `CLogPrint` | the logger | one action per step under `m_mtxCallback`; `retired` are the listeners the host may have destroyed |
| `LogDelivery` | the abstract promise of the logger | setting a listener and logging a text each take effect at one moment; a text goes whole to the listener that is set then; one `onLog` at a time, and no replacement during it |
| `HostSettings` | identity and proxy of the host and the calls that read them | `value` are the static strings, each the setting it comes from, `"default"`, or `"torn"` while it is assigned; `at` is the field a call is at; `opts` are the proxy options of the request handle, `Transfer` uses it under `g_RequestMutex`, `UnlockedTransfer` for `LIBHTTPGetAuthLocalIp` without |
| `LibHTTP` | the former library built on WinINet, and its post on libcurl | `go` is the flag, `file` who made the file of a name, `open` the handles of a call; one action per step at the flag, a file name or WinINet |
| `LibHttpCurlProofs`, `LibHttpCurlProgress`, `FileTransfersProofs`, `CLogPrintProofs`, `CurlHandleProofs`, `ChannelHostProofs`, `HostSettingsProofs`, `LibHTTPProofs` | | theorems and proofs |
| `MC*` | | instances for TLC |

`HTTPDownload` and `HTTPUpload` extend `HTTPCallbacks`; `FileTransfers` composes
them. `LibHttpCurl` implements `SerialCalls` by the refinement mapping
`CallPhase`, `CallClass`. Three more abstract modules are implemented the same
way, each checked by TLC and proved: `StopFlag` by `LibHttpCurl` (`Flag` there,
with the threads for its tasks) and by `FileTransfers` (with the download and the
upload), `FileDelivery` by `HTTPDownload` inside `FileTransfers` (`Phase`,
`NameHolds`, `Outcome`), and `LogDelivery` by `CLogPrint` (`PhaseOf`, `Told`). The models are cut where the code's own shared state
allows it: the transfers as `LibHttpCurl` sees them end by success, failure or
the stop flag, and `FileTransfers` looks inside; `LibHttpCurl` knows whether
there is a usable host, and `ChannelHost` tells which. `HostSettings` stands
beside them: the identity and the proxy decide nothing in the other modules but
the text that a transfer carries.

Each module that TLC runs keeps the mutated forms of some of its definitions
next to them (comment `Mutant`): each shows that a property notices a plausible
mistake in that definition. They are not part of any specification.

### Abstractions

* Strings, JSON, secrets, URLs and headers are their outcomes. A token is the
  number of the authorization that issued it, so that old and new differ.
* Assigning `m_strAuthirize` while another thread copies it is a data race; the
  assignment is two steps with the value `Torn` in between. Using a freed
  handle is recorded (`using = "freed"`) and the run goes on. In
  `ChannelHost` the fields are assigned in one step each: its subject is the
  mixture of fields, not of characters.
* The Win32 builds pass an `int` 0 where libcurl reads a 64-bit limit
  (`HTTPCore.cpp:131`). `CurlHandle` chooses between the outcomes: no limit, or
  the old limit because libcurl refused a negative one.
* `CurlHandle` follows one handle, of any of the three kinds, since nothing but
  the limits is shared between them. `Width` is the width of `int`. A limit is
  any `int`; libcurl refuses a negative one and keeps what it has. Setters have no
  state: the steps of any number of them mix, which includes every order that
  real calls of `LIBHTTPSetTranssionMissSpeeds` can produce.
  `setTransmissionSpeeds` is one step, though a setter may come between its reads
  of the limits: `SpeedsOfTransfer` claims nothing of a limit that was stored
  during the call and not applied. The two reads for the timeout are two steps.
* When the guest of `CurlHandle` meets the owner, the options mix as the code
  sets them. What libcurl does when two threads are inside one handle, or when
  `LIBHTTPRequest` frees the handle under the guest, is undefined; the model goes
  on with the options. That the freed handle is used is the matter of
  `LibHttpCurl`. A call that met the guest may well run with the target and the
  headers of the guest: `TransferUsesOwnObjects` says for which calls this cannot
  be, and that no call under `g_RequestMutex` ever sends a freed header list.
* The body of a transfer comes in units; `WriteFile` writes a unit or nothing.
  Fifteen minutes are `IdleLimit` units of time. The position is that of a
  download with a progress function; without one the code does not count.
* `HostSettings` says of a string where it comes from. A reader may find a torn
  string empty or not. One thread of the host calls the setters. What the
  configuration (`configMgr`) answers is a choice, empty too; `EdrUUid` answers.
  `SetUUIDInfo` takes uuid and tenant of one setting or leaves either out, and
  `SetProxy` takes address and port together. The text of an authorization and
  of a URL is the identity it names. Transfers on the handle overlap only with one
  of `LIBHTTPGetAuthLocalIp`; both are `disturbed` then.
* `LibHTTP` counts content in units, up to `MaxBody`; a block of WinINet holds
  `Full` (`MAX_READONCE_SIZE`), one that libcurl asks of the read callback `Block`,
  the size of its own buffer. Every
  call into WinINet and libcurl may fail. The size of a response text is modelled
  because the code appends a buffer up to its first zero, so that a shorter block
  drags the rest of an earlier one along. Local files appear, are replaced and
  vanish by the host. That the host passes a progress function to a download,
  which the code calls unchecked (`WinINetDownloader.cpp:39`), and that writing
  the local file succeeds is assumed.
* Assumed of the surroundings: libcurl calls the progress callback while it
  waits, `DeleteFile` on the closed file succeeds, and the host's `onLog` and
  progress functions return and do not call the library.

## Runs

| Run | Instance | What it shows |
|---|---|---|
| `exported_calls` | 2 threads, each any one of the 9 calls, `LIBHTTPGetAuthLocalIp` and `LIBHTTPSetTranssionMissSpeeds` among them, stop requests and host changes at any time | mutexes are held exactly where the code says (`LockDiscipline`), in rank order (`LockOrder`); authorized transfers have a token; a torn token cannot reach a request unless `LIBHTTPGetAuthLocalIp` is in use; one stop ends one running transfer (`StopsEndTransfers`, the refinement of `StopFlag`); while calls are under way one of them is not blocked (`SomeCallRuns`), and each step brings its call nearer to its return (`CallsAdvance`); a freed or shared request handle is found only in, or together with, a call that skips `g_RequestMutex`; tokens are stored in the order of issue; `SerialCalls` is implemented |
| `calls_return` | 2 threads: download, upload, request for the local ip | all calls but the upload return, though the upload may hang in its transfer |
| `file_transfers` | 2 downloads, 1 upload, 2 stops, bodies of up to 2 units | success means the whole body (unless the disk lost some), failure leaves no file, the reported position is true; through both downloads the name holds what `FileDelivery` promises for the result; a stop ends one running transfer, nothing else lowers the flag (`StopFlag`), and a stopped transfer is not reported as success; downloads return |
| `handle_options` | 2 calls with any parameters on each kind of handle, one after the other or, on the request handle, mixed with a `LIBHTTPGetAuthLocalIp`; 2 limits stored, any of them applied at any time | a call that met no such authorization, or that is an authorization under both mutexes, has its own callback target and headers, and the owner never a freed list; no foreign body in a request or upload, limits and buffer fit, whoever was met; the timeout fits for a call that was alone; division by zero only after the limit was taken away during the call |
| `channel_host` | 2 threads, 2 calls each, proxy coming and going | the channel is one host of the configuration unless detections overlapped; locked detections do not overlap; a URL mixes hosts only if the channel was rewritten meanwhile |
| `log_listener` | 2 threads, 3 calls each, 3 listeners | a replaced listener is quiet; `LogDelivery` is implemented: no text is mixed with another, lost while a listener is set, or given to a listener other than the one set at that moment; calls return |
| `host_settings` | 2 threads, 1 call each, 2 settings, 2 calls of a setter | a setting is lost only to a default whose search was under way; an undisturbed call sends one whole identity and signs with it; a transfer that overlaps neither a setter nor another transfer has the proxy that is set |
| `former_library` | 2 threads, 1 call each of any kind, one file name, blocks of 2, content counted to 3 | handles are closed on every path; only an abort during the call makes a success incomplete; an aborted call moves one block at most; a failed open leaves the file name free; a response of one block is the body; a post misses less than a block; an abort ends all calls unless a new one revokes it |
| `local_ip_pointer` | violation | `LIBHTTPGetAuthLocalIp` copies the local ip from a handle that another thread freed |
| `upload_error_code` | violation | a failed upload returns a positive code that passes for an HTTP status |
| `download_posts_old_data` | violation | a download without data repeats the POST of an earlier one with its freed data |
| `aborted_download` | violation | a download of the former library that was aborted returns `ERROR_SUCCESS` with a part of the file |

The violation runs each check one statement that a comment, a declaration or a
log line of the repository makes; `PROJECT.json` quotes it under `findings`.

Bounds. Every interference in the call protocol is between two threads, one
that holds or reads and one that takes or writes, so two threads show it; one
call per thread is enough there because a call passes through up to three
transfers and may find what the call of the other thread has left. The same holds
of `host_settings` and `former_library`: one thread meets what the other has
written, and a second setter call replaces what the first has set. With two
settings an old value differs from a new one. Blocks of 2 and content up to 3
give a full block, a short one after it and an end. The proofs remove these
bounds. Two downloads are needed for a
file and a stop that an earlier download left; two units of body for a transfer
cut in the middle; two calls on a handle for an option that outlives a call, or for an owner
that meets a guest;
speeds 1 and 3 lie on both sides of the buffer size 2, -1 is refused, two stored
limits let one be set and taken away within a call, and ints of 14 bits let a
request overflow at speed 1 and not at speed 3. Two calls per thread in `ChannelHost` let one thread
reconfigure and detect while the other does either. Three listeners are one
being called, one replacing it and one more. The liveness run leaves out the
other request calls: they take the same mutexes in the same order.

Deadlock is not checked where calls, downloads or uploads run out by their
bound, in `CurlHandle`, where a division by zero ends the process, in `HostSettings` and in
the logger; `LibHttpCurl`, `ChannelHost` and `LibHTTP` keep steps of the
surroundings enabled, so there deadlock freedom of the calls is the matter of
`SomeCallRuns`, `NonUploadCallsReturn` and `AbortEndsCalls`. (`ChannelHost` takes two
of the mutexes of `LibHttpCurl`, in the same order.)

Fairness. `LibHttpCurl!FairSpec` assumes that a thread inside the library goes
on when it can (weak fairness). Nothing is assumed of the order in which waiting
threads get a mutex: the calls of an instance are finite, so a mutex that is
released often enough stays free in the end. A transfer ends by itself because a request has
`CURLOPT_TIMEOUT_MS` and a download its idle limit; an upload has neither, so
nothing is assumed of its transfer. `TFairSpec` assumes the same of a
download's steps and that time passes. `CLogPrint!FairSpec` assumes that a
thread in the logger runs on and that the host's `onLog` returns. `LFairSpec`
assumes that every call of the former library goes on: WinINet ends a connect or
a receive by its time limits, libcurl calls the progress function, and the model
leaves open how much a server sends, so `AbortEndsCalls` is about a server that
never ends.

## Proofs

`LibHttpCurlProofs`, for any set of threads and any bounds. The property
`LockDiscipline` is inductive only together with the types and with `Flow`,
which says at which places a thread can be inside `httpRequestAuthirize`;
`LInv == TypeOK /\ Flow /\ LockDiscipline`. `FlowStep` and `LockStep` go through
the actions one by one. `LockOrder` follows from `LInv`. On top of `LInv`:
`HandleInv` ties the pointer to the handle to the places where `g_RequestMutex`
is held, which gives `LockedCallsAreSafe` and `HandleIsNotShared`; `TokenInv`
keeps the copied token until the transfer; `GotInv` says that under
`m_rwAuthirizeMutex` the token to be stored is the newest, which gives the
action property `TokensAreStoredInOrder`. `CallsImplementSerial` shows that
every step is a step of `SerialCalls` or a stutter; the mutex of the class is
held by every active call (`LockDiscipline`), hence `Start` finds no other.

`LibHttpCurlProgress`, for the same. `StopsAreImplemented` maps each transfer to a
task of `StopFlag`. It needs that a callback which is about to lower the flag
still finds it up (`StopConsumedOnce`, by `m_gHttpMutex`) and that a transfer
which was stopped gets no further callback until its reply is read (`CutInv`),
else it could be stopped twice. `CallsDoNotDeadlock` rests on the order of the
mutexes: a call that is blocked waits for a mutex whose holder is itself inside
the library (`HolderIsBusy`) and, if blocked too, waits for one of a higher rank
(`Climb`); the ranks end at four, so one of them is not blocked.
`CallsAlwaysAdvance` counts the steps that a call has left at each place
(`StepsLeft`) and shows, action by action, that the call's own step lowers the
count and that the steps of others leave it. The count depends on `MaxChunks`, as
the write callbacks of one transfer are as many as libcurl has chunks to hand
over; nothing else is bounded by it. Together the two are the safety half of
`NonUploadCallsReturn`: some call is never blocked, and a call that moves cannot
move for ever. The rest, that a call which is not blocked does move, is fairness
and stays with TLC.

`FileTransfersProofs`, for bodies, files and numbers of any size. `TransferInv`
adds to the types and `StopAccounting` the way of the file (`DownloadInv`: the
file holds at most what was sent, and all of it unless a write was lost; a
complete transfer has sent the body; a stopped one has an error code) and of
the upload (`UploadInv`). All safety properties of the run follow. For the
refinement of `StopFlag`, a transfer that performs has not been stopped yet; each
step of one transfer is a move of that one alone (`TaskMoves`). For that of
`FileDelivery`, `DownloadInv` says where the file is the download's own and that
a complete one is whole or lossy, which is what `Judge` needs to be `Succeed`.

`CLogPrintProofs`: with the mutex and the place of each thread
the listener in `m_pLogListener`, and the one being called, are not retired. The
refinement of `LogDelivery` takes effect at `Install` for a call that sets and at
`Deliver`, or the early return, for one that logs: the listener that `printf`
tested is still the one it calls, the buffer is still its own, and nobody else is
in `onLog`, all by the mutex.

`LibHttpCurlProofs` also has `TornTokensNeedUnlockedAccess`. A token is torn only
while a thread assigns it (`TornInv`), whether the thread holds a mutex or not; a
reader that holds `g_RequestMutex` therefore meets a `LIBHTTPGetAuthLocalIp`, which
stores without that mutex.

`CurlHandleProofs`, for any speeds, lengths, timeouts and width of an int.
`CallerInv` says what the mutexes give: an authorization of the owner and a guest
are never under way together, and a call that met nobody has nobody beside it.
`StageInv` says what the options are at each place of a call that is alone, and of
the options that a guest leaves as they are, at each place of the owner's;
`SpeedInv` ties the limits of the handle to those of the library and to `changed`,
`TimeoutInv` keeps the timeout of a request; each is inductive with the types. What an int does to
a number that fits (`IntHolds`) rests on `PowersAssumption`, `2^Width` being
twice `2^(Width - 1)`, which the provers do not know.

`ChannelHostProofs`, for any threads, configurations and proxies. Of two
detections that overlap, each is marked (`OverlapInv`): who enters marks itself
and all others, and the mark goes with the detection. Hence one that is not
marked is alone from its entry on, the address it wrote still belongs to its
choice when it writes the port (`ChannelInv`), and the channel is one host.
`UrlInv` says that what an undisturbed `getUrlHead` has read is what the channel
still is. Locked detections exclude each other by the mutex (`Places`).

`HostSettingsProofs`, for any threads and settings. `SetterInv` says how much of
its arguments a setter has written; `RaceInv` that nobody is filling a field that
the host has set, unless `raced` tells; `TransferInv` that an undisturbed transfer
is the only one, what it has copied, and what a new handle does not have; `TornInv` that a torn field is
being assigned by somebody, so that an undisturbed call (`IdentityInv`), which is
alone with the identity, never meets one.

`LibHTTPProofs`, for any threads, names and sizes. `LInv` is the types, the places
with the handles that a call has there, and `PostInv`, the counts of a post.
`FlagInv` (a call is cut only if the flag was lowered during it), `FileInv` (the
file of a call whose open failed) and `BlockInv` (the response is at least as long as
what arrived, and longer only when a block was shorter than what the buffer still
held) are inductive on top of it.

The type invariants are proved and not checked again in the runs, and so are
`StopConsumedOnce`, `StopAccounting` and `LogIsOwn`, which the refinements imply or
rest on.

Assumptions: those named in the modules (`ThreadsAssumption`,
`DownloadAssumption`, ...), evaluated by TLC in every run.

Only model-checked: liveness (`NonUploadCallsReturn`, `DownloadReturns`,
`LogCallsReturn`, `AbortEndsCalls`).

## Not modelled

* In the former library the requests, downloads and submissions on libcurl: they
  are reached only without `USE_WININET`, in branches that pass an undeclared
  `vecList` to `addHeader`, so no build contains them. Its cracking of URLs and
  the copies into the buffers of the host are formatting.
* Cookies, user agent and the splitting of header text: they hand text to libcurl
  and no later step depends on it.
* The socket calls of `detectIpPort`. Its outcome is a free choice in
  `ChannelHost`, which covers the `error_code` that is compared uninitialised
  when `getsockopt` fails (`ChannelServerMgr.cpp:469`).
* `CHTTPResponse`, an immutable record, and the build files.
* That the host calls the library from its progress function or its log listener.
* The construction of the static handles by the first objects, one step here.

Two behaviours are modelled without a property, because nothing in the repository
says what is meant: the token of an earlier authorization is kept when an answer
has no data (`ChannelServerMgr.cpp:393`), and `m_bIsFirstGetIp` is set after a
failed authorization too (`ChannelServerMgr.cpp:125`).

## What the properties bound and do not prevent

Where the code has no protection, a property cannot say that nothing goes wrong.
It says when it can: the model contains the harmful step, and the property names
the condition under which it happens, so that nothing else causes it.

| Property | What still happens |
|---|---|
| `TornTokenNeedsUnlockedAccess` | a download or upload copies a token that is being assigned |
| `StopsEndTransfers`, `StopEndsOneTransfer` | a request uses up a stop that was meant for a download |
| `SuccessLeavesBody`, `DeliversFile` | a short `WriteFile` loses a part of the body of a successful download |
| `ChannelFollowsConfig`, `UrlOfOneHost` | overlapping detections mix two hosts; a URL joins the parts of two, if the channel is rewritten meanwhile |
| `TransferUsesOwnObjects`, `TimeoutCoversUpload` | a request that meets the authorization of `LIBHTTPGetAuthLocalIp` is answered into its object, with its headers and its timeout |
| `ZeroLimitIsSeen` | the process ends by a division by zero when the limit is taken away between the check and the division |
| `OneBlockResponseIsBody`, `PostMissesLessThanBlock` | a longer response holds bytes twice; the last short block of a post is lost |
| `HostIdentityStays`, `IdentityIsHosts`, `TransferUsesProxy` | a default replaces what the host sets at that moment; a call mixes two identities, or two proxies, that the host sets during it; a removed proxy stays in a kept handle |

## Plan

Done, in this order: the call protocol, the transfers, the logger, the options of
a handle, the choice of the host, the former library, the settings of the host,
each with its proofs; then the abstract promises of the stop flag, of a download and
of the logger, and the progress of the calls. To come:

1. The construction of the static handles, `curl_global_init` included, by two
   first objects at once.
2. A host that calls back into the library from its progress function, as an
   action of `LibHttpCurl`.
