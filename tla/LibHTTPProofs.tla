--------------------------- MODULE LibHTTPProofs ---------------------------
(* The safety properties of the former library, for any number of threads  *)
(* and files, any size of the blocks and any bounds.                       *)
EXTENDS LibHTTP, TLAPS

\* Where a call stands, what it can have and what it can be.
Places ==
  \A t \in Threads :
    /\ pc[t] \in {"idle", "entered", "file"} =>
         /\ size[t] = 0 /\ fill[t] = 0 /\ got[t] = 0 /\ out[t] = 0
         /\ result[t] = "none" /\ seen[t] \subseteq {"aborted"}
    /\ pc[t] \in {"idle", "entered"} => open[t] = {}
    /\ pc[t] \in {"file", "delete", "return"} => open[t] \subseteq {"session", "curl"}
    /\ pc[t] = "open" => open[t] \subseteq {"session", "curl", "file"}
    /\ pc[t] = "perform" => Posts(t)
    /\ Posts(t) => pc[t] \in {"idle", "entered", "file", "perform", "close", "return"}

\* What a post has read of its file, and posted.
PostInv ==
  \A t \in Threads :
    Posts(t) =>
      /\ out[t] <= got[t] /\ got[t] <= size[t]
      /\ pc[t] = "perform" /\ "ended" \notin seen[t] => out[t] = got[t]
      /\ "ended" \in seen[t] => size[t] - out[t] < Block

LInv == LTypeOK /\ Places /\ PostInv

USE DEF Goto, Opens, Closes, Gives, Sees, fileVars, dataVars

\* Nothing has happened before the first call.
LEMMA LInvInit == LInit => LInv
<1> SUFFICES ASSUME LInit PROVE LInv
  OBVIOUS
<1>1. 0 \in 0..MaxBody /\ 0 \in 0..Full /\ 0 \in 0..2 /\ MaxCalls \in 0..MaxCalls
  BY SizesAssumption
<1>2. LTypeOK
  <2>1. go \in BOOLEAN /\ file \in [Names -> Threads \cup {Absent, Host}]
    BY DEF LInit
  <2>2. pc \in [Threads -> PCs] /\ kind \in [Threads -> Kinds] /\ name \in [Threads -> Names]
    BY DEF LInit, PCs, Kinds
  <2>3. open \in [Threads -> SUBSET Handles] /\ seen \in [Threads -> SUBSET Events]
    BY DEF LInit
  <2>4. result \in [Threads -> Results] /\ calls \in [Threads -> 0..MaxCalls]
    BY <1>1 DEF LInit, Results
  <2>5. /\ size \in [Threads -> 0..MaxBody] /\ fill \in [Threads -> 0..Full]
        /\ got \in [Threads -> 0..MaxBody] /\ out \in [Threads -> 0..MaxBody]
        /\ late \in [Threads -> 0..2]
    BY <1>1 DEF LInit
  <2> QED
    BY <2>1, <2>2, <2>3, <2>4, <2>5 DEF LTypeOK
<1>3. Places /\ PostInv
  BY DEF LInit, Places, PostInv, Posts
<1> QED
  BY <1>2, <1>3 DEF LInv

\* The types.
LEMMA LTypeStep == LInv /\ [LNext]_vars => LTypeOK'
<1> SUFFICES ASSUME LInv, [LNext]_vars PROVE LTypeOK'
  OBVIOUS
<1> USE SizesAssumption DEF LInv, LTypeOK, PCs, Kinds, Handles, Events
<1>1. CASE UNCHANGED vars
  BY <1>1 DEF vars
<1>2. CASE AbortAllRequest
  <2>1. seen' \in [Threads -> SUBSET Events] /\ late' \in [Threads -> 0..2]
    BY <1>2 DEF AbortAllRequest
  <2> QED
    BY <1>2, <2>1 DEF AbortAllRequest
<1>3. ASSUME NEW n \in Names, HostFile(n) PROVE LTypeOK'
  BY <1>3 DEF HostFile
<1>4. ASSUME NEW t \in Threads, Begin(t) PROVE LTypeOK'
  BY <1>4 DEF Begin
<1>5. ASSUME NEW t \in Threads, CallStep(t) PROVE LTypeOK'
  <2> USE DEF Results, OpenErrors, SendErrors
  <2>1. CASE RefuseParam(t) \/ Construct(t) \/ NoBackend(t)
    BY <2>1 DEF RefuseParam, Construct, NoBackend
  <2>2. CASE CreateNew(t)
    BY <2>2 DEF CreateNew
  <2>3. CASE OpenSource(t)
    BY <2>3 DEF OpenSource
  <2>4. CASE NoFile(t) \/ OpenFails(t) \/ OpenRequest(t)
    BY <2>4 DEF NoFile, OpenFails, OpenRequest
  <2>5. CASE DeleteFile(t)
    BY <2>5 DEF DeleteFile
  <2>6. CASE Start(t) \/ StartFails(t)
    BY <2>6 DEF Start, StartFails
  <2>7. CASE Close(t)
    BY <2>7 DEF Close
  <2>8. CASE Return(t)
    BY <2>8 DEF Return
  <2> QED
    BY <1>5, <2>1, <2>2, <2>3, <2>4, <2>5, <2>6, <2>7, <2>8 DEF CallStep
<1>6. ASSUME NEW t \in Threads, TransferStep(t) PROVE LTypeOK'
  <2> USE DEF Results, OpenErrors, SendErrors
  <2>1. CASE Continue(t) \/ Cut(t) \/ ReadEnd(t) \/ ReadFails(t)
    BY <2>1 DEF Continue, Cut, ReadEnd, ReadFails
  <2>2. CASE ReadBlock(t)
    BY <2>2 DEF ReadBlock, Late, Counted, Smaller, Larger
  <2>3. CASE SubmitBlock(t)
    BY <2>3 DEF SubmitBlock, Late, Smaller
  <2>4. CASE SubmitEnd(t)
    BY <2>4 DEF SubmitEnd
  <2>5. CASE PostRead(t)
    BY <2>5 DEF PostRead, ReadCallback, Smaller, Places, PostInv
  <2>6. CASE PostReadFails(t) \/ PostProgress(t) \/ PostDone(t)
    BY <2>6 DEF PostReadFails, PostProgress, PostDone
  <2> QED
    BY <1>6, <2>1, <2>2, <2>3, <2>4, <2>5, <2>6 DEF TransferStep
<1> QED
  BY <1>1, <1>2, <1>3, <1>4, <1>5, <1>6 DEF LNext

\* The places.
LEMMA PlacesStep == LInv /\ [LNext]_vars => Places'
<1> SUFFICES ASSUME LInv, [LNext]_vars PROVE Places'
  OBVIOUS
<1> USE DEF LInv, LTypeOK, Places, Posts, Downloads, Receives, Submits, Handles
<1>1. CASE UNCHANGED vars
  BY <1>1 DEF vars
<1>2. CASE AbortAllRequest
  BY <1>2 DEF AbortAllRequest
<1>3. ASSUME NEW n \in Names, HostFile(n) PROVE Places'
  BY <1>3 DEF HostFile
<1>4. ASSUME NEW t \in Threads, Begin(t) PROVE Places'
  BY <1>4 DEF Begin
<1>5. ASSUME NEW t \in Threads, CallStep(t) PROVE Places'
  <2>1. CASE RefuseParam(t) \/ Construct(t) \/ NoBackend(t)
    BY <2>1 DEF RefuseParam, Construct, NoBackend
  <2>2. CASE CreateNew(t)
    BY <2>2 DEF CreateNew
  <2>3. CASE OpenSource(t)
    BY <2>3 DEF OpenSource
  <2>4. CASE NoFile(t) \/ OpenFails(t) \/ OpenRequest(t)
    BY <2>4 DEF NoFile, OpenFails, OpenRequest
  <2>5. CASE DeleteFile(t)
    BY <2>5 DEF DeleteFile
  <2>6. CASE Start(t) \/ StartFails(t)
    BY <2>6 DEF Start, StartFails
  <2>7. CASE Close(t)
    BY <2>7 DEF Close
  <2>8. CASE Return(t)
    BY <2>8 DEF Return
  <2> QED
    BY <1>5, <2>1, <2>2, <2>3, <2>4, <2>5, <2>6, <2>7, <2>8 DEF CallStep
<1>6. ASSUME NEW t \in Threads, TransferStep(t) PROVE Places'
  <2>1. CASE Continue(t) \/ Cut(t) \/ ReadEnd(t) \/ ReadFails(t)
    BY <2>1 DEF Continue, Cut, ReadEnd, ReadFails
  <2>2. CASE ReadBlock(t)
    BY <2>2 DEF ReadBlock
  <2>3. CASE SubmitBlock(t) \/ SubmitEnd(t)
    BY <2>3 DEF SubmitBlock, SubmitEnd
  <2>4. CASE PostRead(t)
    BY <2>4 DEF PostRead, ReadCallback
  <2>5. CASE PostReadFails(t) \/ PostProgress(t) \/ PostDone(t)
    BY <2>5 DEF PostReadFails, PostProgress, PostDone
  <2> QED
    BY <1>6, <2>1, <2>2, <2>3, <2>4, <2>5 DEF TransferStep
<1> QED
  BY <1>1, <1>2, <1>3, <1>4, <1>5, <1>6 DEF LNext

\* Of the post, only its own steps and its start touch what it counts.
LEMMA PostStep == LInv /\ [LNext]_vars => PostInv'
<1> SUFFICES ASSUME LInv, [LNext]_vars PROVE PostInv'
  OBVIOUS
<1> USE SizesAssumption DEF LInv, LTypeOK, Places, PostInv, Posts, Downloads,
      Receives, Submits
<1>1. CASE UNCHANGED vars
  BY <1>1 DEF vars
<1>2. CASE AbortAllRequest
  BY <1>2 DEF AbortAllRequest
<1>3. ASSUME NEW n \in Names, HostFile(n) PROVE PostInv'
  BY <1>3 DEF HostFile
<1>4. ASSUME NEW t \in Threads, Begin(t) PROVE PostInv'
  BY <1>4 DEF Begin
<1>5. ASSUME NEW t \in Threads, CallStep(t) PROVE PostInv'
  <2>1. CASE RefuseParam(t) \/ Construct(t) \/ NoBackend(t)
    BY <2>1 DEF RefuseParam, Construct, NoBackend
  <2>2. CASE CreateNew(t)
    BY <2>2 DEF CreateNew
  <2>3. CASE OpenSource(t)
    BY <2>3 DEF OpenSource
  <2>4. CASE NoFile(t) \/ OpenFails(t) \/ OpenRequest(t)
    BY <2>4 DEF NoFile, OpenFails, OpenRequest
  <2>5. CASE DeleteFile(t)
    BY <2>5 DEF DeleteFile
  <2>6. CASE Start(t) \/ StartFails(t)
    BY <2>6 DEF Start, StartFails
  <2>7. CASE Close(t)
    BY <2>7 DEF Close
  <2>8. CASE Return(t)
    BY <2>8 DEF Return
  <2> QED
    BY <1>5, <2>1, <2>2, <2>3, <2>4, <2>5, <2>6, <2>7, <2>8 DEF CallStep
<1>6. ASSUME NEW t \in Threads, TransferStep(t) PROVE PostInv'
  <2>1. CASE Continue(t) \/ Cut(t) \/ ReadEnd(t) \/ ReadFails(t)
    BY <2>1 DEF Continue, Cut, ReadEnd, ReadFails
  <2>2. CASE ReadBlock(t)
    BY <2>2 DEF ReadBlock
  <2>3. CASE SubmitBlock(t) \/ SubmitEnd(t)
    BY <2>3 DEF SubmitBlock, SubmitEnd
  <2>4. CASE PostRead(t)
    BY <2>4 DEF PostRead, ReadCallback, Smaller
  <2>5. CASE PostReadFails(t) \/ PostProgress(t) \/ PostDone(t)
    BY <2>5 DEF PostReadFails, PostProgress, PostDone
  <2> QED
    BY <1>6, <2>1, <2>2, <2>3, <2>4, <2>5 DEF TransferStep
<1> QED
  BY <1>1, <1>2, <1>3, <1>4, <1>5, <1>6 DEF LNext

\* A step keeps the inductive invariant.
LEMMA LInvStep == LInv /\ [LNext]_vars => LInv'
  BY LTypeStep, PlacesStep, PostStep DEF LInv

\* It holds in every state.
LEMMA LInvAlways == LSpec => []LInv
  BY LInvInit, LInvStep, PTL DEF LSpec

----------------------------------------------------------------------------
\* The variables of the former library keep their types.
THEOREM LTypeCorrect == LSpec => []LTypeOK
<1>1. LInv => LTypeOK
  BY DEF LInv
<1> QED
  BY <1>1, LInvAlways, PTL

\* A call that has returned, on whatever path, has closed what it opened.
THEOREM HandlesAreReleased == LSpec => []HandlesReleased
<1>1. LInv => HandlesReleased
  BY DEF LInv, Places, HandlesReleased
<1> QED
  BY <1>1, LInvAlways, PTL

\* A post that was not cut lacks less than one block of its file.
THEOREM PostsMissLessThanBlock == LSpec => []PostMissesLessThanBlock
<1>1. LInv => PostMissesLessThanBlock
  BY DEF LInv, PostInv, PostMissesLessThanBlock
<1> QED
  BY <1>1, LInvAlways, PTL

----------------------------------------------------------------------------
(* The flag.                                                               *)

\* While the flag is down every call under way has seen the abort, a call that
\* waits for a block has moved none since, and a success was complete or is
\* that of an aborted call.
FlagInv ==
  \A t \in Threads :
    /\ ~go /\ pc[t] # "idle" => "aborted" \in seen[t]
    /\ ~go => late[t] <= 1
    /\ ~go /\ pc[t] = "read" => late[t] = 0
    /\ Receives(t) /\ result[t] = "ERROR_SUCCESS" => seen[t] \cap {"ended", "aborted"} # {}

\* A step keeps what is known of the flag.
LEMMA FlagStep == LInv /\ FlagInv /\ [LNext]_vars => FlagInv'
<1> SUFFICES ASSUME LInv, FlagInv, [LNext]_vars PROVE FlagInv'
  OBVIOUS
<1> USE DEF LInv, LTypeOK, Places, FlagInv, Posts, Downloads, Receives, Submits
<1>1. CASE UNCHANGED vars
  BY <1>1 DEF vars
<1>2. CASE AbortAllRequest
  BY <1>2 DEF AbortAllRequest
<1>3. ASSUME NEW n \in Names, HostFile(n) PROVE FlagInv'
  BY <1>3 DEF HostFile
<1>4. ASSUME NEW t \in Threads, Begin(t) PROVE FlagInv'
  BY <1>4 DEF Begin
<1>5. ASSUME NEW t \in Threads, CallStep(t) PROVE FlagInv'
  <2> USE DEF SendErrors, OpenErrors
  <2>1. CASE RefuseParam(t) \/ Construct(t) \/ NoBackend(t)
    BY <2>1 DEF RefuseParam, Construct, NoBackend
  <2>2. CASE CreateNew(t)
    BY <2>2 DEF CreateNew
  <2>3. CASE OpenSource(t)
    BY <2>3 DEF OpenSource
  <2>4. CASE NoFile(t) \/ OpenFails(t) \/ OpenRequest(t)
    BY <2>4 DEF NoFile, OpenFails, OpenRequest
  <2>5. CASE DeleteFile(t)
    BY <2>5 DEF DeleteFile
  <2>6. CASE Start(t) \/ StartFails(t)
    BY <2>6 DEF Start, StartFails
  <2>7. CASE Close(t)
    BY <2>7 DEF Close
  <2>8. CASE Return(t)
    BY <2>8 DEF Return
  <2> QED
    BY <1>5, <2>1, <2>2, <2>3, <2>4, <2>5, <2>6, <2>7, <2>8 DEF CallStep
<1>6. ASSUME NEW t \in Threads, TransferStep(t) PROVE FlagInv'
  <2> USE DEF SendErrors
  <2>1. CASE Continue(t) \/ ReadFails(t)
    BY <2>1 DEF Continue, ReadFails
  <2>6. CASE Cut(t)
    BY <2>6 DEF Cut
  <2>7. CASE ReadEnd(t)
    BY <2>7 DEF ReadEnd
  <2>2. CASE ReadBlock(t)
    BY <2>2 DEF ReadBlock, Late, Smaller
  <2>3. CASE SubmitBlock(t) \/ SubmitEnd(t)
    BY <2>3 DEF SubmitBlock, SubmitEnd, Late, Smaller
  <2>4. CASE PostRead(t)
    BY <2>4 DEF PostRead, ReadCallback
  <2>5. CASE PostReadFails(t) \/ PostProgress(t) \/ PostDone(t)
    BY <2>5 DEF PostReadFails, PostProgress, PostDone
  <2> QED
    BY <1>6, <2>1, <2>2, <2>3, <2>4, <2>5, <2>6, <2>7 DEF TransferStep
<1> QED
  BY <1>1, <1>2, <1>3, <1>4, <1>5, <1>6 DEF LNext

\* The relation of flag and calls holds in every state.
LEMMA FlagAlways == LSpec => []FlagInv
<1>1. LInit => FlagInv
  BY DEF LInit, FlagInv
<1> QED
  BY <1>1, FlagStep, LInvInit, LInvStep, PTL DEF LSpec

\* After an abort a call moves at most the block that it was waiting for.
THEOREM AbortedCallsMoveOneBlock == LSpec => []AbortedCallsStop
<1>1. FlagInv => AbortedCallsStop
  BY DEF FlagInv, AbortedCallsStop
<1> QED
  BY <1>1, FlagAlways, PTL

\* An incomplete transfer that passes for a success was aborted itself.
THEOREM PartsAreOfAbortedCalls == LSpec => []PartialOnlyIfAborted
<1>1. FlagInv => PartialOnlyIfAborted
  BY DEF FlagInv, PartialOnlyIfAborted
<1> QED
  BY <1>1, FlagAlways, PTL

----------------------------------------------------------------------------
(* The local files.                                                        *)

\* A download that has its file open made it, and one that could not open its
\* request has deleted its file or found an upload reading it.
FileInv ==
  \A t \in Threads :
    /\ "file" \in open[t] /\ Downloads(t) => file[name[t]] = t
    /\ "created" \in seen[t] => Downloads(t)
    /\ "created" \in seen[t] /\ "opened" \notin seen[t] =>
         /\ pc[t] \in {"open", "delete", "return"}
         /\ pc[t] = "return" => file[name[t]] # t \/ "shared" \in seen[t]

\* A step keeps what is known of the files.
LEMMA FileStep == LInv /\ FileInv /\ [LNext]_vars => FileInv'
<1> SUFFICES ASSUME LInv, FileInv, [LNext]_vars PROVE FileInv'
  OBVIOUS
<1> USE OwnersAssumption DEF LInv, LTypeOK, Places, FileInv, Posts, Downloads,
      Receives, Submits
<1>1. CASE UNCHANGED vars
  BY <1>1 DEF vars
<1>2. CASE AbortAllRequest
  BY <1>2 DEF AbortAllRequest
<1>3. ASSUME NEW n \in Names, HostFile(n) PROVE FileInv'
  BY <1>3 DEF HostFile, Readers, Writers
<1>4. ASSUME NEW t \in Threads, Begin(t) PROVE FileInv'
  BY <1>4 DEF Begin
<1>5. ASSUME NEW t \in Threads, CallStep(t) PROVE FileInv'
  <2>1. CASE RefuseParam(t) \/ Construct(t) \/ NoBackend(t)
    BY <2>1 DEF RefuseParam, Construct, NoBackend
  <2>2. CASE CreateNew(t)
    BY <2>2 DEF CreateNew
  <2>3. CASE OpenSource(t)
    BY <2>3 DEF OpenSource
  <2>4. CASE NoFile(t) \/ OpenFails(t) \/ OpenRequest(t)
    BY <2>4 DEF NoFile, OpenFails, OpenRequest
  <2>5. CASE DeleteFile(t)
    <3>1. CASE Readers(name[t]) \cup Writers(name[t]) = {}
      BY <2>5, <3>1 DEF DeleteFile, Writers
    <3>2. CASE Readers(name[t]) \cup Writers(name[t]) # {}
      <4>1. Readers(name[t]) = {} => file[name[t]] # t
        BY <2>5, <3>2 DEF DeleteFile, Writers
      <4> QED
        BY <2>5, <3>2, <4>1 DEF DeleteFile
    <3> QED
      BY <3>1, <3>2
  <2>6. CASE Start(t) \/ StartFails(t)
    BY <2>6 DEF Start, StartFails
  <2>7. CASE Close(t)
    BY <2>7 DEF Close
  <2>8. CASE Return(t)
    BY <2>8 DEF Return
  <2> QED
    BY <1>5, <2>1, <2>2, <2>3, <2>4, <2>5, <2>6, <2>7, <2>8 DEF CallStep
<1>6. ASSUME NEW t \in Threads, TransferStep(t) PROVE FileInv'
  <2>1. CASE Continue(t) \/ Cut(t) \/ ReadEnd(t) \/ ReadFails(t)
    BY <2>1 DEF Continue, Cut, ReadEnd, ReadFails
  <2>2. CASE ReadBlock(t)
    BY <2>2 DEF ReadBlock
  <2>3. CASE SubmitBlock(t) \/ SubmitEnd(t)
    BY <2>3 DEF SubmitBlock, SubmitEnd
  <2>4. CASE PostRead(t)
    BY <2>4 DEF PostRead, ReadCallback
  <2>5. CASE PostReadFails(t) \/ PostProgress(t) \/ PostDone(t)
    BY <2>5 DEF PostReadFails, PostProgress, PostDone
  <2> QED
    BY <1>6, <2>1, <2>2, <2>3, <2>4, <2>5 DEF TransferStep
<1> QED
  BY <1>1, <1>2, <1>3, <1>4, <1>5, <1>6 DEF LNext

\* A download whose request could not be opened leaves its name free.
THEOREM OpenFailuresFreeTheName == LSpec => []OpenFailureFreesName
<1>1. LInit => FileInv
  BY DEF LInit, FileInv
<1>2. FileInv => OpenFailureFreesName
  BY DEF FileInv, OpenFailureFreesName
<1> QED
  BY <1>1, <1>2, FileStep, LInvInit, LInvStep, PTL DEF LSpec

----------------------------------------------------------------------------
(* The text of a response.                                                 *)

\* The buffer has held a longer block than the last one before the response
\* differs from the body; what is counted only stops to be exact at the bound.
BlockInv ==
  \A t \in Threads :
    kind[t] = "httpRequest" =>
      /\ got[t] <= out[t] /\ (got[t] = out[t] \/ fill[t] < got[t])
      /\ fill[t] <= got[t] \/ got[t] = MaxBody

\* A step keeps the buffer and the response in this relation.
LEMMA BlockStep == LInv /\ BlockInv /\ [LNext]_vars => BlockInv'
<1> SUFFICES ASSUME LInv, BlockInv, [LNext]_vars PROVE BlockInv'
  OBVIOUS
<1> USE SizesAssumption DEF LInv, LTypeOK, Places, BlockInv, Posts, Downloads,
      Receives, Submits
<1>1. CASE UNCHANGED vars
  BY <1>1 DEF vars
<1>2. CASE AbortAllRequest
  BY <1>2 DEF AbortAllRequest
<1>3. ASSUME NEW n \in Names, HostFile(n) PROVE BlockInv'
  BY <1>3 DEF HostFile
<1>4. ASSUME NEW t \in Threads, Begin(t) PROVE BlockInv'
  BY <1>4 DEF Begin
<1>5. ASSUME NEW t \in Threads, CallStep(t) PROVE BlockInv'
  <2>1. CASE RefuseParam(t) \/ Construct(t) \/ NoBackend(t)
    BY <2>1 DEF RefuseParam, Construct, NoBackend
  <2>2. CASE CreateNew(t)
    BY <2>2 DEF CreateNew
  <2>3. CASE OpenSource(t)
    BY <2>3 DEF OpenSource
  <2>4. CASE NoFile(t) \/ OpenFails(t) \/ OpenRequest(t)
    BY <2>4 DEF NoFile, OpenFails, OpenRequest
  <2>5. CASE DeleteFile(t)
    BY <2>5 DEF DeleteFile
  <2>6. CASE Start(t) \/ StartFails(t)
    BY <2>6 DEF Start, StartFails
  <2>7. CASE Close(t)
    BY <2>7 DEF Close
  <2>8. CASE Return(t)
    BY <2>8 DEF Return
  <2> QED
    BY <1>5, <2>1, <2>2, <2>3, <2>4, <2>5, <2>6, <2>7, <2>8 DEF CallStep
<1>6. ASSUME NEW t \in Threads, TransferStep(t) PROVE BlockInv'
  <2>1. CASE Continue(t) \/ Cut(t) \/ ReadEnd(t) \/ ReadFails(t)
    BY <2>1 DEF Continue, Cut, ReadEnd, ReadFails
  <2>2. CASE ReadBlock(t)
    BY <2>2 DEF ReadBlock, Counted, Smaller, Larger
  <2>3. CASE SubmitBlock(t) \/ SubmitEnd(t)
    BY <2>3 DEF SubmitBlock, SubmitEnd
  <2>4. CASE PostRead(t)
    BY <2>4 DEF PostRead, ReadCallback
  <2>5. CASE PostReadFails(t) \/ PostProgress(t) \/ PostDone(t)
    BY <2>5 DEF PostReadFails, PostProgress, PostDone
  <2> QED
    BY <1>6, <2>1, <2>2, <2>3, <2>4, <2>5 DEF TransferStep
<1> QED
  BY <1>1, <1>2, <1>3, <1>4, <1>5, <1>6 DEF LNext

\* A response of one block is the body that the server sent.
THEOREM OneBlockResponsesAreBodies == LSpec => []OneBlockResponseIsBody
<1>1. LInit => BlockInv
  BY SizesAssumption DEF LInit, BlockInv
<1>2. LInv /\ BlockInv => OneBlockResponseIsBody
  BY SizesAssumption DEF LInv, LTypeOK, BlockInv, OneBlockResponseIsBody
<1> QED
  BY <1>1, <1>2, BlockStep, LInvInit, LInvStep, PTL DEF LSpec
=============================================================================
