------------------------- MODULE LibHttpCurlProgress -------------------------
(***************************************************************************)
(* Theorems about LibHttpCurl, continued: the stop flag as the transfers   *)
(* share it, and why no call of any number of threads is stuck for ever.   *)
(***************************************************************************)
EXTENDS LibHttpCurlProofs

----------------------------------------------------------------------------
(* The write callbacks implement StopFlag.                                 *)

\* A transfer that was stopped gets no further write callback.
CutInv ==
  \A t \in Threads :
    cut[t] => pc[t] = "copyIp" \/ (pc[t] = "performing" /\ chunks[t] = 0)

\* A step keeps CutInv: only the reset of the flag cuts, and the reply clears it.
LEMMA CutStep == TypeOK /\ CutInv /\ [Next]_vars => CutInv'
<1> SUFFICES ASSUME TypeOK, CutInv, [Next]_vars PROVE CutInv'
  OBVIOUS
<1> USE DEF TypeOK, CutInv, Goto, xferVars
<1>1. CASE UNCHANGED vars
  BY <1>1 DEF vars
<1>2. ASSUME NEW t \in Threads, Begin(t) PROVE CutInv'
  BY <1>2 DEF Begin
<1>3. ASSUME NEW t \in Threads, Receive(t) PROVE CutInv'
  BY <1>3 DEF Receive
<1>4. ASSUME NEW t \in Threads, EndPerform(t) PROVE CutInv'
  BY <1>4 DEF EndPerform
<1>5. ASSUME NEW t \in Threads, ApiStep(t) PROVE CutInv'
  BY <1>5 DEF ApiStep, EnterClass, EarlyReturn, Admit, KeepServer, BeginClear,
    EndClear, Close
<1>6. ASSUME NEW t \in Threads, TokenStep(t) PROVE CutInv'
  BY <1>6 DEF TokenStep, SkipToken, ReadToken, NestedLock, ReDetect,
    ReReadToken, NestedExit
<1>7. ASSUME NEW t \in Threads, AuthorizeStep(t) PROVE CutInv'
  <2>1. CASE AuthReply(t)
    <3>1. pc[t] = "copyIp" /\ cut' = [cut EXCEPT ![t] = FALSE] /\ UNCHANGED chunks
      BY <2>1 DEF AuthReply
    <3>2. \A u \in Threads : u # t => pc'[u] = pc[u]
      BY <2>1 DEF AuthReply
    <3> QED
      BY <3>1, <3>2
  <2>2. CASE TimeReply(t)
    BY <2>2 DEF TimeReply
  <2>3. CASE AuthLock(t) \/ AuthHost(t) \/ StoreToken(t) \/ AuthDone(t)
    BY <2>3 DEF AuthLock, AuthHost, StoreToken, AuthDone
  <2> QED
    BY <1>7, <2>1, <2>2, <2>3 DEF AuthorizeStep
<1>8. ASSUME NEW t \in Threads, TransferStep(t) PROVE CutInv'
  BY <1>8 DEF TransferStep, Prepare, CallbackLock, Deliver, SeeStop,
    ConsumeStop, MainReply
<1>9. ASSUME NEW t \in Threads, OtherStep(t) PROVE CutInv'
  BY <1>9 DEF OtherStep, CheckLocalIp, FirstDone, ReadHandle, SetSpeeds, Finish
<1>10. CASE Environment
  BY <1>10 DEF Environment, SetChannelInfo, StopCurrentDownloadTask, Tick
<1> QED
  BY <1>1, <1>2, <1>3, <1>4, <1>5, <1>6, <1>7, <1>8, <1>9, <1>10 DEF Next, Run

\* A step within a transfer, or outside of any, is invisible to StopFlag.
LEMMA FlagStutter ==
  ASSUME TypeOK, NEW t \in Threads, NEW to \in PCs,
         pc' = [pc EXCEPT ![t] = to], pc[t] \in InFlight <=> to \in InFlight,
         UNCHANGED <<stop, cut>>
  PROVE  UNCHANGED <<stop, TransferState>>
  BY DEF TypeOK, TransferState, InFlight, Transferring

\* The end of a transfer is the Return of StopFlag.
LEMMA FlagReturn ==
  ASSUME TypeOK, NEW t \in Threads, NEW to \in PCs \ InFlight,
         pc[t] = "copyIp", pc' = [pc EXCEPT ![t] = to],
         cut' = [cut EXCEPT ![t] = FALSE], UNCHANGED stop
  PROVE  Flag!Return(t)
<1>1. TransferState[t] # "idle"
  BY DEF TransferState, InFlight, Transferring
<1>2. TransferState' = [TransferState EXCEPT ![t] = "idle"]
  BY DEF TypeOK, TransferState, InFlight, Transferring
<1> QED
  BY <1>1, <1>2 DEF Flag!Return

\* A step of the code is a step of StopFlag or leaves it where it is.
LEMMA FlagStep ==
  LInv /\ CutInv /\ StopConsumedOnce /\ [Next]_vars
    => [Flag!FNext]_<<stop, TransferState>>
<1> SUFFICES ASSUME LInv, CutInv, StopConsumedOnce, [Next]_vars
             PROVE  [Flag!FNext]_<<stop, TransferState>>
  OBVIOUS
<1> USE DEF LInv
<1>1. ASSUME NEW t \in Threads, Prepare(t) PROVE Flag!Begin(t)
  <2>1. TransferState[t] = "idle" /\ ~cut[t]
    BY <1>1 DEF Prepare, Goto, TransferState, CutInv,
        InFlight, Transferring
  <2>2. TransferState' = [TransferState EXCEPT ![t] = "running"]
    BY <1>1, <2>1 DEF Prepare, Goto, TypeOK, TransferState,
        InFlight, Transferring
  <2> QED
    BY <1>1, <2>1, <2>2 DEF Prepare, Flag!Begin
<1>2. ASSUME NEW t \in Threads, ConsumeStop(t) PROVE Flag!EndOne(t)
  <2>1. stop /\ ~cut[t] /\ TransferState[t] = "running"
    BY <1>2 DEF ConsumeStop, Goto, StopConsumedOnce, CutInv,
        TransferState, InFlight, Transferring
  <2>2. TransferState' = [TransferState EXCEPT ![t] = "ended"]
    BY <1>2 DEF ConsumeStop, Goto, TypeOK, TransferState,
        InFlight, Transferring
  <2> QED
    BY <1>2, <2>1, <2>2 DEF ConsumeStop, Flag!EndOne
<1>3. ASSUME NEW t \in Threads, TimeReply(t) \/ AuthReply(t) \/ MainReply(t)
      PROVE  Flag!Return(t)
  <2>1. PICK to \in PCs \ InFlight :
          /\ pc[t] = "copyIp" /\ pc' = [pc EXCEPT ![t] = to]
          /\ cut' = [cut EXCEPT ![t] = FALSE] /\ UNCHANGED stop
    BY <1>3 DEF TimeReply, AuthReply, MainReply, Goto, PCs, InFlight, Transferring
  <2> QED
    BY <2>1, FlagReturn
<1>4. ASSUME NEW t \in Threads,
             Begin(t) \/ Receive(t) \/ EndPerform(t) \/ CallbackLock(t)
             \/ Deliver(t) \/ SeeStop(t)
      PROVE  UNCHANGED <<stop, TransferState>>
  <2>1. PICK to \in PCs : /\ pc' = [pc EXCEPT ![t] = to]
                          /\ pc[t] \in InFlight <=> to \in InFlight
                          /\ UNCHANGED <<stop, cut>>
    BY <1>4 DEF Begin, Receive, EndPerform, CallbackLock, Deliver, SeeStop,
      Goto, PCs, InFlight, Transferring, xferVars
  <2> QED
    BY <2>1, FlagStutter
<1>5. ASSUME NEW t \in Threads, ApiStep(t)
      PROVE  UNCHANGED <<stop, TransferState>>
  <2>1. PICK to \in PCs : /\ pc' = [pc EXCEPT ![t] = to]
                          /\ pc[t] \in InFlight <=> to \in InFlight
                          /\ UNCHANGED <<stop, cut>>
    BY <1>5 DEF ApiStep, EnterClass, EarlyReturn, Admit, KeepServer,
      BeginClear, EndClear, Close, Goto, PCs, InFlight, Transferring, xferVars
  <2> QED
    BY <2>1, FlagStutter
<1>6. ASSUME NEW t \in Threads, TokenStep(t)
      PROVE  UNCHANGED <<stop, TransferState>>
  <2>1. PICK to \in PCs : /\ pc' = [pc EXCEPT ![t] = to]
                          /\ pc[t] \in InFlight <=> to \in InFlight
                          /\ UNCHANGED <<stop, cut>>
    BY <1>6 DEF TokenStep, SkipToken, ReadToken, NestedLock, ReDetect,
      ReReadToken, NestedExit, Goto, PCs, InFlight, Transferring, xferVars
  <2> QED
    BY <2>1, FlagStutter
<1>7. ASSUME NEW t \in Threads,
             AuthLock(t) \/ AuthHost(t) \/ StoreToken(t) \/ AuthDone(t)
      PROVE  UNCHANGED <<stop, TransferState>>
  <2>1. PICK to \in PCs : /\ pc' = [pc EXCEPT ![t] = to]
                          /\ pc[t] \in InFlight <=> to \in InFlight
                          /\ UNCHANGED <<stop, cut>>
    BY <1>7 DEF AuthLock, AuthHost, StoreToken, AuthDone, Goto, PCs, InFlight,
      Transferring, xferVars
  <2> QED
    BY <2>1, FlagStutter
<1>8. ASSUME NEW t \in Threads, OtherStep(t)
      PROVE  UNCHANGED <<stop, TransferState>>
  <2>1. PICK to \in PCs : /\ pc' = [pc EXCEPT ![t] = to]
                          /\ pc[t] \in InFlight <=> to \in InFlight
                          /\ UNCHANGED <<stop, cut>>
    BY <1>8 DEF OtherStep, CheckLocalIp, FirstDone, ReadHandle, SetSpeeds,
      Finish, Goto, PCs, InFlight, Transferring, xferVars
  <2> QED
    BY <2>1, FlagStutter
<1>9. CASE StopCurrentDownloadTask
  <2>1. TransferState' = TransferState
    BY <1>9 DEF StopCurrentDownloadTask, TransferState, xferVars
  <2>2. Flag!Ask
    BY <1>9, <2>1 DEF StopCurrentDownloadTask, Flag!Ask
  <2> QED
    BY <2>2 DEF Flag!FNext
<1>10. CASE SetChannelInfo \/ Tick \/ UNCHANGED vars
  BY <1>10 DEF SetChannelInfo, Tick, vars, TransferState, xferVars
<1> QED
  BY <1>1, <1>2, <1>3, <1>4, <1>5, <1>6, <1>7, <1>8, <1>9, <1>10
  DEF Next, Run, AuthorizeStep, TransferStep, Environment, Flag!FNext

\* The write callbacks of all transfers, whatever their calls and however many
\* run, implement StopFlag.
THEOREM StopsAreImplemented == Spec => StopsEndTransfers
<1>1. Init => Flag!FInit
  BY DEF Init, Flag!FInit, TransferState, InFlight, Transferring
<1>2. Init => CutInv
  BY DEF Init, CutInv
<1>3. LInv => TypeOK
  BY DEF LInv
<1> QED
  BY <1>1, <1>2, <1>3, CutStep, FlagStep, LInvAlways, StopIsConsumedOnce, PTL
  DEF Spec, StopsEndTransfers, Flag!FSpec, Flag!fvars

----------------------------------------------------------------------------
(* No set of calls is deadlocked.                                          *)

\* Whoever holds a mutex is in a call.
LEMMA HolderIsBusy ==
  ASSUME LInv, NEW t \in Threads, NEW l \in Locks, lock[l] = t
  PROVE  pc[t] # "idle"
<1>1. Holds(t, l)
  BY DEF LInv, LockDiscipline
<1>2. l = "auth" => stage[t] # "main"
  BY <1>1 DEF Holds
<1>3. l # "auth" => pc[t] \in {"callback", "consume"} \/ Locked(t)
  BY <1>1 DEF Holds, Locks
<1> QED
  BY <1>2, <1>3 DEF LInv, Flow, Unauthorizing, Locked

\* A thread waits for a mutex that somebody holds.
Stuck(t, l) == l \in Locks /\ WaitsFor(t, l) /\ lock[l] # NoThread

\* If every thread in a call is blocked, then behind a blocked thread stands
\* one that is blocked on a mutex of a higher rank.
LEMMA Climb ==
  ASSUME LInv, \A u \in Threads : pc[u] # "idle" => Blocked(u),
         NEW t \in Threads, NEW l, Stuck(t, l)
  PROVE  \E u \in Threads, m \in Locks : Stuck(u, m) /\ Rank(l) < Rank(m)
<1>1. lock[l] \in Threads /\ l \in Locks
  BY DEF LInv, TypeOK, Stuck
<1> DEFINE u == lock[l]
<1>2. pc[u] # "idle"
  BY <1>1, HolderIsBusy
<1>3. PICK m \in Locks : WaitsFor(u, m) /\ lock[m] # NoThread
  BY <1>1, <1>2 DEF Blocked
<1>4. Rank(l) < Rank(m)
  BY <1>1, <1>3, OrderFromDiscipline DEF LockOrder
<1> QED
  BY <1>1, <1>3, <1>4 DEF Stuck

\* The ranks end at 4, so the climb does too: somebody is not blocked.
LEMMA SomebodyRuns == LInv => SomeCallRuns
<1> SUFFICES ASSUME LInv, NEW t \in Threads, pc[t] # "idle",
                    \A u \in Threads : pc[u] # "idle" => Blocked(u)
             PROVE  FALSE
  BY DEF SomeCallRuns
<1>1. \A l \in Locks : Rank(l) \in 1..4
  BY DEF Rank
<1>2. PICK l \in Locks : Stuck(t, l)
  BY DEF Blocked, Stuck
<1>3. PICK t2 \in Threads, l2 \in Locks : Stuck(t2, l2) /\ Rank(l) < Rank(l2)
  BY <1>2, Climb
<1>4. PICK t3 \in Threads, l3 \in Locks : Stuck(t3, l3) /\ Rank(l2) < Rank(l3)
  BY <1>3, Climb
<1>5. PICK t4 \in Threads, l4 \in Locks : Stuck(t4, l4) /\ Rank(l3) < Rank(l4)
  BY <1>4, Climb
<1>6. PICK t5 \in Threads, l5 \in Locks : Stuck(t5, l5) /\ Rank(l4) < Rank(l5)
  BY <1>5, Climb
<1> QED
  BY <1>1, <1>3, <1>4, <1>5, <1>6

\* However many threads are in whatever calls, one of them can go on.
THEOREM CallsDoNotDeadlock == Spec => []SomeCallRuns
  BY SomebodyRuns, LInvAlways, PTL

----------------------------------------------------------------------------
(* Every step of a call brings it nearer to its return.                    *)

\* The state that StepsLeft looks at.
Position(t) == <<pc[t], stage[t], replied[t], chunks[t]>>

\* A thread that does not move has as far to go as before.
LEMMA StepsLeftFrame ==
  ASSUME NEW t \in Threads, UNCHANGED Position(t)
  PROVE  StepsLeft(t)' = StepsLeft(t)
  BY DEF Position, StepsLeft

\* A step of one thread leaves the others where they are.
LEMMA OthersStay ==
  ASSUME TypeOK, NEW t \in Threads, Begin(t) \/ Run(t) \/ Receive(t) \/ EndPerform(t),
         NEW u \in Threads, u # t
  PROVE  UNCHANGED Position(u)
<1> USE DEF TypeOK, Goto, Position, callVars, flowVars, xferVars
<1>1. CASE Begin(t) \/ Receive(t) \/ EndPerform(t)
  BY <1>1 DEF Begin, Receive, EndPerform
<1>2. CASE ApiStep(t)
  BY <1>2 DEF ApiStep, EnterClass, EarlyReturn, Admit, KeepServer, BeginClear,
    EndClear, Close
<1>3. CASE TokenStep(t)
  BY <1>3 DEF TokenStep, SkipToken, ReadToken, NestedLock, ReDetect,
    ReReadToken, NestedExit
<1>4. CASE AuthorizeStep(t)
  <2>1. CASE AuthReply(t)
    BY <2>1 DEF AuthReply
  <2>2. CASE TimeReply(t)
    BY <2>2 DEF TimeReply
  <2>3. CASE AuthLock(t) \/ AuthHost(t) \/ StoreToken(t) \/ AuthDone(t)
    BY <2>3 DEF AuthLock, AuthHost, StoreToken, AuthDone
  <2> QED
    BY <1>4, <2>1, <2>2, <2>3 DEF AuthorizeStep
<1>5. CASE TransferStep(t)
  BY <1>5 DEF TransferStep, Prepare, CallbackLock, Deliver, SeeStop,
    ConsumeStop, MainReply
<1>6. CASE OtherStep(t)
  BY <1>6 DEF OtherStep, CheckLocalIp, FirstDone, ReadHandle, SetSpeeds, Finish
<1> QED
  BY <1>1, <1>2, <1>3, <1>4, <1>5, <1>6 DEF Run

\* The bounds are numbers.
LEMMA BoundsAreNumbers ==
  /\ OneTransfer \in Nat /\ Again \in Nat /\ BeforeToken \in Nat
  /\ OneTransfer = 4 * MaxChunks + 3
  /\ Again = 2 * OneTransfer + 9 /\ BeforeToken = 3 * OneTransfer + Again + 9
  /\ \A r \in BOOLEAN : AfterAuthorize(r) \in Nat
  BY BoundsAssumption DEF OneTransfer, Again, BeforeToken, AfterAuthorize

\* What StepsAt is outside of transfers.
LEMMA StepValues ==
  ASSUME NEW s, NEW r, NEW c
  PROVE  /\ StepsAt("classWait", s, r, c) = BeforeToken + 5
         /\ StepsAt("enter", s, r, c) = BeforeToken + 4
         /\ StepsAt("reconnect", s, r, c) = BeforeToken + 3
         /\ StepsAt("clear", s, r, c) = BeforeToken + 2
         /\ StepsAt("close", s, r, c) = BeforeToken + 1
         /\ StepsAt("token", s, r, c) = BeforeToken
         /\ StepsAt("ipCheck", s, r, c) = BeforeToken
         /\ StepsAt("nestedWait", s, r, c) = 2 * OneTransfer + 6 + AfterAuthorize(r)
         /\ StepsAt("redetect", s, r, c) = 2 * OneTransfer + 5 + AfterAuthorize(r)
         /\ StepsAt("authWait", s, r, c) = 2 * OneTransfer + 4 + AfterAuthorize(r)
         /\ StepsAt("authHost", s, r, c) = 2 * OneTransfer + 3 + AfterAuthorize(r)
         /\ StepsAt("storing", s, r, c) = 1 + AfterAuthorize(r)
         /\ StepsAt("authDone", s, r, c) = AfterAuthorize(r)
         /\ StepsAt("retoken", s, r, c) = OneTransfer + Again + 1
         /\ StepsAt("speeds", s, r, c) = 3
         /\ StepsAt("nestedExit", s, r, c) = 2
         /\ StepsAt("firstDone", s, r, c) = 2
         /\ StepsAt("setopt", s, r, c) = 2
         /\ StepsAt("finish", s, r, c) = 1
         /\ StepsAt("idle", s, r, c) = 0
  BY DEF StepsAt, Transferring

\* What it is within a transfer.
LEMMA TransferValues ==
  ASSUME NEW r, NEW c, NEW p \in Transferring
  PROVE  /\ StepsAt(p, "main", r, c) = InTransfer(p, c) + Again
         /\ StepsAt(p, "auth", r, c) = InTransfer(p, c) + (1 + AfterAuthorize(r))
         /\ StepsAt(p, "time", r, c)
              = InTransfer(p, c) + (OneTransfer + 2 + AfterAuthorize(r))
  BY DEF StepsAt, AfterTransfer

\* A step within a transfer brings its call nearer to its return.
LEMMA WithinTransfer ==
  ASSUME NEW s \in {"main", "time", "auth"}, NEW r \in BOOLEAN,
         NEW p \in Transferring, NEW q \in Transferring, NEW c, NEW d,
         InTransfer(p, c) \in Nat, InTransfer(q, d) \in Nat,
         InTransfer(q, d) < InTransfer(p, c)
  PROVE  0 <= StepsAt(q, s, r, d) /\ StepsAt(q, s, r, d) < StepsAt(p, s, r, c)
<1>1. AfterAuthorize(r) \in Nat /\ OneTransfer \in Nat /\ Again \in Nat
  BY BoundsAreNumbers
<1>2. CASE s = "main"
  BY <1>1, <1>2, TransferValues
<1>3. CASE s = "auth"
  BY <1>1, <1>3, TransferValues
<1>4. CASE s = "time"
  BY <1>1, <1>4, TransferValues
<1> QED
  BY <1>2, <1>3, <1>4

\* What a transfer takes from its points on.
LEMMA InTransferValues ==
  ASSUME NEW c
  PROVE  /\ InTransfer("prepare", c) = OneTransfer
         /\ InTransfer("performing", c) = 4 * c + 2
         /\ InTransfer("cbWait", c) = 4 * c + 5
         /\ InTransfer("callback", c) = 4 * c + 4
         /\ InTransfer("consume", c) = 4 * c + 3
         /\ InTransfer("copyIp", c) = 1
  BY DEF InTransfer

\* A call that goes on comes nearer to its return.
LEMMA ActorAdvances ==
  ASSUME LInv, NEW t \in Threads, pc[t] # "idle",
         Run(t) \/ Receive(t) \/ EndPerform(t)
  PROVE  pc'[t] # pc[t] /\ 0 <= StepsLeft(t)' /\ StepsLeft(t)' < StepsLeft(t)
<1> DEFINE before  == StepsAt(pc[t], stage[t], replied[t], chunks[t])
           after   == StepsAt(pc'[t], stage'[t], replied'[t], chunks'[t])
           Advance == pc'[t] # pc[t] /\ 0 <= after /\ after < before
<1> SUFFICES Advance
  BY DEF StepsLeft
<1>t. /\ stage[t] \in {"main", "time", "auth"} /\ replied[t] \in BOOLEAN
      /\ chunks[t] \in Nat /\ MaxChunks \in Nat
  BY BoundsAssumption DEF LInv, TypeOK
<1>a. /\ AfterAuthorize(TRUE) = 3 /\ AfterAuthorize(FALSE) = Again + OneTransfer + 2
      /\ AfterAuthorize(replied[t]) \in 3..Again + OneTransfer + 2
  BY <1>t, BoundsAreNumbers DEF AfterAuthorize
<1>1. CASE Receive(t) \/ EndPerform(t)
  <2>1. CASE Receive(t)
    <3>1. /\ pc[t] = "performing" /\ pc'[t] = "cbWait"
          /\ chunks[t] > 0 /\ chunks'[t] = chunks[t] - 1
          /\ stage'[t] = stage[t] /\ replied'[t] = replied[t]
      BY <2>1 DEF LInv, TypeOK, Goto, Receive, flowVars, xferVars
    <3>2. /\ InTransfer(pc[t], chunks[t]) \in Nat
          /\ InTransfer(pc'[t], chunks'[t]) \in Nat
          /\ InTransfer(pc'[t], chunks'[t]) < InTransfer(pc[t], chunks[t])
      BY <1>t, <3>1, InTransferValues, BoundsAreNumbers
    <3>3. pc[t] \in Transferring /\ pc'[t] \in Transferring
      BY <3>1 DEF Transferring
    <3> QED
      BY <1>t, <3>1, <3>2, <3>3, WithinTransfer
  <2>2. CASE EndPerform(t)
    <3>1. /\ pc[t] = "performing" /\ pc'[t] = "copyIp" /\ chunks'[t] = 0
          /\ stage'[t] = stage[t] /\ replied'[t] = replied[t]
      BY <2>2 DEF LInv, TypeOK, Goto, EndPerform, flowVars, xferVars
    <3>2. /\ InTransfer(pc[t], chunks[t]) \in Nat
          /\ InTransfer(pc'[t], chunks'[t]) \in Nat
          /\ InTransfer(pc'[t], chunks'[t]) < InTransfer(pc[t], chunks[t])
      BY <1>t, <3>1, InTransferValues, BoundsAreNumbers
    <3>3. pc[t] \in Transferring /\ pc'[t] \in Transferring
      BY <3>1 DEF Transferring
    <3> QED
      BY <1>t, <3>1, <3>2, <3>3, WithinTransfer
  <2> QED
    BY <1>1, <2>1, <2>2
<1>2. CASE ApiStep(t)
  <2>1. CASE EnterClass(t)
    <3>1. pc[t] = "classWait" /\ pc'[t] = "enter"
      BY <1>t, <2>1 DEF LInv, TypeOK, Goto, EnterClass
    <3> QED
      BY <1>t, <1>a, <3>1, StepValues, BoundsAreNumbers
  <2>2. CASE EarlyReturn(t)
    <3>1. pc[t] = "enter" /\ pc'[t] = "finish"
      BY <1>t, <2>2 DEF LInv, TypeOK, Goto, EarlyReturn
    <3> QED
      BY <1>t, <1>a, <3>1, StepValues, BoundsAreNumbers
  <2>3. CASE Admit(t)
    <3>1. /\ pc[t] = "enter" /\ stage[t] = "main" /\ stage'[t] = stage[t]
          /\ replied'[t] = replied[t]
          /\ pc'[t] \in {"reconnect", "token", "prepare", "redetect"}
      BY <1>t, <2>3 DEF LInv, TypeOK, Goto, Admit, Flow, Unauthorizing,
        flowVars
    <3> QED
      BY <1>t, <1>a, <3>1, StepValues, TransferValues, InTransferValues,
        BoundsAreNumbers DEF Transferring
  <2>4. CASE KeepServer(t)
    <3>1. pc[t] = "reconnect" /\ pc'[t] = "token"
      BY <1>t, <2>4 DEF LInv, TypeOK, Goto, KeepServer
    <3> QED
      BY <1>t, <1>a, <3>1, StepValues, BoundsAreNumbers
  <2>5. CASE BeginClear(t)
    <3>1. pc[t] = "reconnect" /\ pc'[t] = "clear"
      BY <1>t, <2>5 DEF LInv, TypeOK, Goto, BeginClear
    <3> QED
      BY <1>t, <1>a, <3>1, StepValues, BoundsAreNumbers
  <2>6. CASE EndClear(t)
    <3>1. pc[t] = "clear" /\ pc'[t] = "close"
      BY <1>t, <2>6 DEF LInv, TypeOK, Goto, EndClear
    <3> QED
      BY <1>t, <1>a, <3>1, StepValues, BoundsAreNumbers
  <2>7. CASE Close(t)
    <3>1. pc[t] = "close" /\ pc'[t] = "token"
      BY <1>t, <2>7 DEF LInv, TypeOK, Goto, Close
    <3> QED
      BY <1>t, <1>a, <3>1, StepValues, BoundsAreNumbers
  <2> QED
    BY <1>2, <2>1, <2>2, <2>3, <2>4, <2>5, <2>6, <2>7 DEF ApiStep
<1>3. CASE TokenStep(t)
  <2>1. CASE SkipToken(t)
    <3>1. /\ pc[t] = "token" /\ pc'[t] = "prepare"
          /\ stage'[t] = "main"
      BY <1>t, <2>1 DEF LInv, TypeOK, Goto, SkipToken, Flow, Unauthorizing,
        flowVars
    <3> QED
      BY <1>t, <1>a, <3>1, StepValues, TransferValues, InTransferValues,
        BoundsAreNumbers DEF Transferring
  <2>2. CASE ReadToken(t)
    <3>1. /\ pc[t] = "token" /\ pc'[t] \in {"prepare", "nestedWait", "redetect"}
          /\ stage'[t] = "main" /\ replied'[t] = replied[t]
      BY <1>t, <2>2 DEF LInv, TypeOK, Goto, ReadToken, Flow, Unauthorizing
    <3> QED
      BY <1>t, <1>a, <3>1, StepValues, TransferValues, InTransferValues,
        BoundsAreNumbers DEF Transferring
  <2>3. CASE NestedLock(t)
    <3>1. /\ pc[t] = "nestedWait" /\ pc'[t] = "redetect" /\ replied'[t] = replied[t]
      BY <1>t, <2>3 DEF LInv, TypeOK, Goto, NestedLock, flowVars
    <3> QED
      BY <1>t, <1>a, <3>1, StepValues, BoundsAreNumbers
  <2>4. CASE ReDetect(t)
    <3>1. /\ pc[t] = "redetect" /\ pc'[t] = "authWait" /\ replied'[t] = replied[t]
      BY <1>t, <2>4 DEF LInv, TypeOK, Goto, ReDetect, flowVars
    <3> QED
      BY <1>t, <1>a, <3>1, StepValues, BoundsAreNumbers
  <2>5. CASE ReReadToken(t)
    <3>1. /\ pc[t] = "retoken" /\ pc'[t] \in {"finish", "prepare"}
          /\ stage'[t] = "main"
      BY <1>t, <2>5 DEF LInv, TypeOK, Goto, ReReadToken, Flow, Unauthorizing
    <3> QED
      BY <1>t, <1>a, <3>1, StepValues, TransferValues, InTransferValues,
        BoundsAreNumbers DEF Transferring
  <2>6. CASE NestedExit(t)
    <3>1. pc[t] = "nestedExit" /\ pc'[t] = "finish"
      BY <1>t, <2>6 DEF LInv, TypeOK, Goto, NestedExit
    <3> QED
      BY <1>t, <1>a, <3>1, StepValues, BoundsAreNumbers
  <2> QED
    BY <1>3, <2>1, <2>2, <2>3, <2>4, <2>5, <2>6 DEF TokenStep
<1>4. CASE AuthorizeStep(t)
  <2>1. CASE AuthLock(t)
    <3>1. /\ pc[t] = "authWait" /\ pc'[t] = "authHost" /\ replied'[t] = replied[t]
      BY <1>t, <2>1 DEF LInv, TypeOK, Goto, AuthLock
    <3> QED
      BY <1>t, <1>a, <3>1, StepValues, BoundsAreNumbers
  <2>2. CASE AuthHost(t)
    <3>1. /\ pc[t] = "authHost" /\ pc'[t] \in {"prepare", "authDone"}
          /\ stage'[t] \in {"time", "auth"} /\ replied'[t] = replied[t]
      BY <1>t, <2>2 DEF LInv, TypeOK, Goto, AuthHost, Flow, flowVars
    <3> QED
      BY <1>t, <1>a, <3>1, StepValues, TransferValues, InTransferValues,
        BoundsAreNumbers DEF Transferring
  <2>3. CASE TimeReply(t)
    <3>1. /\ pc[t] = "copyIp" /\ stage[t] = "time" /\ replied'[t] = replied[t]
          /\ \/ pc'[t] = "prepare" /\ stage'[t] = "auth"
             \/ pc'[t] = "authDone"
      BY <1>t, <2>3 DEF LInv, TypeOK, Goto, TimeReply
    <3> QED
      BY <1>t, <1>a, <3>1, StepValues, TransferValues, InTransferValues,
        BoundsAreNumbers DEF Transferring
  <2>4. CASE AuthReply(t)
    <3>1. /\ pc[t] = "copyIp" /\ stage[t] = "auth" /\ replied'[t] = replied[t]
          /\ pc'[t] \in {"storing", "authDone"}
      BY <1>t, <2>4 DEF LInv, TypeOK, Goto, AuthReply
    <3> QED
      BY <1>t, <1>a, <3>1, StepValues, TransferValues, InTransferValues,
        BoundsAreNumbers DEF Transferring
  <2>5. CASE StoreToken(t)
    <3>1. /\ pc[t] = "storing" /\ pc'[t] = "authDone" /\ replied'[t] = replied[t]
      BY <1>t, <2>5 DEF LInv, TypeOK, Goto, StoreToken, flowVars
    <3> QED
      BY <1>t, <1>a, <3>1, StepValues, BoundsAreNumbers
  <2>6. CASE AuthDone(t)
    <3>1. /\ pc[t] = "authDone" /\ replied'[t] = replied[t]
          /\ pc'[t] \in {"firstDone", "retoken", "nestedExit", "finish"}
          /\ pc'[t] = "retoken" => ~replied[t]
      BY <1>t, <2>6 DEF LInv, TypeOK, Goto, AuthDone
    <3>2. CASE pc'[t] = "retoken"
      <4>a. AfterAuthorize(replied[t]) = Again + OneTransfer + 2
        BY <3>1, <3>2 DEF AfterAuthorize
      <4>1. before = Again + OneTransfer + 2
        BY <3>1, <4>a, StepValues
      <4>2. after = OneTransfer + Again + 1
        BY <3>2, StepValues
      <4> QED
        BY <3>1, <3>2, <4>1, <4>2, BoundsAreNumbers
    <3>3. CASE pc'[t] # "retoken"
      <4>1. before \in Nat /\ before >= 3
        BY <1>a, <3>1, StepValues, BoundsAreNumbers
      <4>2. after \in {1, 2}
        BY <3>1, <3>3, StepValues
      <4> QED
        BY <3>1, <4>1, <4>2
    <3> QED
      BY <3>2, <3>3
  <2> QED
    BY <1>4, <2>1, <2>2, <2>3, <2>4, <2>5, <2>6 DEF AuthorizeStep
<1>5. CASE TransferStep(t)
  <2>1. CASE Prepare(t)
    <3>1. /\ pc[t] = "prepare" /\ pc'[t] = "performing" /\ chunks'[t] = MaxChunks
          /\ stage'[t] = stage[t] /\ replied'[t] = replied[t]
      BY <2>1 DEF LInv, TypeOK, Goto, Prepare, flowVars, xferVars
    <3>2. /\ InTransfer(pc[t], chunks[t]) \in Nat
          /\ InTransfer(pc'[t], chunks'[t]) \in Nat
          /\ InTransfer(pc'[t], chunks'[t]) < InTransfer(pc[t], chunks[t])
      BY <1>t, <3>1, InTransferValues, BoundsAreNumbers
    <3>3. pc[t] \in Transferring /\ pc'[t] \in Transferring
      BY <3>1 DEF Transferring
    <3> QED
      BY <1>t, <3>1, <3>2, <3>3, WithinTransfer
  <2>2. CASE CallbackLock(t)
    <3>1. /\ pc[t] = "cbWait" /\ pc'[t] = "callback" /\ chunks'[t] = chunks[t]
          /\ stage'[t] = stage[t] /\ replied'[t] = replied[t]
      BY <2>2 DEF LInv, TypeOK, Goto, CallbackLock, flowVars, xferVars
    <3>2. /\ InTransfer(pc[t], chunks[t]) \in Nat
          /\ InTransfer(pc'[t], chunks'[t]) \in Nat
          /\ InTransfer(pc'[t], chunks'[t]) < InTransfer(pc[t], chunks[t])
      BY <1>t, <3>1, InTransferValues, BoundsAreNumbers
    <3>3. pc[t] \in Transferring /\ pc'[t] \in Transferring
      BY <3>1 DEF Transferring
    <3> QED
      BY <1>t, <3>1, <3>2, <3>3, WithinTransfer
  <2>3. CASE Deliver(t)
    <3>1. /\ pc[t] = "callback" /\ pc'[t] = "performing" /\ chunks'[t] = chunks[t]
          /\ stage'[t] = stage[t] /\ replied'[t] = replied[t]
      BY <2>3 DEF LInv, TypeOK, Goto, Deliver, flowVars, xferVars
    <3>2. /\ InTransfer(pc[t], chunks[t]) \in Nat
          /\ InTransfer(pc'[t], chunks'[t]) \in Nat
          /\ InTransfer(pc'[t], chunks'[t]) < InTransfer(pc[t], chunks[t])
      BY <1>t, <3>1, InTransferValues, BoundsAreNumbers
    <3>3. pc[t] \in Transferring /\ pc'[t] \in Transferring
      BY <3>1 DEF Transferring
    <3> QED
      BY <1>t, <3>1, <3>2, <3>3, WithinTransfer
  <2>4. CASE SeeStop(t)
    <3>1. /\ pc[t] = "callback" /\ pc'[t] = "consume" /\ chunks'[t] = chunks[t]
          /\ stage'[t] = stage[t] /\ replied'[t] = replied[t]
      BY <2>4 DEF LInv, TypeOK, Goto, SeeStop, flowVars, xferVars
    <3>2. /\ InTransfer(pc[t], chunks[t]) \in Nat
          /\ InTransfer(pc'[t], chunks'[t]) \in Nat
          /\ InTransfer(pc'[t], chunks'[t]) < InTransfer(pc[t], chunks[t])
      BY <1>t, <3>1, InTransferValues, BoundsAreNumbers
    <3>3. pc[t] \in Transferring /\ pc'[t] \in Transferring
      BY <3>1 DEF Transferring
    <3> QED
      BY <1>t, <3>1, <3>2, <3>3, WithinTransfer
  <2>5. CASE ConsumeStop(t)
    <3>1. /\ pc[t] = "consume" /\ pc'[t] = "performing" /\ chunks'[t] = 0
          /\ stage'[t] = stage[t] /\ replied'[t] = replied[t]
      BY <2>5 DEF LInv, TypeOK, Goto, ConsumeStop, flowVars, xferVars
    <3>2. /\ InTransfer(pc[t], chunks[t]) \in Nat
          /\ InTransfer(pc'[t], chunks'[t]) \in Nat
          /\ InTransfer(pc'[t], chunks'[t]) < InTransfer(pc[t], chunks[t])
      BY <1>t, <3>1, InTransferValues, BoundsAreNumbers
    <3>3. pc[t] \in Transferring /\ pc'[t] \in Transferring
      BY <3>1 DEF Transferring
    <3> QED
      BY <1>t, <3>1, <3>2, <3>3, WithinTransfer
  <2>6. CASE MainReply(t)
    <3>1. /\ pc[t] = "copyIp" /\ stage[t] = "main" /\ replied'[t] = TRUE
          /\ pc'[t] \in {"nestedWait", "redetect", "finish"}
      BY <1>t, <2>6 DEF LInv, TypeOK, Goto, MainReply
    <3>2. before = 1 + Again
      BY <3>1, TransferValues, InTransferValues DEF Transferring
    <3>a. AfterAuthorize(replied'[t]) = 3
      BY <3>1 DEF AfterAuthorize
    <3>3. after \in {2 * OneTransfer + 6 + 3, 2 * OneTransfer + 5 + 3, 1}
      BY <3>1, <3>a, StepValues
    <3> QED
      BY <3>1, <3>2, <3>3, BoundsAreNumbers
  <2> QED
    BY <1>5, <2>1, <2>2, <2>3, <2>4, <2>5, <2>6 DEF TransferStep
<1>6. CASE OtherStep(t)
  <2>1. CASE CheckLocalIp(t)
    <3>1. /\ pc[t] = "ipCheck" /\ pc'[t] \in {"finish", "authWait"}
          /\ replied'[t] = replied[t]
      BY <1>t, <2>1 DEF LInv, TypeOK, Goto, CheckLocalIp, flowVars
    <3> QED
      BY <1>t, <1>a, <3>1, StepValues, BoundsAreNumbers
  <2>2. CASE FirstDone(t)
    <3>1. pc[t] = "firstDone" /\ pc'[t] = "finish"
      BY <1>t, <2>2 DEF LInv, TypeOK, Goto, FirstDone
    <3> QED
      BY <1>t, <1>a, <3>1, StepValues, BoundsAreNumbers
  <2>3. CASE ReadHandle(t)
    <3>1. pc[t] = "speeds" /\ pc'[t] \in {"setopt", "finish"}
      BY <1>t, <2>3 DEF LInv, TypeOK, Goto, ReadHandle
    <3> QED
      BY <1>t, <1>a, <3>1, StepValues, BoundsAreNumbers
  <2>4. CASE SetSpeeds(t)
    <3>1. pc[t] = "setopt" /\ pc'[t] = "finish"
      BY <1>t, <2>4 DEF LInv, TypeOK, Goto, SetSpeeds
    <3> QED
      BY <1>t, <1>a, <3>1, StepValues, BoundsAreNumbers
  <2>5. CASE Finish(t)
    <3>1. pc[t] = "finish" /\ pc'[t] = "idle"
      BY <1>t, <2>5 DEF LInv, TypeOK, Goto, Finish
    <3> QED
      BY <1>t, <1>a, <3>1, StepValues, BoundsAreNumbers
  <2> QED
    BY <1>6, <2>1, <2>2, <2>3, <2>4, <2>5 DEF OtherStep
<1> QED
  BY <1>1, <1>2, <1>3, <1>4, <1>5, <1>6 DEF Run

\* No step takes a call away from its return.
LEMMA EveryStepAdvances ==
  ASSUME LInv, [Next]_vars, NEW u \in Threads, pc[u] # "idle"
  PROVE  IF pc'[u] = pc[u] THEN StepsLeft(u)' = StepsLeft(u)
         ELSE 0 <= StepsLeft(u)' /\ StepsLeft(u)' < StepsLeft(u)
<1>1. CASE Environment \/ UNCHANGED vars
  <2>1. UNCHANGED Position(u)
    BY <1>1 DEF Environment, SetChannelInfo, StopCurrentDownloadTask, Tick, vars,
       Position, flowVars, xferVars
  <2> QED
    BY <2>1, StepsLeftFrame DEF Position
<1>2. ASSUME NEW t \in Threads, Begin(t) \/ Run(t) \/ Receive(t) \/ EndPerform(t)
      PROVE  IF pc'[u] = pc[u] THEN StepsLeft(u)' = StepsLeft(u)
             ELSE 0 <= StepsLeft(u)' /\ StepsLeft(u)' < StepsLeft(u)
  <2>1. CASE u # t
    <3>1. UNCHANGED Position(u)
      BY <1>2, <2>1, OthersStay DEF LInv
    <3> QED
      BY <3>1, StepsLeftFrame DEF Position
  <2>2. CASE u = t
    <3>1. ~Begin(t)
      BY <2>2 DEF Begin, Goto
    <3> QED
      BY <1>2, <2>2, <3>1, ActorAdvances
  <2> QED
    BY <2>1, <2>2
<1> QED
  BY <1>1, <1>2 DEF Next

\* Every call of every thread comes to its return in a bounded number of its own
\* steps, whatever all the others do.
THEOREM CallsAlwaysAdvance == Spec => CallsAdvance
<1>1. LInv /\ [Next]_vars =>
        [\A t \in Threads : pc[t] # "idle" =>
           IF pc'[t] = pc[t] THEN StepsLeft(t)' = StepsLeft(t)
           ELSE 0 <= StepsLeft(t)' /\ StepsLeft(t)' < StepsLeft(t)]_vars
  BY EveryStepAdvances
<1> QED
  BY <1>1, LInvAlways, PTL DEF Spec, CallsAdvance
=============================================================================
