-------------------------- MODULE LibHttpCurlProofs --------------------------
(***************************************************************************)
(* Theorems about LibHttpCurl for every set of threads and calls.          *)
(***************************************************************************)
EXTENDS LibHttpCurl, TLAPS

Unauthorizing == {"idle", "classWait", "enter", "reconnect", "clear", "close",
                  "token", "nestedWait", "redetect", "authWait", "retoken",
                  "nestedExit", "finish", "ipCheck", "firstDone", "speeds",
                  "setopt"}

\* Where a call can stand, by its kind and its stage.
Flow ==
  \A t \in Threads :
    /\ pc[t] \in Unauthorizing => stage[t] = "main"
    /\ pc[t] \in {"authHost", "storing", "authDone"} => stage[t] # "main"
    /\ pc[t] \in {"classWait", "enter", "reconnect", "clear", "close", "token",
                  "nestedWait", "redetect", "retoken", "nestedExit"}
         => kind[t] \notin UnlockedKinds
    /\ pc[t] \in Transferring /\ stage[t] = "main" => kind[t] \notin UnlockedKinds
    /\ pc[t] \in {"nestedWait", "nestedExit"} => OwnHandle(kind[t])
    /\ pc[t] \in {"reconnect", "clear", "close"} => kind[t] = "Request"
    /\ pc[t] \in {"ipCheck", "firstDone"} => kind[t] = "GetAuthLocalIp"
    /\ pc[t] \in {"speeds", "setopt"} => kind[t] = "SetTranssionMissSpeeds"
    /\ kind[t] = "SetTranssionMissSpeeds" => pc[t] \in {"speeds", "setopt", "finish"}

\* The inductive invariant.
LInv == TypeOK /\ Flow /\ LockDiscipline

\* The types hold before the first call.
LEMMA TypeInit == Init => TypeOK
<1> SUFFICES ASSUME Init PROVE TypeOK
  OBVIOUS
<1>1. "Request" \in AllKinds /\ NoToken \in Nat /\ MaxCalls \in Nat /\ "idle" \in PCs
  BY BoundsAssumption DEF AllKinds, RequestKinds, NoToken, PCs
<1> QED
  BY <1>1 DEF Init, TypeOK

\* A step of any thread keeps the types.
LEMMA TypeStep == TypeOK /\ [Next]_vars => TypeOK'
<1> SUFFICES ASSUME TypeOK, [Next]_vars PROVE TypeOK'
  OBVIOUS
<1> USE DEF TypeOK, Goto, Acquire, Release, PCs, serverVars, callVars, flowVars,
            xferVars
<1>1. CASE UNCHANGED vars
  BY <1>1 DEF vars
<1>2. ASSUME NEW t \in Threads, Begin(t) PROVE TypeOK'
  BY <1>2, KindsAssumption DEF Begin
<1>3. ASSUME NEW t \in Threads, Receive(t) PROVE TypeOK'
  BY <1>3, BoundsAssumption DEF Receive
<1>4. ASSUME NEW t \in Threads, EndPerform(t) PROVE TypeOK'
  BY <1>4 DEF EndPerform
<1>5. ASSUME NEW t \in Threads, ApiStep(t) PROVE TypeOK'
  <2>1. CASE EnterClass(t)
    BY <2>1 DEF EnterClass, ClassLock, Locks
  <2>2. CASE EarlyReturn(t)
    BY <2>2 DEF EarlyReturn
  <2>3. CASE Admit(t)
    BY <2>3 DEF Admit
  <2>4. CASE KeepServer(t)
    BY <2>4 DEF KeepServer
  <2>5. CASE BeginClear(t)
    BY <2>5 DEF BeginClear
  <2>6. CASE EndClear(t)
    BY <2>6 DEF EndClear, NoToken
  <2>7. CASE Close(t)
    BY <2>7 DEF Close
  <2> QED
    BY <1>5, <2>1, <2>2, <2>3, <2>4, <2>5, <2>6, <2>7 DEF ApiStep
<1>6. ASSUME NEW t \in Threads, TokenStep(t) PROVE TypeOK'
  <2>1. CASE SkipToken(t)
    BY <2>1 DEF SkipToken
  <2>2. CASE ReadToken(t)
    BY <2>2 DEF ReadToken, CopyOf, NoToken
  <2>3. CASE NestedLock(t)
    BY <2>3 DEF NestedLock
  <2>4. CASE ReDetect(t)
    BY <2>4 DEF ReDetect, ReDetected
  <2>5. CASE ReReadToken(t)
    BY <2>5 DEF ReReadToken, CopyOf, NoToken
  <2>6. CASE NestedExit(t)
    BY <2>6 DEF NestedExit
  <2> QED
    BY <1>6, <2>1, <2>2, <2>3, <2>4, <2>5, <2>6 DEF TokenStep
<1>7. ASSUME NEW t \in Threads, AuthorizeStep(t) PROVE TypeOK'
  <2>1. CASE AuthLock(t)
    BY <2>1 DEF AuthLock
  <2>2. CASE AuthHost(t)
    BY <2>2 DEF AuthHost, ReDetected
  <2>3. CASE TimeReply(t)
    BY <2>3 DEF TimeReply
  <2>4. CASE AuthReply(t)
    BY <2>4 DEF AuthReply, NoToken
  <2>5. CASE StoreToken(t)
    BY <2>5 DEF StoreToken
  <2>6. CASE AuthDone(t)
    BY <2>6 DEF AuthDone
  <2> QED
    BY <1>7, <2>1, <2>2, <2>3, <2>4, <2>5, <2>6 DEF AuthorizeStep
<1>8. ASSUME NEW t \in Threads, TransferStep(t) PROVE TypeOK'
  <2>1. CASE Prepare(t)
    BY <2>1, BoundsAssumption DEF Prepare
  <2>2. CASE CallbackLock(t)
    BY <2>2 DEF CallbackLock
  <2>3. CASE Deliver(t)
    BY <2>3 DEF Deliver
  <2>4. CASE SeeStop(t)
    BY <2>4 DEF SeeStop
  <2>5. CASE ConsumeStop(t)
    BY <2>5 DEF ConsumeStop
  <2>6. CASE MainReply(t)
    BY <2>6 DEF MainReply
  <2> QED
    BY <1>8, <2>1, <2>2, <2>3, <2>4, <2>5, <2>6 DEF TransferStep
<1>9. ASSUME NEW t \in Threads, OtherStep(t) PROVE TypeOK'
  <2>1. CASE CheckLocalIp(t)
    BY <2>1 DEF CheckLocalIp
  <2>2. CASE FirstDone(t)
    BY <2>2 DEF FirstDone
  <2>3. CASE ReadHandle(t)
    BY <2>3 DEF ReadHandle
  <2>4. CASE SetSpeeds(t)
    BY <2>4 DEF SetSpeeds
  <2>5. CASE Finish(t)
    BY <2>5 DEF Finish, NoToken, AllKinds, RequestKinds
  <2> QED
    BY <1>9, <2>1, <2>2, <2>3, <2>4, <2>5 DEF OtherStep
<1>10. CASE Environment
  BY ZenonT(40), <1>10 DEF Environment, SetChannelInfo, StopCurrentDownloadTask, Tick
<1> QED
  BY <1>1, <1>2, <1>3, <1>4, <1>5, <1>6, <1>7, <1>8, <1>9, <1>10 DEF Next, Run

\* A step keeps every thread where the code can be: only its own actor moves.
LEMMA FlowStep == TypeOK /\ Flow /\ [Next]_vars => Flow'
<1> SUFFICES ASSUME TypeOK, Flow, [Next]_vars PROVE Flow'
  OBVIOUS
<1> USE DEF TypeOK, Flow, Goto, Unauthorizing, Transferring, OwnHandle,
            UnlockedKinds, serverVars, callVars, flowVars, xferVars
<1>1. CASE UNCHANGED vars
  BY <1>1 DEF vars
<1>2. ASSUME NEW t \in Threads, Begin(t) PROVE Flow'
  BY <1>2 DEF Begin, Transfers, RequestKinds
<1>3. ASSUME NEW t \in Threads, Receive(t) PROVE Flow'
  BY <1>3 DEF Receive
<1>4. ASSUME NEW t \in Threads, EndPerform(t) PROVE Flow'
  BY <1>4 DEF EndPerform
<1>5. ASSUME NEW t \in Threads, ApiStep(t) PROVE Flow'
  <2>1. CASE EnterClass(t)
    BY <2>1 DEF EnterClass
  <2>2. CASE EarlyReturn(t)
    BY <2>2 DEF EarlyReturn
  <2>3. CASE Admit(t)
    BY <2>3 DEF Admit
  <2>4. CASE KeepServer(t)
    BY <2>4 DEF KeepServer
  <2>5. CASE BeginClear(t)
    BY <2>5 DEF BeginClear
  <2>6. CASE EndClear(t)
    BY <2>6 DEF EndClear
  <2>7. CASE Close(t)
    BY <2>7 DEF Close
  <2> QED
    BY <1>5, <2>1, <2>2, <2>3, <2>4, <2>5, <2>6, <2>7 DEF ApiStep
<1>6. ASSUME NEW t \in Threads, TokenStep(t) PROVE Flow'
  <2>1. CASE SkipToken(t)
    BY <2>1 DEF SkipToken
  <2>2. CASE ReadToken(t)
    BY <2>2 DEF ReadToken
  <2>3. CASE NestedLock(t)
    BY <2>3 DEF NestedLock
  <2>4. CASE ReDetect(t)
    BY <2>4 DEF ReDetect
  <2>5. CASE ReReadToken(t)
    BY <2>5 DEF ReReadToken
  <2>6. CASE NestedExit(t)
    BY <2>6 DEF NestedExit
  <2> QED
    BY <1>6, <2>1, <2>2, <2>3, <2>4, <2>5, <2>6 DEF TokenStep
<1>7. ASSUME NEW t \in Threads, AuthorizeStep(t) PROVE Flow'
  <2>1. CASE AuthLock(t)
    BY <2>1 DEF AuthLock
  <2>2. CASE AuthHost(t)
    BY <2>2 DEF AuthHost
  <2>3. CASE TimeReply(t)
    BY <2>3 DEF TimeReply
  <2>4. CASE AuthReply(t)
    BY <2>4 DEF AuthReply
  <2>5. CASE StoreToken(t)
    BY <2>5 DEF StoreToken
  <2>6. CASE AuthDone(t)
    BY <2>6 DEF AuthDone, Transfers
  <2> QED
    BY <1>7, <2>1, <2>2, <2>3, <2>4, <2>5, <2>6 DEF AuthorizeStep
<1>8. ASSUME NEW t \in Threads, TransferStep(t) PROVE Flow'
  <2>1. CASE Prepare(t)
    BY <2>1 DEF Prepare
  <2>2. CASE CallbackLock(t)
    BY <2>2 DEF CallbackLock
  <2>3. CASE Deliver(t)
    BY <2>3 DEF Deliver
  <2>4. CASE SeeStop(t)
    BY <2>4 DEF SeeStop
  <2>5. CASE ConsumeStop(t)
    BY <2>5 DEF ConsumeStop
  <2>6. CASE MainReply(t)
    BY <2>6 DEF MainReply
  <2> QED
    BY <1>8, <2>1, <2>2, <2>3, <2>4, <2>5, <2>6 DEF TransferStep
<1>9. ASSUME NEW t \in Threads, OtherStep(t) PROVE Flow'
  <2>1. CASE CheckLocalIp(t)
    BY <2>1 DEF CheckLocalIp
  <2>2. CASE FirstDone(t)
    BY <2>2 DEF FirstDone
  <2>3. CASE ReadHandle(t)
    BY <2>3 DEF ReadHandle
  <2>4. CASE SetSpeeds(t)
    BY <2>4 DEF SetSpeeds
  <2>5. CASE Finish(t)
    BY <2>5 DEF Finish
  <2> QED
    BY <1>9, <2>1, <2>2, <2>3, <2>4, <2>5 DEF OtherStep
<1>10. CASE Environment
  BY <1>10 DEF Environment, SetChannelInfo, StopCurrentDownloadTask, Tick
<1> QED
  BY <1>1, <1>2, <1>3, <1>4, <1>5, <1>6, <1>7, <1>8, <1>9, <1>10 DEF Next, Run

\* A step changes the mutexes exactly as it moves its actor.
LEMMA LockStep == TypeOK /\ Flow /\ LockDiscipline /\ [Next]_vars => LockDiscipline'
<1> SUFFICES ASSUME TypeOK, Flow, LockDiscipline, [Next]_vars,
                    NEW l \in Locks, NEW u \in Threads
             PROVE  (lock[l] = u <=> Holds(u, l))'
  BY DEF LockDiscipline
<1> USE ThreadsAssumption DEF TypeOK, Flow, LockDiscipline, Holds, Locked,
      Reauthorizing, ClassLock, Locks, Goto, Acquire, Release, Unauthorizing,
      Transferring, OwnHandle, UnlockedKinds, AllKinds, RequestKinds,
      serverVars, callVars, flowVars, xferVars
<1>1. CASE UNCHANGED vars
  BY <1>1 DEF vars
<1>2. ASSUME NEW t \in Threads, Begin(t) PROVE (lock[l] = u <=> Holds(u, l))'
  BY <1>2 DEF Begin
<1>3. ASSUME NEW t \in Threads, Receive(t) PROVE (lock[l] = u <=> Holds(u, l))'
  BY <1>3 DEF Receive
<1>4. ASSUME NEW t \in Threads, EndPerform(t) PROVE (lock[l] = u <=> Holds(u, l))'
  BY <1>4 DEF EndPerform
<1>5. ASSUME NEW t \in Threads, ApiStep(t) PROVE (lock[l] = u <=> Holds(u, l))'
  <2>1. CASE EnterClass(t)
    BY <2>1 DEF EnterClass
  <2>2. CASE EarlyReturn(t)
    BY <2>2 DEF EarlyReturn
  <2>3. CASE Admit(t)
    BY <2>3 DEF Admit
  <2>4. CASE KeepServer(t)
    BY <2>4 DEF KeepServer
  <2>5. CASE BeginClear(t)
    BY <2>5 DEF BeginClear
  <2>6. CASE EndClear(t)
    BY <2>6 DEF EndClear
  <2>7. CASE Close(t)
    BY <2>7 DEF Close
  <2> QED
    BY <1>5, <2>1, <2>2, <2>3, <2>4, <2>5, <2>6, <2>7 DEF ApiStep
<1>6. ASSUME NEW t \in Threads, TokenStep(t) PROVE (lock[l] = u <=> Holds(u, l))'
  <2>1. CASE SkipToken(t)
    BY <2>1 DEF SkipToken
  <2>2. CASE ReadToken(t)
    BY <2>2 DEF ReadToken
  <2>3. CASE NestedLock(t)
    BY <2>3 DEF NestedLock
  <2>4. CASE ReDetect(t)
    BY <2>4 DEF ReDetect
  <2>5. CASE ReReadToken(t)
    BY <2>5 DEF ReReadToken
  <2>6. CASE NestedExit(t)
    BY <2>6 DEF NestedExit
  <2> QED
    BY <1>6, <2>1, <2>2, <2>3, <2>4, <2>5, <2>6 DEF TokenStep
<1>7. ASSUME NEW t \in Threads, AuthorizeStep(t) PROVE (lock[l] = u <=> Holds(u, l))'
  <2>1. CASE AuthLock(t)
    BY <2>1 DEF AuthLock
  <2>2. CASE AuthHost(t)
    BY <2>2 DEF AuthHost
  <2>3. CASE TimeReply(t)
    BY <2>3 DEF TimeReply
  <2>4. CASE AuthReply(t)
    BY <2>4 DEF AuthReply
  <2>5. CASE StoreToken(t)
    BY <2>5 DEF StoreToken
  <2>6. CASE AuthDone(t)
    BY <2>6 DEF AuthDone, Transfers
  <2> QED
    BY <1>7, <2>1, <2>2, <2>3, <2>4, <2>5, <2>6 DEF AuthorizeStep
<1>8. ASSUME NEW t \in Threads, TransferStep(t) PROVE (lock[l] = u <=> Holds(u, l))'
  <2>1. CASE Prepare(t)
    BY <2>1 DEF Prepare
  <2>2. CASE CallbackLock(t)
    BY <2>2 DEF CallbackLock
  <2>3. CASE Deliver(t)
    BY <2>3 DEF Deliver
  <2>4. CASE SeeStop(t)
    BY <2>4 DEF SeeStop
  <2>5. CASE ConsumeStop(t)
    BY <2>5 DEF ConsumeStop
  <2>6. CASE MainReply(t)
    BY <2>6 DEF MainReply
  <2> QED
    BY <1>8, <2>1, <2>2, <2>3, <2>4, <2>5, <2>6 DEF TransferStep
<1>9. ASSUME NEW t \in Threads, OtherStep(t) PROVE (lock[l] = u <=> Holds(u, l))'
  <2>1. CASE CheckLocalIp(t)
    BY <2>1 DEF CheckLocalIp
  <2>2. CASE FirstDone(t)
    BY <2>2 DEF FirstDone
  <2>3. CASE ReadHandle(t)
    BY <2>3 DEF ReadHandle
  <2>4. CASE SetSpeeds(t)
    BY <2>4 DEF SetSpeeds
  <2>5. CASE Finish(t)
    BY <2>5 DEF Finish
  <2> QED
    BY <1>9, <2>1, <2>2, <2>3, <2>4, <2>5 DEF OtherStep
<1>10. CASE Environment
  BY <1>10 DEF Environment, SetChannelInfo, StopCurrentDownloadTask, Tick
<1> QED
  BY <1>1, <1>2, <1>3, <1>4, <1>5, <1>6, <1>7, <1>8, <1>9, <1>10 DEF Next, Run

\* LInv holds before the first call.
LEMMA LInvInit == Init => LInv
<1> SUFFICES ASSUME Init PROVE LInv
  OBVIOUS
<1>1. TypeOK
  BY TypeInit
<1>2. Flow
  BY DEF Init, Flow, Unauthorizing, Transferring
<1>3. LockDiscipline
  BY ThreadsAssumption DEF Init, LockDiscipline, Holds, Locked, Reauthorizing, Locks
<1> QED
  BY <1>1, <1>2, <1>3 DEF LInv

\* A step keeps LInv.
LEMMA LInvStep == LInv /\ [Next]_vars => LInv'
  BY TypeStep, FlowStep, LockStep DEF LInv

\* LInv holds in every reachable state.
LEMMA LInvAlways == Spec => []LInv
  BY LInvInit, LInvStep, PTL DEF Spec

\* The type invariant holds for every set of threads, calls and bounds.
THEOREM TypeCorrect == Spec => []TypeOK
<1>1. LInv => TypeOK
  BY DEF LInv
<1> QED
  BY <1>1, LInvAlways, PTL

\* On every path through the exported calls the mutexes are held exactly where
\* the code holds them.
THEOREM LocksAreDisciplined == Spec => []LockDiscipline
<1>1. LInv => LockDiscipline
  BY DEF LInv
<1> QED
  BY <1>1, LInvAlways, PTL

\* A thread waits only where it holds no mutex of the same or a higher rank.
LEMMA OrderFromDiscipline == LInv => LockOrder
<1>1. ASSUME LInv, NEW t \in Threads, NEW l \in Locks, NEW m \in Locks,
             WaitsFor(t, l), lock[m] = t
      PROVE  Rank(m) < Rank(l)
  <2>1. Holds(t, m)
    BY <1>1 DEF LInv, LockDiscipline
  <2>2. pc[t] # "cbWait" => stage[t] = "main"
    BY <1>1 DEF LInv, Flow, WaitsFor, Unauthorizing
  <2>3. CASE pc[t] = "classWait"
    BY <1>1, <2>1, <2>2, <2>3 DEF Holds, Locked, Locks
  <2>4. CASE pc[t] = "nestedWait"
    BY <1>1, <2>1, <2>2, <2>4 DEF LInv, Flow, Holds, Locked, Locks, OwnHandle,
      Reauthorizing, WaitsFor, Rank
  <2>5. CASE pc[t] \in {"authWait", "ipCheck"}
    BY <1>1, <2>1, <2>2, <2>5 DEF Holds, Locks, WaitsFor, Rank
  <2>6. CASE pc[t] = "cbWait"
    BY <1>1, <2>1, <2>6 DEF Holds, Locks, WaitsFor, Rank
  <2> QED
    BY <1>1, <2>3, <2>4, <2>5, <2>6 DEF WaitsFor
<1> QED
  BY <1>1 DEF LockOrder

\* The ranks of the mutexes rule out a cycle of waiting threads, for any number
\* of threads in any mix of calls.
THEOREM LocksAreOrdered == Spec => []LockOrder
  BY OrderFromDiscipline, LInvAlways, PTL

----------------------------------------------------------------------------
(* The request handle.                                                     *)

\* A thread has the pointer only during a transfer on the shared handle or a
\* change of its speeds; in a locked call it then holds the request mutex.
HandleInv ==
  \A t \in Threads :
    /\ using[t] # "none" =>
         pc[t] \in {"performing", "cbWait", "callback", "consume", "copyIp", "setopt"}
    /\ using[t] # "none" /\ kind[t] \notin UnlockedKinds => Holds(t, "request")
    /\ using[t] = "freed" => kind[t] \in UnlockedKinds

\* A step keeps what is known of the request handle.
LEMMA HandleStep == LInv /\ HandleInv /\ [Next]_vars => HandleInv'
<1> SUFFICES ASSUME LInv, HandleInv, [Next]_vars PROVE HandleInv'
  OBVIOUS
<1> USE DEF LInv, TypeOK, Flow, HandleInv, Holds, Locked, Reauthorizing, Goto,
      Unauthorizing, Transferring, OwnHandle, UnlockedKinds, SharesHandle,
      serverVars, callVars, flowVars, xferVars
<1>1. CASE UNCHANGED vars
  BY <1>1 DEF vars
<1>2. ASSUME NEW t \in Threads, Begin(t) PROVE HandleInv'
  BY <1>2 DEF Begin
<1>3. ASSUME NEW t \in Threads, Receive(t) PROVE HandleInv'
  BY <1>3 DEF Receive
<1>4. ASSUME NEW t \in Threads, EndPerform(t) PROVE HandleInv'
  BY <1>4 DEF EndPerform
<1>5. ASSUME NEW t \in Threads, ApiStep(t) PROVE HandleInv'
  <2>1. CASE EnterClass(t)
    BY <2>1 DEF EnterClass
  <2>2. CASE EarlyReturn(t)
    BY <2>2 DEF EarlyReturn
  <2>3. CASE Admit(t)
    BY <2>3 DEF Admit
  <2>4. CASE KeepServer(t)
    BY <2>4 DEF KeepServer
  <2>5. CASE BeginClear(t)
    BY <2>5 DEF BeginClear
  <2>6. CASE EndClear(t)
    BY <2>6 DEF EndClear
  <2>7. CASE Close(t)
      <3>1. ASSUME NEW u \in Threads, using[u] = "live" PROVE kind[u] \in UnlockedKinds
        <4>1. lock["request"] = t
          BY <2>7 DEF Close, LockDiscipline, Locks
        <4>2. u # t
          BY <2>7, <3>1 DEF Close
        <4> QED
          BY <3>1, <4>1, <4>2 DEF LockDiscipline, Locks
      <3> QED
        BY <2>7, <3>1 DEF Close
  <2> QED
    BY <1>5, <2>1, <2>2, <2>3, <2>4, <2>5, <2>6, <2>7 DEF ApiStep
<1>6. ASSUME NEW t \in Threads, TokenStep(t) PROVE HandleInv'
  <2>1. CASE SkipToken(t)
    BY <2>1 DEF SkipToken
  <2>2. CASE ReadToken(t)
    BY <2>2 DEF ReadToken
  <2>3. CASE NestedLock(t)
    BY <2>3 DEF NestedLock
  <2>4. CASE ReDetect(t)
    BY <2>4 DEF ReDetect
  <2>5. CASE ReReadToken(t)
    BY <2>5 DEF ReReadToken
  <2>6. CASE NestedExit(t)
    BY <2>6 DEF NestedExit
  <2> QED
    BY <1>6, <2>1, <2>2, <2>3, <2>4, <2>5, <2>6 DEF TokenStep
<1>7. ASSUME NEW t \in Threads, AuthorizeStep(t) PROVE HandleInv'
  <2>1. CASE AuthLock(t)
    BY <2>1 DEF AuthLock
  <2>2. CASE AuthHost(t)
    BY <2>2 DEF AuthHost
  <2>3. CASE TimeReply(t)
    BY <2>3 DEF TimeReply
  <2>4. CASE AuthReply(t)
    BY <2>4 DEF AuthReply
  <2>5. CASE StoreToken(t)
    BY <2>5 DEF StoreToken
  <2>6. CASE AuthDone(t)
    BY <2>6 DEF AuthDone
  <2> QED
    BY <1>7, <2>1, <2>2, <2>3, <2>4, <2>5, <2>6 DEF AuthorizeStep
<1>8. ASSUME NEW t \in Threads, TransferStep(t) PROVE HandleInv'
  <2>1. CASE Prepare(t)
    BY <2>1 DEF Prepare
  <2>2. CASE CallbackLock(t)
    BY <2>2 DEF CallbackLock
  <2>3. CASE Deliver(t)
    BY <2>3 DEF Deliver
  <2>4. CASE SeeStop(t)
    BY <2>4 DEF SeeStop
  <2>5. CASE ConsumeStop(t)
    BY <2>5 DEF ConsumeStop
  <2>6. CASE MainReply(t)
    BY <2>6 DEF MainReply
  <2> QED
    BY <1>8, <2>1, <2>2, <2>3, <2>4, <2>5, <2>6 DEF TransferStep
<1>9. ASSUME NEW t \in Threads, OtherStep(t) PROVE HandleInv'
  <2>1. CASE CheckLocalIp(t)
    BY <2>1 DEF CheckLocalIp
  <2>2. CASE FirstDone(t)
    BY <2>2 DEF FirstDone
  <2>3. CASE ReadHandle(t)
    BY <2>3 DEF ReadHandle
  <2>4. CASE SetSpeeds(t)
    BY <2>4 DEF SetSpeeds
  <2>5. CASE Finish(t)
    BY <2>5 DEF Finish
  <2> QED
    BY <1>9, <2>1, <2>2, <2>3, <2>4, <2>5 DEF OtherStep
<1>10. CASE Environment
  BY <1>10 DEF Environment, SetChannelInfo, StopCurrentDownloadTask, Tick
<1> QED
  BY <1>1, <1>2, <1>3, <1>4, <1>5, <1>6, <1>7, <1>8, <1>9, <1>10 DEF Next, Run

\* HandleInv holds in every reachable state.
LEMMA HandleAlways == Spec => [](LInv /\ HandleInv)
<1>1. Init => HandleInv
  BY DEF Init, HandleInv
<1> QED
  BY <1>1, HandleStep, LInvInit, LInvStep, PTL DEF Spec

\* However the threads interleave, a request that closes the handle leaves a
\* freed pointer only with a call that skips g_RequestMutex.
THEOREM LockedCallsAreSafe == Spec => []LockedCallsKeepHandle
<1>1. HandleInv => LockedCallsKeepHandle
  BY DEF HandleInv, LockedCallsKeepHandle
<1> QED
  BY <1>1, HandleAlways, PTL

\* The request handle is used by one locked call at a time.
THEOREM HandleIsNotShared == Spec => []HandleSharedOnlyWithUnlocked
<1>1. LInv /\ HandleInv => HandleSharedOnlyWithUnlocked
  <2> SUFFICES ASSUME LInv, HandleInv, NEW t \in Threads, NEW u \in Threads,
                      using[t] # "none", using[u] # "none",
                      kind[t] \notin UnlockedKinds, kind[u] \notin UnlockedKinds
               PROVE  t = u
    BY DEF HandleSharedOnlyWithUnlocked
  <2>1. Holds(t, "request") /\ Holds(u, "request")
    BY DEF HandleInv
  <2> QED
    BY <2>1 DEF LInv, LockDiscipline, Locks
<1> QED
  BY <1>1, HandleAlways, PTL

----------------------------------------------------------------------------
(* The stop flag and the token.                                            *)

\* A step keeps StopConsumedOnce: the callback mutex covers check and reset.
LEMMA StopStep == LInv /\ StopConsumedOnce /\ [Next]_vars => StopConsumedOnce'
<1> SUFFICES ASSUME LInv, StopConsumedOnce, [Next]_vars,
                    NEW u \in Threads, pc'[u] = "consume"
             PROVE  stop'
  BY DEF StopConsumedOnce
<1> USE DEF LInv, TypeOK, StopConsumedOnce, Goto
<1>1. CASE UNCHANGED vars
  BY <1>1 DEF vars
<1>2. ASSUME NEW t \in Threads, Begin(t) PROVE stop'
  BY <1>2 DEF Begin
<1>3. ASSUME NEW t \in Threads, Receive(t) PROVE stop'
  BY <1>3 DEF Receive
<1>4. ASSUME NEW t \in Threads, EndPerform(t) PROVE stop'
  BY <1>4 DEF EndPerform
<1>5. ASSUME NEW t \in Threads, ApiStep(t) PROVE stop'
  BY <1>5 DEF ApiStep, EnterClass, EarlyReturn, Admit, KeepServer, BeginClear,
    EndClear, Close
<1>6. ASSUME NEW t \in Threads, TokenStep(t) PROVE stop'
  BY <1>6 DEF TokenStep, SkipToken, ReadToken, NestedLock, ReDetect,
    ReReadToken, NestedExit
<1>7. ASSUME NEW t \in Threads, AuthorizeStep(t) PROVE stop'
  BY <1>7 DEF AuthorizeStep, AuthLock, AuthHost, TimeReply, AuthReply,
    StoreToken, AuthDone
<1>8. ASSUME NEW t \in Threads, TransferStep(t) PROVE stop'
  <2>1. CASE ConsumeStop(t)
    <3>1. t # u
      BY <2>1 DEF ConsumeStop
    <3>2. lock["callback"] = t /\ lock["callback"] = u
      BY <2>1, <3>1 DEF ConsumeStop, LockDiscipline, Holds, Locks
    <3> QED
      BY <3>1, <3>2
  <2>2. CASE Prepare(t) \/ CallbackLock(t) \/ Deliver(t) \/ SeeStop(t) \/ MainReply(t)
    BY <2>2 DEF Prepare, CallbackLock, Deliver, SeeStop, MainReply
  <2> QED
    BY <1>8, <2>1, <2>2 DEF TransferStep
<1>9. ASSUME NEW t \in Threads, OtherStep(t) PROVE stop'
  BY <1>9 DEF OtherStep, CheckLocalIp, FirstDone, ReadHandle, SetSpeeds, Finish
<1>10. CASE Environment
  BY <1>10 DEF Environment, SetChannelInfo, StopCurrentDownloadTask, Tick
<1> QED
  BY <1>1, <1>2, <1>3, <1>4, <1>5, <1>6, <1>7, <1>8, <1>9, <1>10 DEF Next, Run

\* The shared callback mutex makes checking and lowering the flag one step.
THEOREM StopIsConsumedOnce == Spec => []StopConsumedOnce
<1>1. Init => StopConsumedOnce
  BY DEF Init, StopConsumedOnce
<1> QED
  BY <1>1, StopStep, LInvInit, LInvStep, PTL DEF Spec

\* The token of an authorized call is there from its check to its transfer.
TokenInv ==
  \A t \in Threads :
    /\ needAuth[t] => Transfers(kind[t])
    /\ pc[t] \in Transferring /\ stage[t] = "main" /\ needAuth[t] => tok[t] # NoToken

\* A step keeps what is known of the tokens that calls carry.
LEMMA TokenStepKeeps == LInv /\ TokenInv /\ [Next]_vars => TokenInv'
<1> SUFFICES ASSUME LInv, TokenInv, [Next]_vars PROVE TokenInv'
  OBVIOUS
<1> USE DEF LInv, TypeOK, Flow, TokenInv, Goto, Transferring, Transfers,
      serverVars, callVars, flowVars, xferVars
<1>1. CASE UNCHANGED vars
  BY <1>1 DEF vars
<1>2. ASSUME NEW t \in Threads, Begin(t) PROVE TokenInv'
  BY <1>2 DEF Begin
<1>3. ASSUME NEW t \in Threads, Receive(t) PROVE TokenInv'
  BY <1>3 DEF Receive
<1>4. ASSUME NEW t \in Threads, EndPerform(t) PROVE TokenInv'
  BY <1>4 DEF EndPerform
<1>5. ASSUME NEW t \in Threads, ApiStep(t) PROVE TokenInv'
  <2>1. CASE EnterClass(t)
    BY <2>1 DEF EnterClass
  <2>2. CASE EarlyReturn(t)
    BY <2>2 DEF EarlyReturn
  <2>3. CASE Admit(t)
    BY <2>3 DEF Admit, OwnHandle
  <2>4. CASE KeepServer(t)
    BY <2>4 DEF KeepServer
  <2>5. CASE BeginClear(t)
    BY <2>5 DEF BeginClear
  <2>6. CASE EndClear(t)
    BY <2>6 DEF EndClear
  <2>7. CASE Close(t)
    BY <2>7 DEF Close
  <2> QED
    BY <1>5, <2>1, <2>2, <2>3, <2>4, <2>5, <2>6, <2>7 DEF ApiStep
<1>6. ASSUME NEW t \in Threads, TokenStep(t) PROVE TokenInv'
  <2>1. CASE SkipToken(t)
    BY <2>1 DEF SkipToken
  <2>2. CASE ReadToken(t)
    BY <2>2 DEF ReadToken
  <2>3. CASE NestedLock(t)
    BY <2>3 DEF NestedLock
  <2>4. CASE ReDetect(t)
    BY <2>4 DEF ReDetect
  <2>5. CASE ReReadToken(t)
    BY <2>5 DEF ReReadToken
  <2>6. CASE NestedExit(t)
    BY <2>6 DEF NestedExit
  <2> QED
    BY <1>6, <2>1, <2>2, <2>3, <2>4, <2>5, <2>6 DEF TokenStep
<1>7. ASSUME NEW t \in Threads, AuthorizeStep(t) PROVE TokenInv'
  <2>1. CASE AuthLock(t)
    BY <2>1 DEF AuthLock
  <2>2. CASE AuthHost(t)
    BY <2>2 DEF AuthHost
  <2>3. CASE TimeReply(t)
    BY <2>3 DEF TimeReply
  <2>4. CASE AuthReply(t)
    BY <2>4 DEF AuthReply
  <2>5. CASE StoreToken(t)
    BY <2>5 DEF StoreToken
  <2>6. CASE AuthDone(t)
    BY <2>6 DEF AuthDone
  <2> QED
    BY <1>7, <2>1, <2>2, <2>3, <2>4, <2>5, <2>6 DEF AuthorizeStep
<1>8. ASSUME NEW t \in Threads, TransferStep(t) PROVE TokenInv'
  <2>1. CASE Prepare(t)
    BY <2>1 DEF Prepare
  <2>2. CASE CallbackLock(t)
    BY <2>2 DEF CallbackLock
  <2>3. CASE Deliver(t)
    BY <2>3 DEF Deliver
  <2>4. CASE SeeStop(t)
    BY <2>4 DEF SeeStop
  <2>5. CASE ConsumeStop(t)
    BY <2>5 DEF ConsumeStop
  <2>6. CASE MainReply(t)
    BY <2>6 DEF MainReply
  <2> QED
    BY <1>8, <2>1, <2>2, <2>3, <2>4, <2>5, <2>6 DEF TransferStep
<1>9. ASSUME NEW t \in Threads, OtherStep(t) PROVE TokenInv'
  <2>1. CASE CheckLocalIp(t)
    BY <2>1 DEF CheckLocalIp
  <2>2. CASE FirstDone(t)
    BY <2>2 DEF FirstDone
  <2>3. CASE ReadHandle(t)
    BY <2>3 DEF ReadHandle
  <2>4. CASE SetSpeeds(t)
    BY <2>4 DEF SetSpeeds
  <2>5. CASE Finish(t)
    BY <2>5 DEF Finish
  <2> QED
    BY <1>9, <2>1, <2>2, <2>3, <2>4, <2>5 DEF OtherStep
<1>10. CASE Environment
  BY <1>10 DEF Environment, SetChannelInfo, StopCurrentDownloadTask, Tick
<1> QED
  BY <1>1, <1>2, <1>3, <1>4, <1>5, <1>6, <1>7, <1>8, <1>9, <1>10 DEF Next, Run

\* No authorized transfer leaves without a token.
THEOREM AuthorizedTransfersCarryToken == Spec => []AuthedTransferCarriesToken
<1>1. Init => TokenInv
  BY DEF Init, TokenInv, Transferring
<1>2. TokenInv => AuthedTransferCarriesToken
  BY DEF TokenInv, AuthedTransferCarriesToken, Transferring
<1> QED
  BY <1>1, <1>2, TokenStepKeeps, LInvInit, LInvStep, PTL DEF Spec

\* Under the authorize mutex the parsed token is the newest one until stored.
GotInv == \A t \in Threads : pc[t] = "storing" => got[t] \in {NoToken, issued}

\* A step keeps what is known of the tokens on their way into the cache.
LEMMA GotStep == LInv /\ GotInv /\ [Next]_vars => GotInv'
<1> SUFFICES ASSUME LInv, GotInv, [Next]_vars,
                    NEW u \in Threads, pc'[u] = "storing"
             PROVE  got'[u] \in {NoToken, issued'}
  BY DEF GotInv
<1> USE DEF LInv, TypeOK, GotInv, Goto, serverVars, callVars, flowVars
<1>1. CASE UNCHANGED vars
  BY <1>1 DEF vars
<1>2. ASSUME NEW t \in Threads, Begin(t) PROVE got'[u] \in {NoToken, issued'}
  BY <1>2 DEF Begin
<1>3. ASSUME NEW t \in Threads, Receive(t) PROVE got'[u] \in {NoToken, issued'}
  BY <1>3 DEF Receive
<1>4. ASSUME NEW t \in Threads, EndPerform(t) PROVE got'[u] \in {NoToken, issued'}
  BY <1>4 DEF EndPerform
<1>5. ASSUME NEW t \in Threads, ApiStep(t) PROVE got'[u] \in {NoToken, issued'}
  BY <1>5 DEF ApiStep, EnterClass, EarlyReturn, Admit, KeepServer, BeginClear,
    EndClear, Close
<1>6. ASSUME NEW t \in Threads, TokenStep(t) PROVE got'[u] \in {NoToken, issued'}
  BY <1>6 DEF TokenStep, SkipToken, ReadToken, NestedLock, ReDetect,
    ReReadToken, NestedExit
<1>7. ASSUME NEW t \in Threads, AuthorizeStep(t) PROVE got'[u] \in {NoToken, issued'}
  <2>1. CASE AuthReply(t)
    <3>1. CASE u = t
      BY <2>1, <3>1 DEF AuthReply
    <3>2. CASE u # t
      <4>1. pc[u] = "storing"
        BY <2>1, <3>2 DEF AuthReply
      <4>2. stage[u] # "main" /\ stage[t] # "main"
        BY <2>1, <4>1 DEF AuthReply, Flow
      <4>3. lock["auth"] = u /\ lock["auth"] = t
        BY <4>2 DEF LockDiscipline, Holds, Locks
      <4> QED
        BY <3>2, <4>3
    <3> QED
      BY <3>1, <3>2
  <2>2. CASE AuthLock(t) \/ AuthHost(t) \/ TimeReply(t) \/ StoreToken(t) \/ AuthDone(t)
    BY ZenonT(40), <2>2 DEF AuthLock, AuthHost, TimeReply, StoreToken, AuthDone
  <2> QED
    BY <1>7, <2>1, <2>2 DEF AuthorizeStep
<1>8. ASSUME NEW t \in Threads, TransferStep(t) PROVE got'[u] \in {NoToken, issued'}
  BY <1>8 DEF TransferStep, Prepare, CallbackLock, Deliver, SeeStop,
    ConsumeStop, MainReply
<1>9. ASSUME NEW t \in Threads, OtherStep(t) PROVE got'[u] \in {NoToken, issued'}
  BY <1>9 DEF OtherStep, CheckLocalIp, FirstDone, ReadHandle, SetSpeeds, Finish
<1>10. CASE Environment
  BY <1>10 DEF Environment, SetChannelInfo, StopCurrentDownloadTask, Tick
<1> QED
  BY <1>1, <1>2, <1>3, <1>4, <1>5, <1>6, <1>7, <1>8, <1>9, <1>10 DEF Next, Run

\* Whatever step changes the cached token makes it torn, empty or the newest.
LEMMA TokenMoves ==
  GotInv /\ [Next]_vars => (token' # token => token' \in {NoToken, Torn, issued'})
<1> SUFFICES ASSUME GotInv, [Next]_vars, token' # token
             PROVE  token' \in {NoToken, Torn, issued'}
  OBVIOUS
<1> USE DEF GotInv, Goto, serverVars
<1>1. CASE UNCHANGED vars
  BY <1>1 DEF vars
<1>2. ASSUME NEW t \in Threads, Begin(t) PROVE token' \in {NoToken, Torn, issued'}
  BY <1>2 DEF Begin
<1>3. ASSUME NEW t \in Threads, Receive(t) PROVE token' \in {NoToken, Torn, issued'}
  BY <1>3 DEF Receive
<1>4. ASSUME NEW t \in Threads, EndPerform(t) PROVE token' \in {NoToken, Torn, issued'}
  BY <1>4 DEF EndPerform
<1>5. ASSUME NEW t \in Threads, ApiStep(t) PROVE token' \in {NoToken, Torn, issued'}
  BY <1>5 DEF ApiStep, EnterClass, EarlyReturn, Admit, KeepServer, BeginClear,
    EndClear, Close
<1>6. ASSUME NEW t \in Threads, TokenStep(t) PROVE token' \in {NoToken, Torn, issued'}
  BY <1>6 DEF TokenStep, SkipToken, ReadToken, NestedLock, ReDetect,
    ReReadToken, NestedExit
<1>7. ASSUME NEW t \in Threads, AuthorizeStep(t) PROVE token' \in {NoToken, Torn, issued'}
  BY <1>7 DEF AuthorizeStep, AuthLock, AuthHost, TimeReply, AuthReply,
    StoreToken, AuthDone
<1>8. ASSUME NEW t \in Threads, TransferStep(t) PROVE token' \in {NoToken, Torn, issued'}
  BY <1>8 DEF TransferStep, Prepare, CallbackLock, Deliver, SeeStop,
    ConsumeStop, MainReply
<1>9. ASSUME NEW t \in Threads, OtherStep(t) PROVE token' \in {NoToken, Torn, issued'}
  BY <1>9 DEF OtherStep, CheckLocalIp, FirstDone, ReadHandle, SetSpeeds, Finish
<1>10. CASE Environment
  BY <1>10 DEF Environment, SetChannelInfo, StopCurrentDownloadTask, Tick
<1> QED
  BY <1>1, <1>2, <1>3, <1>4, <1>5, <1>6, <1>7, <1>8, <1>9, <1>10 DEF Next, Run

\* Authorizations of any number of threads store their tokens in the order in
\* which the server issued them.
THEOREM TokensAreStoredInOrder == Spec => StoresNewestToken
<1>1. Init => GotInv
  BY DEF Init, GotInv
<1> QED
  BY <1>1, GotStep, TokenMoves, LInvInit, LInvStep, PTL DEF Spec, StoresNewestToken

\* The token is torn only while some thread is assigning it.
TornInv == token = Torn => \E u \in Threads : pc[u] \in {"clear", "storing"}

\* A step that tears the token begins an assignment, and the step that ends an
\* assignment leaves a whole token.
LEMMA TornStep == LInv /\ TornInv /\ [Next]_vars => TornInv'
<1> SUFFICES ASSUME LInv, TornInv, [Next]_vars, token' = Torn
             PROVE  \E u \in Threads : pc'[u] \in {"clear", "storing"}
  BY DEF TornInv
<1> USE DEF LInv, TypeOK, Goto, serverVars, callVars, flowVars
<1> DEFINE Assigning == \E u \in Threads : pc'[u] \in {"clear", "storing"}
<1>1. ASSUME UNCHANGED token,
             \A u \in Threads : pc[u] \in {"clear", "storing"} => pc'[u] = pc[u]
      PROVE  Assigning
  BY <1>1 DEF TornInv
<1>2. CASE UNCHANGED vars
  BY <1>1, <1>2 DEF vars
<1>3. ASSUME NEW t \in Threads, Begin(t) \/ Receive(t) \/ EndPerform(t) PROVE Assigning
  BY <1>1, <1>3 DEF Begin, Receive, EndPerform
<1>4. ASSUME NEW t \in Threads, ApiStep(t) PROVE Assigning
  <2>1. CASE BeginClear(t)
    <3>1. pc'[t] = "clear"
      BY <2>1 DEF BeginClear
    <3> QED
      BY <3>1
  <2>2. CASE EndClear(t)
    BY <2>2 DEF EndClear, NoToken, Torn
  <2>3. CASE EnterClass(t) \/ EarlyReturn(t) \/ Admit(t) \/ KeepServer(t) \/ Close(t)
    BY <1>1, <2>3 DEF EnterClass, EarlyReturn, Admit, KeepServer, Close
  <2> QED
    BY <1>4, <2>1, <2>2, <2>3 DEF ApiStep
<1>5. ASSUME NEW t \in Threads, TokenStep(t) PROVE Assigning
  BY <1>1, <1>5 DEF TokenStep, SkipToken, ReadToken, NestedLock, ReDetect,
    ReReadToken, NestedExit
<1>6. ASSUME NEW t \in Threads, AuthorizeStep(t) PROVE Assigning
  <2>1. CASE AuthReply(t)
    <3>1. \/ pc'[t] = "storing"
          \/ pc[t] = "copyIp" /\ pc' = [pc EXCEPT ![t] = "authDone"] /\ UNCHANGED token
      BY <2>1 DEF AuthReply
    <3> QED
      BY <1>1, <3>1
  <2>2. CASE StoreToken(t)
    BY <2>2 DEF StoreToken, Torn
  <2>3. CASE AuthLock(t) \/ AuthHost(t) \/ TimeReply(t) \/ AuthDone(t)
    BY <1>1, <2>3 DEF AuthLock, AuthHost, TimeReply, AuthDone
  <2> QED
    BY <1>6, <2>1, <2>2, <2>3 DEF AuthorizeStep
<1>7. ASSUME NEW t \in Threads, TransferStep(t) PROVE Assigning
  BY <1>1, <1>7 DEF TransferStep, Prepare, CallbackLock, Deliver, SeeStop,
    ConsumeStop, MainReply
<1>8. ASSUME NEW t \in Threads, OtherStep(t) PROVE Assigning
  BY <1>1, <1>8 DEF OtherStep, CheckLocalIp, FirstDone, ReadHandle, SetSpeeds, Finish
<1>9. CASE Environment
  BY <1>1, <1>9 DEF Environment, SetChannelInfo, StopCurrentDownloadTask, Tick
<1> QED
  BY <1>2, <1>3, <1>4, <1>5, <1>6, <1>7, <1>8, <1>9 DEF Next, Run

\* The thread that assigns the token holds g_RequestMutex, unless it authorizes
\* for LIBHTTPGetAuthLocalIp: another holder meets a whole token otherwise.
LEMMA TornReader == LInv /\ TornInv => TornTokenNeedsUnlockedAccess
<1> SUFFICES ASSUME LInv, TornInv,
                    NEW t \in Threads, lock["request"] = t,
                    pc[t] \in {"token", "retoken"}, token = Torn
             PROVE  \E u \in Threads : kind[u] = "GetAuthLocalIp" /\ pc[u] = "storing"
  BY DEF TornTokenNeedsUnlockedAccess
<1>1. PICK u \in Threads : pc[u] \in {"clear", "storing"}
  BY DEF TornInv
<1>2. lock["request"] # u
  BY <1>1
<1>3. ~Holds(u, "request")
  BY <1>2 DEF LInv, LockDiscipline, Locks
<1>4. pc[u] = "storing" => stage[u] # "main"
  BY <1>1 DEF LInv, Flow
<1>5. kind[u] \in UnlockedKinds
  BY <1>1, <1>3, <1>4 DEF Holds, Locked, Reauthorizing, LInv, Flow, OwnHandle,
        UnlockedKinds
<1>6. pc[u] = "storing"
  BY <1>1, <1>5 DEF LInv, Flow
<1>7. kind[u] # "SetTranssionMissSpeeds"
  BY <1>6 DEF LInv, Flow
<1> QED
  BY <1>5, <1>6, <1>7 DEF UnlockedKinds

\* Holders of g_RequestMutex read torn tokens only beside the call that skips it.
THEOREM TornTokensNeedUnlockedAccess == Spec => []TornTokenNeedsUnlockedAccess
<1>1. Init => TornInv
  BY DEF Init, TornInv, NoToken, Torn
<1> QED
  BY <1>1, TornStep, TornReader, LInvInit, LInvStep, PTL DEF Spec

----------------------------------------------------------------------------
(* The calls implement SerialCalls.                                        *)

\* A step inside a call is invisible to SerialCalls.
LEMMA SerialStutter ==
  ASSUME TypeOK, NEW t \in Threads, NEW to \in PCs,
         pc[t] \notin {"idle", "classWait"}, to \notin {"idle", "classWait"},
         pc' = [pc EXCEPT ![t] = to], UNCHANGED kind
  PROVE  UNCHANGED <<CallPhase, CallClass>>
<1>1. CallPhase' = CallPhase
  BY DEF TypeOK, CallPhase
<1>2. CallClass' = CallClass
  BY DEF TypeOK, CallClass
<1> QED
  BY <1>1, <1>2

\* A step of the code is a step of SerialCalls or leaves it where it is.
LEMMA SerialStep == LInv /\ [Next]_vars => [Serial!SNext]_<<CallPhase, CallClass>>
<1> SUFFICES ASSUME LInv, [Next]_vars PROVE [Serial!SNext]_<<CallPhase, CallClass>>
  OBVIOUS
<1>1. ASSUME NEW t \in Threads, Begin(t) PROVE Serial!SNext
  <2> PICK k \in Kinds : /\ pc[t] = "idle" /\ kind' = [kind EXCEPT ![t] = k]
                         /\ pc' = [pc EXCEPT ![t] =
                              CASE k = "GetAuthLocalIp" -> "ipCheck"
                                [] k = "SetTranssionMissSpeeds" -> "speeds"
                                [] OTHER -> "classWait"]
    BY <1>1 DEF Begin, Goto
  <2>1. CASE k \in UnlockedKinds
    <3>1. pc'[t] \in {"ipCheck", "speeds"} /\ kind'[t] = k
      BY <2>1 DEF LInv, TypeOK, UnlockedKinds
    <3>2. Serial!Bypass(t)
      <4>1. CallPhase[t] = "idle"
        BY DEF CallPhase
      <4>2. CallPhase' = [CallPhase EXCEPT ![t] = "active"]
        BY <3>1 DEF LInv, TypeOK, CallPhase
      <4>3. CallClass' = CallClass
        BY <2>1, <3>1 DEF LInv, TypeOK, CallClass
      <4> QED
        BY <4>1, <4>2, <4>3 DEF Serial!Bypass
    <3> QED
      BY <3>2 DEF Serial!SNext
  <2>2. CASE k \notin UnlockedKinds
    <3>1. pc'[t] = "classWait" /\ kind'[t] = k
      BY <2>2, KindsAssumption DEF LInv, TypeOK, UnlockedKinds
    <3>2. Serial!Queue(t, ClassLock(k))
      <4>1. CallPhase[t] = "idle"
        BY DEF CallPhase
      <4>2. CallPhase' = [CallPhase EXCEPT ![t] = "queued"]
        BY <3>1 DEF LInv, TypeOK, CallPhase
      <4>3. CallClass' = [CallClass EXCEPT ![t] = ClassLock(k)]
        BY <2>2, <3>1 DEF LInv, TypeOK, CallClass
      <4> QED
        BY <4>1, <4>2, <4>3 DEF Serial!Queue
    <3>3. ClassLock(k) \in {"request", "download", "upload"}
      BY DEF ClassLock
    <3> QED
      BY <3>2, <3>3 DEF Serial!SNext
  <2> QED
    BY <2>1, <2>2
<1>2. ASSUME NEW t \in Threads, EnterClass(t) PROVE Serial!SNext
  <2>1. kind[t] \notin UnlockedKinds
    BY <1>2 DEF EnterClass, Goto, LInv, Flow
  <2>2. CallPhase[t] = "queued" /\ CallClass[t] = ClassLock(kind[t])
    BY <1>2, <2>1 DEF EnterClass, Goto, CallPhase, CallClass
  <2>3. ASSUME NEW u \in Threads, CallPhase[u] = "active"
        PROVE  CallClass[u] # CallClass[t]
    <3>1. pc[u] \notin {"idle", "classWait"}
      BY <2>3 DEF CallPhase
    <3>2. CASE kind[u] \in UnlockedKinds
      BY <2>2, <3>2 DEF CallClass, ClassLock
    <3>3. CASE kind[u] \notin UnlockedKinds
      <4>1. CallClass[u] = ClassLock(kind[u]) /\ Locked(u)
        BY <3>1, <3>3 DEF CallClass, Locked
      <4>2. ASSUME ClassLock(kind[u]) = ClassLock(kind[t]) PROVE FALSE
        <5>1. lock[ClassLock(kind[u])] = NoThread
          BY <1>2, <4>2 DEF EnterClass, Acquire
        <5>2. Holds(u, ClassLock(kind[u]))
          BY <4>1, <3>3 DEF LInv, TypeOK, Holds, ClassLock, OwnHandle, AllKinds,
                RequestKinds
        <5>3. ClassLock(kind[u]) \in Locks
          BY DEF ClassLock, Locks
        <5> QED
          BY <5>1, <5>2, <5>3, ThreadsAssumption DEF LInv, LockDiscipline
      <4> QED
        BY <2>2, <4>1, <4>2
    <3> QED
      BY <3>2, <3>3
  <2>4. CallPhase' = [CallPhase EXCEPT ![t] = "active"] /\ UNCHANGED CallClass
    BY <1>2 DEF EnterClass, Goto, LInv, TypeOK, CallPhase, CallClass, callVars
  <2>5. Serial!Start(t)
    BY <2>2, <2>3, <2>4 DEF Serial!Start
  <2> QED
    BY <2>5 DEF Serial!SNext
<1>3. ASSUME NEW t \in Threads, Finish(t) PROVE Serial!SNext
  <2>1. CallPhase[t] = "active"
    BY <1>3 DEF Finish, Goto, CallPhase
  <2>2. CallPhase' = [CallPhase EXCEPT ![t] = "idle"]
    BY <1>3 DEF Finish, Goto, LInv, TypeOK, CallPhase
  <2>3. CallClass' = [CallClass EXCEPT ![t] = "none"]
    BY <1>3 DEF Finish, Goto, LInv, TypeOK, CallClass
  <2>4. Serial!Return(t)
    BY <2>1, <2>2, <2>3 DEF Serial!Return
  <2> QED
    BY <2>4 DEF Serial!SNext
<1>4. ASSUME NEW t \in Threads,
            Receive(t)
     PROVE  UNCHANGED <<CallPhase, CallClass>>
  <2>1. PICK to \in PCs : /\ pc[t] \notin {"idle", "classWait"}
                        /\ to \notin {"idle", "classWait"}
                        /\ pc' = [pc EXCEPT ![t] = to] /\ UNCHANGED kind
    BY <1>4 DEF Receive, Goto, callVars, PCs
  <2> QED
    BY <2>1, SerialStutter DEF LInv
<1>5. ASSUME NEW t \in Threads,
            EndPerform(t)
     PROVE  UNCHANGED <<CallPhase, CallClass>>
  <2>1. PICK to \in PCs : /\ pc[t] \notin {"idle", "classWait"}
                        /\ to \notin {"idle", "classWait"}
                        /\ pc' = [pc EXCEPT ![t] = to] /\ UNCHANGED kind
    BY <1>5 DEF EndPerform, Goto, callVars, PCs
  <2> QED
    BY <2>1, SerialStutter DEF LInv
<1>6. ASSUME NEW t \in Threads,
            EarlyReturn(t) \/ Admit(t) \/ KeepServer(t) \/ BeginClear(t)
            \/ EndClear(t) \/ Close(t)
     PROVE  UNCHANGED <<CallPhase, CallClass>>
  <2>1. PICK to \in PCs : /\ pc[t] \notin {"idle", "classWait"}
                        /\ to \notin {"idle", "classWait"}
                        /\ pc' = [pc EXCEPT ![t] = to] /\ UNCHANGED kind
    BY <1>6 DEF EarlyReturn, Admit, KeepServer, BeginClear, EndClear, Close,
      Goto, callVars, PCs
  <2> QED
    BY <2>1, SerialStutter DEF LInv
<1>7. ASSUME NEW t \in Threads,
            SkipToken(t) \/ ReadToken(t) \/ NestedLock(t) \/ ReDetect(t)
            \/ ReReadToken(t) \/ NestedExit(t)
     PROVE  UNCHANGED <<CallPhase, CallClass>>
  <2>1. PICK to \in PCs : /\ pc[t] \notin {"idle", "classWait"}
                        /\ to \notin {"idle", "classWait"}
                        /\ pc' = [pc EXCEPT ![t] = to] /\ UNCHANGED kind
    BY <1>7 DEF SkipToken, ReadToken, NestedLock, ReDetect, ReReadToken,
      NestedExit, Goto, callVars, PCs
  <2> QED
    BY <2>1, SerialStutter DEF LInv
<1>8. ASSUME NEW t \in Threads,
            AuthLock(t) \/ AuthHost(t) \/ TimeReply(t) \/ AuthReply(t)
            \/ StoreToken(t) \/ AuthDone(t)
     PROVE  UNCHANGED <<CallPhase, CallClass>>
  <2>1. PICK to \in PCs : /\ pc[t] \notin {"idle", "classWait"}
                        /\ to \notin {"idle", "classWait"}
                        /\ pc' = [pc EXCEPT ![t] = to] /\ UNCHANGED kind
    BY <1>8 DEF AuthLock, AuthHost, TimeReply, AuthReply, StoreToken, AuthDone,
      Goto, callVars, PCs
  <2> QED
    BY <2>1, SerialStutter DEF LInv
<1>9. ASSUME NEW t \in Threads,
            Prepare(t) \/ CallbackLock(t) \/ Deliver(t) \/ SeeStop(t)
            \/ ConsumeStop(t) \/ MainReply(t)
     PROVE  UNCHANGED <<CallPhase, CallClass>>
  <2>1. PICK to \in PCs : /\ pc[t] \notin {"idle", "classWait"}
                        /\ to \notin {"idle", "classWait"}
                        /\ pc' = [pc EXCEPT ![t] = to] /\ UNCHANGED kind
    BY <1>9 DEF Prepare, CallbackLock, Deliver, SeeStop, ConsumeStop, MainReply,
      Goto, callVars, PCs
  <2> QED
    BY <2>1, SerialStutter DEF LInv
<1>10. ASSUME NEW t \in Threads,
            CheckLocalIp(t) \/ FirstDone(t) \/ ReadHandle(t) \/ SetSpeeds(t)
     PROVE  UNCHANGED <<CallPhase, CallClass>>
  <2>1. PICK to \in PCs : /\ pc[t] \notin {"idle", "classWait"}
                        /\ to \notin {"idle", "classWait"}
                        /\ pc' = [pc EXCEPT ![t] = to] /\ UNCHANGED kind
    BY <1>10 DEF CheckLocalIp, FirstDone, ReadHandle, SetSpeeds, Goto, callVars,
      PCs
  <2> QED
    BY <2>1, SerialStutter DEF LInv
<1>11. CASE Environment \/ UNCHANGED vars
  BY <1>11 DEF Environment, SetChannelInfo, StopCurrentDownloadTask, Tick, vars,
    callVars, CallPhase, CallClass
<1> QED
  BY <1>1, <1>2, <1>3, <1>4, <1>5, <1>6, <1>7, <1>8, <1>9, <1>10, <1>11 DEF
    Next, Run, ApiStep, TokenStep, AuthorizeStep, TransferStep, OtherStep

\* The exported calls of each class are served one at a time: the mutexes of
\* libhttpCurl.cpp implement SerialCalls.
THEOREM CallsImplementSerial == Spec => CallsAreSerial
<1>1. Init => Serial!SInit
  BY DEF Init, Serial!SInit, CallPhase, CallClass
<1> QED
  BY <1>1, SerialStep, LInvAlways, PTL DEF Spec, CallsAreSerial, Serial!SSpec,
        Serial!svars
=============================================================================
