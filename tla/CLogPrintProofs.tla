-------------------------- MODULE CLogPrintProofs --------------------------
(***************************************************************************)
(* Proofs about CLogPrint for any threads, listeners and number of calls.  *)
(***************************************************************************)
EXTENDS CLogPrint, TLAPS

\* The mutex is held by exactly the thread that stands between its brackets.
MutexInv == \A t \in Threads : (mutex = t) <=> (pc[t] \in Inside)

\* A listener travels from the host through one setLogCallback into place and,
\* once that call has returned, out again; it is never passed in twice.
ListenerInv ==
  /\ retired \subseteq returned /\ returned \subseteq handed
  /\ listener \notin retired
  /\ \A t \in Threads :
       /\ prior[t] \subseteq returned
       /\ pc[t] \in Setting => arg[t] \notin returned
       /\ pc[t] \in Setting => arg[t] \in handed \cup {NULL}
       /\ pc[t] = "setExit" => listener = arg[t]
       /\ pc[t] \in {"format", "deliver"} => listener # NULL
       /\ pc[t] = "onLog" => calling[t] = listener /\ listener # NULL
       /\ pc[t] \in {"format", "deliver", "onLog"} => buffer = t
  /\ \A t, u \in Threads :
       t # u /\ pc[t] \in Setting /\ pc[u] \in Setting
         => arg[t] # arg[u] \/ arg[t] = NULL

LogInv == LogTypeOK /\ MutexInv /\ ListenerInv

\* LogInv holds before the first call.
LEMMA LogInvInit == Init => LogInv
  BY LogAssumption DEF Init, LogInv, LogTypeOK, MutexInv, ListenerInv, LogPCs,
     Setting, Inside

\* A step keeps the types.
LEMMA LogTypeStep == LogTypeOK /\ [Next]_vars => LogTypeOK'
<1> SUFFICES ASSUME LogTypeOK, [Next]_vars PROVE LogTypeOK'
  OBVIOUS
<1> USE LogAssumption DEF LogTypeOK, Goto, Enter, hostVars, LogPCs, Setting, Inside
<1>1. CASE UNCHANGED vars
  BY <1>1 DEF vars
<1>2. ASSUME NEW t \in Threads, Call(t) PROVE LogTypeOK'
  BY <1>2 DEF Call, CallSet, CallPrintf, Spend
<1>3. ASSUME NEW t \in Threads, Step(t) PROVE LogTypeOK'
  BY <1>3 DEF Step, EnterSet, Install, LeaveSet, EnterPrintf, NothingToLog,
     ClearBuffer, Format, Deliver, OnLogReturns, LeavePrintf
<1> QED
  BY <1>1, <1>2, <1>3 DEF Next

\* A step takes or frees the mutex exactly where it passes a bracket.
LEMMA MutexStep == LogTypeOK /\ MutexInv /\ [Next]_vars => MutexInv'
<1> SUFFICES ASSUME LogTypeOK, MutexInv, [Next]_vars PROVE MutexInv'
  OBVIOUS
<1> USE LogAssumption DEF LogTypeOK, MutexInv, Goto, Enter, LogPCs, Setting, Inside
<1>1. CASE UNCHANGED vars
  BY <1>1 DEF vars
<1>2. ASSUME NEW t \in Threads, Call(t) PROVE MutexInv'
  BY <1>2 DEF Call, CallSet, CallPrintf
<1>3. ASSUME NEW t \in Threads, EnterSet(t) \/ EnterPrintf(t) PROVE MutexInv'
  BY <1>3 DEF EnterSet, EnterPrintf
<1>4. ASSUME NEW t \in Threads, LeaveSet(t) \/ LeavePrintf(t) PROVE MutexInv'
  BY <1>4 DEF LeaveSet, LeavePrintf
<1>5. ASSUME NEW t \in Threads,
             \/ Install(t) \/ NothingToLog(t) \/ ClearBuffer(t) \/ Format(t)
             \/ Deliver(t) \/ OnLogReturns(t)
      PROVE  MutexInv'
  BY <1>5 DEF Install, NothingToLog, ClearBuffer, Format, Deliver, OnLogReturns
<1> QED
  BY <1>1, <1>2, <1>3, <1>4, <1>5 DEF Next, Step

\* A step keeps the ways of the listeners and of the buffer.
LEMMA ListenerStep == LogInv /\ [Next]_vars => ListenerInv'
<1> SUFFICES ASSUME LogInv, [Next]_vars PROVE ListenerInv'
  OBVIOUS
<1> USE LogAssumption DEF LogInv, LogTypeOK, ListenerInv, Goto, LogPCs, Setting
<1>1. CASE UNCHANGED vars
  BY <1>1 DEF vars, hostVars
<1>2. ASSUME NEW t \in Threads, CallSet(t) PROVE ListenerInv'
  BY <1>2 DEF CallSet
<1>3. ASSUME NEW t \in Threads, CallPrintf(t) PROVE ListenerInv'
  BY <1>3 DEF CallPrintf, hostVars
<1>4. ASSUME NEW t \in Threads, EnterSet(t) \/ EnterPrintf(t) PROVE ListenerInv'
  BY <1>4 DEF EnterSet, EnterPrintf, hostVars
<1>5. ASSUME NEW t \in Threads, Install(t) PROVE ListenerInv'
  <2>1. \A u \in Threads : u # t => pc[u] \notin Inside
    BY <1>5 DEF Install, MutexInv, Inside
  <2> QED
    BY <1>5, <2>1 DEF Install, hostVars, Inside
<1>6. ASSUME NEW t \in Threads, LeaveSet(t) PROVE ListenerInv'
  BY <1>6 DEF LeaveSet
<1>7. ASSUME NEW t \in Threads, ClearBuffer(t) \/ Format(t) PROVE ListenerInv'
  <2>1. \A u \in Threads : u # t => pc[u] \notin Inside
    BY <1>7 DEF ClearBuffer, Format, MutexInv, Inside
  <2> QED
    BY <1>7, <2>1 DEF ClearBuffer, Format, hostVars, Inside
<1>8. ASSUME NEW t \in Threads,
             NothingToLog(t) \/ Deliver(t) \/ OnLogReturns(t) \/ LeavePrintf(t)
      PROVE  ListenerInv'
  BY <1>8 DEF NothingToLog, Deliver, OnLogReturns, LeavePrintf, hostVars
<1> QED
  BY <1>1, <1>2, <1>3, <1>4, <1>5, <1>6, <1>7, <1>8 DEF Next, Call, Step

\* The invariant holds in every reachable state.
LEMMA LogInvAlways == Spec => []LogInv
<1>1. LogInv /\ [Next]_vars => LogInv'
  BY LogTypeStep, MutexStep, ListenerStep DEF LogInv
<1> QED
  BY LogInvInit, <1>1, PTL DEF Spec

\* Type correctness of the log state.
THEOREM LogTypeCorrect == Spec => []LogTypeOK
<1>1. LogInv => LogTypeOK
  BY DEF LogInv
<1> QED
  BY LogInvAlways, <1>1, PTL

\* A listener that setLogCallback has replaced is never called again.
THEOREM ReplacedListenersAreQuiet == Spec => []ReplacedListenerIsQuiet
<1>1. LogInv => ReplacedListenerIsQuiet
  BY DEF LogInv, ListenerInv, ReplacedListenerIsQuiet
<1> QED
  BY LogInvAlways, <1>1, PTL

\* The shared buffer never mixes the texts of two threads.
THEOREM LogsAreOwn == Spec => []LogIsOwn
<1>1. LogInv => LogIsOwn
  BY DEF LogInv, ListenerInv, LogIsOwn
<1> QED
  BY LogInvAlways, <1>1, PTL

----------------------------------------------------------------------------
\* The logger, refined.  The abstract state of the threads.
Phases == [t \in Threads |-> PhaseOf(t)]
Heard  == [t \in Threads |-> Told(t)]

\* While a thread is between the brackets of the mutex, no other is in onLog.
LEMMA OthersAreOutside ==
  ASSUME LogInv, NEW t \in Threads, pc[t] \in Inside,
         NEW u \in Threads, u # t
  PROVE  pc[u] # "onLog"
BY DEF LogInv, MutexInv, Inside

\* So nobody hears anything when that thread is not in onLog itself.
LEMMA HolderHearsQuiet ==
  ASSUME LogInv, NEW t \in Threads, pc[t] \in Inside, pc[t] # "onLog"
  PROVE  Logger!Quiet
<1>1. \A u \in Threads : pc[u] # "onLog"
  BY OthersAreOutside
<1> QED
  BY <1>1 DEF Logger!Quiet, Logger!Silence, Told

\* A step in which a thread stays outside onLog leaves all that is heard.
LEMMA HearingStays ==
  ASSUME LogInv, NEW t \in Threads, pc[t] # "onLog", pc'[t] # "onLog",
         \A u \in Threads : u # t => pc'[u] = pc[u],
         calling' = calling, buffer' = buffer \/ pc[t] \in Inside
  PROVE  Heard' = Heard
<1>1. ASSUME NEW u \in Threads PROVE Told(u)' = Told(u)
  <2>1. CASE u = t
    BY <2>1 DEF Told
  <2>2. CASE u # t
    BY <2>2, OthersAreOutside DEF Told
  <2> QED
    BY <2>1, <2>2
<1> QED
  BY <1>1 DEF Heard

\* A step from one place to another changes the phase of that thread alone.
LEMMA PhaseMoves ==
  ASSUME LogTypeOK, NEW t \in Threads, NEW from, NEW to, Goto(t, from, to)
  PROVE  /\ pc[t] = from /\ pc'[t] = to
         /\ \A u \in Threads : u # t => pc'[u] = pc[u]
         /\ Phases' = [Phases EXCEPT ![t] = PhaseOf(t)']
         /\ Phases[t] = PhaseOf(t)
<1>1. /\ pc[t] = from /\ pc'[t] = to
      /\ \A u \in Threads : u # t => pc'[u] = pc[u]
  BY DEF Goto, LogTypeOK
<1>2. \A u \in Threads : u # t => PhaseOf(u)' = PhaseOf(u)
  BY <1>1 DEF PhaseOf
<1> QED
  BY <1>1, <1>2 DEF Phases

\* Those of its steps that a caller does not see.
LEMMA LoggerStutters ==
  ASSUME LogInv, NEW t \in Threads,
         EnterSet(t) \/ EnterPrintf(t) \/ Format(t)
  PROVE  UNCHANGED Logger!ovars
<1>0. LogTypeOK /\ ListenerInv
  BY DEF LogInv
<1>1. PICK from, to : /\ Goto(t, from, to)
                      /\ <<from, to>> \in {<<"setWait", "set">>, <<"printWait", "print">>,
                                           <<"format", "deliver">>}
  BY DEF EnterSet, EnterPrintf, Format
<1>2. /\ pc[t] = from /\ pc'[t] = to
      /\ \A u \in Threads : u # t => pc'[u] = pc[u]
      /\ Phases' = [Phases EXCEPT ![t] = PhaseOf(t)'] /\ Phases[t] = PhaseOf(t)
  BY <1>0, <1>1, PhaseMoves
<1>3. PhaseOf(t)' = PhaseOf(t) /\ pc[t] # "onLog" /\ pc'[t] # "onLog"
  BY <1>1, <1>2 DEF PhaseOf
<1>4. Phases' = Phases
  BY <1>2, <1>3 DEF Phases
<1>5. buffer' = buffer
  BY <1>0 DEF EnterSet, EnterPrintf, Format, Goto, ListenerInv
<1>6. UNCHANGED <<arg, listener, calling>>
  BY DEF EnterSet, EnterPrintf, Format
<1>7. Heard' = Heard
  BY <1>2, <1>3, <1>5, <1>6, HearingStays
<1> QED
  BY <1>4, <1>5, <1>6, <1>7 DEF Logger!ovars, Phases, Heard

\* A thread asks, sets its listener, and returns.
LEMMA LoggerSets ==
  ASSUME LogInv, NEW t \in Threads,
         CallSet(t) \/ CallPrintf(t) \/ Install(t) \/ LeaveSet(t) \/ LeavePrintf(t)
  PROVE  [Logger!ONext]_(Logger!ovars)
<1>0. LogTypeOK
  BY DEF LogInv
<1> USE DEF Logger!ONext, Logger!Turn, PhaseOf, hostVars
<1>1. CASE CallSet(t)
  <2>1. /\ pc[t] = "idle" /\ pc'[t] = "setWait" /\ Phases[t] = "idle"
        /\ \A u \in Threads : u # t => pc'[u] = pc[u]
        /\ Phases' = [Phases EXCEPT ![t] = "setting"]
    BY <1>0, <1>1, PhaseMoves DEF CallSet
  <2>2. Heard' = Heard
    BY <1>1, <2>1, HearingStays DEF CallSet
  <2>3. /\ \E l \in Listeners \cup {NULL} : arg' = [arg EXCEPT ![t] = l]
        /\ UNCHANGED <<listener, buffer>>
    BY <1>1 DEF CallSet
  <2>4. Logger!AskSet(t)
    BY <2>1, <2>2, <2>3 DEF Logger!AskSet, Phases, Heard
  <2> QED
    BY <2>4
<1>2. CASE CallPrintf(t)
  <2>1. /\ pc[t] = "idle" /\ pc'[t] = "printWait" /\ Phases[t] = "idle"
        /\ \A u \in Threads : u # t => pc'[u] = pc[u]
        /\ Phases' = [Phases EXCEPT ![t] = "logging"]
    BY <1>0, <1>2, PhaseMoves DEF CallPrintf
  <2>2. Heard' = Heard
    BY <1>2, <2>1, HearingStays DEF CallPrintf
  <2>3. Logger!AskLog(t)
    BY <1>2, <2>1, <2>2 DEF CallPrintf, Logger!AskLog, Phases, Heard
  <2> QED
    BY <2>3
<1>3. CASE Install(t)
  <2>1. /\ pc[t] = "set" /\ pc'[t] = "setExit" /\ Phases[t] = "setting"
        /\ \A u \in Threads : u # t => pc'[u] = pc[u]
        /\ Phases' = [Phases EXCEPT ![t] = "done"]
    BY <1>0, <1>3, PhaseMoves DEF Install
  <2>2. Heard' = Heard
    BY <1>3, <2>1, HearingStays DEF Install
  <2>3. Logger!Quiet
    BY <2>1, HolderHearsQuiet DEF Inside
  <2>4. Logger!Replace(t)
    BY <1>3, <2>1, <2>2, <2>3 DEF Install, Logger!Replace, Phases, Heard
  <2> QED
    BY <2>4
<1>4. CASE LeaveSet(t) \/ LeavePrintf(t)
  <2>1. /\ pc[t] \in {"setExit", "exit"} /\ pc'[t] = "idle" /\ Phases[t] = "done"
        /\ \A u \in Threads : u # t => pc'[u] = pc[u]
        /\ Phases' = [Phases EXCEPT ![t] = "idle"]
    BY <1>0, <1>4, PhaseMoves DEF LeaveSet, LeavePrintf
  <2>2. Heard' = Heard
    BY <1>4, <2>1, HearingStays DEF LeaveSet, LeavePrintf
  <2>3. Logger!Return(t)
    BY <1>4, <2>1, <2>2 DEF LeaveSet, LeavePrintf, Logger!Return, Phases, Heard
  <2> QED
    BY <2>3
<1> QED
  BY <1>1, <1>2, <1>3, <1>4

\* A thread logs.
LEMMA LoggerLogs ==
  ASSUME LogInv, NEW t \in Threads,
         NothingToLog(t) \/ ClearBuffer(t) \/ Deliver(t) \/ OnLogReturns(t)
  PROVE  [Logger!ONext]_(Logger!ovars)
<1>0. LogTypeOK /\ ListenerInv
  BY DEF LogInv
<1> USE DEF Logger!ONext, Logger!Turn, PhaseOf, hostVars
<1>1. CASE NothingToLog(t)
  <2>1. /\ pc[t] = "print" /\ pc'[t] = "exit" /\ Phases[t] = "logging"
        /\ \A u \in Threads : u # t => pc'[u] = pc[u]
        /\ Phases' = [Phases EXCEPT ![t] = "done"]
    BY <1>0, <1>1, PhaseMoves DEF NothingToLog
  <2>2. Heard' = Heard
    BY <1>1, <2>1, HearingStays DEF NothingToLog
  <2>3. Logger!Quiet
    BY <2>1, HolderHearsQuiet DEF Inside
  <2>4. Logger!Drop(t)
    BY <1>1, <2>1, <2>2, <2>3 DEF NothingToLog, Logger!Drop, Phases, Heard
  <2> QED
    BY <2>4
<1>2. CASE ClearBuffer(t)
  <2>1. /\ pc[t] = "print" /\ pc'[t] = "format" /\ Phases[t] = "logging"
        /\ \A u \in Threads : u # t => pc'[u] = pc[u]
        /\ Phases' = [Phases EXCEPT ![t] = "logging"]
    BY <1>0, <1>2, PhaseMoves DEF ClearBuffer
  <2>2. Heard' = Heard
    BY <1>2, <2>1, HearingStays DEF ClearBuffer, Inside
  <2>3. Phases' = Phases
    BY <2>1 DEF Phases
  <2>4. buffer' # NoThread
    BY <1>2, LogAssumption DEF ClearBuffer
  <2>5. Logger!MakeRoom(t)
    BY <1>2, <2>1, <2>2, <2>3, <2>4 DEF ClearBuffer, Logger!MakeRoom, Phases, Heard
  <2> QED
    BY <2>5
<1>3. CASE Deliver(t)
  <2>1. /\ pc[t] = "deliver" /\ pc'[t] = "onLog" /\ Phases[t] = "logging"
        /\ \A u \in Threads : u # t => pc'[u] = pc[u]
        /\ Phases' = [Phases EXCEPT ![t] = "talking"]
    BY <1>0, <1>3, PhaseMoves DEF Deliver
  <2>2. /\ buffer' = buffer /\ buffer = t /\ listener # NULL
        /\ calling' = [calling EXCEPT ![t] = listener]
    BY <1>0, <1>3, <2>1 DEF Deliver, ListenerInv
  <2>3. Told(t)' = [to |-> listener, text |-> t]
    BY <1>0, <2>1, <2>2 DEF Told, LogTypeOK
  <2>4. \A u \in Threads : u # t => Told(u)' = Told(u)
    BY <1>0, <2>1, <2>2 DEF Told, LogTypeOK
  <2>5. Heard' = [Heard EXCEPT ![t] = [to |-> listener, text |-> t]]
    BY <2>3, <2>4 DEF Heard
  <2>6. Logger!Quiet
    BY <2>1, HolderHearsQuiet DEF Inside
  <2>7. Logger!Say(t)
    BY <1>3, <2>1, <2>2, <2>5, <2>6 DEF Deliver, Logger!Say, Phases, Heard
  <2> QED
    BY <2>7
<1>4. CASE OnLogReturns(t)
  <2>1. /\ pc[t] = "onLog" /\ pc'[t] = "exit" /\ Phases[t] = "talking"
        /\ \A u \in Threads : u # t => pc'[u] = pc[u]
        /\ Phases' = [Phases EXCEPT ![t] = "done"]
    BY <1>0, <1>4, PhaseMoves DEF OnLogReturns
  <2>2. \A u \in Threads : u # t => pc[u] # "onLog"
    BY <2>1, OthersAreOutside DEF Inside
  <2>3. Heard' = [Heard EXCEPT ![t] = Logger!Silence]
    BY <2>1, <2>2 DEF Heard, Told, Logger!Silence
  <2>4. Logger!Hush(t)
    BY <1>4, <2>1, <2>3 DEF OnLogReturns, Logger!Hush, Phases, Heard
  <2> QED
    BY <2>4
<1> QED
  BY <1>1, <1>2, <1>3, <1>4

\* Setting a listener and logging a text are atomic, as LogDelivery has them.
THEOREM LoggerIsImplemented == Spec => LogsAreAtomic
<1>1. Init => Logger!OInit
  BY LogAssumption DEF Init, Logger!OInit, Logger!Silence, PhaseOf, Told
<1>2. LogInv /\ [Next]_vars => [Logger!ONext]_(Logger!ovars)
  <2>1. UNCHANGED vars => UNCHANGED Logger!ovars
    BY DEF vars, Logger!ovars, PhaseOf, Told
  <2> QED
    BY <2>1, LoggerStutters, LoggerSets, LoggerLogs DEF Next, Call, Step
<1> QED
  BY <1>1, <1>2, LogInvAlways, PTL DEF Spec, LogsAreAtomic, Logger!OSpec
=============================================================================
