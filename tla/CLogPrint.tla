------------------------------ MODULE CLogPrint ------------------------------
(***************************************************************************)
(* The log listener of the host: threads log through printf while others   *)
(* replace the listener.  Both run under m_mtxCallback, and onLog is called *)
(* with it held.  The host makes a new object for every setLogCallback and *)
(* may destroy those that were in place before a call that has returned.   *)
(***************************************************************************)
EXTENDS Naturals, FiniteSets

CONSTANTS
  Threads,
  NoThread,     \* the holder of a free mutex, the writer of no buffer
  Listeners,    \* the ILogListener objects of the host
  NULL,         \* no listener
  MaxCalls      \* bound: calls per thread

ASSUME LogAssumption == /\ NoThread \notin Threads /\ NULL \notin Listeners
                        /\ MaxCalls \in Nat

Setting  == {"setWait", "set", "setExit"}
Inside   == {"set", "setExit", "print", "format", "deliver", "onLog", "exit"}
LogPCs   == Setting \cup Inside \cup {"idle", "printWait"}

VARIABLES
  mutex,      \* m_mtxCallback
  listener,   \* m_pLogListener
  buffer,     \* the thread whose text m_pLogBuffer has; NoThread: not allocated
  pc,
  arg,        \* the listener a thread is about to set
  prior,      \* the listeners that were set when its call began
  calling,    \* the listener whose onLog a thread runs
  handed,     \* the listeners that were ever passed in
  returned,   \* those whose setLogCallback has returned
  retired,    \* those the host may have destroyed
  calls       \* calls a thread may still make

hostVars == <<handed, returned, retired>>
vars == <<mutex, listener, buffer, pc, arg, prior, calling, hostVars, calls>>

LogTypeOK ==
  /\ mutex \in Threads \cup {NoThread} /\ buffer \in Threads \cup {NoThread}
  /\ listener \in Listeners \cup {NULL}
  /\ pc \in [Threads -> LogPCs]
  /\ arg \in [Threads -> Listeners \cup {NULL}]
  /\ calling \in [Threads -> Listeners \cup {NULL}]
  /\ prior \in [Threads -> SUBSET Listeners]
  /\ handed \subseteq Listeners /\ returned \subseteq Listeners
  /\ retired \subseteq Listeners
  /\ calls \in [Threads -> 0..MaxCalls]

Init ==
  /\ mutex = NoThread /\ listener = NULL /\ buffer = NoThread
  /\ pc = [t \in Threads |-> "idle"]
  /\ arg = [t \in Threads |-> NULL] /\ calling = [t \in Threads |-> NULL]
  /\ prior = [t \in Threads |-> {}]
  /\ handed = {} /\ returned = {} /\ retired = {}
  /\ calls = [t \in Threads |-> MaxCalls]

Goto(t, from, to) == pc[t] = from /\ pc' = [pc EXCEPT ![t] = to]
Spend(t) == calls[t] > 0 /\ calls' = [calls EXCEPT ![t] = @ - 1]
Enter(t) == mutex = NoThread /\ mutex' = t

----------------------------------------------------------------------------
\* LIBHTTPSetLogListener with a new listener, or with NULL to stop logging.
CallSet(t) ==
  /\ Goto(t, "idle", "setWait")
  /\ Spend(t)
  /\ \E l \in (Listeners \ handed) \cup {NULL} :
       /\ arg' = [arg EXCEPT ![t] = l]
       /\ handed' = handed \cup ({l} \ {NULL})
  /\ prior' = [prior EXCEPT ![t] = returned]
  /\ UNCHANGED <<mutex, listener, buffer, calling, returned, retired>>

\* Mutant: setLogCallback does not wait for the mutex.
EnterSetUnlocked(t) ==
  /\ Goto(t, "setWait", "set")
  /\ UNCHANGED <<mutex, listener, buffer, arg, prior, calling, hostVars, calls>>

EnterSet(t) ==
  /\ Goto(t, "setWait", "set")
  /\ Enter(t)
  /\ UNCHANGED <<listener, buffer, arg, prior, calling, hostVars, calls>>

Install(t) ==
  /\ Goto(t, "set", "setExit")
  /\ listener' = arg[t]
  /\ UNCHANGED <<mutex, buffer, arg, prior, calling, hostVars, calls>>

\* The call returns, and with it what was set before it is the host's again.
LeaveSet(t) ==
  /\ Goto(t, "setExit", "idle")
  /\ mutex' = NoThread
  /\ returned' = returned \cup ({arg[t]} \ {NULL})
  /\ retired' = retired \cup prior[t]
  /\ UNCHANGED <<listener, buffer, arg, prior, calling, handed, calls>>

----------------------------------------------------------------------------
\* LOGD, LOGW or LOGE somewhere in the library.
CallPrintf(t) ==
  /\ Goto(t, "idle", "printWait")
  /\ Spend(t)
  /\ UNCHANGED <<mutex, listener, buffer, arg, prior, calling, hostVars>>

\* Mutant: printf reads the listener and fills the buffer without the mutex.
EnterPrintfUnlocked(t) ==
  /\ Goto(t, "printWait", "print")
  /\ UNCHANGED <<mutex, listener, buffer, arg, prior, calling, hostVars, calls>>

EnterPrintf(t) ==
  /\ Goto(t, "printWait", "print")
  /\ Enter(t)
  /\ UNCHANGED <<listener, buffer, arg, prior, calling, hostVars, calls>>

\* Mutant: the early return leaves the mutex locked.
NothingToLogLeaks(t) ==
  /\ Goto(t, "print", "idle")
  /\ listener = NULL \/ buffer = NoThread
  /\ UNCHANGED <<mutex, listener, buffer, arg, prior, calling, hostVars, calls>>

\* No listener, or the buffer is not there yet and cannot be allocated.
NothingToLog(t) ==
  /\ Goto(t, "print", "exit")
  /\ listener = NULL \/ buffer = NoThread
  /\ UNCHANGED <<mutex, listener, buffer, arg, prior, calling, hostVars, calls>>

\* The one buffer is cleared; header and text are written in further steps.
ClearBuffer(t) ==
  /\ Goto(t, "print", "format")
  /\ listener # NULL
  /\ buffer' = t
  /\ UNCHANGED <<mutex, listener, arg, prior, calling, hostVars, calls>>

Format(t) ==
  /\ Goto(t, "format", "deliver")
  /\ buffer' = t
  /\ UNCHANGED <<mutex, listener, arg, prior, calling, hostVars, calls>>

\* The listener is read a second time and its onLog starts.
Deliver(t) ==
  /\ Goto(t, "deliver", "onLog")
  /\ calling' = [calling EXCEPT ![t] = listener]
  /\ UNCHANGED <<mutex, listener, buffer, arg, prior, hostVars, calls>>

OnLogReturns(t) ==
  /\ Goto(t, "onLog", "exit")
  /\ calling' = [calling EXCEPT ![t] = NULL]
  /\ UNCHANGED <<mutex, listener, buffer, arg, prior, hostVars, calls>>

LeavePrintf(t) ==
  /\ Goto(t, "exit", "idle")
  /\ mutex' = NoThread
  /\ UNCHANGED <<listener, buffer, arg, prior, calling, hostVars, calls>>

Call(t) == CallSet(t) \/ CallPrintf(t)
Step(t) == \/ EnterSet(t) \/ Install(t) \/ LeaveSet(t)
           \/ EnterPrintf(t) \/ NothingToLog(t) \/ ClearBuffer(t) \/ Format(t)
           \/ Deliver(t) \/ OnLogReturns(t) \/ LeavePrintf(t)

Next == \E t \in Threads : Call(t) \/ Step(t)
Spec == Init /\ [][Next]_vars

\* A thread in the library runs on, and the onLog of the host returns.
FairSpec == Spec /\ \A t \in Threads : WF_vars(Step(t))

----------------------------------------------------------------------------
\* Once setLogCallback has returned, no onLog of a listener that was in place
\* before the call is running or will run: the host may destroy it.
ReplacedListenerIsQuiet ==
  \A t \in Threads :
    pc[t] = "onLog" => calling[t] # NULL /\ calling[t] \notin retired

\* The text that onLog is given is that of the thread that logs, though all
\* threads write the same buffer.
LogIsOwn == \A t \in Threads : pc[t] = "onLog" => buffer = t

\* How far the call of a thread is, and what the onLog it runs is told.
PhaseOf(t) ==
  CASE pc[t] = "idle"                                     -> "idle"
    [] pc[t] \in {"setWait", "set"}                       -> "setting"
    [] pc[t] \in {"printWait", "print", "format", "deliver"} -> "logging"
    [] pc[t] = "onLog"                                    -> "talking"
    [] pc[t] \in {"setExit", "exit"}                      -> "done"

Told(t) == IF pc[t] = "onLog" THEN [to |-> calling[t], text |-> buffer]
                              ELSE [to |-> NULL, text |-> NULL]

Logger == INSTANCE LogDelivery
  WITH phase   <- [t \in Threads |-> PhaseOf(t)],
       heard   <- [t \in Threads |-> Told(t)],
       wanted  <- arg,
       current <- listener,
       ready   <- buffer # NoThread

\* However threads that log race with threads that replace the listener, every
\* call takes effect at one moment: a text reaches whole the one listener that
\* is set when its onLog starts, though printf reads the pointer twice and all
\* threads write one buffer.
LogsAreAtomic == Logger!OSpec

\* Logging and setting a listener return, on the early returns too.
LogCallsReturn == \A t \in Threads : pc[t] # "idle" ~> pc[t] = "idle"
=============================================================================
