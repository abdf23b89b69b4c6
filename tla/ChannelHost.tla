---------------------------- MODULE ChannelHost ----------------------------
(***************************************************************************)
(* How CChannelServerMgr comes to the host it talks to.  The configuration *)
(* is two address and port pairs; reDetectServerHost probes and makes one  *)
(* of them the channel, address first, port second.  LIBHTTPSetChannelInfo *)
(* and LIBHTTPGetAuthLocalIp get there without g_RequestMutex, and         *)
(* getUrlHead reads the pair for downloads and uploads without any mutex.  *)
(*                                                                         *)
(* A field of the configuration is the number of the SetChannelInfo call   *)
(* that wrote it, 0 when it is empty.                                      *)
(***************************************************************************)
EXTENDS Integers

CONSTANTS
  Threads,
  NoThread,
  Families,   \* the sets of families a configuration may name
  Proxies,    \* the proxies LIBHTTPSetProxy may set: "none", "v4" or "v6"
  MaxCalls    \* bound: calls per thread

ASSUME HostAssumption == /\ NoThread \notin Threads /\ MaxCalls \in Nat
                         /\ Families \subseteq SUBSET {"v4", "v6"}
                         /\ Proxies \subseteq {"none", "v4", "v6"}

Calls    == {"SetChannelInfo", "ReDetectChannelIp", "GetAuthLocalIp", "UrlHead"}
Unlocked == {"SetChannelInfo", "GetAuthLocalIp"}
Fields   == {"ip4", "port4", "ip6", "port6"}
Setters  == <<"ip4", "port4", "ip6", "port6">>

Writing == {"set", "detect", "proxy", "probe", "ip", "port"}
PCs     == Writing \cup {"idle", "requestWait", "authWait", "auth", "authExit",
                         "exit", "headIp", "headPort", "formatIp",
                         "formatPort", "head"}

VARIABLES
  host,        \* m_strHostIpv4, m_nHostPortv4, m_strHostIpv6, m_nHostPortv6
  chIp,        \* m_strChannelIp
  chPort,      \* m_nChannelPort
  proxy,       \* the family of the proxy, or "none"
  configs,     \* SetChannelInfo calls so far
  lock,        \* g_RequestMutex and m_rwAuthirizeMutex
  pc, call,
  new,         \* the families the thread's SetChannelInfo names, its number
  field,       \* the next field it writes
  target,      \* what detectIpPort probes: "proxy", "v4" or "v6"
  choice,      \* the family the detection has chosen, or that of the proxy
  url,         \* the pair getUrlHead has read
  disturbed,   \* the channel was rewritten while getUrlHead read it
  overlapped,  \* another detection ran during the one the thread is in
  raced,       \* such a detection was the last to set the channel
  calls

hostVars   == <<host, chIp, chPort, proxy, configs>>
detectVars == <<new, field, target, choice>>
headVars   == <<url, disturbed>>
ghostVars  == <<overlapped, raced>>
vars == <<hostVars, lock, pc, call, detectVars, headVars, ghostVars, calls>>

Empty    == [of |-> "none", n |-> 0]
NoUrl    == [ip |-> Empty, port |-> Empty]
NoConfig == [of |-> {}, n |-> 0]

\* What reDetectServerHost stores for a family: "[" + ip6 + "]" is not empty
\* even when ip6 is.
IpOf(f)   == IF f = "v4"
             THEN IF host["ip4"] = 0 THEN Empty ELSE [of |-> "v4", n |-> host["ip4"]]
             ELSE [of |-> "v6", n |-> host["ip6"]]
PortOf(f) == LET n == IF f = "v4" THEN host["port4"] ELSE host["port6"]
             IN  IF n = 0 THEN Empty ELSE [of |-> f, n |-> n]

Has4 == host["ip4"] # 0 /\ host["port4"] # 0
Has6 == host["ip6"] # 0 /\ host["port6"] # 0

Ends == [of : {"none", "v4", "v6"}, n : Nat]

HostTypeOK ==
  /\ host \in [Fields -> Nat] /\ chIp \in Ends /\ chPort \in Ends
  /\ proxy \in {"none", "v4", "v6"} /\ configs \in Nat
  /\ lock \in [{"request", "auth"} -> Threads \cup {NoThread}]
  /\ pc \in [Threads -> PCs] /\ call \in [Threads -> Calls]
  /\ new \in [Threads -> [of : SUBSET {"v4", "v6"}, n : Nat]]
  /\ field \in [Threads -> 1..4]
  /\ target \in [Threads -> {"proxy", "v4", "v6"}]
  /\ choice \in [Threads -> {"v4", "v6"}]
  /\ url \in [Threads -> [ip : Ends, port : Ends]]
  /\ disturbed \in [Threads -> BOOLEAN]
  /\ overlapped \in [Threads -> BOOLEAN] /\ raced \in BOOLEAN
  /\ calls \in [Threads -> 0..MaxCalls]

Init ==
  /\ host = [f \in Fields |-> 0] /\ chIp = Empty /\ chPort = Empty
  /\ proxy = "none" /\ configs = 0
  /\ lock = [l \in {"request", "auth"} |-> NoThread]
  /\ pc = [t \in Threads |-> "idle"]
  /\ call = [t \in Threads |-> "UrlHead"]
  /\ new = [t \in Threads |-> NoConfig]
  /\ field = [t \in Threads |-> 1]
  /\ target = [t \in Threads |-> "proxy"]
  /\ choice = [t \in Threads |-> "v4"]
  /\ url = [t \in Threads |-> NoUrl]
  /\ disturbed = [t \in Threads |-> FALSE]
  /\ overlapped = [t \in Threads |-> FALSE] /\ raced = FALSE
  /\ calls = [t \in Threads |-> MaxCalls]

----------------------------------------------------------------------------
Goto(t, from, to) == pc[t] = from /\ pc' = [pc EXCEPT ![t] = to]
Acquire(t, l) == lock[l] = NoThread /\ lock' = [lock EXCEPT ![l] = t]
Overlap(t) == \E u \in Threads \ {t} : pc[u] \in Writing
EnterDetection(t) ==
  /\ overlapped' = [u \in Threads |-> IF u = t THEN Overlap(t) ELSE pc[u] \in Writing]
  /\ UNCHANGED raced
LeaveDetection(t) == overlapped' = [overlapped EXCEPT ![t] = FALSE]
Call(t, c) == /\ calls[t] > 0 /\ calls' = [calls EXCEPT ![t] = @ - 1]
              /\ call' = [call EXCEPT ![t] = c]

----------------------------------------------------------------------------
(* The calls.                                                              *)

SetChannelInfo(t) ==
  /\ Call(t, "SetChannelInfo")
  /\ Goto(t, "idle", "set")
  /\ configs' = configs + 1
  /\ \E fs \in Families : new' = [new EXCEPT ![t] = [of |-> fs, n |-> configs + 1]]
  /\ field' = [field EXCEPT ![t] = 1]
  /\ EnterDetection(t)
  /\ UNCHANGED <<host, chIp, chPort, proxy, lock, target, choice, headVars>>

\* setChannelHTTPHostInfo assigns one field after the other.
SetField(t) ==
  LET f == Setters[field[t]]
      mine == new[t].of \cap (IF f \in {"ip4", "port4"} THEN {"v4"} ELSE {"v6"})
  IN /\ Goto(t, "set", IF field[t] = 4 THEN "detect" ELSE "set")
     /\ host' = [host EXCEPT ![f] = IF mine = {} THEN 0 ELSE new[t].n]
     /\ field' = [field EXCEPT ![t] = IF @ = 4 THEN 1 ELSE @ + 1]
     /\ new' = [new EXCEPT ![t] = IF field[t] = 4 THEN NoConfig ELSE @]
     /\ UNCHANGED <<chIp, chPort, proxy, configs, lock, call, target, choice,
                    headVars, ghostVars, calls>>

ReDetectChannelIp(t) ==
  /\ Call(t, "ReDetectChannelIp")
  /\ Goto(t, "idle", "requestWait")
  /\ UNCHANGED <<hostVars, lock, detectVars, headVars, ghostVars>>

\* Mutant: the call does not take g_RequestMutex.
LockRequestMissing(t) ==
  /\ Goto(t, "requestWait", "detect")
  /\ EnterDetection(t)
  /\ UNCHANGED <<hostVars, lock, call, detectVars, headVars, calls>>

LockRequest(t) ==
  /\ Goto(t, "requestWait", "detect")
  /\ Acquire(t, "request")
  /\ EnterDetection(t)
  /\ UNCHANGED <<hostVars, call, detectVars, headVars, calls>>

GetAuthLocalIp(t) ==
  /\ Call(t, "GetAuthLocalIp")
  /\ Goto(t, "idle", "authWait")
  /\ UNCHANGED <<hostVars, lock, detectVars, headVars, ghostVars>>

\* httpRequestAuthirize detects once more when there is no channel.
LockAuth(t) ==
  /\ Goto(t, "authWait", "auth")
  /\ Acquire(t, "auth")
  /\ UNCHANGED <<hostVars, call, detectVars, headVars, ghostVars, calls>>

NeedsHost(t) ==
  /\ chIp = Empty \/ chPort = Empty
  /\ Goto(t, "auth", "detect")
  /\ EnterDetection(t)
  /\ UNCHANGED <<hostVars, lock, call, detectVars, headVars, calls>>

HasHost(t) ==
  /\ chIp # Empty /\ chPort # Empty
  /\ Goto(t, "auth", "authExit")
  /\ UNCHANGED <<hostVars, lock, call, detectVars, headVars, ghostVars, calls>>

\* Where reDetectServerHost returns to: SetChannelInfo ends there, a thread
\* inside httpRequestAuthirize goes on, a locked call enters it.
Return(t) == IF lock["auth"] = t THEN "authExit"
             ELSE IF call[t] = "SetChannelInfo" THEN "idle" ELSE "authWait"

UnlockAuth(t) ==
  /\ Goto(t, "authExit", "exit")
  /\ lock' = [lock EXCEPT !["auth"] = NoThread]
  /\ UNCHANGED <<hostVars, call, detectVars, headVars, ghostVars, calls>>

UnlockRequest(t) ==
  /\ Goto(t, "exit", "idle")
  /\ lock' = [lock EXCEPT !["request"] = IF @ = t THEN NoThread ELSE @]
  /\ UNCHANGED <<hostVars, call, detectVars, headVars, ghostVars, calls>>

SetProxy ==
  /\ proxy' \in Proxies
  /\ UNCHANGED <<host, chIp, chPort, configs, lock, pc, call, detectVars, headVars,
                 ghostVars, calls>>

----------------------------------------------------------------------------
(* reDetectServerHost.                                                     *)

NothingConfigured(t) ==
  /\ ~Has4 /\ ~Has6
  /\ Goto(t, "detect", Return(t))
  /\ LeaveDetection(t)
  /\ UNCHANGED <<hostVars, lock, call, detectVars, headVars, raced, calls>>

HostsGiven(t) ==
  /\ Has4 \/ Has6
  /\ Goto(t, "detect", "proxy")
  /\ UNCHANGED <<hostVars, lock, call, detectVars, headVars, ghostVars, calls>>

Choose(t, from, f) == Goto(t, from, "ip") /\ choice' = [choice EXCEPT ![t] = f]
ProbeNext(t, from, what) == Goto(t, from, "probe") /\ target' = [target EXCEPT ![t] = what]

\* m_strProxyIp and m_iProxyPort are copied.
TryProxy(t) ==
  /\ proxy # "none"
  /\ ProbeNext(t, "proxy", "proxy")
  /\ choice' = [choice EXCEPT ![t] = proxy]
  /\ UNCHANGED <<hostVars, lock, call, new, field, headVars, ghostVars, calls>>

\* Without an IPv6 host the IPv4 one is taken unprobed, else it is probed first.
WithoutProxy(t, from) ==
  \/ /\ ~Has6
     /\ Choose(t, from, "v4")
     /\ UNCHANGED target
  \/ /\ Has6
     /\ ProbeNext(t, from, "v4")
     /\ UNCHANGED choice

SkipProxy(t) ==
  /\ proxy = "none"
  /\ WithoutProxy(t, "proxy")
  /\ UNCHANGED <<hostVars, lock, call, new, field, headVars, ghostVars, calls>>

\* detectIpPort returns ERROR_SUCCESS; nothing answers on port 0.
Reached(t) ==
  /\ CASE target[t] = "v4" -> host["port4"] # 0
       [] target[t] = "v6" -> host["port6"] # 0
       [] OTHER -> TRUE
  /\ Choose(t, "probe", IF target[t] = "proxy" THEN choice[t] ELSE target[t])
  /\ UNCHANGED <<hostVars, lock, call, new, field, target, headVars, ghostVars, calls>>

\* detectIpPort returns an error: the next candidate, at last IPv4 unprobed.
Unreached(t) ==
  /\ pc[t] = "probe"
  /\ CASE target[t] = "proxy" -> WithoutProxy(t, "probe")
       [] target[t] = "v4" -> ProbeNext(t, "probe", "v6") /\ UNCHANGED choice
       [] OTHER -> Choose(t, "probe", "v4") /\ UNCHANGED target
  /\ UNCHANGED <<hostVars, lock, call, new, field, headVars, ghostVars, calls>>

Reading == {"headPort", "formatIp", "formatPort", "head"}
Disturb == disturbed' = [u \in Threads |-> disturbed[u] \/ pc[u] \in Reading]

\* Mutant: after a switch to IPv4 the address stays.
WriteIpStays(t) ==
  /\ Goto(t, "ip", "port")
  /\ chIp' = IF choice[t] = "v4" /\ chIp # Empty THEN chIp ELSE IpOf(choice[t])
  /\ Disturb
  /\ UNCHANGED <<host, chPort, proxy, configs, lock, call, detectVars, url, ghostVars, calls>>

WriteIp(t) ==
  /\ Goto(t, "ip", "port")
  /\ chIp' = IpOf(choice[t])
  /\ Disturb
  /\ UNCHANGED <<host, chPort, proxy, configs, lock, call, detectVars, url, ghostVars, calls>>

\* Mutant: the IPv4 port goes with either address.
WritePortOfIpv4(t) ==
  /\ Goto(t, "port", Return(t))
  /\ chPort' = PortOf("v4")
  /\ LeaveDetection(t) /\ raced' = overlapped[t]
  /\ target' = [target EXCEPT ![t] = "proxy"]
  /\ choice' = [choice EXCEPT ![t] = "v4"]
  /\ Disturb
  /\ UNCHANGED <<host, chIp, proxy, configs, lock, call, new, field, url, calls>>

WritePort(t) ==
  /\ Goto(t, "port", Return(t))
  /\ chPort' = PortOf(choice[t])
  /\ LeaveDetection(t) /\ raced' = overlapped[t]
  /\ target' = [target EXCEPT ![t] = "proxy"]
  /\ choice' = [choice EXCEPT ![t] = "v4"]
  /\ Disturb
  /\ UNCHANGED <<host, chIp, proxy, configs, lock, call, new, field, url, calls>>

----------------------------------------------------------------------------
(* getUrlHead, which CheckAndSetUrl calls for a relative URL.              *)

UrlHead(t) ==
  /\ Call(t, "UrlHead")
  /\ Goto(t, "idle", "headIp")
  /\ UNCHANGED <<hostVars, lock, detectVars, headVars, ghostVars>>

\* The address and the port are checked, then read again for the URL.
CheckIp(t) ==
  /\ Goto(t, "headIp", IF chIp = Empty THEN "head" ELSE "headPort")
  /\ disturbed' = [disturbed EXCEPT ![t] = \E u \in Threads : pc[u] = "port"]
  /\ UNCHANGED <<hostVars, lock, call, detectVars, url, ghostVars, calls>>

CheckPort(t) ==
  /\ Goto(t, "headPort", IF chPort = Empty THEN "head" ELSE "formatIp")
  /\ UNCHANGED <<hostVars, lock, call, detectVars, headVars, ghostVars, calls>>

FormatIp(t) ==
  /\ Goto(t, "formatIp", "formatPort")
  /\ url' = [url EXCEPT ![t].ip = chIp]
  /\ UNCHANGED <<hostVars, lock, call, detectVars, disturbed, ghostVars, calls>>

FormatPort(t) ==
  /\ Goto(t, "formatPort", "head")
  /\ url' = [url EXCEPT ![t].port = chPort]
  /\ UNCHANGED <<hostVars, lock, call, detectVars, disturbed, ghostVars, calls>>

HeadDone(t) ==
  /\ Goto(t, "head", "idle")
  /\ url' = [url EXCEPT ![t] = NoUrl]
  /\ disturbed' = [disturbed EXCEPT ![t] = FALSE]
  /\ UNCHANGED <<hostVars, lock, call, detectVars, ghostVars, calls>>

----------------------------------------------------------------------------
CallStep(t)   == SetChannelInfo(t) \/ SetField(t) \/ ReDetectChannelIp(t)
                   \/ LockRequest(t) \/ GetAuthLocalIp(t) \/ LockAuth(t)
                   \/ NeedsHost(t) \/ HasHost(t) \/ UnlockAuth(t)
                   \/ UnlockRequest(t)
DetectStep(t) == NothingConfigured(t) \/ HostsGiven(t) \/ TryProxy(t)
                   \/ SkipProxy(t) \/ Reached(t) \/ Unreached(t)
                   \/ WriteIp(t) \/ WritePort(t)
HeadStep(t)   == UrlHead(t) \/ CheckIp(t) \/ CheckPort(t) \/ FormatIp(t)
                   \/ FormatPort(t) \/ HeadDone(t)

Next == \/ \E t \in Threads : CallStep(t) \/ DetectStep(t) \/ HeadStep(t)
        \/ SetProxy

Spec == Init /\ [][Next]_vars

----------------------------------------------------------------------------
AtRest == \A t \in Threads : pc[t] \notin Writing

\* Whatever was probed, switched or mixed up before: when no detection is under
\* way and the last to set the channel ran alone, the channel is the address
\* and the port of one family of the configuration in force.  One detection
\* that runs alone repairs what overlapping ones have mixed, and nothing of an
\* earlier configuration is left.
ChannelFollowsConfig ==
  AtRest /\ ~raced /\ (Has4 \/ Has6) =>
    \E f \in {"v4", "v6"} : chIp = IpOf(f) /\ chPort = PortOf(f)

\* Two detections overlap only when one of them is in a call that does not
\* take g_RequestMutex: the second detection inside httpRequestAuthirize never
\* meets the one of another locked call.
LockedDetectionsExclude ==
  \A t, u \in Threads :
    t # u /\ pc[t] \in Writing /\ pc[u] \in Writing
      => call[t] \in Unlocked \/ call[u] \in Unlocked

\* A URL joins the address of one family and the port of the other only when a
\* detection rewrote the channel while getUrlHead read it, or overlapping
\* detections had mixed the channel itself.
UrlOfOneHost ==
  \A t \in Threads :
    pc[t] = "head" /\ ~disturbed[t] /\ ~raced => url[t].port.of = url[t].ip.of
=============================================================================
