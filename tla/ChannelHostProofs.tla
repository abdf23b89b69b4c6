-------------------------- MODULE ChannelHostProofs --------------------------
(* The safety properties of the choice of the host, for any number of      *)
(* threads and calls, any configurations and proxies.                      *)
EXTENDS ChannelHost, TLAPS

\* What is written to the channel is an end.
LEMMA EndsOfHost ==
  ASSUME HostTypeOK, NEW f \in {"v4", "v6"}
  PROVE  /\ IpOf(f) \in Ends /\ IpOf(f).of \in {"none", f}
         /\ IpOf(f).of = "none" => IpOf(f) = Empty
         /\ PortOf(f) \in Ends /\ PortOf(f).of \in {"none", f}
         /\ PortOf(f).of = "none" => PortOf(f) = Empty
<1>1. host["ip4"] \in Nat /\ host["ip6"] \in Nat /\ host["port4"] \in Nat /\ host["port6"] \in Nat
  BY DEF HostTypeOK, Fields
<1> QED
  BY <1>1 DEF IpOf, PortOf, Ends, Empty

\* Where a call stands, and which mutexes it has.
Places ==
  \A t \in Threads :
    /\ pc[t] \in {"headIp", "headPort", "formatIp", "formatPort", "head"} => call[t] = "UrlHead"
    /\ call[t] = "UrlHead" =>
         pc[t] \in {"idle", "headIp", "headPort", "formatIp", "formatPort", "head"}
    /\ call[t] = "ReDetectChannelIp" /\ pc[t] \notin {"idle", "requestWait"} =>
         lock["request"] = t

\* Detections that overlap know of it.
OverlapInv ==
  \A t, u \in Threads :
    t # u /\ pc[t] \in Writing /\ pc[u] \in Writing => overlapped[t]

\* What a detection that is alone makes of the channel.
ChannelInv ==
  /\ \A t \in Threads : pc[t] = "port" /\ ~overlapped[t] => chIp = IpOf(choice[t])
  /\ ChannelFollowsConfig
  /\ ~raced /\ (\A t \in Threads : pc[t] # "port") =>
       chIp = Empty \/ chPort = Empty \/ chIp.of = chPort.of

\* What getUrlHead has read when nobody writes meanwhile.
UrlInv ==
  \A t \in Threads :
    /\ pc[t] \notin {"formatPort", "head"} => url[t] = NoUrl
    /\ pc[t] \in Reading /\ ~disturbed[t] =>
         /\ \A u \in Threads : pc[u] # "port"
         /\ pc[t] \in {"headPort", "formatIp", "formatPort"} => chIp # Empty
         /\ pc[t] \in {"formatIp", "formatPort"} => chPort # Empty
         /\ pc[t] = "formatPort" => url[t].ip = chIp
         /\ pc[t] = "head" =>
              \/ url[t] = NoUrl
              \/ /\ chIp # Empty /\ chPort # Empty
                 /\ url[t].ip = chIp /\ url[t].port = chPort

HInv == HostTypeOK /\ Places /\ OverlapInv /\ ChannelInv /\ UrlInv

USE DEF Goto, hostVars, detectVars, headVars, ghostVars

\* Who enters a detection is noted by all that are in one, and notes them.
LEMMA Enters ==
  ASSUME NEW t \in Threads, EnterDetection(t)
  PROVE  /\ overlapped' \in [Threads -> BOOLEAN] /\ raced' = raced
         /\ \A u \in Threads \ {t} : overlapped'[u] <=> pc[u] \in Writing
         /\ overlapped'[t] <=> \E u \in Threads \ {t} : pc[u] \in Writing
<1>1. Overlap(t) \in BOOLEAN /\ \A u \in Threads : (pc[u] \in Writing) \in BOOLEAN
  BY DEF Overlap
<1>2. overlapped' = [u \in Threads |-> IF u = t THEN Overlap(t) ELSE pc[u] \in Writing]
  BY DEF EnterDetection
<1>3. overlapped' \in [Threads -> BOOLEAN]
  BY ONLY <1>1, <1>2, Zenon
<1>4. \A u \in Threads \ {t} : overlapped'[u] = (pc[u] \in Writing)
  BY ONLY <1>2, Zenon
<1>5. overlapped'[t] = Overlap(t)
  BY ONLY <1>2, Zenon
<1> QED
  BY <1>3, <1>4, <1>5 DEF EnterDetection, Overlap

\* A URL with another end is one.
LEMMA UrlEnds ==
  ASSUME HostTypeOK, NEW t \in Threads
  PROVE  /\ [url EXCEPT ![t].ip = chIp] \in [Threads -> [ip : Ends, port : Ends]]
         /\ [url EXCEPT ![t].port = chPort] \in [Threads -> [ip : Ends, port : Ends]]
<1>1. ASSUME NEW r \in [ip : Ends, port : Ends], NEW e \in Ends
      PROVE  /\ [r EXCEPT !.ip = e] \in [ip : Ends, port : Ends]
             /\ [r EXCEPT !.port = e] \in [ip : Ends, port : Ends]
  OBVIOUS
<1>2. chIp \in Ends /\ chPort \in Ends /\ url \in [Threads -> [ip : Ends, port : Ends]]
  BY DEF HostTypeOK
<1>3. [url[t] EXCEPT !.ip = chIp] \in [ip : Ends, port : Ends]
  BY ONLY <1>1, <1>2, t \in Threads
<1>4. [url[t] EXCEPT !.port = chPort] \in [ip : Ends, port : Ends]
  BY ONLY <1>1, <1>2, t \in Threads
<1> QED
  BY <1>2, <1>3, <1>4

LEMMA HInvInit == Init => HInv
<1> SUFFICES ASSUME Init PROVE HInv
  OBVIOUS
<1> USE DEF Init
<1>1. MaxCalls \in 0..MaxCalls /\ NoThread \notin Threads
  BY HostAssumption
<1>2. HostTypeOK
  <2>1. Empty \in Ends /\ NoConfig \in [of : SUBSET {"v4", "v6"}, n : Nat]
    BY DEF Empty, Ends, NoConfig
  <2>2. NoUrl \in [ip : Ends, port : Ends]
    BY <2>1 DEF NoUrl
  <2>3. /\ host \in [Fields -> Nat] /\ chIp \in Ends /\ chPort \in Ends
        /\ proxy \in {"none", "v4", "v6"} /\ configs \in Nat /\ raced \in BOOLEAN
    BY <2>1
  <2>4. /\ lock \in [{"request", "auth"} -> Threads \cup {NoThread}]
        /\ pc \in [Threads -> PCs] /\ call \in [Threads -> Calls]
    BY DEF PCs, Calls
  <2>5. /\ new \in [Threads -> [of : SUBSET {"v4", "v6"}, n : Nat]]
        /\ url \in [Threads -> [ip : Ends, port : Ends]]
    BY <2>1, <2>2
  <2>6. /\ field \in [Threads -> 1..4] /\ calls \in [Threads -> 0..MaxCalls]
        /\ target \in [Threads -> {"proxy", "v4", "v6"}] /\ choice \in [Threads -> {"v4", "v6"}]
        /\ disturbed \in [Threads -> BOOLEAN] /\ overlapped \in [Threads -> BOOLEAN]
    BY <1>1
  <2> QED
    BY <2>3, <2>4, <2>5, <2>6 DEF HostTypeOK
<1>3. Places /\ OverlapInv
  BY DEF Places, OverlapInv, Writing
<1>4. ChannelInv
  BY DEF ChannelInv, ChannelFollowsConfig, Has4, Has6, Fields
<1>5. UrlInv
  BY DEF UrlInv, Reading
<1> QED
  BY <1>2, <1>3, <1>4, <1>5 DEF HInv

\* The types.
LEMMA HostTypeStep == HInv /\ [Next]_vars => HostTypeOK'
<1> SUFFICES ASSUME HInv, [Next]_vars PROVE HostTypeOK'
  OBVIOUS
<1> USE HostAssumption DEF HInv, HostTypeOK, PCs, Writing, Calls
<1>1. CASE UNCHANGED vars
  BY <1>1 DEF vars
<1>2. CASE SetProxy
  BY <1>2 DEF SetProxy
<1>3. ASSUME NEW t \in Threads, CallStep(t) PROVE HostTypeOK'
  <2>1. CASE SetChannelInfo(t)
    <3>1. overlapped' \in [Threads -> BOOLEAN] /\ raced' = raced
      BY ONLY <2>1, t \in Threads, Enters DEF SetChannelInfo
    <3>2. new' \in [Threads -> [of : SUBSET {"v4", "v6"}, n : Nat]]
      <4>1. PICK fs \in Families : new' = [new EXCEPT ![t] = [of |-> fs, n |-> configs + 1]]
        BY <2>1 DEF SetChannelInfo
      <4>2. [of |-> fs, n |-> configs + 1] \in [of : SUBSET {"v4", "v6"}, n : Nat]
        OBVIOUS
      <4> QED
        BY <4>1, <4>2
    <3> QED
      BY <2>1, <3>1, <3>2 DEF SetChannelInfo, Call, EnterDetection
  <2>2. CASE SetField(t)
    <3> DEFINE f == Setters[field[t]]
    <3>1. f \in Fields /\ new[t] \in [of : SUBSET {"v4", "v6"}, n : Nat]
      <4>1. field[t] \in 1..4 /\ new[t] \in [of : SUBSET {"v4", "v6"}, n : Nat]
        OBVIOUS
      <4>2. field[t] = 1 \/ field[t] = 2 \/ field[t] = 3 \/ field[t] = 4
        BY ONLY <4>1
      <4> QED
        BY ONLY <4>1, <4>2 DEF Setters, Fields
    <3>2. host' \in [Fields -> Nat]
      BY <2>2, <3>1 DEF SetField
    <3>3. NoConfig \in [of : SUBSET {"v4", "v6"}, n : Nat]
      BY DEF NoConfig
    <3>4. new' \in [Threads -> [of : SUBSET {"v4", "v6"}, n : Nat]]
      BY <2>2, <3>1, <3>3 DEF SetField
    <3>5. field' \in [Threads -> 1..4]
      BY <2>2 DEF SetField
    <3>6. pc' \in [Threads -> PCs]
      BY <2>2 DEF SetField
    <3> QED
      BY <2>2, <3>2, <3>4, <3>5, <3>6 DEF SetField
  <2>3. CASE ReDetectChannelIp(t)
    BY <2>3 DEF ReDetectChannelIp, Call
  <2>4. CASE LockRequest(t)
    <3>1. overlapped' \in [Threads -> BOOLEAN]
      BY ONLY <2>4, t \in Threads, Enters DEF LockRequest
    <3> QED
      BY <2>4, <3>1 DEF LockRequest, Acquire, EnterDetection
  <2>5. CASE GetAuthLocalIp(t)
    BY <2>5 DEF GetAuthLocalIp, Call
  <2>6. CASE LockAuth(t)
    BY <2>6 DEF LockAuth, Acquire
  <2>7. CASE NeedsHost(t)
    <3>1. overlapped' \in [Threads -> BOOLEAN]
      BY ONLY <2>7, t \in Threads, Enters DEF NeedsHost
    <3> QED
      BY <2>7, <3>1 DEF NeedsHost, EnterDetection
  <2>8. CASE HasHost(t)
    BY <2>8 DEF HasHost
  <2>9. CASE UnlockAuth(t)
    BY <2>9 DEF UnlockAuth
  <2>10. CASE UnlockRequest(t)
    BY <2>10 DEF UnlockRequest
  <2> QED
    BY <1>3, <2>1, <2>2, <2>3, <2>4, <2>5, <2>6, <2>7, <2>8, <2>9, <2>10 DEF CallStep
<1>4. ASSUME NEW t \in Threads, DetectStep(t) PROVE HostTypeOK'
  <2>1. CASE NothingConfigured(t)
    BY <2>1 DEF NothingConfigured, LeaveDetection, Return
  <2>2. CASE HostsGiven(t)
    BY <2>2 DEF HostsGiven
  <2>3. CASE TryProxy(t)
    BY <2>3 DEF TryProxy, ProbeNext
  <2>4. CASE SkipProxy(t)
    BY <2>4 DEF SkipProxy, WithoutProxy, ProbeNext, Choose
  <2>5. CASE Reached(t)
    BY <2>5 DEF Reached, Choose
  <2>6. CASE Unreached(t)
    <3>1. pc' \in [Threads -> PCs] /\ target' \in [Threads -> {"proxy", "v4", "v6"}]
      BY SMTT(30), <2>6 DEF Unreached, Choose, ProbeNext, WithoutProxy
    <3>2. choice' \in [Threads -> {"v4", "v6"}]
      BY <2>6 DEF Unreached, Choose, ProbeNext, WithoutProxy
    <3> QED
      BY <2>6, <3>1, <3>2 DEF Unreached
  <2>7. CASE WriteIp(t)
    <3>1. IpOf(choice[t]) \in Ends
      BY EndsOfHost
    <3>2. disturbed' \in [Threads -> BOOLEAN]
      BY <2>7 DEF WriteIp, Disturb
    <3> QED
      BY <2>7, <3>1, <3>2 DEF WriteIp
  <2>8. CASE WritePort(t)
    <3>1. PortOf(choice[t]) \in Ends
      BY EndsOfHost
    <3>2. disturbed' \in [Threads -> BOOLEAN]
      BY <2>8 DEF WritePort, Disturb
    <3>3. pc' \in [Threads -> PCs]
      BY <2>8 DEF WritePort, Return
    <3> QED
      BY <2>8, <3>1, <3>2, <3>3 DEF WritePort, LeaveDetection
  <2> QED
    BY <1>4, <2>1, <2>2, <2>3, <2>4, <2>5, <2>6, <2>7, <2>8 DEF DetectStep
<1>5. ASSUME NEW t \in Threads, HeadStep(t) PROVE HostTypeOK'
  <2>1. CASE UrlHead(t)
    BY <2>1 DEF UrlHead, Call
  <2>2. CASE CheckIp(t)
    BY <2>2 DEF CheckIp
  <2>3. CASE CheckPort(t)
    BY <2>3 DEF CheckPort
  <2>4. CASE FormatIp(t)
    <3>1. url' \in [Threads -> [ip : Ends, port : Ends]]
      BY <2>4, UrlEnds DEF FormatIp
    <3> QED
      BY <2>4, <3>1 DEF FormatIp
  <2>5. CASE FormatPort(t)
    <3>1. url' \in [Threads -> [ip : Ends, port : Ends]]
      BY <2>5, UrlEnds DEF FormatPort
    <3> QED
      BY <2>5, <3>1 DEF FormatPort
  <2>6. CASE HeadDone(t)
    <3>1. NoUrl \in [ip : Ends, port : Ends]
      BY DEF NoUrl, Empty, Ends
    <3> QED
      BY <2>6, <3>1 DEF HeadDone
  <2> QED
    BY <1>5, <2>1, <2>2, <2>3, <2>4, <2>5, <2>6 DEF HeadStep
<1> QED
  BY <1>1, <1>2, <1>3, <1>4, <1>5 DEF Next

\* The places.
LEMMA PlacesStep == HInv /\ [Next]_vars => Places'
<1> SUFFICES ASSUME HInv, [Next]_vars PROVE Places'
  OBVIOUS
<1> USE HostAssumption DEF HInv, HostTypeOK, Places, Calls, Writing
<1>1. CASE UNCHANGED vars
  BY <1>1 DEF vars
<1>2. CASE SetProxy
  BY <1>2 DEF SetProxy
<1>3. ASSUME NEW t \in Threads, CallStep(t) PROVE Places'
  <2>1. CASE SetChannelInfo(t)
    BY <2>1 DEF SetChannelInfo, Call
  <2>2. CASE SetField(t)
    BY <2>2 DEF SetField
  <2>3. CASE ReDetectChannelIp(t)
    BY <2>3 DEF ReDetectChannelIp, Call
  <2>4. CASE LockRequest(t)
    BY <2>4 DEF LockRequest, Acquire
  <2>5. CASE GetAuthLocalIp(t)
    BY <2>5 DEF GetAuthLocalIp, Call
  <2>6. CASE LockAuth(t)
    BY <2>6 DEF LockAuth, Acquire
  <2>7. CASE NeedsHost(t)
    BY <2>7 DEF NeedsHost
  <2>8. CASE HasHost(t)
    BY <2>8 DEF HasHost
  <2>9. CASE UnlockAuth(t)
    BY <2>9 DEF UnlockAuth
  <2>10. CASE UnlockRequest(t)
    BY <2>10 DEF UnlockRequest
  <2> QED
    BY <1>3, <2>1, <2>2, <2>3, <2>4, <2>5, <2>6, <2>7, <2>8, <2>9, <2>10 DEF CallStep
<1>4. ASSUME NEW t \in Threads, DetectStep(t) PROVE Places'
  <2>1. CASE NothingConfigured(t)
    BY <2>1 DEF NothingConfigured, Return
  <2>2. CASE HostsGiven(t)
    BY <2>2 DEF HostsGiven
  <2>3. CASE TryProxy(t)
    BY <2>3 DEF TryProxy, ProbeNext
  <2>4. CASE SkipProxy(t)
    BY SMTT(30), <2>4 DEF SkipProxy, WithoutProxy, ProbeNext, Choose
  <2>5. CASE Reached(t)
    BY <2>5 DEF Reached, Choose
  <2>6. CASE Unreached(t)
    BY SMTT(30), <2>6 DEF Unreached, Choose, ProbeNext, WithoutProxy
  <2>7. CASE WriteIp(t)
    BY <2>7 DEF WriteIp
  <2>8. CASE WritePort(t)
    BY <2>8 DEF WritePort, Return
  <2> QED
    BY <1>4, <2>1, <2>2, <2>3, <2>4, <2>5, <2>6, <2>7, <2>8 DEF DetectStep
<1>5. ASSUME NEW t \in Threads, HeadStep(t) PROVE Places'
  <2>1. CASE UrlHead(t)
    BY <2>1 DEF UrlHead, Call
  <2>2. CASE CheckIp(t)
    BY <2>2 DEF CheckIp
  <2>3. CASE CheckPort(t)
    BY <2>3 DEF CheckPort
  <2>4. CASE FormatIp(t)
    BY <2>4 DEF FormatIp
  <2>5. CASE FormatPort(t)
    BY <2>5 DEF FormatPort
  <2>6. CASE HeadDone(t)
    BY <2>6 DEF HeadDone
  <2> QED
    BY <1>5, <2>1, <2>2, <2>3, <2>4, <2>5, <2>6 DEF HeadStep
<1> QED
  BY <1>1, <1>2, <1>3, <1>4, <1>5 DEF Next

\* Whoever enters a detection marks it; whoever leaves one is no longer in one.
LEMMA OverlapStep == HInv /\ [Next]_vars => OverlapInv'
<1> SUFFICES ASSUME HInv, [Next]_vars PROVE OverlapInv'
  OBVIOUS
<1> USE DEF HInv, HostTypeOK, OverlapInv, Writing
<1>1. CASE UNCHANGED vars
  BY <1>1 DEF vars
<1>2. CASE SetProxy
  BY <1>2 DEF SetProxy
<1>3. ASSUME NEW t \in Threads, CallStep(t) PROVE OverlapInv'
  <2>1. CASE SetChannelInfo(t)
    <3>1. /\ \A u \in Threads \ {t} : overlapped'[u] <=> pc[u] \in Writing
          /\ overlapped'[t] <=> \E u \in Threads \ {t} : pc[u] \in Writing
      BY ONLY <2>1, t \in Threads, Enters DEF SetChannelInfo
    <3>2. /\ pc'[t] \in Writing /\ pc'[t] # "port" /\ pc[t] \notin Writing
          /\ \A u \in Threads \ {t} : pc'[u] = pc[u]
      BY <2>1 DEF SetChannelInfo
    <3> QED
      BY <3>1, <3>2
  <2>2. CASE SetField(t)
    BY <2>2 DEF SetField
  <2>3. CASE ReDetectChannelIp(t)
    BY <2>3 DEF ReDetectChannelIp, Call
  <2>4. CASE LockRequest(t)
    <3>1. /\ \A u \in Threads \ {t} : overlapped'[u] <=> pc[u] \in Writing
          /\ overlapped'[t] <=> \E u \in Threads \ {t} : pc[u] \in Writing
      BY ONLY <2>4, t \in Threads, Enters DEF LockRequest
    <3>2. /\ pc'[t] \in Writing /\ pc'[t] # "port" /\ pc[t] \notin Writing
          /\ \A u \in Threads \ {t} : pc'[u] = pc[u]
      BY <2>4 DEF LockRequest
    <3> QED
      BY <3>1, <3>2
  <2>5. CASE GetAuthLocalIp(t)
    BY <2>5 DEF GetAuthLocalIp, Call
  <2>6. CASE LockAuth(t)
    BY <2>6 DEF LockAuth, Acquire
  <2>7. CASE NeedsHost(t)
    <3>1. /\ \A u \in Threads \ {t} : overlapped'[u] <=> pc[u] \in Writing
          /\ overlapped'[t] <=> \E u \in Threads \ {t} : pc[u] \in Writing
      BY ONLY <2>7, t \in Threads, Enters DEF NeedsHost
    <3>2. /\ pc'[t] \in Writing /\ pc'[t] # "port" /\ pc[t] \notin Writing
          /\ \A u \in Threads \ {t} : pc'[u] = pc[u]
      BY <2>7 DEF NeedsHost
    <3> QED
      BY <3>1, <3>2
  <2>8. CASE HasHost(t)
    BY <2>8 DEF HasHost
  <2>9. CASE UnlockAuth(t)
    BY <2>9 DEF UnlockAuth
  <2>10. CASE UnlockRequest(t)
    BY <2>10 DEF UnlockRequest
  <2> QED
    BY <1>3, <2>1, <2>2, <2>3, <2>4, <2>5, <2>6, <2>7, <2>8, <2>9, <2>10 DEF CallStep
<1>4. ASSUME NEW t \in Threads, DetectStep(t) PROVE OverlapInv'
  <2>1. CASE NothingConfigured(t)
    BY <2>1 DEF NothingConfigured, LeaveDetection, Return
  <2>2. CASE HostsGiven(t)
    BY <2>2 DEF HostsGiven
  <2>3. CASE TryProxy(t)
    BY <2>3 DEF TryProxy, ProbeNext
  <2>4. CASE SkipProxy(t)
    BY <2>4 DEF SkipProxy, WithoutProxy, ProbeNext, Choose
  <2>5. CASE Reached(t)
    BY <2>5 DEF Reached, Choose
  <2>6. CASE Unreached(t)
    BY <2>6 DEF Unreached, Choose, ProbeNext, WithoutProxy
  <2>7. CASE WriteIp(t)
    BY <2>7 DEF WriteIp
  <2>8. CASE WritePort(t)
    BY <2>8 DEF WritePort, LeaveDetection, Return
  <2> QED
    BY <1>4, <2>1, <2>2, <2>3, <2>4, <2>5, <2>6, <2>7, <2>8 DEF DetectStep
<1>5. ASSUME NEW t \in Threads, HeadStep(t) PROVE OverlapInv'
  <2>1. CASE UrlHead(t)
    BY <2>1 DEF UrlHead, Call
  <2>2. CASE CheckIp(t)
    BY <2>2 DEF CheckIp
  <2>3. CASE CheckPort(t)
    BY <2>3 DEF CheckPort
  <2>4. CASE FormatIp(t)
    BY <2>4 DEF FormatIp
  <2>5. CASE FormatPort(t)
    BY <2>5 DEF FormatPort
  <2>6. CASE HeadDone(t)
    BY <2>6 DEF HeadDone
  <2> QED
    BY <1>5, <2>1, <2>2, <2>3, <2>4, <2>5, <2>6 DEF HeadStep
<1> QED
  BY <1>1, <1>2, <1>3, <1>4, <1>5 DEF Next

\* A detection that is alone leaves the channel to one host.
LEMMA ChannelStep == HInv /\ [Next]_vars => ChannelInv'
<1> SUFFICES ASSUME HInv, [Next]_vars PROVE ChannelInv'
  OBVIOUS
<1> USE DEF HInv, HostTypeOK, OverlapInv, ChannelInv, ChannelFollowsConfig, AtRest,
      Writing, Has4, Has6, IpOf, PortOf
<1>1. CASE UNCHANGED vars
  BY <1>1 DEF vars
<1>2. CASE SetProxy
  BY <1>2 DEF SetProxy
<1>3. ASSUME NEW t \in Threads, CallStep(t) PROVE ChannelInv'
  <2>1. CASE SetChannelInfo(t)
    <3>1. /\ \A u \in Threads \ {t} : overlapped'[u] <=> pc[u] \in Writing
          /\ overlapped'[t] <=> \E u \in Threads \ {t} : pc[u] \in Writing
      BY ONLY <2>1, t \in Threads, Enters DEF SetChannelInfo
    <3>2. /\ pc'[t] \in Writing /\ pc'[t] # "port" /\ pc[t] \notin Writing
          /\ \A u \in Threads \ {t} : pc'[u] = pc[u]
      BY <2>1 DEF SetChannelInfo
    <3>3. UNCHANGED <<host, chIp, chPort, choice, raced>>
      BY <2>1 DEF SetChannelInfo, EnterDetection
    <3>4. ~AtRest' /\ \A u \in Threads : pc'[u] = "port" => overlapped'[u]
      BY <3>1, <3>2
    <3>5. (\A u \in Threads : pc'[u] # "port") => \A u \in Threads : pc[u] # "port"
      BY <3>2
    <3> QED
      BY ONLY ChannelInv, <3>3, <3>4, <3>5 DEF ChannelInv, ChannelFollowsConfig
  <2>2. CASE SetField(t)
    BY <2>2 DEF SetField
  <2>3. CASE ReDetectChannelIp(t)
    BY <2>3 DEF ReDetectChannelIp
  <2>4. CASE LockRequest(t)
    <3>1. /\ \A u \in Threads \ {t} : overlapped'[u] <=> pc[u] \in Writing
          /\ overlapped'[t] <=> \E u \in Threads \ {t} : pc[u] \in Writing
      BY ONLY <2>4, t \in Threads, Enters DEF LockRequest
    <3>2. /\ pc'[t] \in Writing /\ pc'[t] # "port" /\ pc[t] \notin Writing
          /\ \A u \in Threads \ {t} : pc'[u] = pc[u]
      BY <2>4 DEF LockRequest
    <3>3. UNCHANGED <<host, chIp, chPort, choice, raced>>
      BY <2>4 DEF LockRequest, EnterDetection
    <3>4. ~AtRest' /\ \A u \in Threads : pc'[u] = "port" => overlapped'[u]
      BY <3>1, <3>2
    <3>5. (\A u \in Threads : pc'[u] # "port") => \A u \in Threads : pc[u] # "port"
      BY <3>2
    <3> QED
      BY ONLY ChannelInv, <3>3, <3>4, <3>5 DEF ChannelInv, ChannelFollowsConfig
  <2>5. CASE GetAuthLocalIp(t)
    BY <2>5 DEF GetAuthLocalIp
  <2>6. CASE LockAuth(t)
    BY <2>6 DEF LockAuth, Acquire
  <2>7. CASE NeedsHost(t)
    <3>1. /\ \A u \in Threads \ {t} : overlapped'[u] <=> pc[u] \in Writing
          /\ overlapped'[t] <=> \E u \in Threads \ {t} : pc[u] \in Writing
      BY ONLY <2>7, t \in Threads, Enters DEF NeedsHost
    <3>2. /\ pc'[t] \in Writing /\ pc'[t] # "port" /\ pc[t] \notin Writing
          /\ \A u \in Threads \ {t} : pc'[u] = pc[u]
      BY <2>7 DEF NeedsHost
    <3>3. UNCHANGED <<host, chIp, chPort, choice, raced>>
      BY <2>7 DEF NeedsHost, EnterDetection
    <3>4. ~AtRest' /\ \A u \in Threads : pc'[u] = "port" => overlapped'[u]
      BY <3>1, <3>2
    <3>5. (\A u \in Threads : pc'[u] # "port") => \A u \in Threads : pc[u] # "port"
      BY <3>2
    <3> QED
      BY ONLY ChannelInv, <3>3, <3>4, <3>5 DEF ChannelInv, ChannelFollowsConfig
  <2>8. CASE HasHost(t)
    BY <2>8 DEF HasHost
  <2>9. CASE UnlockAuth(t)
    BY <2>9 DEF UnlockAuth
  <2>10. CASE UnlockRequest(t)
    BY <2>10 DEF UnlockRequest
  <2> QED
    BY <1>3, <2>1, <2>2, <2>3, <2>4, <2>5, <2>6, <2>7, <2>8, <2>9, <2>10 DEF CallStep
<1>4. ASSUME NEW t \in Threads, DetectStep(t) PROVE ChannelInv'
  <2>1. CASE NothingConfigured(t)
    BY <2>1 DEF NothingConfigured, LeaveDetection, Return
  <2>2. CASE HostsGiven(t)
    BY <2>2 DEF HostsGiven
  <2>3. CASE TryProxy(t)
    BY <2>3 DEF TryProxy, ProbeNext
  <2>4. CASE SkipProxy(t)
    BY SMTT(30), <2>4 DEF SkipProxy, WithoutProxy, ProbeNext, Choose
  <2>5. CASE Reached(t)
    BY <2>5 DEF Reached, Choose
  <2>6. CASE Unreached(t)
    BY <2>6 DEF Unreached, Choose, ProbeNext, WithoutProxy
  <2>7. CASE WriteIp(t)
    BY <2>7 DEF WriteIp
  <2>8. CASE WritePort(t)
    BY <2>8 DEF WritePort, LeaveDetection, Return
  <2> QED
    BY <1>4, <2>1, <2>2, <2>3, <2>4, <2>5, <2>6, <2>7, <2>8 DEF DetectStep
<1>5. ASSUME NEW t \in Threads, HeadStep(t) PROVE ChannelInv'
  <2>1. CASE UrlHead(t)
    BY <2>1 DEF UrlHead
  <2>2. CASE CheckIp(t)
    BY <2>2 DEF CheckIp
  <2>3. CASE CheckPort(t)
    BY <2>3 DEF CheckPort
  <2>4. CASE FormatIp(t)
    BY <2>4 DEF FormatIp
  <2>5. CASE FormatPort(t)
    BY <2>5 DEF FormatPort
  <2>6. CASE HeadDone(t)
    BY <2>6 DEF HeadDone
  <2> QED
    BY <1>5, <2>1, <2>2, <2>3, <2>4, <2>5, <2>6 DEF HeadStep
<1> QED
  BY <1>1, <1>2, <1>3, <1>4, <1>5 DEF Next

\* Whoever rewrites the channel disturbs those who read it.
LEMMA UrlStep == HInv /\ [Next]_vars => UrlInv'
<1> SUFFICES ASSUME HInv, [Next]_vars PROVE UrlInv'
  OBVIOUS
<1> USE DEF HInv, HostTypeOK, UrlInv, Reading
<1>1. CASE UNCHANGED vars
  BY <1>1 DEF vars
<1>2. CASE SetProxy
  BY <1>2 DEF SetProxy
<1>3. ASSUME NEW t \in Threads, CallStep(t) PROVE UrlInv'
  <2>1. CASE SetChannelInfo(t)
    BY <2>1 DEF SetChannelInfo
  <2>2. CASE SetField(t)
    BY <2>2 DEF SetField
  <2>3. CASE ReDetectChannelIp(t)
    BY <2>3 DEF ReDetectChannelIp
  <2>4. CASE LockRequest(t)
    BY <2>4 DEF LockRequest
  <2>5. CASE GetAuthLocalIp(t)
    BY <2>5 DEF GetAuthLocalIp
  <2>6. CASE LockAuth(t)
    BY <2>6 DEF LockAuth
  <2>7. CASE NeedsHost(t)
    BY <2>7 DEF NeedsHost
  <2>8. CASE HasHost(t)
    BY <2>8 DEF HasHost
  <2>9. CASE UnlockAuth(t)
    BY <2>9 DEF UnlockAuth
  <2>10. CASE UnlockRequest(t)
    BY <2>10 DEF UnlockRequest
  <2> QED
    BY <1>3, <2>1, <2>2, <2>3, <2>4, <2>5, <2>6, <2>7, <2>8, <2>9, <2>10 DEF CallStep
<1>4. ASSUME NEW t \in Threads, DetectStep(t) PROVE UrlInv'
  <2>1. CASE NothingConfigured(t)
    BY <2>1 DEF NothingConfigured, Return
  <2>2. CASE HostsGiven(t)
    BY <2>2 DEF HostsGiven
  <2>3. CASE TryProxy(t)
    BY <2>3 DEF TryProxy, ProbeNext
  <2>4. CASE SkipProxy(t)
    BY SMTT(30), <2>4 DEF SkipProxy, WithoutProxy, ProbeNext, Choose
  <2>5. CASE Reached(t)
    BY <2>5 DEF Reached, Choose
  <2>6. CASE Unreached(t)
    BY <2>6 DEF Unreached, Choose, ProbeNext, WithoutProxy
  <2>7. CASE WriteIp(t)
    BY <2>7 DEF WriteIp, Disturb
  <2>8. CASE WritePort(t)
    BY <2>8 DEF WritePort, Return, Disturb
  <2> QED
    BY <1>4, <2>1, <2>2, <2>3, <2>4, <2>5, <2>6, <2>7, <2>8 DEF DetectStep
<1>5. ASSUME NEW t \in Threads, HeadStep(t) PROVE UrlInv'
  <2>1. CASE UrlHead(t)
    BY <2>1 DEF UrlHead
  <2>2. CASE CheckIp(t)
    BY <2>2 DEF CheckIp
  <2>3. CASE CheckPort(t)
    BY <2>3 DEF CheckPort
  <2>4. CASE FormatIp(t)
    BY <2>4 DEF FormatIp
  <2>5. CASE FormatPort(t)
    BY <2>5 DEF FormatPort
  <2>6. CASE HeadDone(t)
    BY <2>6 DEF HeadDone
  <2> QED
    BY <1>5, <2>1, <2>2, <2>3, <2>4, <2>5, <2>6 DEF HeadStep
<1> QED
  BY <1>1, <1>2, <1>3, <1>4, <1>5 DEF Next

LEMMA HInvAlways == Spec => []HInv
<1>1. HInv /\ [Next]_vars => HInv'
  BY HostTypeStep, PlacesStep, OverlapStep, ChannelStep, UrlStep DEF HInv
<1> QED
  BY <1>1, HInvInit, PTL DEF Spec

----------------------------------------------------------------------------
\* The configuration, the channel and what the calls have read keep their types.
THEOREM HostHasTypes == Spec => []HostTypeOK
<1>1. HInv => HostTypeOK
  BY DEF HInv
<1> QED
  BY <1>1, HInvAlways, PTL

\* reDetectServerHost makes the address and the port of one family of the
\* configuration the channel, unless detections overlapped.
THEOREM ChannelsFollowConfig == Spec => []ChannelFollowsConfig
<1>1. HInv => ChannelFollowsConfig
  BY DEF HInv, ChannelInv
<1> QED
  BY <1>1, HInvAlways, PTL

\* g_RequestMutex keeps the detections of the calls that take it apart.
THEOREM LockedDetectionsAreAlone == Spec => []LockedDetectionsExclude
<1>1. ASSUME HInv, NEW t \in Threads, NEW u \in Threads, t # u,
             pc[t] \in Writing, pc[u] \in Writing
      PROVE  call[t] \in Unlocked \/ call[u] \in Unlocked
  <2>1. ASSUME NEW v \in {t, u}, call[v] \notin Unlocked PROVE lock["request"] = v
    <3>1. call[v] \in Calls /\ pc[v] \in Writing
      BY <1>1 DEF HInv, HostTypeOK
    <3> QED
      BY <1>1, <2>1, <3>1 DEF HInv, Places, Calls, Unlocked, Writing
  <2> QED
    BY <1>1, <2>1
<1>2. HInv => LockedDetectionsExclude
  BY <1>1 DEF LockedDetectionsExclude
<1> QED
  BY <1>2, HInvAlways, PTL

\* getUrlHead joins address and port of one family when nobody rewrites the
\* channel while it reads.
THEOREM UrlsAreOfOneHost == Spec => []UrlOfOneHost
<1>1. ASSUME HInv, NEW t \in Threads, pc[t] = "head", ~disturbed[t], ~raced
      PROVE  url[t].port.of = url[t].ip.of
  <2>1. \A u \in Threads : pc[u] # "port"
    BY <1>1 DEF HInv, UrlInv, Reading
  <2>2. chIp = Empty \/ chPort = Empty \/ chIp.of = chPort.of
    BY <1>1, <2>1 DEF HInv, ChannelInv
  <2>3. \/ url[t] = NoUrl
        \/ chIp # Empty /\ chPort # Empty /\ url[t].ip = chIp /\ url[t].port = chPort
    BY <1>1 DEF HInv, UrlInv, Reading
  <2> QED
    BY <2>2, <2>3 DEF NoUrl
<1>2. HInv => UrlOfOneHost
  BY <1>1 DEF UrlOfOneHost
<1> QED
  BY <1>2, HInvAlways, PTL
=============================================================================
