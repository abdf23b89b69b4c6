------------------------- MODULE HostSettingsProofs -------------------------
(* The safety properties of the settings of the host, for any number of    *)
(* threads, settings and calls.                                            *)
EXTENDS HostSettings, TLAPS

IdentityPCs == Lookup \cup {"check", "time", "secret", "copy", "sent"}
ProxyPCs == {"checkIp", "checkPort", "formatIp", "formatPort",
             "checkLogin", "copyLogin", "perform"}

\* Where a call stands, and what it is.
Places ==
  \A t \in Threads :
    /\ pc[t] \in IdentityPCs => kind[t] # "transfer"
    /\ pc[t] \in ProxyPCs => kind[t] = "transfer"
    /\ pc[t] \in Lookup \cup {"check", "copy"} => at[t] \in Identity
    /\ pc[t] \in {"time", "secret"} => at[t] = "uuid"
    /\ pc[t] \in {"checkLogin", "copyLogin"} => at[t] \in {"user", "password"}

\* A proxy has an address and a port, or nothing.
Coherent(v) ==
  /\ v["ip"] = "empty" <=> v["port"] = "empty"
  /\ v["ip"] = "empty" => v["user"] = "empty" /\ v["password"] = "empty"

\* How far a setter has come.
SetterInv ==
  /\ half => writes \notin {"none", "port"} /\ new[writes] # "keep"
  /\ writes \in Identity => \A f \in Identity : new[f] # "empty"
  /\ writes \in Proxy => Coherent(new) /\ \A f \in Proxy : new[f] # "keep"
  /\ writes \in {"port", "user", "password"} => value["ip"] = new["ip"]
  /\ writes \in {"user", "password"} => value["port"] = new["port"]
  /\ writes = "password" => value["user"] = new["user"]
  /\ writes \notin Proxy => Coherent(value)
  /\ \A f \in Proxy : value[f] = "torn" => half /\ writes = f

HInv == SettingsTypeOK /\ Places /\ SetterInv

USE DEF Goto, hostVars, callVars, dataVars, ghostVars, proxyVars

\* Who writes the identity disturbs all others that are not transfers.
LEMMA IdentityDisturbs ==
  ASSUME NEW t \in Threads \cup {NoThread}, SettingsTypeOK, Disturb(Identity, t)
  PROVE  /\ \A u \in Threads : disturbed[u] => disturbed'[u]
         /\ \A u \in Threads :
              u # t /\ pc[u] # "idle" /\ ~disturbed'[u] => kind[u] = "transfer"
<1>1. ASSUME NEW u \in Threads, u # t, pc[u] # "idle", ~disturbed'[u]
      PROVE  kind[u] = "transfer"
  <2>1. Reads(u) \cap Identity = {}
    BY <1>1 DEF Disturb
  <2>2. Reads(u) = IF kind[u] = "transfer" THEN Proxy ELSE Identity
    BY <1>1 DEF Reads
  <2>3. "uuid" \in Identity
    BY DEF Identity
  <2> QED
    BY <2>1, <2>2, <2>3
<1>2. \A u \in Threads : disturbed[u] => disturbed'[u]
  BY DEF Disturb, SettingsTypeOK
<1> QED
  BY <1>1, <1>2

\* Who writes the proxy disturbs the transfers.
LEMMA ProxyDisturbs ==
  ASSUME NEW t \in Threads \cup {NoThread}, SettingsTypeOK, Disturb(Proxy, t)
  PROVE  /\ \A u \in Threads : disturbed[u] => disturbed'[u]
         /\ \A u \in Threads :
              u # t /\ pc[u] # "idle" /\ ~disturbed'[u] => kind[u] # "transfer"
<1>1. ASSUME NEW u \in Threads, u # t, pc[u] # "idle", ~disturbed'[u]
      PROVE  kind[u] # "transfer"
  <2>1. Reads(u) \cap Proxy = {}
    BY <1>1 DEF Disturb
  <2>2. Reads(u) = IF kind[u] = "transfer" THEN Proxy ELSE Identity
    BY <1>1 DEF Reads
  <2>3. "ip" \in Proxy
    BY DEF Proxy
  <2> QED
    BY <2>1, <2>2, <2>3
<1>2. \A u \in Threads : disturbed[u] => disturbed'[u]
  BY DEF Disturb, SettingsTypeOK
<1> QED
  BY <1>1, <1>2

\* Nobody is between finding a field empty and filling it.
LEMMA NobodyFills ==
  ASSUME NEW f
  PROVE  Filling(f) = {} <=> \A u \in Threads : ~(pc[u] \in Lookup /\ at[u] = f)
BY DEF Filling

\* Nothing is set at first.
LEMMA HInvInit == Init => HInv
<1> SUFFICES ASSUME Init PROVE HInv
  OBVIOUS
<1>0. MaxSets \in 0..MaxSets /\ MaxCalls \in 0..MaxCalls
  BY SettingsAssumption
<1> USE <1>0 DEF Init
<1>1. SettingsTypeOK
  <2>1. /\ value \in [Fields -> Values] /\ opts \in [Proxy -> Values]
        /\ new \in [Fields -> Settings \cup {"empty", "keep"}]
    BY DEF Values
  <2>2. writes \in Fields \cup {"none"} /\ half \in BOOLEAN /\ sets \in 0..MaxSets
    OBVIOUS
  <2>3. /\ lock \in [{"handle", "auth"} -> Threads \cup {NoThread}]
        /\ pc \in [Threads -> PCs] /\ kind \in [Threads -> Kinds]
        /\ calls \in [Threads -> 0..MaxCalls] /\ at \in [Threads -> Fields]
    BY DEF PCs, Kinds, Fields, Identity
  <2>4. /\ got \in [Threads -> [Identity -> Values]] /\ secret \in [Threads -> Values]
        /\ fresh \in [Threads -> BOOLEAN] /\ raced \in [Identity -> BOOLEAN]
        /\ given \in [Identity -> Settings \cup {"empty"}]
        /\ disturbed \in [Threads -> BOOLEAN]
    BY DEF Values
  <2> QED
    BY <2>1, <2>2, <2>3, <2>4 DEF SettingsTypeOK
<1>2. Places /\ SetterInv
  BY DEF Places, SetterInv, IdentityPCs, ProxyPCs, Lookup, Coherent, Fields,
        Identity, Proxy
<1> QED
  BY <1>1, <1>2 DEF HInv

\* The types.
LEMMA TypeStep == HInv /\ [Next]_vars => SettingsTypeOK'
<1> SUFFICES ASSUME HInv, [Next]_vars PROVE SettingsTypeOK'
  OBVIOUS
<1> USE SettingsAssumption DEF HInv, SettingsTypeOK
<1>0. /\ "empty" \in Values /\ "default" \in Values /\ "torn" \in Values
      /\ Settings \subseteq Values
  BY DEF Values
<1>1. CASE UNCHANGED vars
  BY <1>1 DEF vars
<1>2. CASE HostStep
  <2> USE DEF Fields
  <2>1. CASE SetUUIDInfo
    <3>1. disturbed' \in [Threads -> BOOLEAN]
      BY <2>1 DEF SetUUIDInfo, Disturb
    <3>2. new' \in [Fields -> Settings \cup {"empty", "keep"}]
      BY <2>1 DEF SetUUIDInfo
    <3> QED
      BY <2>1, <3>1, <3>2 DEF SetUUIDInfo, Identity
  <2>2. CASE SetProxy
    <3>1. disturbed' \in [Threads -> BOOLEAN]
      BY <2>2 DEF SetProxy, Disturb
    <3>2. new' \in [Fields -> Settings \cup {"empty", "keep"}]
      BY <2>2 DEF SetProxy
    <3> QED
      BY <2>2, <3>1, <3>2 DEF SetProxy, Proxy
  <2>3. CASE KeepField
    BY <2>3 DEF KeepField, After, Fields, Identity, Proxy
  <2>4. CASE StartAssign
    BY <1>0, <2>4 DEF StartAssign
  <2>5. CASE Assign
    <3>1. writes \in Fields /\ new[writes] \in Settings \cup {"empty"}
      BY <2>5 DEF Assign, SetterInv, Fields, Proxy
    <3>2. writes \in Identity => new[writes] \in Settings
      BY <3>1 DEF SetterInv
    <3>3. After(writes) \in Fields \cup {"none"}
      BY <3>1 DEF After, Fields, Identity, Proxy
    <3> QED
      BY <1>0, <2>5, <3>1, <3>2, <3>3 DEF Assign
  <2> QED
    BY <1>2, <2>1, <2>2, <2>3, <2>4, <2>5 DEF HostStep
<1>3. ASSUME NEW t \in Threads, IdentityStep(t) PROVE SettingsTypeOK'
  <2> USE DEF PCs, Lookup, Fields, Identity, Kinds
  <2>1. CASE CheckAndSetUrl(t)
    BY <2>1 DEF CheckAndSetUrl, Begin
  <2>2. CASE HttpRequestAuthirize(t)
    BY <2>2 DEF HttpRequestAuthirize, Begin
  <2>3. CASE FindEmpty(t)
    <3>1. at[t] \in Identity
      BY <2>3 DEF FindEmpty, Places
    <3>2. disturbed' \in [Threads -> BOOLEAN]
      BY <2>3 DEF FindEmpty, Disturb
    <3> QED
      BY <2>3, <3>1, <3>2 DEF FindEmpty
  <2>4. CASE FindGiven(t)
    BY <2>4 DEF FindGiven, NextField
  <2>5. CASE StartDefault(t)
    BY <2>5 DEF StartDefault, Values
  <2>6. CASE ConfigDefault(t) \/ StillEmpty(t)
    <3>1. value' \in [Fields -> Values]
      BY <1>0, <2>6 DEF ConfigDefault, StillEmpty
    <3> QED
      BY <2>6, <3>1 DEF ConfigDefault, StillEmpty
  <2>7. CASE Default(t)
    <3>1. value' \in [Fields -> Values]
      BY <1>0, <2>7 DEF Default
    <3> QED
      BY SMTT(30), <2>7, <3>1 DEF Default, NextField
  <2>8. CASE TimeReply(t) \/ GetSecret(t)
    BY SMTT(30), <2>8 DEF TimeReply, GetSecret
  <2>9. CASE Copy(t)
    BY <2>9 DEF Copy
  <2>10. CASE IdentityReturn(t)
    BY <2>10 DEF IdentityReturn, Values
  <2> QED
    BY <1>3, <2>1, <2>2, <2>3, <2>4, <2>5, <2>6, <2>7, <2>8, <2>9, <2>10 DEF
          IdentityStep
<1>4. ASSUME NEW t \in Threads, ProxyStep(t) PROVE SettingsTypeOK'
  <2> USE DEF PCs, Fields, Proxy
  <2>1. CASE Transfer(t) \/ UnlockedTransfer(t)
    <3>1. BeginTransfer(t)
      BY <2>1 DEF Transfer, UnlockedTransfer
    <3>2. disturbed' \in [Threads -> BOOLEAN]
      <4>1. /\ (writes \in Proxy \/ Transferring # {}) \in BOOLEAN
            /\ \A u \in Threads : (disturbed[u] \/ u \in Transferring) \in BOOLEAN
        OBVIOUS
      <4>2. disturbed' = [u \in Threads |-> IF u = t THEN writes \in Proxy \/ Transferring # {}
                                            ELSE disturbed[u] \/ u \in Transferring]
        BY <3>1 DEF BeginTransfer
      <4> QED
        BY ONLY Zenon, <4>1, <4>2
    <3>3. /\ pc' \in [Threads -> PCs] /\ kind' \in [Threads -> Kinds]
          /\ calls' \in [Threads -> 0..MaxCalls]
      BY <3>1 DEF BeginTransfer, Kinds
    <3>4. opts' \in [Proxy -> Values]
      BY <2>1, <1>0 DEF Transfer, UnlockedTransfer
    <3>5. fresh' \in [Threads -> BOOLEAN]
      BY <2>1 DEF Transfer, UnlockedTransfer
    <3>6. lock' \in [{"handle", "auth"} -> Threads \cup {NoThread}]
      BY <2>1 DEF Transfer, UnlockedTransfer
    <3> QED
      BY <2>1, <3>2, <3>3, <3>4, <3>5, <3>6 DEF Transfer, UnlockedTransfer
  <2>2. CASE CheckIp(t) \/ CheckPort(t)
    BY <2>2 DEF CheckIp, CheckPort
  <2>3. CASE FormatIp(t) \/ FormatPort(t)
    <3>1. opts' \in [Proxy -> Values]
      BY <2>3 DEF FormatIp, FormatPort
    <3> QED
      BY <2>3, <3>1 DEF FormatIp, FormatPort, Identity
  <2>4. CASE SkipLogin(t) \/ FindLogin(t)
    <3>1. CASE SkipLogin(t)
      BY ZenonT(40), <3>1 DEF SkipLogin, NextLogin, Identity
    <3>2. CASE FindLogin(t)
      BY <3>2 DEF FindLogin
    <3> QED
      BY <2>4, <3>1, <3>2
  <2>5. CASE CopyLogin(t)
    <3>1. at[t] \in Proxy
      BY <2>5 DEF CopyLogin, Places
    <3> QED
      BY ZenonT(40), <2>5, <3>1 DEF CopyLogin, NextLogin, Identity
  <2>6. CASE TransferReturn(t)
    BY <2>6 DEF TransferReturn
  <2> QED
    BY <1>4, <2>1, <2>2, <2>3, <2>4, <2>5, <2>6 DEF ProxyStep
<1> QED
  BY <1>1, <1>2, <1>3, <1>4 DEF Next

\* The places.
LEMMA PlacesStep == HInv /\ [Next]_vars => Places'
<1> SUFFICES ASSUME HInv, [Next]_vars PROVE Places'
  OBVIOUS
<1> USE SettingsAssumption DEF HInv, SettingsTypeOK, Places, IdentityPCs, ProxyPCs,
      Lookup, Identity
<1>1. CASE UNCHANGED vars
  BY <1>1 DEF vars
<1>2. CASE HostStep
  <2>1. CASE SetUUIDInfo
    BY <2>1 DEF SetUUIDInfo
  <2>2. CASE SetProxy
    BY <2>2 DEF SetProxy
  <2>3. CASE KeepField
    BY <2>3 DEF KeepField, After
  <2>4. CASE StartAssign
    BY <2>4 DEF StartAssign
  <2>5. CASE Assign
    BY <2>5 DEF Assign, After
  <2> QED
    BY <1>2, <2>1, <2>2, <2>3, <2>4, <2>5 DEF HostStep
<1>3. ASSUME NEW t \in Threads, IdentityStep(t) PROVE Places'
  <2>1. CASE CheckAndSetUrl(t) \/ HttpRequestAuthirize(t)
    BY <2>1 DEF CheckAndSetUrl, Begin, HttpRequestAuthirize
  <2>2. CASE FindEmpty(t)
    BY <2>2 DEF FindEmpty
  <2>3. CASE FindGiven(t) \/ Default(t)
    BY <2>3 DEF FindGiven, NextField, Default
  <2>4. CASE StartDefault(t)
    BY <2>4 DEF StartDefault
  <2>5. CASE ConfigDefault(t) \/ StillEmpty(t)
    BY <2>5 DEF ConfigDefault, StillEmpty
  <2>6. CASE TimeReply(t) \/ GetSecret(t)
    BY <2>6 DEF TimeReply, GetSecret
  <2>7. CASE Copy(t)
    BY <2>7 DEF Copy
  <2>8. CASE IdentityReturn(t)
    BY <2>8 DEF IdentityReturn
  <2> QED
    BY <1>3, <2>1, <2>2, <2>3, <2>4, <2>5, <2>6, <2>7, <2>8 DEF IdentityStep
<1>4. ASSUME NEW t \in Threads, ProxyStep(t) PROVE Places'
  <2>1. CASE Transfer(t) \/ UnlockedTransfer(t)
    BY <2>1 DEF Transfer, UnlockedTransfer, BeginTransfer
  <2>2. CASE CheckIp(t) \/ CheckPort(t)
    BY <2>2 DEF CheckIp, CheckPort
  <2>3. CASE FormatIp(t) \/ FormatPort(t)
    BY <2>3 DEF FormatIp, FormatPort
  <2>4. CASE SkipLogin(t) \/ FindLogin(t)
    BY <2>4 DEF SkipLogin, NextLogin, FindLogin
  <2>5. CASE CopyLogin(t)
    BY <2>5 DEF CopyLogin, NextLogin
  <2>6. CASE TransferReturn(t)
    BY <2>6 DEF TransferReturn
  <2> QED
    BY <1>4, <2>1, <2>2, <2>3, <2>4, <2>5, <2>6 DEF ProxyStep
<1> QED
  BY <1>1, <1>2, <1>3, <1>4 DEF Next

\* The setters write one after another; the identity is not in the way of the proxy.
LEMMA SetterStep == HInv /\ [Next]_vars => SetterInv'
<1> SUFFICES ASSUME HInv, [Next]_vars PROVE SetterInv'
  OBVIOUS
<1> USE DEF HInv, SettingsTypeOK, Places, SetterInv, Coherent, Fields, Identity,
      Proxy, Lookup
<1>1. CASE UNCHANGED vars
  BY <1>1 DEF vars
<1>2. CASE HostStep
  <2>1. CASE SetUUIDInfo
    <3>1. \A f \in Identity : new'[f] # "empty"
      BY <2>1, SettingsAssumption DEF SetUUIDInfo, Marks
    <3> QED
      BY <2>1, <3>1 DEF SetUUIDInfo
  <2>2. CASE SetProxy
    <3>1. PICK s \in Settings, fs \in {{}} \cup {{"ip", "port"} \cup ls : ls \in SUBSET {"user", "password"}} :
            new' = [f \in Fields |-> IF f \in fs THEN s ELSE "empty"]
      BY <2>2 DEF SetProxy
    <3>2. s # "empty" /\ s # "keep"
      BY SettingsAssumption DEF Marks
    <3>3. fs = {} \/ {"ip", "port"} \subseteq fs
      OBVIOUS
    <3>4. \A f \in Proxy : new'[f] = IF f \in fs THEN s ELSE "empty"
      BY <3>1
    <3>5. Coherent(new') /\ \A f \in Proxy : new'[f] # "keep"
      BY <3>2, <3>3, <3>4
    <3> QED
      BY <2>2, <3>5 DEF SetProxy
  <2>3. CASE KeepField
    BY <2>3 DEF KeepField, After
  <2>4. CASE StartAssign
    BY <2>4 DEF StartAssign
  <2>5. CASE Assign
    <3>0. \A f \in Fields : new[f] # "torn"
      BY SettingsAssumption DEF Marks
    <3>1. CASE writes = "port"
      BY <2>5, <3>0, <3>1 DEF Assign, After
    <3>2. CASE writes = "password"
      BY <2>5, <3>0, <3>2 DEF Assign, After
    <3>3. CASE writes \in {"uuid", "tenant", "ip", "user"}
      BY <2>5, <3>0, <3>3 DEF Assign, After
    <3>4. writes # "none"
      BY <2>5 DEF Assign
    <3> QED
      BY <3>1, <3>2, <3>3, <3>4
  <2> QED
    BY <1>2, <2>1, <2>2, <2>3, <2>4, <2>5 DEF HostStep
<1>3. ASSUME NEW t \in Threads, IdentityStep(t) PROVE SetterInv'
  <2>1. CASE CheckAndSetUrl(t) \/ HttpRequestAuthirize(t)
    BY <2>1 DEF CheckAndSetUrl, Begin, HttpRequestAuthirize
  <2>2. CASE FindEmpty(t)
    BY <2>2 DEF FindEmpty
  <2>3. CASE FindGiven(t) \/ Default(t)
    BY <2>3 DEF FindGiven, NextField, Default
  <2>4. CASE StartDefault(t)
    BY <2>4 DEF StartDefault
  <2>5. CASE ConfigDefault(t) \/ StillEmpty(t)
    BY <2>5 DEF ConfigDefault, StillEmpty
  <2>6. CASE TimeReply(t) \/ GetSecret(t)
    BY <2>6 DEF TimeReply, GetSecret
  <2>7. CASE Copy(t)
    BY <2>7 DEF Copy
  <2>8. CASE IdentityReturn(t)
    BY <2>8 DEF IdentityReturn
  <2> QED
    BY <1>3, <2>1, <2>2, <2>3, <2>4, <2>5, <2>6, <2>7, <2>8 DEF IdentityStep
<1>4. ASSUME NEW t \in Threads, ProxyStep(t) PROVE SetterInv'
  <2>1. CASE Transfer(t) \/ UnlockedTransfer(t)
    BY <2>1 DEF Transfer, UnlockedTransfer, BeginTransfer
  <2>2. CASE CheckIp(t) \/ CheckPort(t)
    BY <2>2 DEF CheckIp, CheckPort
  <2>3. CASE FormatIp(t) \/ FormatPort(t)
    BY <2>3 DEF FormatIp, FormatPort
  <2>4. CASE SkipLogin(t) \/ FindLogin(t)
    BY <2>4 DEF SkipLogin, NextLogin, FindLogin
  <2>5. CASE CopyLogin(t)
    BY <2>5 DEF CopyLogin, NextLogin
  <2>6. CASE TransferReturn(t)
    BY <2>6 DEF TransferReturn
  <2> QED
    BY <1>4, <2>1, <2>2, <2>3, <2>4, <2>5, <2>6 DEF ProxyStep
<1> QED
  BY <1>1, <1>2, <1>3, <1>4 DEF Next

----------------------------------------------------------------------------
\* A field that the host has set is filled with nothing else, or raced says so.
RaceInv ==
  \A f \in Identity :
    /\ given[f] = "empty" => value[f] \in {"empty", "default", "torn"}
    /\ ~raced[f] /\ (given[f] # "empty" \/ (half /\ writes = f)) =>
         /\ \A t \in Threads : ~(pc[t] \in Lookup /\ at[t] = f)
         /\ (half /\ writes = f) \/ value[f] = given[f]

\* Who sets a field while its default is looked up is noted, and so is the search.
LEMMA RaceStep == HInv /\ RaceInv /\ [Next]_vars => RaceInv'
<1> SUFFICES ASSUME HInv, RaceInv, [Next]_vars PROVE RaceInv'
  OBVIOUS
<1> USE SettingsAssumption DEF HInv, SettingsTypeOK, Places, SetterInv, RaceInv,
      Lookup, Fields, Identity, Proxy, Marks
<1>1. CASE UNCHANGED vars
  BY <1>1 DEF vars
<1>2. CASE HostStep
  <2>1. CASE SetUUIDInfo
    BY <2>1 DEF SetUUIDInfo
  <2>2. CASE SetProxy
    BY <2>2 DEF SetProxy
  <2>3. CASE KeepField
    BY <2>3 DEF KeepField, After
  <2>4. CASE StartAssign
    <3>1. CASE writes \in Proxy
      BY <2>4, <3>1 DEF StartAssign
    <3>2. CASE writes \in Identity
      <4>1. raced'[writes] \/ \A t \in Threads : ~(pc[t] \in Lookup /\ at[t] = writes)
        BY <2>4, <3>2, NobodyFills DEF StartAssign
      <4> QED
        BY <2>4, <3>2, <4>1 DEF StartAssign
    <3> QED
      BY <2>4, <3>1, <3>2 DEF StartAssign
  <2>5. CASE Assign
    BY <2>5 DEF Assign, After
  <2> QED
    BY <1>2, <2>1, <2>2, <2>3, <2>4, <2>5 DEF HostStep
<1>3. ASSUME NEW t \in Threads, IdentityStep(t) PROVE RaceInv'
  <2>1. CASE CheckAndSetUrl(t) \/ HttpRequestAuthirize(t)
    <3>1. \A u \in Threads : pc'[u] \in Lookup => pc[u] \in Lookup /\ at'[u] = at[u]
      BY <2>1 DEF CheckAndSetUrl, HttpRequestAuthirize
    <3>2. UNCHANGED <<value, half, writes, given, raced>>
      BY <2>1 DEF CheckAndSetUrl, HttpRequestAuthirize
    <3> QED
      BY <3>1, <3>2
  <2>2. CASE FindEmpty(t)
    BY <2>2 DEF FindEmpty
  <2>3. CASE FindGiven(t)
    <3>1. \A u \in Threads : pc'[u] \in Lookup => pc[u] \in Lookup /\ at'[u] = at[u]
      BY <2>3 DEF FindGiven, NextField
    <3>2. UNCHANGED <<value, half, writes, given, raced>>
      BY <2>3 DEF FindGiven, NextField
    <3> QED
      BY <3>1, <3>2
  <2>4. CASE Default(t)
    <3>1. at[t] \in Identity /\ value' = [value EXCEPT ![at[t]] = "default"]
      BY <2>4 DEF Default
    <3>2. raced[at[t]] \/ (given[at[t]] = "empty" /\ ~(half /\ writes = at[t]))
      BY <2>4, <3>1 DEF Default
    <3>3. \A u \in Threads : pc'[u] \in Lookup => u # t /\ pc[u] \in Lookup /\ at'[u] = at[u]
      BY <2>4 DEF Default, NextField
    <3> QED
      BY <2>4, <3>1, <3>2, <3>3 DEF Default
  <2>5. CASE StartDefault(t)
    BY <2>5 DEF StartDefault
  <2>6. CASE ConfigDefault(t) \/ StillEmpty(t)
    BY <2>6 DEF ConfigDefault, StillEmpty
  <2>7. CASE TimeReply(t) \/ GetSecret(t)
    BY <2>7 DEF TimeReply, GetSecret
  <2>8. CASE Copy(t)
    BY <2>8 DEF Copy
  <2>9. CASE IdentityReturn(t)
    BY <2>9 DEF IdentityReturn
  <2> QED
    BY <1>3, <2>1, <2>2, <2>3, <2>4, <2>5, <2>6, <2>7, <2>8, <2>9 DEF IdentityStep
<1>4. ASSUME NEW t \in Threads, ProxyStep(t) PROVE RaceInv'
  <2>1. CASE Transfer(t) \/ UnlockedTransfer(t)
    BY <2>1 DEF Transfer, UnlockedTransfer, BeginTransfer
  <2>2. CASE CheckIp(t) \/ CheckPort(t)
    BY <2>2 DEF CheckIp, CheckPort
  <2>3. CASE FormatIp(t) \/ FormatPort(t)
    BY <2>3 DEF FormatIp, FormatPort
  <2>4. CASE SkipLogin(t) \/ FindLogin(t)
    BY <2>4 DEF SkipLogin, NextLogin, FindLogin
  <2>5. CASE CopyLogin(t)
    <3>1. \A u \in Threads : pc'[u] \in Lookup => pc[u] \in Lookup /\ at'[u] = at[u]
      BY <2>5 DEF CopyLogin, NextLogin
    <3>2. UNCHANGED <<value, half, writes, given, raced>>
      BY <2>5 DEF CopyLogin, NextLogin
    <3> QED
      BY <3>1, <3>2
  <2>6. CASE TransferReturn(t)
    BY <2>6 DEF TransferReturn
  <2> QED
    BY <1>4, <2>1, <2>2, <2>3, <2>4, <2>5, <2>6 DEF ProxyStep
<1> QED
  BY <1>1, <1>2, <1>3, <1>4 DEF Next

----------------------------------------------------------------------------
\* What an undisturbed transfer has copied so far, and what a new handle has.
TransferInv ==
  \A t \in Threads :
    kind[t] = "transfer" /\ pc[t] # "idle" /\ ~disturbed[t] =>
      /\ writes \notin Proxy
      /\ \A u \in Threads \ {t} : kind[u] = "transfer" => pc[u] = "idle"
      /\ pc[t] \in {"formatIp", "formatPort", "checkLogin", "copyLogin"} => value["ip"] # "empty"
      /\ pc[t] \in {"formatPort", "checkLogin", "copyLogin"} => opts["ip"] = value["ip"]
      /\ pc[t] \in {"checkLogin", "copyLogin"} =>
           /\ opts["port"] = value["port"]
           /\ at[t] = "password" /\ value["user"] # "empty" => opts["user"] = value["user"]
      /\ pc[t] = "perform" /\ value["ip"] # "empty" =>
           \A f \in Proxy : value[f] # "empty" => opts[f] = value[f]
      /\ fresh[t] =>
           /\ pc[t] \in {"checkIp", "checkPort", "formatIp"} => opts["ip"] = "empty"
           /\ pc[t] \in {"checkIp", "checkPort", "formatIp", "formatPort"} =>
                opts["port"] = "empty" /\ opts["user"] = "empty"
           /\ pc[t] \in {"checkLogin", "copyLogin"} =>
                opts["user"] = IF at[t] = "user" THEN "empty" ELSE value["user"]
           /\ pc[t] # "perform" => opts["password"] = "empty"
           /\ pc[t] = "perform" => \A f \in Proxy : opts[f] = value[f]

\* Only its own steps change what a transfer copies, or the setter disturbs it.
LEMMA TransferStep == HInv /\ TransferInv /\ [Next]_vars => TransferInv'
<1> SUFFICES ASSUME HInv, TransferInv, [Next]_vars PROVE TransferInv'
  OBVIOUS
<1> USE SettingsAssumption DEF HInv, SettingsTypeOK, PCs, Kinds, Places, SetterInv,
      Coherent, TransferInv, IdentityPCs, ProxyPCs, Lookup, Fields, Identity, Proxy
<1>1. CASE UNCHANGED vars
  BY <1>1 DEF vars
<1>2. CASE HostStep
  <2>1. CASE SetUUIDInfo
    <3>1. Disturb(Identity, NoThread)
      BY <2>1 DEF SetUUIDInfo
    <3>2. \A u \in Threads : /\ disturbed[u] => disturbed'[u]
                             /\ u # NoThread /\ pc[u] # "idle" /\ ~disturbed'[u] => kind[u] = "transfer"
      BY ONLY SMTT(30), <3>1, IdentityDisturbs, HInv DEF HInv
    <3> QED
      BY <2>1, <3>2 DEF SetUUIDInfo
  <2>2. CASE SetProxy
    <3>1. Disturb(Proxy, NoThread)
      BY <2>2 DEF SetProxy
    <3>2. \A u \in Threads : /\ disturbed[u] => disturbed'[u]
                             /\ u # NoThread /\ pc[u] # "idle" /\ ~disturbed'[u] => kind[u] # "transfer"
      BY ONLY SMTT(30), <3>1, ProxyDisturbs, HInv DEF HInv
    <3> QED
      BY <2>2, <3>2 DEF SetProxy
  <2>3. CASE KeepField
    BY <2>3 DEF KeepField, After
  <2>4. CASE StartAssign
    BY <2>4 DEF StartAssign
  <2>5. CASE Assign
    BY <2>5 DEF Assign, After
  <2> QED
    BY <1>2, <2>1, <2>2, <2>3, <2>4, <2>5 DEF HostStep
<1>3. ASSUME NEW t \in Threads, IdentityStep(t) PROVE TransferInv'
  <2>1. CASE CheckAndSetUrl(t) \/ HttpRequestAuthirize(t)
    BY <2>1 DEF CheckAndSetUrl, Begin, HttpRequestAuthirize
  <2>2. CASE FindEmpty(t)
    <3>1. Disturb(Identity, t)
      BY <2>2 DEF FindEmpty
    <3>2. \A u \in Threads : /\ disturbed[u] => disturbed'[u]
                             /\ u # t /\ pc[u] # "idle" /\ ~disturbed'[u] => kind[u] = "transfer"
      BY ONLY <3>1, IdentityDisturbs, HInv, t \in Threads DEF HInv
    <3> QED
      BY <2>2, <3>2 DEF FindEmpty
  <2>3. CASE FindGiven(t) \/ Default(t)
    BY <2>3 DEF FindGiven, NextField, Default
  <2>4. CASE StartDefault(t)
    BY <2>4 DEF StartDefault
  <2>5. CASE ConfigDefault(t) \/ StillEmpty(t)
    BY <2>5 DEF ConfigDefault, StillEmpty
  <2>6. CASE TimeReply(t) \/ GetSecret(t)
    BY <2>6 DEF TimeReply, GetSecret
  <2>7. CASE Copy(t)
    BY <2>7 DEF Copy
  <2>8. CASE IdentityReturn(t)
    BY <2>8 DEF IdentityReturn
  <2> QED
    BY <1>3, <2>1, <2>2, <2>3, <2>4, <2>5, <2>6, <2>7, <2>8 DEF IdentityStep
<1>4. ASSUME NEW t \in Threads, ProxyStep(t) PROVE TransferInv'
  <2>1. CASE Transfer(t) \/ UnlockedTransfer(t)
    <3>1. BeginTransfer(t) /\ writes' = writes
      BY <2>1 DEF Transfer, UnlockedTransfer
    <3>2. \A u \in Threads \ {t} : kind'[u] = kind[u] /\ pc'[u] = pc[u]
      BY <3>1 DEF BeginTransfer
    <3>3. pc'[t] = "checkIp" /\ pc[t] = "idle"
      BY <3>1 DEF BeginTransfer
    <3>4. ~disturbed'[t] => writes \notin Proxy /\ Transferring = {}
      BY <3>1 DEF BeginTransfer
    <3>5. \A u \in Threads \ {t} : ~disturbed'[u] => u \notin Transferring
      BY <3>1 DEF BeginTransfer
    <3>6. \A u \in Threads : u \notin Transferring => (kind[u] = "transfer" => pc[u] = "idle")
      BY DEF Transferring
    <3>7. fresh'[t] => opts' = [f \in Proxy |-> "empty"]
      BY <2>1 DEF Transfer, UnlockedTransfer
    <3> QED
      BY ONLY <3>1, <3>2, <3>3, <3>4, <3>5, <3>6, <3>7 DEF TransferInv, Proxy
  <2>2. CASE CheckIp(t) \/ CheckPort(t)
    BY <2>2 DEF CheckIp, CheckPort
  <2>3. CASE FormatIp(t) \/ FormatPort(t)
    BY <2>3 DEF FormatIp, FormatPort
  <2>4. CASE SkipLogin(t) \/ FindLogin(t)
    BY <2>4 DEF SkipLogin, NextLogin, FindLogin
  <2>5. CASE CopyLogin(t)
    BY <2>5 DEF CopyLogin, NextLogin
  <2>6. CASE TransferReturn(t)
    BY <2>6 DEF TransferReturn
  <2> QED
    BY <1>4, <2>1, <2>2, <2>3, <2>4, <2>5, <2>6 DEF ProxyStep
<1> QED
  BY <1>1, <1>2, <1>3, <1>4 DEF Next

----------------------------------------------------------------------------
\* A field of the identity is torn only while somebody assigns it.
TornInv ==
  \A f \in Identity :
    value[f] = "torn" =>
      \/ half /\ writes = f
      \/ \E t \in Threads : pc[t] \in {"assigned", "asked"} /\ at[t] = f

\* A call that nobody disturbs is alone with the identity, and has copied what
\* is there.
IdentityInv ==
  \A t \in Threads :
    kind[t] # "transfer" /\ pc[t] # "idle" /\ ~disturbed[t] =>
      /\ writes \notin Identity
      /\ \A u \in Threads \ {t} : pc[u] \notin Lookup
      /\ pc[t] \in Lookup \cup {"check"} /\ at[t] = "tenant" =>
           value["uuid"] \notin {"empty", "torn"}
      /\ pc[t] \in {"time", "secret", "copy", "sent"} =>
           \A f \in Identity : value[f] \notin {"empty", "torn"}
      /\ pc[t] \in {"copy", "sent"} /\ kind[t] = "httpRequestAuthirize" =>
           secret[t] = value["uuid"]
      /\ pc[t] = "sent" \/ (pc[t] = "copy" /\ at[t] = "tenant") => got[t]["uuid"] = value["uuid"]
      /\ pc[t] = "sent" => got[t]["tenant"] = value["tenant"]

\* A torn field is assigned to its end by whoever began.
LEMMA TornStep == HInv /\ TornInv /\ [Next]_vars => TornInv'
<1> SUFFICES ASSUME HInv, TornInv, [Next]_vars PROVE TornInv'
  OBVIOUS
<1> USE DEF HInv, SettingsTypeOK, Places, SetterInv, TornInv, Lookup, Fields,
      Identity, Proxy
<1>1. CASE UNCHANGED vars
  BY <1>1 DEF vars
<1>2. CASE HostStep
  <2>1. CASE SetUUIDInfo
    BY <2>1 DEF SetUUIDInfo
  <2>2. CASE SetProxy
    BY <2>2 DEF SetProxy
  <2>3. CASE KeepField
    BY <2>3 DEF KeepField, After
  <2>4. CASE StartAssign
    BY <2>4 DEF StartAssign
  <2>5. CASE Assign
    BY <2>5, SettingsAssumption DEF Assign, After, Marks
  <2> QED
    BY <1>2, <2>1, <2>2, <2>3, <2>4, <2>5 DEF HostStep
<1>3. ASSUME NEW t \in Threads, IdentityStep(t) PROVE TornInv'
  <2>1. CASE CheckAndSetUrl(t) \/ HttpRequestAuthirize(t)
    <3>1. \A u \in Threads : pc[u] \in {"assigned", "asked"} => pc'[u] = pc[u] /\ at'[u] = at[u]
      BY <2>1 DEF CheckAndSetUrl, HttpRequestAuthirize
    <3>2. UNCHANGED <<value, half, writes>>
      BY <2>1 DEF CheckAndSetUrl, HttpRequestAuthirize
    <3> QED
      BY ONLY TornInv, <3>1, <3>2 DEF TornInv
  <2>2. CASE FindEmpty(t)
    BY <2>2 DEF FindEmpty
  <2>3. CASE FindGiven(t)
    <3>1. \A u \in Threads : pc[u] \in {"assigned", "asked"} => pc'[u] = pc[u] /\ at'[u] = at[u]
      BY <2>3 DEF FindGiven, NextField
    <3>2. UNCHANGED <<value, half, writes>>
      BY <2>3 DEF FindGiven, NextField
    <3> QED
      BY ONLY TornInv, <3>1, <3>2 DEF TornInv
  <2>9. CASE Default(t)
    <3>1. at[t] \in Identity /\ value' = [value EXCEPT ![at[t]] = "default"]
      BY <2>9 DEF Default
    <3>2. \A u \in Threads \ {t} : pc'[u] = pc[u] /\ at'[u] = at[u]
      BY <2>9 DEF Default, NextField
    <3>3. half' = half /\ writes' = writes
      BY <2>9 DEF Default
    <3> QED
      <4>1. ASSUME NEW f \in Identity, value'[f] = "torn" PROVE f # at[t] /\ value[f] = "torn"
        BY <3>1, <4>1
      <4> QED
        BY ONLY <3>2, <3>3, <4>1, TornInv DEF TornInv
  <2>4. CASE StartDefault(t)
    BY <2>4 DEF StartDefault
  <2>5. CASE ConfigDefault(t) \/ StillEmpty(t)
    BY <2>5 DEF ConfigDefault, StillEmpty
  <2>6. CASE TimeReply(t) \/ GetSecret(t)
    BY <2>6 DEF TimeReply, GetSecret
  <2>7. CASE Copy(t)
    BY <2>7 DEF Copy
  <2>8. CASE IdentityReturn(t)
    BY <2>8 DEF IdentityReturn
  <2> QED
    BY <1>3, <2>1, <2>2, <2>3, <2>4, <2>5, <2>6, <2>7, <2>8, <2>9 DEF IdentityStep
<1>4. ASSUME NEW t \in Threads, ProxyStep(t) PROVE TornInv'
  <2>1. CASE Transfer(t) \/ UnlockedTransfer(t)
    BY <2>1 DEF Transfer, UnlockedTransfer, BeginTransfer
  <2>2. CASE CheckIp(t) \/ CheckPort(t)
    BY <2>2 DEF CheckIp, CheckPort
  <2>3. CASE FormatIp(t) \/ FormatPort(t)
    <3>1. \A u \in Threads : pc[u] \in {"assigned", "asked"} => pc'[u] = pc[u] /\ at'[u] = at[u]
      BY <2>3 DEF FormatIp, FormatPort
    <3>2. UNCHANGED <<value, half, writes>>
      BY <2>3 DEF FormatIp, FormatPort
    <3> QED
      BY ONLY TornInv, <3>1, <3>2 DEF TornInv
  <2>4. CASE SkipLogin(t) \/ FindLogin(t)
    <3>1. \A u \in Threads : pc[u] \in {"assigned", "asked"} => pc'[u] = pc[u] /\ at'[u] = at[u]
      BY <2>4 DEF SkipLogin, NextLogin, FindLogin
    <3>2. UNCHANGED <<value, half, writes>>
      BY <2>4 DEF SkipLogin, NextLogin, FindLogin
    <3> QED
      BY ONLY TornInv, <3>1, <3>2 DEF TornInv
  <2>5. CASE CopyLogin(t)
    <3>1. \A u \in Threads : pc[u] \in {"assigned", "asked"} => pc'[u] = pc[u] /\ at'[u] = at[u]
      BY <2>5 DEF CopyLogin, NextLogin
    <3>2. UNCHANGED <<value, half, writes>>
      BY <2>5 DEF CopyLogin, NextLogin
    <3> QED
      BY ONLY TornInv, <3>1, <3>2 DEF TornInv
  <2>6. CASE TransferReturn(t)
    BY <2>6 DEF TransferReturn
  <2> QED
    BY <1>4, <2>1, <2>2, <2>3, <2>4, <2>5, <2>6 DEF ProxyStep
<1> QED
  BY <1>1, <1>2, <1>3, <1>4 DEF Next

\* An undisturbed call is the only one to write the identity.
LEMMA IdentityInvStep == HInv /\ TornInv /\ IdentityInv /\ [Next]_vars => IdentityInv'
<1> SUFFICES ASSUME HInv, TornInv, IdentityInv, [Next]_vars PROVE IdentityInv'
  OBVIOUS
<1> USE SettingsAssumption DEF HInv, SettingsTypeOK, PCs, Kinds, Places, TornInv,
      IdentityInv, IdentityPCs, ProxyPCs, Lookup, Fields, Identity, Proxy
<1>1. CASE UNCHANGED vars
  BY <1>1 DEF vars
<1>2. CASE HostStep
  <2>1. CASE SetUUIDInfo
    <3>1. Disturb(Identity, NoThread)
      BY <2>1 DEF SetUUIDInfo
    <3>2. \A u \in Threads : /\ disturbed[u] => disturbed'[u]
                             /\ u # NoThread /\ pc[u] # "idle" /\ ~disturbed'[u] => kind[u] = "transfer"
      BY ONLY SMTT(30), <3>1, IdentityDisturbs, HInv DEF HInv
    <3> QED
      BY <2>1, <3>2 DEF SetUUIDInfo
  <2>2. CASE SetProxy
    <3>1. Disturb(Proxy, NoThread)
      BY <2>2 DEF SetProxy
    <3>2. \A u \in Threads : /\ disturbed[u] => disturbed'[u]
                             /\ u # NoThread /\ pc[u] # "idle" /\ ~disturbed'[u] => kind[u] # "transfer"
      BY ONLY SMTT(30), <3>1, ProxyDisturbs, HInv DEF HInv
    <3> QED
      BY <2>2, <3>2 DEF SetProxy
  <2>3. CASE KeepField
    BY <2>3 DEF KeepField, After
  <2>4. CASE StartAssign
    BY <2>4 DEF StartAssign
  <2>5. CASE Assign
    BY <2>5 DEF Assign, After
  <2> QED
    BY <1>2, <2>1, <2>2, <2>3, <2>4, <2>5 DEF HostStep
<1>3. ASSUME NEW t \in Threads, IdentityStep(t) PROVE IdentityInv'
  <2>1. CASE CheckAndSetUrl(t) \/ HttpRequestAuthirize(t)
    <3>1. /\ \A u \in Threads \ {t} : pc'[u] = pc[u] /\ kind'[u] = kind[u] /\ at'[u] = at[u]
          /\ \A u \in Threads \ {t} : disturbed'[u] = disturbed[u]
      BY <2>1 DEF CheckAndSetUrl, Begin, HttpRequestAuthirize
    <3>2. pc'[t] = "check" /\ at'[t] = "uuid" /\ pc[t] = "idle"
      BY <2>1 DEF CheckAndSetUrl, HttpRequestAuthirize
    <3>3. ~disturbed'[t] => writes \notin Identity /\ \A f \in Identity : Filling(f) = {}
      <4>1. disturbed' = [disturbed EXCEPT ![t] =
              writes \in Identity \/ \E f \in Identity : Filling(f) # {}]
        BY ONLY <2>1 DEF CheckAndSetUrl, Begin, HttpRequestAuthirize
      <4>2. disturbed'[t] = (writes \in Identity \/ \E f \in Identity : Filling(f) # {})
        BY ONLY <4>1, SettingsTypeOK, t \in Threads DEF SettingsTypeOK
      <4> QED
        BY ONLY <4>2
    <3>4. ASSUME ~disturbed'[t], NEW u \in Threads PROVE pc[u] \notin Lookup
      <4>1. pc[u] \in Lookup => at[u] \in Identity
        BY ONLY Places DEF Places
      <4>2. pc[u] \in Lookup => Filling(at[u]) = {}
        BY ONLY <4>1, <3>3, <3>4
      <4> QED
        BY ONLY <4>2, NobodyFills
    <3>5. UNCHANGED <<value, writes, got, secret>>
      BY <2>1 DEF CheckAndSetUrl, HttpRequestAuthirize
    <3> QED
      BY <3>1, <3>2, <3>3, <3>4, <3>5
  <2>2. CASE FindEmpty(t)
    <3>1. Disturb(Identity, t)
      BY <2>2 DEF FindEmpty
    <3>2. \A u \in Threads : /\ disturbed[u] => disturbed'[u]
                             /\ u # t /\ pc[u] # "idle" /\ ~disturbed'[u] => kind[u] = "transfer"
      BY ONLY <3>1, IdentityDisturbs, HInv, t \in Threads DEF HInv
    <3> QED
      BY <2>2, <3>2 DEF FindEmpty
  <2>3. CASE FindGiven(t) \/ Default(t)
    BY <2>3 DEF FindGiven, NextField, Default
  <2>4. CASE StartDefault(t)
    BY <2>4 DEF StartDefault
  <2>5. CASE ConfigDefault(t) \/ StillEmpty(t)
    BY <2>5 DEF ConfigDefault, StillEmpty
  <2>6. CASE TimeReply(t) \/ GetSecret(t)
    BY <2>6 DEF TimeReply, GetSecret
  <2>7. CASE Copy(t)
    BY <2>7 DEF Copy
  <2>8. CASE IdentityReturn(t)
    BY <2>8 DEF IdentityReturn
  <2> QED
    BY <1>3, <2>1, <2>2, <2>3, <2>4, <2>5, <2>6, <2>7, <2>8 DEF IdentityStep
<1>4. ASSUME NEW t \in Threads, ProxyStep(t) PROVE IdentityInv'
  <2>1. CASE Transfer(t) \/ UnlockedTransfer(t)
    BY <2>1 DEF Transfer, UnlockedTransfer, BeginTransfer
  <2>2. CASE CheckIp(t) \/ CheckPort(t)
    BY <2>2 DEF CheckIp, CheckPort
  <2>3. CASE FormatIp(t) \/ FormatPort(t)
    BY <2>3 DEF FormatIp, FormatPort
  <2>4. CASE SkipLogin(t) \/ FindLogin(t)
    BY <2>4 DEF SkipLogin, NextLogin, FindLogin
  <2>5. CASE CopyLogin(t)
    BY <2>5 DEF CopyLogin, NextLogin
  <2>6. CASE TransferReturn(t)
    BY <2>6 DEF TransferReturn
  <2> QED
    BY <1>4, <2>1, <2>2, <2>3, <2>4, <2>5, <2>6 DEF ProxyStep
<1> QED
  BY <1>1, <1>2, <1>3, <1>4 DEF Next

----------------------------------------------------------------------------
\* Nothing is set, nobody calls.
LEMMA DeepInit == Init => RaceInv /\ TransferInv /\ TornInv /\ IdentityInv
<1> SUFFICES ASSUME Init PROVE RaceInv /\ TransferInv /\ TornInv /\ IdentityInv
  OBVIOUS
<1> USE DEF Init, Lookup, Fields, Identity
<1>1. RaceInv
  BY DEF RaceInv
<1>2. TransferInv /\ IdentityInv
  BY DEF TransferInv, IdentityInv
<1>3. TornInv
  BY DEF TornInv
<1> QED
  BY <1>1, <1>2, <1>3

LEMMA HInvAlways == Spec => []HInv
<1>1. HInv /\ [Next]_vars => HInv'
  BY TypeStep, PlacesStep, SetterStep DEF HInv
<1> QED
  BY <1>1, HInvInit, PTL DEF Spec

LEMMA DeepAlways == Spec => [](RaceInv /\ TransferInv /\ TornInv /\ IdentityInv)
<1> DEFINE Deep == RaceInv /\ TransferInv /\ TornInv /\ IdentityInv
<1>1. Init => Deep
  BY DeepInit
<1>2. HInv /\ Deep /\ [Next]_vars => Deep'
  BY RaceStep, TransferStep, TornStep, IdentityInvStep
<1> QED
  BY <1>1, <1>2, HInvAlways, PTL DEF Spec

----------------------------------------------------------------------------
\* The variables keep their types: a setting comes from the host, is a default,
\* is empty, or is torn while somebody assigns it.
THEOREM SettingsHaveTypes == Spec => []SettingsTypeOK
<1>1. HInv => SettingsTypeOK
  BY DEF HInv
<1> QED
  BY <1>1, HInvAlways, PTL

\* setChannelUUIDInfo is not overwritten by the defaults of getChannelUUIDInfo,
\* except by one whose field was found empty before.
THEOREM HostSettingsStay == Spec => []HostIdentityStays
<1>1. RaceInv => HostIdentityStays
  BY DEF RaceInv, HostIdentityStays
<1> QED
  BY <1>1, DeepAlways, PTL

\* URLs and secrets are made of the identity of the host, or of the default.
THEOREM UrlsNameTheHost == Spec => []IdentityIsHosts
<1>1. ASSUME HInv, RaceInv, IdentityInv PROVE IdentityIsHosts
  <2> SUFFICES ASSUME NEW t \in Threads, pc[t] = "sent", ~disturbed[t]
               PROVE  /\ kind[t] = "httpRequestAuthirize" => secret[t] = got[t]["uuid"]
                      /\ \A f \in Identity :
                           /\ got[t][f] \notin {"empty", "torn"}
                           /\ ~raced[f] =>
                                got[t][f] = IF given[f] = "empty" THEN "default" ELSE given[f]
    BY DEF IdentityIsHosts
  <2>1. kind[t] # "transfer"
    BY <1>1 DEF HInv, Places, IdentityPCs
  <2>2. /\ writes \notin Identity
        /\ \A f \in Identity : value[f] \notin {"empty", "torn"}
        /\ kind[t] = "httpRequestAuthirize" => secret[t] = value["uuid"]
        /\ got[t]["uuid"] = value["uuid"] /\ got[t]["tenant"] = value["tenant"]
    BY <1>1, <2>1 DEF IdentityInv
  <2>3. \A f \in Identity : got[t][f] = value[f]
    BY <2>2 DEF Identity
  <2>4. \A f \in Identity : ~raced[f] =>
          value[f] = IF given[f] = "empty" THEN "default" ELSE given[f]
    BY <1>1, <2>2 DEF RaceInv
  <2> QED
    BY <2>2, <2>3, <2>4
<1> QED
  BY <1>1, HInvAlways, DeepAlways, PTL

\* setProxy leaves a transfer with the proxy and credentials that are set; a
\* handle that was made for the transfer has no others.
THEOREM TransfersUseTheProxy == Spec => []TransferUsesProxy
<1>1. ASSUME HInv, TransferInv PROVE TransferUsesProxy
  <2> SUFFICES ASSUME NEW t \in Threads, pc[t] = "perform", ~disturbed[t]
               PROVE  /\ value["ip"] # "empty" =>
                           \A f \in Proxy : value[f] # "empty" => opts[f] = value[f]
                      /\ fresh[t] => opts = [f \in Proxy |-> value[f]]
    BY DEF TransferUsesProxy
  <2>1. kind[t] = "transfer"
    BY <1>1 DEF HInv, Places, ProxyPCs
  <2>2. opts \in [Proxy -> Values]
    BY <1>1 DEF HInv, SettingsTypeOK
  <2> QED
    BY <1>1, <2>1, <2>2 DEF TransferInv
<1> QED
  BY <1>1, HInvAlways, DeepAlways, PTL
=============================================================================
