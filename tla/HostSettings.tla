---------------------------- MODULE HostSettings ----------------------------
(***************************************************************************)
(* What the host may set at any time and the calls read without a mutex:   *)
(* its identity (uuid and tenant), which getChannelUUIDInfo completes with *)
(* defaults, and the proxy with its credentials, which setProxy copies     *)
(* into the options of a static CURL handle.                               *)
(*                                                                         *)
(* The value of a field is the call of the host that it comes from.  A     *)
(* std::string is assigned in two steps, with the value "torn" between     *)
(* them.  One thread of the host calls the setters.                        *)
(***************************************************************************)
EXTENDS Naturals

CONSTANTS
  Threads,    \* the threads that call the library
  NoThread,
  Settings,   \* what the host may set
  MaxCalls,   \* bound: calls per thread
  MaxSets     \* bound: calls of the setters

Marks == {"empty", "default", "torn", "keep"}

ASSUME SettingsAssumption ==
  /\ Settings \cap Marks = {} /\ NoThread \notin Threads
  /\ MaxCalls \in Nat /\ MaxSets \in Nat

Identity == {"uuid", "tenant"}
Proxy    == {"ip", "port", "user", "password"}
Fields   == Identity \cup Proxy
Values   == Settings \cup {"empty", "default", "torn"}

Kinds == {"CheckAndSetUrl", "httpRequestAuthirize", "transfer"}

Lookup == {"assign", "assigned", "recheck", "ask", "asked"}
PCs == Lookup \cup
       {"idle", "check", "time", "secret", "copy", "sent", "checkIp", "checkPort",
        "formatIp", "formatPort", "checkLogin", "copyLogin", "perform"}

VARIABLES
  value,      \* m_strUUID, m_strTenantId and the static proxy settings
  writes,     \* the field that the setter is at, or "none"
  half,       \* that field is being assigned
  new,        \* the arguments of the setter
  sets,       \* calls of the setters that are left
  opts,       \* the proxy options of the static handle
  lock,       \* the call mutex of the handle, and m_rwAuthirizeMutex
  pc, kind,
  at,         \* the field that a call is at
  got,        \* what it has copied of the identity
  secret,     \* the uuid that the secret was made of
  fresh,      \* the handle was made anew for the call
  calls,      \* calls that are left
  given,      \* observed: what the host has set last
  raced,      \* observed: a default was looked up during that
  disturbed   \* observed: what a call reads was written during the call

hostVars  == <<writes, half, new, sets>>
callVars  == <<lock, pc, kind, at, calls>>
dataVars  == <<got, secret, fresh>>
ghostVars == <<given, raced, disturbed>>
vars == <<value, hostVars, opts, callVars, dataVars, ghostVars>>

SettingsTypeOK ==
  /\ value \in [Fields -> Values] /\ opts \in [Proxy -> Values]
  /\ writes \in Fields \cup {"none"} /\ half \in BOOLEAN
  /\ new \in [Fields -> Settings \cup {"empty", "keep"}] /\ sets \in 0..MaxSets
  /\ lock \in [{"handle", "auth"} -> Threads \cup {NoThread}]
  /\ pc \in [Threads -> PCs] /\ kind \in [Threads -> Kinds] /\ calls \in [Threads -> 0..MaxCalls]
  /\ at \in [Threads -> Fields] /\ got \in [Threads -> [Identity -> Values]]
  /\ secret \in [Threads -> Values] /\ fresh \in [Threads -> BOOLEAN]
  /\ given \in [Identity -> Settings \cup {"empty"}] /\ raced \in [Identity -> BOOLEAN]
  /\ disturbed \in [Threads -> BOOLEAN]

Init ==
  /\ value = [f \in Fields |-> "empty"] /\ opts = [f \in Proxy |-> "empty"]
  /\ writes = "none" /\ half = FALSE /\ new = [f \in Fields |-> "keep"] /\ sets = MaxSets
  /\ lock = [l \in {"handle", "auth"} |-> NoThread]
  /\ pc = [t \in Threads |-> "idle"] /\ kind = [t \in Threads |-> "transfer"]
  /\ at = [t \in Threads |-> "uuid"]
  /\ got = [t \in Threads |-> [f \in Identity |-> "empty"]]
  /\ secret = [t \in Threads |-> "empty"] /\ fresh = [t \in Threads |-> FALSE]
  /\ calls = [t \in Threads |-> MaxCalls]
  /\ given = [f \in Identity |-> "empty"] /\ raced = [f \in Identity |-> FALSE]
  /\ disturbed = [t \in Threads |-> FALSE]

----------------------------------------------------------------------------
Goto(t, from, to) == pc[t] = from /\ pc' = [pc EXCEPT ![t] = to]

\* The fields that a call in progress reads.
Reads(t) == IF pc[t] = "idle" THEN {} ELSE IF kind[t] = "transfer" THEN Proxy ELSE Identity

\* Threads between finding a field empty and having filled it.
Filling(f) == {t \in Threads : pc[t] \in Lookup /\ at[t] = f}

Disturb(fs, t) ==
  disturbed' = [u \in Threads |-> disturbed[u] \/ (u # t /\ Reads(u) \cap fs # {})]

----------------------------------------------------------------------------
(* The setters.                                                            *)

\* An empty argument keeps what there is.
SetUUIDInfo ==
  /\ writes = "none" /\ sets > 0 /\ sets' = sets - 1
  /\ \E s \in Settings, fs \in SUBSET Identity :
       new' = [f \in Fields |-> IF f \in fs THEN s ELSE "keep"]
  /\ writes' = "uuid"
  /\ Disturb(Identity, NoThread)
  /\ UNCHANGED <<value, half, opts, callVars, dataVars, given, raced>>

\* A proxy with all, some or none of its credentials, or none at all.
SetProxy ==
  /\ writes = "none" /\ sets > 0 /\ sets' = sets - 1
  /\ \E s \in Settings, fs \in {{}} \cup {{"ip", "port"} \cup ls : ls \in SUBSET {"user", "password"}} :
       new' = [f \in Fields |-> IF f \in fs THEN s ELSE "empty"]
  /\ writes' = "ip"
  /\ Disturb(Proxy, NoThread)
  /\ UNCHANGED <<value, half, opts, callVars, dataVars, given, raced>>

After(f) == CASE f = "uuid" -> "tenant" [] f = "ip" -> "port"
              [] f = "port" -> "user" [] f = "user" -> "password"
              [] OTHER -> "none"

KeepField ==
  /\ writes # "none" /\ new[writes] = "keep"
  /\ writes' = After(writes)
  /\ UNCHANGED <<value, half, new, sets, opts, callVars, dataVars, ghostVars>>

StartAssign ==
  /\ writes \notin {"none", "port"} /\ new[writes] # "keep" /\ ~half /\ half' = TRUE
  /\ value' = [value EXCEPT ![writes] = "torn"]
  /\ raced' = IF writes \in Identity THEN [raced EXCEPT ![writes] = Filling(writes) # {}]
              ELSE raced
  /\ UNCHANGED <<writes, new, sets, opts, callVars, dataVars, given, disturbed>>

\* The port is an int.
Assign ==
  /\ half \/ writes = "port"
  /\ value' = [value EXCEPT ![writes] = new[writes]]
  /\ given' = IF writes \in Identity THEN [given EXCEPT ![writes] = new[writes]] ELSE given
  /\ writes' = After(writes) /\ half' = FALSE
  /\ UNCHANGED <<new, sets, opts, callVars, dataVars, raced, disturbed>>

----------------------------------------------------------------------------
(* Calls that read the identity.                                           *)

Begin(t, k) ==
  /\ calls[t] > 0 /\ calls' = [calls EXCEPT ![t] = @ - 1]
  /\ kind' = [kind EXCEPT ![t] = k]
  /\ disturbed' = [disturbed EXCEPT ![t] =
       writes \in Identity \/ \E f \in Identity : Filling(f) # {}]

CheckAndSetUrl(t) ==
  /\ Begin(t, "CheckAndSetUrl")
  /\ Goto(t, "idle", "check")
  /\ at' = [at EXCEPT ![t] = "uuid"]
  /\ UNCHANGED <<value, hostVars, opts, lock, dataVars, given, raced>>

\* Mutant: the identity is not completed first.
AuthirizeIncomplete(t) ==
  /\ lock["auth"] = NoThread /\ lock' = [lock EXCEPT !["auth"] = t]
  /\ Begin(t, "httpRequestAuthirize")
  /\ Goto(t, "idle", "time")
  /\ at' = [at EXCEPT ![t] = "uuid"]
  /\ UNCHANGED <<value, hostVars, opts, dataVars, given, raced>>

\* The mutex is m_rwAuthirizeMutex.
HttpRequestAuthirize(t) ==
  /\ lock["auth"] = NoThread /\ lock' = [lock EXCEPT !["auth"] = t]
  /\ Begin(t, "httpRequestAuthirize")
  /\ Goto(t, "idle", "check")
  /\ at' = [at EXCEPT ![t] = "uuid"]
  /\ UNCHANGED <<value, hostVars, opts, dataVars, given, raced>>

\* After the uuid the tenant; then CheckAndSetUrl copies both, and an
\* authorization asks for the time.
NextField(t) ==
  IF at[t] = "uuid"
  THEN at' = [at EXCEPT ![t] = "tenant"] /\ pc' = [pc EXCEPT ![t] = "check"]
  ELSE /\ at' = [at EXCEPT ![t] = "uuid"]
       /\ pc' = [pc EXCEPT ![t] = IF kind[t] = "CheckAndSetUrl" THEN "copy" ELSE "time"]

\* Mutant: a default is looked up in any case.
FindAlways(t) ==
  /\ Goto(t, "check", "assign")
  /\ Disturb(Identity, t)
  /\ raced' = [raced EXCEPT ![at[t]] = @ \/ (half /\ writes = at[t])]
  /\ UNCHANGED <<value, hostVars, opts, lock, kind, at, calls, dataVars, given>>

\* m_strUUID.empty(), which may answer anything of a torn string.
FindEmpty(t) ==
  /\ value[at[t]] \in {"empty", "torn"}
  /\ Goto(t, "check", "assign")
  /\ Disturb(Identity, t)
  /\ raced' = [raced EXCEPT ![at[t]] = @ \/ (half /\ writes = at[t])]
  /\ UNCHANGED <<value, hostVars, opts, lock, kind, at, calls, dataVars, given>>

FindGiven(t) ==
  /\ pc[t] \in {"check", "recheck"} /\ value[at[t]] # "empty"
  /\ NextField(t)
  /\ UNCHANGED <<value, hostVars, opts, lock, kind, calls, dataVars, ghostVars>>

\* What the configuration knows is assigned without looking again, even if it
\* is nothing; then EdrUUid is asked.
StartDefault(t) ==
  /\ \/ Goto(t, "assign", "assigned")
     \/ Goto(t, "ask", "asked")
  /\ value' = [value EXCEPT ![at[t]] = "torn"]
  /\ UNCHANGED <<hostVars, opts, lock, kind, at, calls, dataVars, ghostVars>>

ConfigDefault(t) ==
  /\ Goto(t, "assigned", "recheck")
  /\ \E v \in {"default", "empty"} : value' = [value EXCEPT ![at[t]] = v]
  /\ UNCHANGED <<hostVars, opts, lock, kind, at, calls, dataVars, ghostVars>>

StillEmpty(t) ==
  /\ value[at[t]] \in {"empty", "torn"}
  /\ Goto(t, "recheck", "ask")
  /\ UNCHANGED <<value, hostVars, opts, lock, kind, at, calls, dataVars, ghostVars>>

Default(t) ==
  /\ pc[t] = "asked"
  /\ value' = [value EXCEPT ![at[t]] = "default"]
  /\ NextField(t)
  /\ UNCHANGED <<hostVars, opts, lock, kind, calls, dataVars, ghostVars>>

\* The answer with the time comes, or the authorization fails.
TimeReply(t) ==
  /\ Goto(t, "time", "secret")
  /\ UNCHANGED <<value, hostVars, opts, lock, kind, at, calls, dataVars, ghostVars>>

\* GenSecret reads m_strUUID, and the URL reads it again.
GetSecret(t) ==
  /\ Goto(t, "secret", "copy")
  /\ secret' = [secret EXCEPT ![t] = value["uuid"]]
  /\ UNCHANGED <<value, hostVars, opts, lock, kind, at, calls, got, fresh, ghostVars>>

Copy(t) ==
  /\ pc[t] = "copy"
  /\ got' = [got EXCEPT ![t][at[t]] = value[at[t]]]
  /\ IF at[t] = "uuid" THEN at' = [at EXCEPT ![t] = "tenant"] /\ UNCHANGED pc
     ELSE pc' = [pc EXCEPT ![t] = "sent"] /\ UNCHANGED at
  /\ UNCHANGED <<value, hostVars, opts, lock, kind, calls, secret, fresh, ghostVars>>

IdentityReturn(t) ==
  /\ pc[t] \in {"time", "sent"}
  /\ pc' = [pc EXCEPT ![t] = "idle"] /\ at' = [at EXCEPT ![t] = "uuid"]
  /\ lock' = [lock EXCEPT !["auth"] = IF @ = t THEN NoThread ELSE @]
  /\ got' = [got EXCEPT ![t] = [f \in Identity |-> "empty"]]
  /\ secret' = [secret EXCEPT ![t] = "empty"] /\ disturbed' = [disturbed EXCEPT ![t] = FALSE]
  /\ UNCHANGED <<value, hostVars, opts, kind, calls, fresh, given, raced>>

----------------------------------------------------------------------------
(* Transfers: setProxy.  Those under the mutex of the handle take turns.    *)

Transferring == {t \in Threads : pc[t] # "idle" /\ kind[t] = "transfer"}

\* Transfers that overlap mix their options.
BeginTransfer(t) ==
  /\ calls[t] > 0 /\ calls' = [calls EXCEPT ![t] = @ - 1]
  /\ Goto(t, "idle", "checkIp")
  /\ kind' = [kind EXCEPT ![t] = "transfer"]
  /\ disturbed' = [u \in Threads |-> IF u = t THEN writes \in Proxy \/ Transferring # {}
                                     ELSE disturbed[u] \/ u \in Transferring]

\* Mutant: the handle that is made anew has the options of the old one.
TransferKeepsOptions(t) ==
  /\ BeginTransfer(t)
  /\ lock["handle"] = NoThread /\ lock' = [lock EXCEPT !["handle"] = t]
  /\ \E renew \in BOOLEAN : fresh' = [fresh EXCEPT ![t] = renew]
  /\ UNCHANGED <<value, hostVars, opts, at, got, secret, given, raced>>

\* A request may find that the handle is to be closed, and has a new one.
Transfer(t) ==
  /\ BeginTransfer(t)
  /\ lock["handle"] = NoThread /\ lock' = [lock EXCEPT !["handle"] = t]
  /\ \E renew \in BOOLEAN :
       /\ fresh' = [fresh EXCEPT ![t] = renew]
       /\ opts' = IF renew THEN [f \in Proxy |-> "empty"] ELSE opts
  /\ UNCHANGED <<value, hostVars, at, got, secret, given, raced>>

\* LIBHTTPGetAuthLocalIp authorizes under m_rwAuthirizeMutex alone.
UnlockedTransfer(t) ==
  /\ BeginTransfer(t)
  /\ lock["auth"] = NoThread /\ lock' = [lock EXCEPT !["auth"] = t]
  /\ fresh' = [fresh EXCEPT ![t] = FALSE]
  /\ UNCHANGED <<value, hostVars, opts, at, got, secret, given, raced>>

proxyVars == <<value, hostVars, lock, kind, calls, dataVars, ghostVars>>

CheckIp(t) ==
  /\ \/ value["ip"] # "empty" /\ Goto(t, "checkIp", "checkPort")
     \/ value["ip"] \in {"empty", "torn"} /\ Goto(t, "checkIp", "perform")
  /\ UNCHANGED <<opts, at, proxyVars>>

CheckPort(t) ==
  /\ Goto(t, "checkPort", IF value["port"] = "empty" THEN "perform" ELSE "formatIp")
  /\ UNCHANGED <<opts, at, proxyVars>>

\* Address and port are read once more, into one text.
FormatIp(t) ==
  /\ Goto(t, "formatIp", "formatPort")
  /\ opts' = [opts EXCEPT !["ip"] = value["ip"]]
  /\ UNCHANGED <<at, proxyVars>>

FormatPort(t) ==
  /\ Goto(t, "formatPort", "checkLogin")
  /\ opts' = [opts EXCEPT !["port"] = value["port"]]
  /\ at' = [at EXCEPT ![t] = "user"]
  /\ UNCHANGED proxyVars

NextLogin(t) ==
  IF at[t] = "user"
  THEN at' = [at EXCEPT ![t] = "password"] /\ pc' = [pc EXCEPT ![t] = "checkLogin"]
  ELSE at' = [at EXCEPT ![t] = "uuid"] /\ pc' = [pc EXCEPT ![t] = "perform"]

\* An empty user name or password leaves the option as it is.
SkipLogin(t) ==
  /\ pc[t] = "checkLogin" /\ value[at[t]] \in {"empty", "torn"}
  /\ NextLogin(t)
  /\ UNCHANGED <<opts, proxyVars>>

FindLogin(t) ==
  /\ value[at[t]] # "empty"
  /\ Goto(t, "checkLogin", "copyLogin")
  /\ UNCHANGED <<opts, at, proxyVars>>

CopyLogin(t) ==
  /\ pc[t] = "copyLogin"
  /\ opts' = [opts EXCEPT ![at[t]] = value[at[t]]]
  /\ NextLogin(t)
  /\ UNCHANGED proxyVars

TransferReturn(t) ==
  /\ Goto(t, "perform", "idle")
  /\ lock' = [l \in {"handle", "auth"} |-> IF lock[l] = t THEN NoThread ELSE lock[l]]
  /\ fresh' = [fresh EXCEPT ![t] = FALSE] /\ disturbed' = [disturbed EXCEPT ![t] = FALSE]
  /\ UNCHANGED <<value, hostVars, opts, kind, at, calls, got, secret, given, raced>>

----------------------------------------------------------------------------
HostStep == SetUUIDInfo \/ SetProxy \/ KeepField \/ StartAssign \/ Assign

IdentityStep(t) ==
  \/ CheckAndSetUrl(t) \/ HttpRequestAuthirize(t)
  \/ FindEmpty(t) \/ FindGiven(t) \/ StartDefault(t)
  \/ ConfigDefault(t) \/ StillEmpty(t) \/ Default(t)
  \/ TimeReply(t) \/ GetSecret(t) \/ Copy(t) \/ IdentityReturn(t)

ProxyStep(t) ==
  \/ Transfer(t) \/ UnlockedTransfer(t) \/ CheckIp(t) \/ CheckPort(t)
  \/ FormatIp(t) \/ FormatPort(t)
  \/ SkipLogin(t) \/ FindLogin(t) \/ CopyLogin(t) \/ TransferReturn(t)

Next == HostStep \/ \E t \in Threads : IdentityStep(t) \/ ProxyStep(t)

Spec == Init /\ [][Next]_vars

----------------------------------------------------------------------------
\* What the host has set of its identity stays, unless a call that had found
\* the field empty was about to fill it with a default.
HostIdentityStays ==
  \A f \in Identity :
    given[f] # "empty" /\ ~raced[f] /\ ~(half /\ writes = f) => value[f] = given[f]

\* A call during which nobody writes the identity sends what the host has set,
\* or else a default, never a part of it; and the secret of an authorization is
\* made of the uuid that its URL names.
IdentityIsHosts ==
  \A t \in Threads :
    pc[t] = "sent" /\ ~disturbed[t] =>
      /\ kind[t] = "httpRequestAuthirize" => secret[t] = got[t]["uuid"]
      /\ \A f \in Identity :
           /\ got[t][f] \notin {"empty", "torn"}
           /\ ~raced[f] => got[t][f] = IF given[f] = "empty" THEN "default" ELSE given[f]

\* A transfer during which the host does not set the proxy, and which overlaps
\* no other on the handle, goes through the proxy that is set, with the
\* credentials that are set; only a handle that is not new can have an earlier
\* proxy, or credentials of one, where none is set.
TransferUsesProxy ==
  \A t \in Threads :
    pc[t] = "perform" /\ ~disturbed[t] =>
      /\ value["ip"] # "empty" =>
           \A f \in Proxy : value[f] # "empty" => opts[f] = value[f]
      /\ fresh[t] => opts = [f \in Proxy |-> value[f]]
=============================================================================
