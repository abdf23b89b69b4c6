-------------------------- MODULE CurlHandleProofs --------------------------
(* The safety properties of the options of a handle, for any speeds,       *)
(* lengths and timeouts and any width of an int.                           *)
EXTENDS CurlHandle, TLAPS

\* What an int holds of a number that fits.
LEMMA IntHolds ==
  /\ \A n \in Nat : n < 2^(Width - 1) => AsInt(n) = n
  /\ \A n \in Int : AsInt(n) \in Int
BY HandleAssumption, PowersAssumption DEF AsInt

\* The constants and what the state has of them.
LEMMA Sizes ==
  /\ Speeds \subseteq Int /\ Lengths \subseteq Nat /\ Timeouts \subseteq Nat
  /\ MaxWriteSize \in Nat \ {0} /\ DefaultTimeout \in Nat \ {0}
BY HandleAssumption

LEMMA NatOrZero == ASSUME NEW S, S \subseteq Nat, NEW x \in S \cup {0} PROVE x \in Nat
OBVIOUS

LEMMA IntOrZero == ASSUME NEW S, S \subseteq Int, NEW x \in S \cup {0} PROVE x \in Int
OBVIOUS

LEMMA Numbers ==
  ASSUME OptTypeOK, NEW c \in Callers
  PROVE  /\ up \in Int /\ down \in Int
         /\ args[c].len \in Nat /\ args[c].timeout \in Nat
         /\ opts.timeout \in Nat
         /\ TimeoutOf(c) \in Nat
<1>1. up \in Speeds \cup {0} /\ down \in Speeds \cup {0}
  BY DEF OptTypeOK
<1>2. args[c].len \in Lengths \cup {0} /\ args[c].timeout \in Timeouts \cup {0}
  BY DEF OptTypeOK
<1>3. opts.timeout \in Nat
  BY DEF OptTypeOK
<1>4. up \in Int /\ down \in Int
  BY ONLY <1>1, Sizes, IntOrZero
<1>5. args[c].len \in Nat /\ args[c].timeout \in Nat
  BY ONLY <1>2, Sizes, NatOrZero
<1> QED
  BY <1>3, <1>4, <1>5, Sizes DEF TimeoutOf

\* The time that a request needs is a number.
LEMMA NeededIsInt ==
  ASSUME OptTypeOK, NEW c \in Callers, up # 0
  PROVE  Needed(c) \in Int
<1>1. up \in Int \ {0} /\ args[c].len \in Nat
  BY Numbers
<1>2. Quotient(args[c].len, up) \in Int
  <2>1. CASE up > 0
    BY <1>1, <2>1 DEF Quotient
  <2>2. CASE up < 0
    <3>1. -up \in Nat \ {0}
      BY <1>1, <2>2
    <3>2. args[c].len \div (-up) \in Int
      BY <1>1, <3>1
    <3> QED
      BY <1>1, <2>2, <3>2 DEF Quotient
  <2> QED
    BY <1>1, <2>1, <2>2
<1> QED
  BY <1>2 DEF Needed

\* The buffer that is asked for exceeds neither limit.
LEMMA BufferFits ==
  ASSUME OptTypeOK
  PROVE  /\ BufferSize \in Speeds \cup {MaxWriteSize}
         /\ \A limit \in {down, up} \ {0} : BufferSize <= limit
<1>1. down \in Int /\ up \in Int /\ down \in Speeds \cup {0} /\ up \in Speeds \cup {0}
      /\ MaxWriteSize \in Nat \ {0}
  BY Sizes, Numbers DEF OptTypeOK, Callers
<1> QED
  BY <1>1 DEF BufferSize

\* What a handle holds when it is made, and after the data of a call aged.
OptionSet ==
  [post : BOOLEAN, fields : Points, size : Points \cup {"zero"},
   headers : Points, target : Points, recv : Speeds \cup {0},
   send : Speeds \cup {0}, buffer : Speeds \cup {MaxWriteSize}, timeout : Nat]

LEMMA FreshIsOptions == Fresh \in OptionSet
BY DEF Fresh, OptionSet, Points

LEMMA BodyIsOptions ==
  ASSUME OptTypeOK, NEW c \in Callers
  PROVE  Body(c) \in OptionSet
<1>1. ASSUME NEW o \in OptionSet, NEW p \in BOOLEAN, NEW f \in Points, NEW z \in Points \cup {"zero"}
      PROVE  [o EXCEPT !.post = p, !.fields = f, !.size = z] \in OptionSet
  BY DEF OptionSet
<1>2. opts \in OptionSet /\ opts.post \in BOOLEAN /\ opts.fields \in Points
      /\ opts.size \in Points \cup {"zero"} /\ args[c].post \in BOOLEAN
  BY DEF OptTypeOK, OptionSet
<1>3. c \in Points
  BY DEF Points
<1> QED
  BY <1>1, <1>2, <1>3 DEF Body

LEMMA AgedIsOptions ==
  ASSUME OptTypeOK, NEW c \in Callers
  PROVE  [opts EXCEPT !.fields = Aged(c, @), !.size = Aged(c, @),
                      !.headers = Aged(c, @), !.target = Aged(c, @)] \in OptionSet
<1>1. ASSUME NEW o \in OptionSet, NEW f \in Points, NEW z \in Points \cup {"zero"},
             NEW h \in Points, NEW g \in Points
      PROVE  [o EXCEPT !.fields = f, !.size = z, !.headers = h, !.target = g] \in OptionSet
  BY DEF OptionSet
<1>2. opts \in OptionSet /\ opts.fields \in Points /\ opts.size \in Points \cup {"zero"}
      /\ opts.headers \in Points /\ opts.target \in Points
  BY DEF OptTypeOK, OptionSet
<1>3. /\ \A x \in Points : Aged(c, x) \in Points
      /\ \A x \in Points \cup {"zero"} : Aged(c, x) \in Points \cup {"zero"}
  BY DEF Aged, Points
<1> QED
  BY <1>1, <1>2, <1>3

\* The limits that libcurl takes are those of the library or an earlier one.
LEMMA TakenIsLimit ==
  ASSUME OptTypeOK, NEW limit \in Speeds \cup {0}, NEW old \in Speeds \cup {0}
  PROVE  Taken(limit, old) \subseteq Speeds \cup {0}
BY DEF Taken, Accepted

----------------------------------------------------------------------------
\* Who is on its way.  An authorization under both mutexes is so alone.
CallerInv ==
  /\ \A c \in Callers : pc[c] = "idle" => args[c] = NoArgs
  /\ pc["guest"] # "idle" => kind = "request" /\ args["guest"].auth
  /\ ~args["guest"].data /\ ~args["guest"].headers
  /\ args["owner"].auth => pc["guest"] = "idle" /\ ~met
  /\ pc["owner"] # "idle" /\ pc["guest"] # "idle" => met
  /\ kind = "upload" => ~args["owner"].data

\* A call that is alone finds its own object and list where it has put them;
\* a call of the owner keeps its body cut off and its list from being freed.
StageInv ==
  /\ \A c \in Callers : ~met =>
       /\ pc[c] \in {"timeout", "divide", "body", "headers", "perform"} => opts.target = c
       /\ pc[c] = "perform" => opts.headers \in {c, "none"}
  /\ pc["owner"] = "perform" => opts.headers \in {"owner", "none"}
  /\ \A c \in Callers :
       kind = "request" /\ pc[c] \in {"headers", "perform"} /\ (c = "owner" \/ ~met) =>
         (args[c].data /\ opts.fields = c) \/ opts.size = "zero"
  /\ kind = "upload" => opts.fields = "none"

\* The limits of the handle and of the library while nobody changes them.
SpeedInv ==
  \A c \in Callers :
    /\ c = "owner" \/ ~met =>
         /\ changed[c].down = "applied" /\ down >= 0 => opts.recv = down
         /\ changed[c].up = "applied" /\ up >= 0 => opts.send = up
         /\ pc[c] \in {"attach", "timeout", "divide", "body", "headers", "perform"}
            /\ changed[c] = Kept =>
              /\ Limited /\ down >= 0 => opts.recv = down
              /\ Limited /\ up >= 0 => opts.send = up
              /\ \A limit \in {down, up} \ {0} : opts.buffer <= limit
    /\ changed[c].down = "applied" \/ changed[c].up = "applied" => pc[c] = "perform"
    /\ pc[c] = "divide" => up # 0 \/ changed[c].up = "stored"
    /\ pc[c] = "dead" => up = 0 /\ changed[c].up = "stored"

\* The timeout of a request that is alone.
TimeoutInv ==
  \A c \in Callers : kind = "request" /\ ~met /\ pc[c] \in {"body", "headers", "perform"} =>
    /\ opts.timeout >= TimeoutOf(c)
    /\ changed[c].up = "no" /\ up # 0 /\ Needed(c) < 2^(Width - 1) =>
         opts.timeout >= Needed(c)

HandleInv == OptTypeOK /\ CallerInv /\ StageInv /\ SpeedInv /\ TimeoutInv

USE DEF Goto, limits, Leave, Busy, StartCall

LEMMA HandleInit == Init => HandleInv
<1> SUFFICES ASSUME Init PROVE HandleInv
  OBVIOUS
<1>1. OptTypeOK
  <2>1. opts \in OptionSet
    BY FreshIsOptions DEF Init
  <2>2. args \in [Callers -> [auth : BOOLEAN, data : BOOLEAN, len : Lengths \cup {0},
                             headers : BOOLEAN, post : BOOLEAN, timeout : Timeouts \cup {0}]]
    BY DEF Init, NoArgs
  <2>3. changed \in [Callers -> [down : {"no", "applied", "stored"},
                                up : {"no", "applied", "stored"}]]
    BY DEF Init, Kept
  <2>4. pc \in [Callers -> Places]
    BY DEF Init, Places
  <2>5. /\ kind \in {"request", "download", "upload"} /\ met \in BOOLEAN
        /\ down \in Speeds \cup {0} /\ up \in Speeds \cup {0}
        /\ calls = MaxCalls /\ stores = MaxStores
    BY DEF Init
  <2>6. calls \in 0..MaxCalls /\ stores \in 0..MaxStores
    <3>1. MaxCalls \in Nat /\ MaxStores \in Nat
      BY HandleAssumption
    <3> QED
      BY ONLY <2>5, <3>1
  <2> QED
    BY <2>1, <2>2, <2>3, <2>4, <2>5, <2>6 DEF OptTypeOK, OptionSet
<1>2. CallerInv
  BY DEF Init, CallerInv, NoArgs, Callers
<1>3. StageInv
  BY DEF Init, StageInv, Fresh, Callers
<1>4. SpeedInv
  BY DEF Init, SpeedInv, Kept, Callers
<1>5. TimeoutInv
  BY DEF Init, TimeoutInv, Callers
<1> QED
  BY <1>1, <1>2, <1>3, <1>4, <1>5 DEF HandleInv

\* The types.
LEMMA OptTypeStep == HandleInv /\ [Next]_vars => OptTypeOK'
<1> SUFFICES ASSUME HandleInv, [Next]_vars PROVE OptTypeOK'
  OBVIOUS
<1> USE Sizes DEF HandleInv, OptTypeOK, Points, Places, Callers
<1>1. CASE Begin
  <2>1. opts' \in OptionSet
    BY <1>1, FreshIsOptions DEF Begin, OptionSet
  <2>2. args' \in [Callers -> [auth : BOOLEAN, data : BOOLEAN, len : Lengths \cup {0},
                              headers : BOOLEAN, post : BOOLEAN, timeout : Timeouts \cup {0}]]
    BY <1>1 DEF Begin
  <2>3. calls' \in 0..MaxCalls
    BY <1>1, HandleAssumption DEF Begin
  <2> QED
    BY <1>1, <2>1, <2>2, <2>3 DEF Begin, OptionSet, Kept
<1>2. CASE BeginGuest
  <2>1. args' \in [Callers -> [auth : BOOLEAN, data : BOOLEAN, len : Lengths \cup {0},
                              headers : BOOLEAN, post : BOOLEAN, timeout : Timeouts \cup {0}]]
    BY <1>2 DEF BeginGuest, StartGuest
  <2>2. calls' \in 0..MaxCalls
    BY <1>2, HandleAssumption DEF BeginGuest, StartGuest
  <2> QED
    BY <1>2, <2>1, <2>2 DEF BeginGuest, StartGuest, Kept
<1>3. ASSUME NEW c \in Callers, CallStep(c) PROVE OptTypeOK'
  <2>1. CASE CurlOptInit(c)
    BY <2>1 DEF CurlOptInit
  <2>2. CASE GiveUp(c)
    BY <2>2 DEF GiveUp, NoArgs, Kept
  <2>3. CASE SetTransmissionSpeeds(c)
    <3>1. PICK recv \in Taken(down, opts.recv), send \in Taken(up, opts.send) :
            opts' = [opts EXCEPT !.recv = recv, !.send = send, !.buffer = BufferSize]
      BY <2>3 DEF SetTransmissionSpeeds
    <3>2. recv \in Speeds \cup {0} /\ send \in Speeds \cup {0}
      BY TakenIsLimit
    <3>3. BufferSize \in Speeds \cup {MaxWriteSize}
      BY BufferFits
    <3>4. opts' \in OptionSet
      BY <3>1, <3>2, <3>3 DEF OptionSet
    <3> QED
      BY <2>3, <3>4 DEF SetTransmissionSpeeds, OptionSet
  <2>4. CASE Attach(c)
    BY <2>4 DEF Attach
  <2>5. CASE CheckLimit(c)
    BY <2>5 DEF CheckLimit
  <2>6. CASE KeepTimeout(c)
    BY <2>6, Numbers DEF KeepTimeout
  <2>7. CASE ExtendTimeout(c)
    <3>1. AsInt(Needed(c)) \in Int /\ TimeoutOf(c) \in Nat
      BY <2>7, IntHolds, NeededIsInt, Numbers DEF ExtendTimeout
    <3> QED
      BY <2>7, <3>1 DEF ExtendTimeout
  <2>8. CASE DivideByZero(c)
    BY <2>8 DEF DivideByZero
  <2>9. CASE SetBody(c)
    <3>1. opts' \in OptionSet
      BY <2>9, BodyIsOptions DEF SetBody
    <3> QED
      BY <2>9, <3>1 DEF SetBody, OptionSet
  <2>10. CASE SetHeaders(c)
    BY <2>10 DEF SetHeaders, HeaderList
  <2>11. CASE Return(c)
    <3>1. opts' \in OptionSet
      BY <2>11, AgedIsOptions DEF Return
    <3> QED
      BY <2>11, <3>1 DEF Return, NoArgs, Kept, OptionSet
  <2> QED
    BY <1>3, <2>1, <2>2, <2>3, <2>4, <2>5, <2>6, <2>7, <2>8, <2>9, <2>10, <2>11 DEF CallStep
<1>4. CASE SetterStep /\ Running
  <2>1. CASE StoreDownload
    BY <2>1, HandleAssumption DEF StoreDownload
  <2>2. CASE StoreUpload
    BY <2>2, HandleAssumption DEF StoreUpload
  <2>3. CASE ApplyDownload
    BY <2>3 DEF ApplyDownload, Accepted
  <2>4. CASE ApplyUpload
    BY <2>4 DEF ApplyUpload, Accepted
  <2> QED
    BY <1>4, <2>1, <2>2, <2>3, <2>4 DEF SetterStep
<1>5. CASE UNCHANGED vars
  BY <1>5 DEF vars, Needed, Limited, TimeoutOf
<1> QED
  BY <1>1, <1>2, <1>3, <1>4, <1>5 DEF Next

\* The mutexes keep an authorization under both of them alone.
LEMMA CallerStep == HandleInv /\ [Next]_vars => CallerInv'
<1> SUFFICES ASSUME HandleInv, [Next]_vars PROVE CallerInv'
  OBVIOUS
<1> USE DEF HandleInv, OptTypeOK, CallerInv, Callers
<1>1. CASE Begin
  BY <1>1 DEF Begin, AuthMutexIsFree
<1>2. CASE BeginGuest
  BY <1>2 DEF BeginGuest, StartGuest, AuthMutexIsFree, NoArgs
<1>3. ASSUME NEW c \in Callers, CallStep(c) PROVE CallerInv'
  <2>1. CASE CurlOptInit(c)
    BY <2>1 DEF CurlOptInit
  <2>2. CASE GiveUp(c)
    BY <2>2 DEF GiveUp, NoArgs
  <2>3. CASE SetTransmissionSpeeds(c)
    BY <2>3 DEF SetTransmissionSpeeds
  <2>4. CASE Attach(c)
    BY <2>4 DEF Attach
  <2>5. CASE CheckLimit(c)
    BY <2>5 DEF CheckLimit
  <2>6. CASE KeepTimeout(c)
    BY <2>6 DEF KeepTimeout
  <2>7. CASE ExtendTimeout(c)
    BY <2>7 DEF ExtendTimeout
  <2>8. CASE DivideByZero(c)
    BY <2>8 DEF DivideByZero
  <2>9. CASE SetBody(c)
    BY <2>9 DEF SetBody
  <2>10. CASE SetHeaders(c)
    BY <2>10 DEF SetHeaders
  <2>11. CASE Return(c)
    BY <2>11 DEF Return, NoArgs
  <2> QED
    BY <1>3, <2>1, <2>2, <2>3, <2>4, <2>5, <2>6, <2>7, <2>8, <2>9, <2>10, <2>11 DEF CallStep
<1>4. CASE SetterStep /\ Running
  <2>1. CASE StoreDownload
    BY <2>1 DEF StoreDownload
  <2>2. CASE StoreUpload
    BY <2>2 DEF StoreUpload
  <2>3. CASE ApplyDownload
    BY <2>3 DEF ApplyDownload
  <2>4. CASE ApplyUpload
    BY <2>4 DEF ApplyUpload
  <2> QED
    BY <1>4, <2>1, <2>2, <2>3, <2>4 DEF SetterStep
<1>5. CASE UNCHANGED vars
  BY <1>5 DEF vars, Needed, Limited, TimeoutOf
<1> QED
  BY <1>1, <1>2, <1>3, <1>4, <1>5 DEF Next

\* What the options are at each place.
LEMMA StageStep == HandleInv /\ [Next]_vars => StageInv'
<1> SUFFICES ASSUME HandleInv, [Next]_vars PROVE StageInv'
  OBVIOUS
<1> USE DEF HandleInv, OptTypeOK, CallerInv, StageInv, Points, Callers
<1>1. CASE Begin
  BY <1>1 DEF Begin, Fresh
<1>2. CASE BeginGuest
  BY <1>2 DEF BeginGuest, StartGuest
<1>3. ASSUME NEW c \in Callers, CallStep(c) PROVE StageInv'
  <2>1. CASE CurlOptInit(c)
    BY <2>1 DEF CurlOptInit
  <2>2. CASE GiveUp(c)
    BY <2>2 DEF GiveUp, NoArgs
  <2>3. CASE SetTransmissionSpeeds(c)
    BY <2>3 DEF SetTransmissionSpeeds
  <2>4. CASE Attach(c)
    BY <2>4 DEF Attach
  <2>5. CASE CheckLimit(c)
    BY <2>5 DEF CheckLimit
  <2>6. CASE KeepTimeout(c)
    BY <2>6 DEF KeepTimeout
  <2>7. CASE ExtendTimeout(c)
    BY <2>7 DEF ExtendTimeout
  <2>8. CASE DivideByZero(c)
    BY <2>8 DEF DivideByZero
  <2>9. CASE SetBody(c)
    BY <2>9 DEF SetBody, Body
  <2>10. CASE SetHeaders(c)
    BY <2>10 DEF SetHeaders, HeaderList
  <2>11. CASE Return(c)
    BY <2>11 DEF Return, Aged, NoArgs
  <2> QED
    BY <1>3, <2>1, <2>2, <2>3, <2>4, <2>5, <2>6, <2>7, <2>8, <2>9, <2>10, <2>11 DEF CallStep
<1>4. CASE SetterStep /\ Running
  <2>1. CASE StoreDownload
    BY <2>1 DEF StoreDownload
  <2>2. CASE StoreUpload
    BY <2>2 DEF StoreUpload
  <2>3. CASE ApplyDownload
    BY <2>3 DEF ApplyDownload
  <2>4. CASE ApplyUpload
    BY <2>4 DEF ApplyUpload
  <2> QED
    BY <1>4, <2>1, <2>2, <2>3, <2>4 DEF SetterStep
<1>5. CASE UNCHANGED vars
  BY <1>5 DEF vars, Needed, Limited, TimeoutOf
<1> QED
  BY <1>1, <1>2, <1>3, <1>4, <1>5 DEF Next

\* The limits reach the handle, or the change is noted.
LEMMA SpeedStep == HandleInv /\ [Next]_vars => SpeedInv'
<1> SUFFICES ASSUME HandleInv, [Next]_vars PROVE SpeedInv'
  OBVIOUS
<1> USE DEF HandleInv, OptTypeOK, CallerInv, SpeedInv, Limited, Callers, Kept
<1>1. CASE Begin
  BY <1>1 DEF Begin
<1>2. CASE BeginGuest
  BY <1>2 DEF BeginGuest, StartGuest
<1>3. ASSUME NEW c \in Callers, CallStep(c) PROVE SpeedInv'
  <2>1. CASE CurlOptInit(c)
    BY <2>1 DEF CurlOptInit
  <2>2. CASE GiveUp(c)
    BY <2>2 DEF GiveUp
  <2>3. CASE SetTransmissionSpeeds(c)
    <3>1. PICK recv \in Taken(down, opts.recv), send \in Taken(up, opts.send) :
            opts' = [opts EXCEPT !.recv = recv, !.send = send, !.buffer = BufferSize]
      BY <2>3 DEF SetTransmissionSpeeds
    <3>2. /\ Limited /\ down >= 0 => recv = down
          /\ Limited /\ up >= 0 => send = up
          /\ ~Limited => recv \in {0, opts.recv} /\ send \in {0, opts.send}
      BY Numbers DEF Taken, Accepted
    <3>3. \A limit \in {down, up} \ {0} : BufferSize <= limit
      BY BufferFits
    <3>4. /\ opts'.recv = recv /\ opts'.send = send /\ opts'.buffer = BufferSize
          /\ UNCHANGED <<met, limits, changed>> /\ pc' = [pc EXCEPT ![c] = "attach"]
          /\ pc[c] = "speeds"
      BY <2>3, <3>1 DEF SetTransmissionSpeeds
    <3> QED
      BY <3>2, <3>3, <3>4
  <2>4. CASE Attach(c)
    BY <2>4 DEF Attach
  <2>5. CASE CheckLimit(c)
    BY <2>5 DEF CheckLimit
  <2>6. CASE KeepTimeout(c)
    BY <2>6 DEF KeepTimeout
  <2>7. CASE ExtendTimeout(c)
    BY <2>7 DEF ExtendTimeout
  <2>8. CASE DivideByZero(c)
    BY <2>8 DEF DivideByZero
  <2>9. CASE SetBody(c)
    BY <2>9 DEF SetBody, Body
  <2>10. CASE SetHeaders(c)
    BY <2>10 DEF SetHeaders
  <2>11. CASE Return(c)
    BY <2>11 DEF Return
  <2> QED
    BY <1>3, <2>1, <2>2, <2>3, <2>4, <2>5, <2>6, <2>7, <2>8, <2>9, <2>10, <2>11 DEF CallStep
<1>4. CASE SetterStep /\ Running
  <2>1. CASE StoreDownload
    BY <2>1 DEF StoreDownload
  <2>2. CASE StoreUpload
    BY <1>4, <2>2 DEF StoreUpload, Running
  <2>3. CASE ApplyDownload
    BY <2>3, Numbers DEF ApplyDownload, Accepted
  <2>4. CASE ApplyUpload
    BY <2>4, Numbers DEF ApplyUpload, Accepted
  <2> QED
    BY <1>4, <2>1, <2>2, <2>3, <2>4 DEF SetterStep
<1>5. CASE UNCHANGED vars
  BY <1>5 DEF vars, Needed, Limited, TimeoutOf
<1> QED
  BY <1>1, <1>2, <1>3, <1>4, <1>5 DEF Next

\* The timeout of a request that is alone grows only.
LEMMA TimeoutStep == HandleInv /\ [Next]_vars => TimeoutInv'
<1> SUFFICES ASSUME HandleInv, [Next]_vars PROVE TimeoutInv'
  OBVIOUS
<1> USE DEF HandleInv, OptTypeOK, CallerInv, TimeoutInv, Callers
<1>1. CASE Begin
  BY <1>1 DEF Begin
<1>2. CASE BeginGuest
  BY <1>2 DEF BeginGuest, StartGuest
<1>3. ASSUME NEW c \in Callers, CallStep(c) PROVE TimeoutInv'
  <2>1. CASE CurlOptInit(c)
    BY <2>1 DEF CurlOptInit
  <2>2. CASE GiveUp(c)
    BY <2>2 DEF GiveUp
  <2>3. CASE SetTransmissionSpeeds(c)
    BY <2>3 DEF SetTransmissionSpeeds
  <2>4. CASE Attach(c)
    BY <2>4 DEF Attach
  <2>5. CASE CheckLimit(c)
    BY <2>5 DEF CheckLimit
  <2>6. CASE KeepTimeout(c)
    BY <2>6, Numbers DEF KeepTimeout, TimeoutOf
  <2>7. CASE ExtendTimeout(c)
    <3>1. Needed(c) \in Int /\ AsInt(Needed(c)) \in Int /\ up # 0 /\ TimeoutOf(c) \in Nat
      BY <2>7, IntHolds, NeededIsInt, Numbers DEF ExtendTimeout
    <3>2. 0 <= Needed(c) /\ Needed(c) < 2^(Width - 1) => AsInt(Needed(c)) = Needed(c)
      BY <3>1, IntHolds
    <3>3. opts'.timeout >= TimeoutOf(c) /\ opts'.timeout >= AsInt(Needed(c))
          /\ opts'.timeout \in Nat
      BY <2>7, <3>1 DEF ExtendTimeout
    <3>4. Needed(c) < 2^(Width - 1) => opts'.timeout >= Needed(c)
      BY <3>1, <3>2, <3>3
    <3>5. \A x \in Callers : TimeoutOf(x)' = TimeoutOf(x) /\ Needed(x)' = Needed(x)
      BY <2>7 DEF ExtendTimeout, TimeoutOf, Needed
    <3> QED
      BY <2>7, <3>3, <3>4, <3>5 DEF ExtendTimeout
  <2>8. CASE DivideByZero(c)
    BY <2>8 DEF DivideByZero
  <2>9. CASE SetBody(c)
    BY <2>9, Numbers DEF SetBody, Body, Needed, TimeoutOf
  <2>10. CASE SetHeaders(c)
    BY <2>10, Numbers DEF SetHeaders, Needed, TimeoutOf
  <2>11. CASE Return(c)
    BY <2>11 DEF Return
  <2> QED
    BY <1>3, <2>1, <2>2, <2>3, <2>4, <2>5, <2>6, <2>7, <2>8, <2>9, <2>10, <2>11 DEF CallStep
<1>4. CASE SetterStep /\ Running
  <2>1. CASE StoreDownload
    BY <2>1, Numbers DEF StoreDownload, Needed, TimeoutOf
  <2>2. CASE StoreUpload
    BY <2>2, Numbers DEF StoreUpload, Needed, TimeoutOf
  <2>3. CASE ApplyDownload
    BY <2>3, Numbers DEF ApplyDownload, Needed, TimeoutOf
  <2>4. CASE ApplyUpload
    BY <2>4, Numbers DEF ApplyUpload, Needed, TimeoutOf
  <2> QED
    BY <1>4, <2>1, <2>2, <2>3, <2>4 DEF SetterStep
<1>5. CASE UNCHANGED vars
  BY <1>5 DEF vars, Needed, Limited, TimeoutOf
<1> QED
  BY <1>1, <1>2, <1>3, <1>4, <1>5 DEF Next

LEMMA HandleInvAlways == Spec => []HandleInv
<1>1. HandleInv /\ [Next]_vars => HandleInv'
  BY OptTypeStep, CallerStep, StageStep, SpeedStep, TimeoutStep DEF HandleInv
<1> QED
  BY <1>1, HandleInit, PTL DEF Spec

----------------------------------------------------------------------------
\* The options of the handle, what a call was given and the limits keep their
\* types; a timeout that overflows an int is never stored.
THEOREM OptionsHaveTypes == Spec => []OptTypeOK
<1>1. HandleInv => OptTypeOK
  BY DEF HandleInv
<1> QED
  BY <1>1, HandleInvAlways, PTL

\* An authorization that holds both mutexes never meets the one that holds its
\* own alone, so libcurl performs it with its own object and list; any other
\* call has its own unless the two have met, and no freed list even then.
THEOREM TransfersUseOwnObjects == Spec => []TransferUsesOwnObjects
<1>1. HandleInv => TransferUsesOwnObjects
  BY DEF HandleInv, CallerInv, StageInv, TransferUsesOwnObjects, Alone
<1> QED
  BY <1>1, HandleInvAlways, PTL

\* A request without data posts the length 0, an upload has no data at all.
THEOREM RequestsPostOwnBody == Spec => []PostsOwnBody
<1>1. HandleInv => PostsOwnBody
  BY DEF HandleInv, CallerInv, StageInv, PostsOwnBody, OptTypeOK, Alone, Callers
<1> QED
  BY <1>1, HandleInvAlways, PTL

\* setTransmissionSpeeds and updateExistTransmisSpeeds give a transfer the
\* limits, and a buffer that does not exceed them.
THEOREM TransfersKeepLimits == Spec => []SpeedsOfTransfer
<1>1. HandleInv => SpeedsOfTransfer
  BY DEF HandleInv, CallerInv, SpeedInv, SpeedsOfTransfer, Alone, Kept
<1> QED
  BY <1>1, HandleInvAlways, PTL

\* httpRequest gives a request that is alone the time that its caller asked for,
\* and the time that it needs at the limit where an int holds it.
THEOREM TimeoutsCoverUploads == Spec => []TimeoutCoversUpload
<1>1. HandleInv => TimeoutCoversUpload
  BY DEF HandleInv, CallerInv, TimeoutInv, TimeoutCoversUpload, Alone
<1> QED
  BY <1>1, HandleInvAlways, PTL

\* httpRequest divides by a limit of 0 only if the host removed the limit after
\* the call began.
THEOREM ZeroLimitsAreSeen == Spec => []ZeroLimitIsSeen
<1>1. HandleInv => ZeroLimitIsSeen
  BY DEF HandleInv, SpeedInv, ZeroLimitIsSeen
<1> QED
  BY <1>1, HandleInvAlways, PTL
=============================================================================
