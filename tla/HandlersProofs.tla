-------------------------- MODULE HandlersProofs --------------------------
(***************************************************************************)
(* Proofs about Handlers for any width of a duration, any length of a      *)
(* millisecond, any default timeout the environment may set and any        *)
(* timeout a client may ask for.                                           *)
(***************************************************************************)
EXTENDS Handlers, TLAPS

(* Wrapping around yields a value of the type. *)
LEMMA WrapInRange == ASSUME NEW x \in Int PROVE Wrap(x) \in -Half..Half-1
<1> DEFINE n == 2 * Half
<1>1. n \in Nat \ {0} /\ Half \in Nat
  BY HandlersAssumption
<1>2. (x + Half) % n \in 0..n-1
  BY <1>1
<1> QED
  BY <1>1, <1>2 DEF Wrap

(* Runtime.duration yields a value of the type, whatever the client says.  *)
LEMMA DurationInRange ==
    ASSUME setting \in Settings, NEW ms \in Int
    PROVE  Duration(ms) \in -Half..Half-1
<1>1. ms * Millisecond \in Int
  BY HandlersAssumption
<1>2. Wrap(ms * Millisecond) \in -Half..Half-1
  BY <1>1, WrapInRange
<1> QED
  BY <1>2, HandlersAssumption DEF Duration

(* Browser.timeout lets no timeout through that is not positive: one that  *)
(* wrapped to a negative value becomes the default.                        *)
LEMMA EffectivePositive ==
    ASSUME setting \in Settings, NEW d \in -Half..Half-1
    PROVE  Effective(d) \in 1..Half-1
  BY HandlersAssumption DEF Effective

(* The timeout of every call is positive and of the type.                  *)
LEMMA CallTimeoutPositive ==
    ASSUME setting \in Settings, request \in Request, NEW name
    PROVE  CallTimeout(name) \in 1..Half-1
<1>1. request.ms \in Int
  <2>1. request.ms \in Millis \cup {0}
    BY DEF Request
  <2>2. \A m \in Millis \cup {0} : m \in Int
    BY HandlersAssumption
  <2> QED
    BY <2>1, <2>2
<1>2. Effective(Duration(request.ms)) \in 1..Half-1
  BY <1>1, DurationInRange, EffectivePositive
<1>3. setting \in -Half..Half-1
  BY HandlersAssumption
<1>4. Effective(setting) \in 1..Half-1
  BY <1>3, EffectivePositive
<1> QED
  BY <1>2, <1>4 DEF CallTimeout

(* What decoding leaves of a request is a request.                         *)
LEMMA DecodedIsRequest == ASSUME request \in Request PROVE Decoded(request) \in Request
  BY DEF Decoded, Request

(* What the request has come to while it is being handled.                 *)
CallInv ==
    /\ TypeOK
    /\ CallsBounded
    /\ stage \in {"decode", "check", "call"} => path \in Mounted

(* The plan of every path that is served names calls of the Browser.       *)
LEMMA PlanIsCallable == ASSUME path \in Mounted PROVE Plan \in Seq(Callable)
<1>1. Endpoint \in Browse \cup Dom \cup {"evaluate", "attach", "extract"} \cup Probes
  BY DEF Endpoint, Mounted, Probes
<1>2. CASE Endpoint = "attach"
  <2>1. Plan = (IF "cookies" \in request.parts THEN <<"set_cookies">> ELSE <<>>)
               \o (IF "storage" \in request.parts THEN <<"set_storage">> ELSE <<>>)
    BY <1>2 DEF Plan, Probes
  <2>2. <<"set_cookies">> \in Seq(Callable) /\ <<"set_storage">> \in Seq(Callable)
    BY DEF Callable
  <2> QED
    BY <2>1, <2>2
<1>3. CASE Endpoint = "extract"
  BY <1>3 DEF Plan, Probes, Callable
<1>4. CASE Endpoint \in Probes
  BY <1>4 DEF Plan, Probes
<1>5. CASE Endpoint \in Browse \cup Dom \cup {"evaluate"}
  <2>1. Endpoint \notin Probes \cup {"attach", "extract"}
    BY <1>5 DEF Browse, Dom, Probes
  <2>2. Plan = <<Endpoint>>
    BY <2>1 DEF Plan
  <2> QED
    BY <1>5, <2>2 DEF Callable
<1> QED
  BY <1>1, <1>2, <1>3, <1>4, <1>5

(* Each step of a handler keeps that true.                                 *)
LEMMA HandlerStep == ASSUME CallInv, [Next]_vars PROVE CallInv'
<1> USE DEF CallInv, TypeOK, CallsBounded
<1>1. ASSUME NEW p \in Mounted \cup Declared, NEW r \in Request, Receive(p, r) PROVE CallInv'
  BY <1>1 DEF Receive, Answer, Request
<1>2. CASE Decode
  <2>1. request' \in Request
    BY <1>2, DecodedIsRequest DEF Decode, Request
  <2> QED
    BY <1>2, <2>1 DEF Decode, Answer
<1>3. CASE Check
  BY <1>3 DEF Check, Answer
<1>4. ASSUME NEW ok \in BOOLEAN, Call(ok) PROVE CallInv'
  <2> DEFINE name == Plan[Len(calls) + 1]
             call == [name |-> name, timeout |-> CallTimeout(name), ok |-> ok]
  <2>1. calls' = Append(calls, call) /\ Len(calls) < Len(Plan)
    BY <1>4 DEF Call
  <2>2. name \in Callable
    BY <1>4, <2>1, PlanIsCallable DEF Call
  <2>3. CallTimeout(name) \in 1..Half-1
    BY CallTimeoutPositive
  <2>4. calls' \in Seq([name : Callable, timeout : -Half..Half-1, ok : BOOLEAN])
    BY <2>1, <2>2, <2>3, HandlersAssumption
  <2>5. CallsBounded'
    BY <2>1, <2>3
  <2>6. UNCHANGED <<setting, path, request>> /\ stage' \in {stage, "answered"}
    BY <1>4 DEF Call, Answer
  <2>7. status' \in {0, 200, 400, 404, 500}
    BY <1>4 DEF Call, Answer, FailureStatus
  <2> QED
    BY <2>4, <2>5, <2>6, <2>7
<1>5. CASE Respond
  BY <1>5 DEF Respond, Answer
<1>6. CASE UNCHANGED vars
  BY <1>6 DEF vars
<1> QED
  BY <1>1, <1>2, <1>3, <1>4, <1>5, <1>6 DEF Next

(* No call of the Browser is made without a deadline or with one that has  *)
(* passed, whatever timeout_ms a client sends (runtime.go:96, browser.go:  *)
(* 802) and whatever default the environment sets (app.go:164).            *)
THEOREM EveryCallBounded == Spec => []CallsBounded
<1>1. Init => CallInv
  BY DEF Init, CallInv, TypeOK, CallsBounded, Mounted, Request, Bodies
<1>2. CallInv /\ [Next]_vars => CallInv'
  BY HandlerStep
<1>3. CallInv => CallsBounded
  BY DEF CallInv
<1> QED
  BY <1>1, <1>2, <1>3, PTL DEF Spec

(* Every variable of a handler keeps its type.                             *)
THEOREM Typed == Spec => []TypeOK
<1>1. Init => CallInv
  BY DEF Init, CallInv, TypeOK, CallsBounded, Mounted, Request, Bodies
<1>2. CallInv /\ [Next]_vars => CallInv'
  BY HandlerStep
<1>3. CallInv => TypeOK
  BY DEF CallInv
<1> QED
  BY <1>1, <1>2, <1>3, PTL DEF Spec
-----------------------------------------------------------------------------
Accepted == request.body = "valid" /\ request.sound

(* A strict endpoint passes its decoder with a valid body only, and its    *)
(* checks with sound fields only; nothing is called before.                *)
GateInv ==
    /\ stage \in {"idle", "decode", "check"} => calls = <<>>
    /\ stage = "check" /\ Endpoint \in Strict => request.body = "valid"
    /\ stage = "call" /\ Endpoint \in Strict => Accepted
    /\ Refused => calls = <<>>

(* Each step keeps the gates shut for what they refuse.                    *)
LEMMA GateStep == ASSUME TypeOK, GateInv, [Next]_vars PROVE GateInv'
<1> USE DEF GateInv, Refused, Accepted, Endpoint
<1>1. ASSUME NEW p \in Mounted \cup Declared, NEW r \in Request, Receive(p, r) PROVE GateInv'
  BY <1>1 DEF Receive, Answer
<1>2. CASE Decode
  <2>1. CASE Endpoint \in Strict /\ request.body = "valid" /\ stage' = "check"
    <3>1. Endpoint \notin Bodyless
      BY <2>1 DEF Strict
    <3>2. request' = request
      BY <1>2, <2>1, <3>1 DEF Decode, Decoded, Answer
    <3> QED
      BY <1>2, <2>1, <3>2 DEF Decode, Answer
  <2>2. CASE Endpoint \in Strict /\ request.body # "valid"
    BY <1>2, <2>2 DEF Decode, Answer
  <2>3. CASE Endpoint \notin Strict
    BY <1>2, <2>3 DEF Decode, Answer
  <2> QED
    BY <1>2, <2>1, <2>2, <2>3 DEF Decode, Answer
<1>3. CASE Check
  BY <1>3 DEF Check, Answer
<1>4. ASSUME NEW ok \in BOOLEAN, Call(ok) PROVE GateInv'
  BY <1>4 DEF Call, Answer
<1>5. CASE Respond
  BY <1>5 DEF Respond, Answer
<1>6. CASE UNCHANGED vars
  BY <1>6 DEF vars
<1> QED
  BY <1>1, <1>2, <1>3, <1>4, <1>5, <1>6 DEF Next

(* A request that a strict endpoint cannot decode, or whose fields it does *)
(* not accept, makes no call (handlers.go:20, 118, 333 and the like).      *)
LEMMA RefusedUntouched == Spec => []GateInv
<1>1. Init => GateInv
  BY DEF Init, GateInv, Refused
<1>2. TypeOK /\ GateInv /\ [Next]_vars => GateInv'
  BY GateStep
<1> QED
  BY Typed, <1>1, <1>2, PTL DEF Spec
-----------------------------------------------------------------------------
(* The calls made are the beginning of the plan, and all of them have      *)
(* succeeded unless the handler has answered.                              *)
ProgressInv ==
    /\ stage \in {"idle", "decode", "check"} => calls = <<>>
    /\ stage = "call" =>
          /\ Len(calls) <= Len(Plan)
          /\ \A i \in DOMAIN calls : calls[i].ok /\ calls[i].name = Plan[i]
    /\ stage \in {"decode", "check", "call"} => path \in Mounted
    /\ StatusTellsOutcome

(* Each step of a handler either makes the next call of the plan or gives  *)
(* the answer that fits the calls made.                                    *)
LEMMA ProgressStep ==
    ASSUME TypeOK, TypeOK', GateInv, GateInv', ProgressInv, [Next]_vars PROVE ProgressInv'
<1> USE DEF ProgressInv, StatusTellsOutcome
<1>0. (Refused => calls = <<>>)'
  BY DEF GateInv
<1>1. ASSUME NEW p \in Mounted \cup Declared, NEW r \in Request, Receive(p, r) PROVE ProgressInv'
  BY <1>0, <1>1 DEF Receive, Answer
<1>2. CASE Decode
  BY <1>0, <1>2 DEF Decode, Answer
<1>3. CASE Check
  <2>1. calls = <<>> /\ UNCHANGED <<calls, path>> /\ path \in Mounted
    BY <1>3 DEF Check
  <2>2. CASE stage' = "call"
    <3>1. Plan' \in Seq(Callable)
      <4>1. request' = request
        BY <1>3 DEF Check
      <4> QED
        BY <2>1, <4>1, PlanIsCallable DEF Plan, Endpoint
    <3> QED
      BY <1>0, <2>1, <2>2, <3>1
  <2>3. CASE stage' # "call"
    BY <1>0, <1>3, <2>1, <2>3 DEF Check, Answer
  <2> QED
    BY <2>2, <2>3
<1>4. ASSUME NEW ok \in BOOLEAN, Call(ok) PROVE ProgressInv'
  <2> DEFINE name == Plan[Len(calls) + 1]
             call == [name |-> name, timeout |-> CallTimeout(name), ok |-> ok]
  <2>1. /\ stage = "call" /\ calls' = Append(calls, call) /\ Len(calls) < Len(Plan)
        /\ calls \in Seq([name : Callable, timeout : -Half..Half-1, ok : BOOLEAN])
    BY <1>4 DEF Call, TypeOK
  <2>2. UNCHANGED <<Plan, Endpoint, path>>
    BY <1>4 DEF Call, Plan, Endpoint
  <2>3. Plan \in Seq(Callable)
    BY <2>1, PlanIsCallable
  <2>4. /\ Len(calls') = Len(calls) + 1 /\ calls' # <<>>
        /\ \A i \in DOMAIN calls' : calls'[i].name = Plan[i] /\ (calls'[i].ok <=> i < Len(calls') \/ ok)
    BY <2>1, <2>3
  <2>5. CASE ok
    BY <1>0, <1>4, <2>1, <2>2, <2>3, <2>4, <2>5 DEF Call
  <2>6. CASE ~ok
    <3>1. stage' = "answered" /\ status' = FailureStatus(Endpoint)
      BY <1>4, <2>6 DEF Call, Answer
    <3>2. \A i \in DOMAIN calls' : calls'[i].ok <=> i < Len(calls')
      BY <2>4, <2>6
    <3> QED
      BY <1>0, <2>2, <2>4, <3>1, <3>2
  <2> QED
    BY <2>5, <2>6
<1>5. CASE Respond
  <2>1. /\ stage = "call" /\ Len(calls) = Len(Plan) /\ stage' = "answered" /\ status' = 200
        /\ UNCHANGED <<calls, path, Plan>>
    BY <1>5 DEF Respond, Answer, Plan, Endpoint
  <2>2. Plan \in Seq(Callable)
    BY <2>1, PlanIsCallable
  <2>3. [i \in DOMAIN calls |-> calls[i].name] = Plan
    BY <2>1, <2>2 DEF TypeOK
  <2>4. ~Refused'
    BY <1>5 DEF Respond, GateInv, Accepted, Refused, Endpoint
  <2> QED
    BY <1>0, <2>1, <2>3, <2>4
<1>6. CASE UNCHANGED vars
  <2>1. UNCHANGED <<Refused, Plan, Endpoint, path, calls, stage, status>>
    BY <1>6 DEF vars, Refused, Plan, Endpoint
  <2> QED
    BY <1>0, <2>1
<1> QED
  BY <1>1, <1>2, <1>3, <1>4, <1>5, <1>6 DEF Next

(* The status of an answer tells what was done to the page: everything, or *)
(* nothing, or what comes before the call that failed.                     *)
THEOREM StatusIsTruthful == Spec => []StatusTellsOutcome
<1>1. Init => ProgressInv
  BY DEF Init, ProgressInv, StatusTellsOutcome, Refused
<1>2. TypeOK /\ TypeOK' /\ GateInv /\ GateInv' /\ ProgressInv /\ [Next]_vars => ProgressInv'
  BY ProgressStep
<1>3. ProgressInv => StatusTellsOutcome
  BY DEF ProgressInv
<1> QED
  BY Typed, RefusedUntouched, <1>1, <1>2, <1>3, PTL DEF Spec
-----------------------------------------------------------------------------
(* A value of the type is not changed by wrapping around.                  *)
LEMMA WrapIdentity == ASSUME NEW x \in -Half..Half-1 PROVE Wrap(x) = x
<1>1. Half \in Nat \ {0}
  BY HandlersAssumption
<1>2. PICK n \in Nat \ {0}, y \in Nat : n = 2 * Half /\ y = x + Half /\ y < n
  BY <1>1
<1>3. y % n = y
  BY <1>2
<1> QED
  BY <1>1, <1>2, <1>3 DEF Wrap

(* A timeout that can be expressed passes both conversions unchanged.      *)
LEMMA ExpressibleUnchanged ==
    ASSUME NEW ms \in Int, ms > 0, ms * Millisecond < Half
    PROVE  Effective(Duration(ms)) = ms * Millisecond
<1>1. PICK d \in Int : d = ms * Millisecond /\ d > 0
  <2>1. Millisecond \in Nat /\ Millisecond > 0
    BY HandlersAssumption
  <2> QED
    BY <2>1
<1>2. d \in -Half..Half-1
  BY <1>1, HandlersAssumption
<1>3. Wrap(d) = d
  BY <1>2, WrapIdentity
<1> QED
  BY <1>1, <1>3 DEF Duration, Effective

(* Nothing is called before the request is final.                          *)
HonouredInv ==
    /\ stage \in {"idle", "decode", "check"} => calls = <<>>
    /\ TimeoutHonoured

LEMMA HonouredStep == ASSUME TypeOK, HonouredInv, [Next]_vars PROVE HonouredInv'
<1> USE DEF HonouredInv, TimeoutHonoured, Expressible, Endpoint, Effective
<1>1. ASSUME NEW p \in Mounted \cup Declared, NEW r \in Request, Receive(p, r) PROVE HonouredInv'
  BY <1>1 DEF Receive, Answer
<1>2. CASE Decode
  BY <1>2 DEF Decode, Answer
<1>3. CASE Check \/ Respond
  BY <1>3 DEF Check, Respond, Answer
<1>4. ASSUME NEW ok \in BOOLEAN, Call(ok) PROVE HonouredInv'
  <2> DEFINE name == Plan[Len(calls) + 1]
             call == [name |-> name, timeout |-> CallTimeout(name), ok |-> ok]
             Due(n) == IF path[2] = "extract" /\ n = "get_storage"
                       THEN Effective(setting) ELSE request.ms * Millisecond
  <2>1. /\ calls' = Append(calls, call) /\ UNCHANGED <<request, path, setting>>
        /\ stage' \in {"call", "answered"}
        /\ calls \in Seq([name : Callable, timeout : -Half..Half-1, ok : BOOLEAN])
    BY <1>4 DEF Call, Answer, TypeOK
  <2>2. ASSUME Expressible PROVE CallTimeout(name) = Due(name)
    <3>1. request.ms \in Int
      <4>1. request.ms \in Millis \cup {0}
        BY DEF TypeOK, Request
      <4>2. \A m \in Millis \cup {0} : m \in Int
        BY HandlersAssumption
      <4> QED
        BY <4>1, <4>2
    <3> QED
      BY <2>2, <3>1, ExpressibleUnchanged DEF CallTimeout
  <2>3. ASSUME NEW i \in DOMAIN calls', Expressible PROVE calls'[i].timeout = Due(calls'[i].name)
    <3>1. CASE i \in DOMAIN calls
      BY <2>1, <2>3, <3>1
    <3>2. CASE i = Len(calls) + 1
      <4>1. calls'[i] = call
        BY <2>1, <3>2
      <4> QED
        BY <2>2, <2>3, <4>1
    <3> QED
      BY <2>1, <3>1, <3>2
  <2> QED
    BY <2>1, <2>3
<1>5. CASE UNCHANGED vars
  BY <1>5 DEF vars
<1> QED
  BY <1>1, <1>2, <1>3, <1>4, <1>5 DEF Next

(* A timeout_ms that can be expressed in nanoseconds is the timeout of     *)
(* every call but the second one of extract, which has the default         *)
(* (runtime.go:96-104, browser.go:802, handlers.go:363-368).               *)
THEOREM ClientTimeoutKept == Spec => []TimeoutHonoured
<1>1. Init => HonouredInv
  BY DEF Init, HonouredInv, TimeoutHonoured
<1>2. TypeOK /\ HonouredInv /\ [Next]_vars => HonouredInv'
  BY HonouredStep
<1>3. HonouredInv => TimeoutHonoured
  BY DEF HonouredInv
<1> QED
  BY Typed, <1>1, <1>2, <1>3, PTL DEF Spec
=============================================================================
