------------------------------ MODULE Handlers ------------------------------
(***************************************************************************)
(* The HTTP surface of the agent (handlers.go, runtime.go, app.go): which  *)
(* paths are served, when a request is refused before it reaches Chrome,   *)
(* which calls of the Browser a handler makes, with which timeouts, and    *)
(* how their outcome becomes a status.  One handler goroutine is modelled: *)
(* handlers share nothing but the Browser, whose module has many of them.  *)
(*                                                                         *)
(* A request is what the handler can tell apart: whether its body decodes, *)
(* whether the fields the endpoint insists on are acceptable, which parts  *)
(* of a profile it carries, and its timeout.                               *)
(***************************************************************************)
EXTENDS Integers, Sequences

CONSTANTS
    Half,         \* half the range of a time.Duration: 2^63 nanoseconds
    Millisecond,  \* nanoseconds in a millisecond
    DefaultActionTimeout,
    Settings,     \* values of Config.DefaultTimeout
    Millis        \* values of timeout_ms a request may carry

ASSUME HandlersAssumption ==
    /\ Half \in Nat \ {0}
    /\ Millisecond \in Nat \ {0}
    /\ DefaultActionTimeout \in 1..Half-1
    /\ Settings \subseteq -Half..Half-1
    /\ Millis \subseteq Int

VARIABLES
    setting,      \* Config.DefaultTimeout, fixed when the agent starts
    stage,        \* "idle", "decode", "check", "call", "answered"
    path,         \* the path of the request
    request,      \* the request, as far as decoding has got
    calls,        \* calls made: name, timeout and whether it returned nil
    status        \* HTTP status, 0 before the answer

vars == <<setting, stage, path, request, calls, status>>
-----------------------------------------------------------------------------
(* Durations *)

(* Mutant: the product is computed in a wider type. *)
WrapWide(x) == x

(* Multiplication of a time.Duration wraps around. *)
Wrap(x) == ((x + Half) % (2 * Half)) - Half

(* Mutant: milliseconds are taken for nanoseconds. *)
DurationUnscaled(ms) ==
    IF ms > 0 THEN Wrap(ms)
    ELSE IF setting > 0 THEN setting ELSE DefaultActionTimeout

(* Runtime.duration *)
Duration(ms) ==
    IF ms > 0 THEN Wrap(ms * Millisecond)
    ELSE IF setting > 0 THEN setting ELSE DefaultActionTimeout

(* Mutant: the Browser trusts the timeout it is given. *)
EffectiveUnchecked(d) == d

(* Browser.timeout, with the default that NewBrowser has normalised *)
Effective(d) ==
    IF d > 0 THEN d
    ELSE IF setting > 0 THEN setting ELSE DefaultActionTimeout
-----------------------------------------------------------------------------
(* Routes *)

Browse == {"navigate", "reload", "back", "forward", "viewport", "user-agent",
           "wait-navigation", "screenshot"}
Dom == {"click", "type", "get-text", "get-html", "get-attribute", "wait-selector"}

(* runtime.go mountRoutes below /v1, and the probes of app.go *)
Mounted ==
    ({"/v1/browser"} \X Browse) \cup ({"/v1/dom"} \X Dom)
    \cup ({"/v1/script"} \X {"evaluate"}) \cup ({"/v1/profile"} \X {"attach", "extract"})
    \cup {<<"/v1", "devtools">>, <<"/v1/logs", "stream">>, <<"/", "healthz">>}

(* The actions of manifest/browser.json *)
Declared ==
    ({"/v1/browser/actions"} \X (Browse \cup {"scrape", "graphql"}))
    \cup ({"/v1/browser/dom"} \X Dom) \cup {<<"/v1/browser/scripts", "evaluate">>}
    \cup ({"/v1/browser/profile"} \X {"attach", "extract"})
    \cup {<<"/v1", "devtools">>, <<"/v1/logs", "stream">>, <<"/", "healthz">>}

Endpoint == path[2]

(* Endpoints that ignore the error of decodeRequest, that have no body,    *)
(* and that make no call (the life of a log stream is in LogEmitter).      *)
Lenient == {"reload", "wait-navigation", "screenshot"}
Bodyless == {"back", "forward", "extract"}
Probes == {"devtools", "stream", "healthz"}
Strict == (Browse \cup Dom \cup {"evaluate", "attach"}) \ (Lenient \cup Bodyless)

(* Status when a call of the Browser returns an error *)
FailureStatus(e) ==
    IF e \in {"navigate", "reload", "back", "forward", "screenshot"} THEN 500 ELSE 400

(* The calls of Browser.run that some handler makes *)
Callable == Browse \cup Dom \cup
    {"evaluate", "set_cookies", "set_storage", "get_cookies", "get_storage"}

(* The calls a handler means to make.  attach skips an empty part. *)
Plan ==
    CASE Endpoint = "attach" ->
            (IF "cookies" \in request.parts THEN <<"set_cookies">> ELSE <<>>)
            \o (IF "storage" \in request.parts THEN <<"set_storage">> ELSE <<>>)
      [] Endpoint = "extract" -> <<"get_cookies", "get_storage">>
      [] Endpoint \in Probes -> <<>>
      [] OTHER -> <<Endpoint>>

(* extract gives its second call the default, whatever the query says. *)
CallTimeout(name) ==
    IF Endpoint = "extract" /\ name = "get_storage"
    THEN Effective(setting) ELSE Effective(Duration(request.ms))
-----------------------------------------------------------------------------
Bodies == {"valid", "unknown", "unreadable"}
Request == [body : Bodies, sound : BOOLEAN, parts : SUBSET {"cookies", "storage"}, ms : Millis \cup {0}]

(* What a decoder that reports an error has stored: nothing of a body it   *)
(* cannot read, but every other field of one with an unknown field.        *)
Decoded(r) ==
    IF r.body = "unreadable" THEN [r EXCEPT !.sound = FALSE, !.parts = {}, !.ms = 0] ELSE r

Answer(code) == stage' = "answered" /\ status' = code

Receive(p, r) ==
    /\ stage = "idle"
    /\ path' = p /\ request' = r
    /\ IF p \in Mounted THEN stage' = "decode" /\ UNCHANGED status ELSE Answer(404)
    /\ UNCHANGED <<setting, calls>>

(* Mutant: every handler goes on after a decoding error. *)
DecodeLenient ==
    /\ stage = "decode"
    /\ request' = Decoded(request) /\ stage' = "check" /\ UNCHANGED status
    /\ UNCHANGED <<setting, path, calls>>

(* decodeRequest, or queryTimeout where there is no body *)
Decode ==
    /\ stage = "decode"
    /\ \/ /\ Endpoint \in Strict /\ request.body # "valid"
          /\ Answer(400) /\ UNCHANGED request
       \/ /\ Endpoint \notin Strict \/ request.body = "valid"
          /\ request' = CASE Endpoint \in Bodyless ->
                                [request EXCEPT !.ms = IF @ > 0 THEN @ ELSE 0]
                          [] OTHER -> Decoded(request)
          /\ stage' = "check" /\ UNCHANGED status
    /\ UNCHANGED <<setting, path, calls>>

(* The checks made before a call: required fields in the handler or at the *)
(* top of the Browser's method, and the conversion of every cookie.        *)
Check ==
    /\ stage = "check"
    /\ IF Endpoint \in Strict /\ ~request.sound THEN Answer(400)
       ELSE stage' = "call" /\ UNCHANGED status
    /\ UNCHANGED <<setting, path, request, calls>>

(* Mutant: attach and extract go on after a failed call. *)
CallRegardless(ok) ==
    /\ stage = "call" /\ Len(calls) < Len(Plan)
    /\ LET name == Plan[Len(calls) + 1]
       IN  calls' = Append(calls, [name |-> name, timeout |-> CallTimeout(name), ok |-> ok])
    /\ IF ok \/ Len(calls) + 1 < Len(Plan) THEN UNCHANGED <<stage, status>>
       ELSE Answer(FailureStatus(Endpoint))
    /\ UNCHANGED <<setting, path, request>>

Call(ok) ==
    /\ stage = "call" /\ Len(calls) < Len(Plan)
    /\ LET name == Plan[Len(calls) + 1]
       IN  calls' = Append(calls, [name |-> name, timeout |-> CallTimeout(name), ok |-> ok])
    /\ IF ok THEN UNCHANGED <<stage, status>> ELSE Answer(FailureStatus(Endpoint))
    /\ UNCHANGED <<setting, path, request>>

Respond ==
    /\ stage = "call" /\ Len(calls) = Len(Plan)
    /\ Answer(200)
    /\ UNCHANGED <<setting, path, request, calls>>

Init ==
    /\ setting \in Settings
    /\ stage = "idle" /\ path = <<"/", "healthz">> /\ calls = <<>> /\ status = 0
    /\ request = [body |-> "valid", sound |-> TRUE, parts |-> {}, ms |-> 0]

Next ==
    \/ \E p \in Mounted \cup Declared, r \in Request : Receive(p, r)
    \/ Decode \/ Check \/ Respond
    \/ \E ok \in BOOLEAN : Call(ok)

Spec == Init /\ [][Next]_vars
-----------------------------------------------------------------------------
(* Every variable stays within the values its Go counterpart can hold.       *)
TypeOK ==
    /\ setting \in Settings
    /\ stage \in {"idle", "decode", "check", "call", "answered"}
    /\ path \in Mounted \cup Declared
    /\ request \in Request
    /\ calls \in Seq([name : Callable, timeout : -Half..Half-1, ok : BOOLEAN])
    /\ status \in {0, 200, 400, 404, 500}

(* No call reaches Chrome with a timeout that has passed already or that     *)
(* never ends, whatever the client and the environment ask for.              *)
CallsBounded == \A i \in DOMAIN calls : calls[i].timeout > 0

(* A body that a strict endpoint cannot decode, or whose fields it checks    *)
(* and does not accept *)
Refused == Endpoint \in Strict /\ (request.body # "valid" \/ ~request.sound)

(* The status tells what happened to the page: 200 only when every call of   *)
(* the plan returned nil; otherwise either nothing was called, or the last   *)
(* call failed and those before it took effect.  What is refused never       *)
(* reaches the Browser at all.                                               *)
StatusTellsOutcome ==
    /\ Refused => calls = <<>>
    /\ stage = "answered" =>
        \/ /\ status = 200 /\ ~Refused
           /\ [i \in DOMAIN calls |-> calls[i].name] = Plan
           /\ \A i \in DOMAIN calls : calls[i].ok
        \/ /\ status \in {400, 404} /\ calls = <<>>
        \/ /\ calls # <<>> /\ status = FailureStatus(Endpoint)
           /\ \A i \in DOMAIN calls : calls[i].ok <=> i < Len(calls)

(* The client asks for a timeout that nanoseconds can express. *)
Expressible == request.ms > 0 /\ request.ms * Millisecond < Half

(* A timeout the client asks for, and that can be expressed, is the one the  *)
(* call runs with, for every call but one: the second call of extract drops  *)
(* it and runs with the default (handlers.go:368 passes r.defaultTimeout),   *)
(* which may be longer or shorter than what the client asked for.            *)
TimeoutHonoured ==
    Expressible =>
        \A i \in DOMAIN calls :
            calls[i].timeout = IF Endpoint = "extract" /\ calls[i].name = "get_storage"
                               THEN Effective(setting) ELSE request.ms * Millisecond

(* manifest/browser.json declares the actions of the plugin; each of them is *)
(* a path that the agent serves.                                             *)
DeclaredIsServed == path \in Declared => status # 404
=============================================================================
