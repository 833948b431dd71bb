------------------------------- MODULE Agent -------------------------------
(***************************************************************************)
(* The agent from the return of browser.New to the end of the process      *)
(* (app.go, main.go): handlers that call the shared Browser, log streams,  *)
(* the timeouts of http.Server, and the two ways in which App.run returns, *)
(* each followed by the deferred Browser.Close and os.Exit.                *)
(*                                                                         *)
(* To the handlers the Browser is a CallQueue, which module Browser is     *)
(* shown to implement.  Everything but Chrome and the clients is fast: no  *)
(* time passes while a handler or App.run could take a step.               *)
(***************************************************************************)
EXTENDS Integers

CONSTANTS
    Callers,      \* requests whose handlers call the Browser
    None,         \* no caller
    Patience,     \* per caller: the timeout of each of its calls
    Runs,         \* per caller: the calls its handler makes
    Prompt,       \* callers whose clients send and read without delay
    Streams,      \* requests for /v1/logs/stream
    StreamLife,   \* a.timeout + 30 seconds
    Limit,        \* ReadTimeout and WriteTimeout
    Grace,        \* the timeout of shutdownCtx
    LastArrival   \* bound: when the last request may arrive

ASSUME AgentAssumption ==
    /\ None \notin Callers /\ Prompt \subseteq Callers
    /\ Patience \in [Callers -> Nat \ {0}]
    /\ \E q \in Callers : \A r \in Callers : Patience[r] <= Patience[q]
    /\ Runs \in [Callers -> Nat \ {0}]
    /\ LastArrival \in Nat /\ StreamLife \in Nat /\ Limit \in Nat \ {0} /\ Grace \in Nat \ {0}

VARIABLES
    clock, holder, stage, due, down,   \* the Browser's CallQueue
    conn,         \* per caller: where its request is
    arrived,      \* per caller: when its headers had been read
    left,         \* per caller: calls its handler has not finished
    stream,       \* per stream: "none", "open" or "ended"
    since,        \* per stream: when it was opened
    main,         \* where App.run, and then Browser.Close, has come
    stop,         \* when Shutdown was called
    ctxDone,      \* the context given to Run is done
    failed,       \* ListenAndServe has put its error into errCh
    graceful,     \* App.run took the ctx.Done() case
    killed,       \* Chrome has been sent a kill signal
    chrome        \* the Chrome process runs

CQ == INSTANCE CallQueue

queue == <<clock, holder, stage, due, down>>
requests == <<conn, arrived, left>>
streams == <<stream, since>>
app == <<main, stop, ctxDone, failed, graceful>>
process == <<killed, chrome>>
vars == <<queue, requests, streams, app, process>>

Active(r) == conn[r] \in {"reading", "calling", "answering"}
Open(s) == stream[s] = "open"

(* The deadlines that http.Server sets on the connection have passed. *)
TimedOut(r) == clock >= arrived[r] + Limit
-----------------------------------------------------------------------------
(* http.Server and the handlers *)

(* Shutdown closes the listener and idle connections, but a connection     *)
(* accepted just before may still bring its first request: net/http gives  *)
(* it five seconds, which is less than a tick.  A listener that fails      *)
(* leaves the accepted connections alone.                                  *)
Accepting ==
    \/ main = "serving"
    \/ main = "draining" /\ clock = stop
    \/ main \in {"closing", "waiting", "closed"} /\ ~graceful

Arrive(r) ==
    /\ clock <= LastArrival /\ Accepting /\ conn[r] = "none"
    /\ conn' = [conn EXCEPT ![r] = "reading"]
    /\ arrived' = [arrived EXCEPT ![r] = clock]
    /\ UNCHANGED <<queue, left, streams, app, process>>

(* The body is missing, malformed or late, or fails validation. *)
Reject(r) ==
    /\ conn[r] = "reading"
    /\ conn' = [conn EXCEPT ![r] = "answering"]
    /\ UNCHANGED <<queue, arrived, left, streams, app, process>>

Call(r) ==
    /\ conn[r] \in {"reading", "calling"}
    /\ CQ!Enter(r)
    /\ conn' = [conn EXCEPT ![r] = "calling"]
    /\ UNCHANGED <<arrived, left, streams, app, process>>

(* A waiter that b.mu has passed over for a millisecond is served next, so *)
(* on the scale of this clock the lock is granted in the order of arrival. *)
Admit(r) ==
    /\ conn[r] = "calling"
    /\ \A q \in Callers : stage[q] = "queued" => due[r] - Patience[r] <= due[q] - Patience[q]
    /\ CQ!Admit(r)
    /\ UNCHANGED <<requests, streams, app, process>>

(* Mutant: the handler makes its last call again. *)
NextRunMore(r) ==
    /\ conn[r] = "calling"
    /\ CQ!ComeBack(r)
    /\ left' = [left EXCEPT ![r] = @ - 1]
    /\ UNCHANGED <<conn, arrived, streams, app, process>>

NextRun(r) ==
    /\ conn[r] = "calling" /\ left[r] > 1
    /\ CQ!ComeBack(r)
    /\ left' = [left EXCEPT ![r] = @ - 1]
    /\ UNCHANGED <<conn, arrived, streams, app, process>>

Return(r) ==
    /\ conn[r] = "calling"
    /\ CQ!Leave(r)
    /\ conn' = [conn EXCEPT ![r] = "answering"]
    /\ UNCHANGED <<arrived, left, streams, app, process>>

(* After the WriteTimeout the answer cannot be written any more. *)
Answer(r) ==
    /\ conn[r] = "answering"
    /\ conn' = [conn EXCEPT ![r] = IF TimedOut(r) THEN "lost" ELSE "answered"]
    /\ UNCHANGED <<queue, arrived, left, streams, app, process>>

StreamOpens(s) ==
    /\ clock <= LastArrival /\ Accepting /\ stream[s] = "none"
    /\ stream' = [stream EXCEPT ![s] = IF main = "closed" THEN "ended" ELSE "open"]
    /\ since' = [since EXCEPT ![s] = clock]
    /\ UNCHANGED <<queue, requests, app, process>>

(* The client has gone, a write failed, or middleware.Timeout struck. *)
StreamEnds(s) ==
    /\ Open(s)
    /\ stream' = [stream EXCEPT ![s] = "ended"]
    /\ UNCHANGED <<queue, requests, since, app, process>>
-----------------------------------------------------------------------------
(* Chrome (external) *)

(* chromedp cancels the context of a browser it has lost. *)
ChromeEnds ==
    /\ chrome /\ chrome' = FALSE
    /\ CQ!GoDown
    /\ UNCHANGED <<requests, streams, app, killed>>
-----------------------------------------------------------------------------
(* Run, App.run and main *)

(* Mutant: the Browser does not depend on the context given to Run. *)
ParentDoneDetached ==
    /\ main = "serving" /\ ~ctxDone
    /\ ctxDone' = TRUE
    /\ UNCHANGED <<queue, requests, streams, main, stop, failed, graceful, process>>

(* The Browser's context derives from it, and it kills Chrome. *)
ParentDone ==
    /\ main = "serving" /\ ~ctxDone
    /\ ctxDone' = TRUE /\ killed' = TRUE
    /\ CQ!GoDown
    /\ UNCHANGED <<requests, streams, main, stop, failed, graceful, chrome>>

ListenFails ==
    /\ main = "serving" /\ ~failed
    /\ failed' = TRUE
    /\ UNCHANGED <<queue, requests, streams, main, stop, ctxDone, graceful, process>>

BeginShutdown ==
    /\ main = "serving" /\ ctxDone
    /\ main' = "draining" /\ graceful' = TRUE /\ stop' = clock
    /\ UNCHANGED <<queue, requests, streams, ctxDone, failed, process>>

(* Mutant: the error ends the process, as with log.Fatal. *)
ReturnErrorFatal ==
    /\ main = "serving" /\ failed
    /\ main' = "exited"
    /\ UNCHANGED <<queue, requests, streams, stop, ctxDone, failed, graceful, process>>

(* Mutant: the error of ListenAndServe is not looked at. *)
ReturnErrorNever == main = "serving" /\ failed /\ UNCHANGED vars

(* No Shutdown on this path. *)
ReturnError ==
    /\ main = "serving" /\ failed
    /\ main' = "closing"
    /\ UNCHANGED <<queue, requests, streams, stop, ctxDone, failed, graceful, process>>

(* Mutant: Shutdown is given up at once. *)
DrainOverAtOnce == TRUE

(* Shutdown returns when no connection is active, or when shutdownCtx is   *)
(* done.                                                                   *)
DrainOver ==
    \/ (\A r \in Callers : ~Active(r)) /\ (\A s \in Streams : ~Open(s))
    \/ clock >= stop + Grace

DrainEnds ==
    /\ main = "draining" /\ DrainOver
    /\ main' = "closing"
    /\ UNCHANGED <<queue, requests, streams, stop, ctxDone, failed, graceful, process>>

(* The deferred runtimeInstance.Shutdown: cancel and kill, ... *)
CloseKill ==
    /\ main = "closing" /\ main' = "waiting"
    /\ killed' = TRUE
    /\ CQ!GoDown
    /\ UNCHANGED <<requests, streams, stop, ctxDone, failed, graceful, chrome>>

(* ... wait for the process, and close the log, which ends the streams. *)
CloseLog ==
    /\ main = "waiting" /\ ~chrome
    /\ main' = "closed"
    /\ stream' = [s \in Streams |-> IF Open(s) THEN "ended" ELSE stream[s]]
    /\ UNCHANGED <<queue, requests, since, stop, ctxDone, failed, graceful, process>>

(* Run returns an error in both cases; os.Exit waits for nobody. *)
Exit ==
    /\ main = "closed" /\ main' = "exited"
    /\ conn' = [r \in Callers |-> IF Active(r) THEN "cut" ELSE conn[r]]
    /\ UNCHANGED <<queue, arrived, left, streams, stop, ctxDone, failed, graceful, process>>
-----------------------------------------------------------------------------
(* Some step of the handlers or of App.run is due. *)
Urgent ==
    \/ \E r \in Callers :
          \/ conn[r] \in {"reading", "answering"} /\ (r \in Prompt \/ TimedOut(r))
          \/ conn[r] = "calling" /\ stage[r] = "idle"
    \/ \E s \in Streams : Open(s) /\ clock >= since[s] + StreamLife
    \/ main = "serving" /\ (ctxDone \/ failed)
    \/ main = "draining" /\ DrainOver
    \/ main \in {"closing", "closed"}

(* Time is observed while a request, a stream or Shutdown waits. *)
Tick ==
    /\ main # "exited" /\ ~Urgent
    /\ (\E r \in Callers : Active(r)) \/ (\E s \in Streams : Open(s))
    /\ CQ!Tick
    /\ UNCHANGED <<requests, streams, app, process>>

(* The agent as browser.New has returned and the server starts. *)
Init ==
    /\ CQ!Init
    /\ conn = [r \in Callers |-> "none"]
    /\ arrived = [r \in Callers |-> 0]
    /\ left = Runs
    /\ stream = [s \in Streams |-> "none"]
    /\ since = [s \in Streams |-> 0]
    /\ main = "serving" /\ stop = 0
    /\ ctxDone = FALSE /\ failed = FALSE /\ graceful = FALSE
    /\ killed = FALSE /\ chrome = TRUE

HandlerStep(r) == Reject(r) \/ Call(r) \/ Admit(r) \/ NextRun(r) \/ Return(r) \/ Answer(r)

AppStep == BeginShutdown \/ ReturnError \/ DrainEnds \/ CloseKill \/ CloseLog \/ Exit

Next ==
    \/ \E r \in Callers : Arrive(r) \/ HandlerStep(r)
    \/ \E s \in Streams : StreamOpens(s) \/ StreamEnds(s)
    \/ ChromeEnds \/ ParentDone \/ ListenFails
    \/ AppStep
    \/ Tick

Spec == Init /\ [][Next]_vars

(* Goroutines run, time goes on, and a killed Chrome dies.  Clients and a  *)
(* Chrome that runs owe nothing: a step they delay is forced by the clock. *)
FairSpec ==
    /\ Spec
    /\ WF_vars(AppStep) /\ WF_vars(Tick)
    /\ WF_vars(killed /\ ChromeEnds)
    /\ \A r \in Callers : WF_vars(HandlerStep(r))
    /\ \A s \in Streams : WF_vars(clock >= since[s] + StreamLife /\ StreamEnds(s))
-----------------------------------------------------------------------------
(* Every variable stays within the values its Go counterpart can hold, and   *)
(* only a handler that calls the Browser is in its queue.                    *)
TypeOK ==
    /\ conn \in [Callers -> {"none", "reading", "calling", "answering",
                             "answered", "lost", "cut"}]
    /\ stage \in [Callers -> {"idle", "queued", "inside", "done"}]
    /\ holder \in Callers \cup {None}
    /\ \A r \in Callers : main # "exited" =>
          /\ stage[r] \in {"queued", "inside"} => conn[r] = "calling"
          /\ (holder = r) <=> (stage[r] = "inside")
    /\ clock \in Nat /\ due \in [Callers -> Nat] /\ arrived \in [Callers -> Nat]
    /\ left \in [Callers -> Nat]
    /\ \A r \in Callers : 0 < left[r] /\ left[r] <= Runs[r]
    /\ stream \in [Streams -> {"none", "open", "ended"}]
    /\ since \in [Streams -> Nat]
    /\ main \in {"serving", "draining", "closing", "waiting", "closed", "exited"}
    /\ stop \in 0..clock
    /\ ctxDone \in BOOLEAN /\ failed \in BOOLEAN /\ graceful \in BOOLEAN
    /\ killed \in BOOLEAN /\ chrome \in BOOLEAN /\ down \in BOOLEAN

(* However long the queue for the Browser is, the handler of a client that   *)
(* sends and reads at once is done within the longest timeout in use, times  *)
(* the calls it makes; if that is below the WriteTimeout, so is the answer.  *)
AnswersReachPromptClients ==
    \A r \in Prompt : conn[r] = "lost" =>
        \E q \in Callers : Runs[r] * Patience[q] >= Limit

(* Shutdown never takes longer than its grace period, and calls in flight do *)
(* not hold it, for the end of the context ends them: beyond the moment it   *)
(* waits only for log streams and for clients that are slow to send or read. *)
ShutdownHeldByClients ==
    main = "draining" =>
        /\ clock <= stop + Grace
        /\ clock > stop => \A r \in Prompt : ~Active(r)

(* The process ends under a client that sends and reads at once only if the  *)
(* listener has failed: after a Shutdown all such calls have been answered.  *)
GracefulStop == graceful => \A r \in Prompt : conn[r] # "cut"

(* The agent never leaves Chrome behind when Run returns: a consequence of   *)
(* TeardownSpec, below.                                                      *)
NoOrphan == main = "exited" => ~chrome

(* Run returns when its context ends or the listener fails, whatever Chrome, *)
(* the clients and the log streams do.                                       *)
RunReturns == (ctxDone \/ failed) ~> (main = "exited")

(* Between the two ways out of App.run and the exit of the process lies a    *)
(* whole Teardown, the one that ChromeProcess implements.                    *)
Down == INSTANCE Teardown WITH
    alive <- chrome, doomed <- killed,
    stage <- IF main \in {"closed", "exited"} THEN "closed"
             ELSE IF main = "waiting" THEN "closing" ELSE "open"
TeardownSpec == Down!Spec
=============================================================================
