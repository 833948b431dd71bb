---------------------------- MODULE AgentProofs ----------------------------
(***************************************************************************)
(* Proofs about Agent for any callers and streams and any durations: how   *)
(* the agent stops.  The argument: the end of the context takes the        *)
(* Browser down, so whoever calls it or asks for it is done before time    *)
(* goes on; what Shutdown still waits for is not prompt.                   *)
(***************************************************************************)
EXTENDS Agent, WellFoundedInduction, TLAPS

(* A handler is in the queue while it is calling, and was not before.      *)
StageInv ==
    /\ \A r \in Callers :
          /\ conn[r] = "calling" => stage[r] \in {"idle", "queued", "inside"}
          /\ conn[r] \in {"none", "reading"} => stage[r] = "idle"
    /\ main # "exited" => holder = None \/ stage[holder] = "inside"

NoPrompt == \A r \in Prompt : ~Active(r)

(* The stations of a stop.                                                 *)
StopInv ==
    /\ main = "serving" => ~graceful /\ (ctxDone => down)
    /\ main = "draining" => /\ graceful /\ down
                            /\ clock <= stop + Grace
                            /\ clock > stop => NoPrompt
    /\ main \in {"closing", "waiting", "closed"} => (graceful => NoPrompt)
    /\ main \in {"closed", "exited"} => ~chrome
    /\ \A r \in Callers : conn[r] = "cut" => main = "exited"
    /\ graceful => \A r \in Prompt : conn[r] # "cut"

IInv == TypeOK /\ StageInv /\ StopInv

(* What the assumptions say about the constants.                           *)
LEMMA Constants ==
    /\ None \notin Callers /\ Prompt \subseteq Callers
    /\ Runs \in [Callers -> Nat]
    /\ \A r \in Callers : Patience[r] \in Nat /\ Runs[r] > 0 /\ r # None
    /\ Grace \in Nat /\ Grace > 0
  BY AgentAssumption DEF AgentAssumption

(* Init establishes the invariant.                                         *)
LEMMA InitInv == Init => IInv
<1> SUFFICES ASSUME Init PROVE IInv
  OBVIOUS
<1>0. /\ conn = [r \in Callers |-> "none"] /\ arrived = [r \in Callers |-> 0] /\ left = Runs
      /\ stream = [s \in Streams |-> "none"] /\ since = [s \in Streams |-> 0]
      /\ main = "serving" /\ stop = 0 /\ ctxDone = FALSE /\ failed = FALSE /\ graceful = FALSE
      /\ killed = FALSE /\ chrome = TRUE
      /\ clock = 0 /\ holder = None /\ down = FALSE
      /\ stage = [r \in Callers |-> "idle"] /\ due = [r \in Callers |-> 0]
  BY DEF Init, CQ!Init
<1>1. TypeOK
  <2>1. /\ conn \in [Callers -> {"none", "reading", "calling", "answering", "answered", "lost", "cut"}]
        /\ stage \in [Callers -> {"idle", "queued", "inside", "done"}]
        /\ due \in [Callers -> Nat] /\ arrived \in [Callers -> Nat]
        /\ stream \in [Streams -> {"none", "open", "ended"}] /\ since \in [Streams -> Nat]
    BY <1>0
  <2>2. left \in [Callers -> Nat] /\ \A r \in Callers : 0 < left[r] /\ left[r] <= Runs[r]
    BY <1>0, Constants
  <2>3. \A r \in Callers : stage[r] = "idle" /\ holder # r
    BY <1>0, Constants
  <2>4. /\ clock \in Nat /\ stop \in 0..clock /\ holder \in Callers \cup {None}
        /\ main \in {"serving", "draining", "closing", "waiting", "closed", "exited"}
    BY <1>0
  <2>5. /\ ctxDone \in BOOLEAN /\ failed \in BOOLEAN /\ graceful \in BOOLEAN
        /\ killed \in BOOLEAN /\ chrome \in BOOLEAN /\ down \in BOOLEAN
    BY <1>0
  <2>6. \A r \in Callers : /\ stage[r] \in {"queued", "inside"} => conn[r] = "calling"
                           /\ (holder = r) <=> (stage[r] = "inside")
    BY <2>3
  <2> QED
    BY <2>1, <2>2, <2>4, <2>5, <2>6, Zenon DEF TypeOK
<1>2. StageInv
  BY <1>0 DEF StageInv
<1>3. StopInv
  BY <1>0 DEF StopInv
<1> QED
  BY <1>1, <1>2, <1>3 DEF IInv

(* The server and the handlers leave the stop alone; only before it, or in *)
(* its first moment, does a connection become active.                      *)
LEMMA ConnectionInv ==
    ASSUME IInv, NEW r \in Callers, NEW x \in {"reading", "calling", "answering", "answered", "lost"},
           conn' = [conn EXCEPT ![r] = x],
           \/ Active(r)
           \/ Accepting,
           UNCHANGED <<clock, down, app, process>>
    PROVE  StopInv'
<1> USE DEF IInv, app, process, Active
<1>1. \A q \in Callers : conn'[q] = IF q = r THEN x ELSE conn[q]
  BY DEF TypeOK
<1>2. CASE Active(r)
  <2>1. \A q \in Callers : Active(q)' => Active(q)
    BY <1>1, <1>2
  <2>2. \A q \in Callers : conn'[q] = "cut" => conn[q] = "cut"
    BY <1>1
  <2> QED
    BY <2>1, <2>2, Constants DEF StopInv, NoPrompt
<1>3. CASE Accepting
  <2>1. \A q \in Callers : conn'[q] = "cut" => conn[q] = "cut"
    BY <1>1
  <2>2. main = "draining" => ~(clock > stop)
    BY <1>3 DEF Accepting, TypeOK
  <2>3. main \in {"closing", "waiting", "closed"} => ~graceful
    BY <1>3 DEF Accepting
  <2> QED
    BY <2>1, <2>2, <2>3, Constants DEF StopInv
<1> QED
  BY <1>2, <1>3

(* What TypeOK says of the parts that no handler touches.                  *)
QuietType ==
    /\ stream \in [Streams -> {"none", "open", "ended"}]
    /\ since \in [Streams -> Nat]
    /\ main \in {"serving", "draining", "closing", "waiting", "closed", "exited"}
    /\ clock \in Nat /\ stop \in 0..clock
    /\ ctxDone \in BOOLEAN /\ failed \in BOOLEAN /\ graceful \in BOOLEAN
    /\ killed \in BOOLEAN /\ chrome \in BOOLEAN /\ down \in BOOLEAN

(* What it says of callers and of the queue.                               *)
CallerType ==
    /\ conn \in [Callers -> {"none", "reading", "calling", "answering", "answered", "lost", "cut"}]
    /\ stage \in [Callers -> {"idle", "queued", "inside", "done"}]
    /\ holder \in Callers \cup {None}
    /\ due \in [Callers -> Nat] /\ arrived \in [Callers -> Nat] /\ left \in [Callers -> Nat]
    /\ \A r \in Callers : 0 < left[r] /\ left[r] <= Runs[r]

QueueType ==
    \A r \in Callers : main # "exited" =>
          /\ stage[r] \in {"queued", "inside"} => conn[r] = "calling"
          /\ (holder = r) <=> (stage[r] = "inside")

(* The three together are TypeOK.                                          *)
LEMMA TypeParts == TypeOK <=> QuietType /\ CallerType /\ QueueType
  BY Zenon DEF TypeOK, QuietType, CallerType, QueueType

(* A step of one handler keeps the types and the queue.                    *)
LEMMA CallerInv ==
    ASSUME TypeOK, StageInv, NEW r \in Callers, Arrive(r) \/ HandlerStep(r)
    PROVE  CallerType' /\ QueueType' /\ StageInv' /\ UNCHANGED <<clock, down, streams, app, process>>
<1> USE Constants, TypeParts
    DEF CallerType, QueueType, StageInv, QuietType, queue, requests, streams, app, process
<1>1. CASE Arrive(r)
  BY <1>1 DEF Arrive
<1>2. CASE Reject(r)
  BY <1>2 DEF Reject
<1>3. CASE Call(r)
  BY <1>3 DEF Call, CQ!Enter
<1>4. CASE Admit(r)
  BY <1>4 DEF Admit, CQ!Admit
<1>5. CASE NextRun(r)
  BY <1>5 DEF NextRun, CQ!ComeBack
<1>6. CASE Return(r)
  BY <1>6 DEF Return, CQ!Leave
<1>7. CASE Answer(r)
  BY <1>7 DEF Answer
<1> QED
  BY <1>1, <1>2, <1>3, <1>4, <1>5, <1>6, <1>7 DEF HandlerStep

(* The server and the handlers keep the invariant.                         *)
LEMMA HandlerInv ==
    ASSUME IInv, NEW r \in Callers, Arrive(r) \/ HandlerStep(r)
    PROVE  IInv'
<1>1. CallerType' /\ QueueType' /\ StageInv' /\ UNCHANGED <<clock, down, streams, app, process>>
  BY CallerInv DEF IInv
<1>2. TypeOK'
  <2>1. QuietType'
    BY <1>1, TypeParts DEF IInv, QuietType, streams, app, process
  <2> QED
    BY <1>1, <2>1, TypeParts DEF TypeOK, QuietType, CallerType, QueueType
<1>3. StopInv'
  <2>1. CASE UNCHANGED conn
    BY <1>1, <2>1 DEF IInv, StopInv, NoPrompt, Active, app, process
  <2>2. CASE Arrive(r)
    BY <1>1, <2>2, ConnectionInv DEF Arrive
  <2>3. CASE HandlerStep(r) /\ ~UNCHANGED conn
    <3>1. Active(r)
      BY <2>3 DEF HandlerStep, Reject, Call, Admit, NextRun, Return, Answer, Active, requests
    <3>2. \E x \in {"reading", "calling", "answering", "answered", "lost"} : conn' = [conn EXCEPT ![r] = x]
      BY <2>3 DEF HandlerStep, Reject, Call, Admit, NextRun, Return, Answer, requests
    <3> QED
      BY <1>1, <3>1, <3>2, ConnectionInv
  <2> QED
    BY <2>1, <2>2, <2>3
<1> QED
  BY <1>1, <1>2, <1>3 DEF IInv

(* Streams and the loss of Chrome change nothing that a stop depends on.   *)
LEMMA OutsideInv ==
    ASSUME IInv,
           \/ \E s \in Streams : StreamOpens(s) \/ StreamEnds(s)
           \/ ChromeEnds \/ ListenFails \/ UNCHANGED vars
    PROVE  IInv'
<1>1. /\ UNCHANGED <<requests, clock, holder, stage, due, main, stop, ctxDone, graceful, killed>>
      /\ down' = down \/ down' = TRUE
      /\ chrome' = chrome \/ chrome' = FALSE
      /\ failed' = failed \/ failed' = TRUE
  BY DEF StreamOpens, StreamEnds, ChromeEnds, ListenFails, CQ!GoDown, vars, queue, requests, app, process
<1>2. stream' \in [Streams -> {"none", "open", "ended"}] /\ since' \in [Streams -> Nat]
  BY DEF StreamOpens, StreamEnds, ChromeEnds, ListenFails, vars, streams, IInv, TypeOK
<1>3. QuietType'
  BY <1>1, <1>2, TypeParts DEF QuietType, IInv
<1>4. CallerType' /\ QueueType'
  BY <1>1, TypeParts DEF CallerType, QueueType, IInv, requests
<1>5. TypeOK'
  BY <1>3, <1>4 DEF TypeOK, QuietType, CallerType, QueueType
<1>6. StageInv'
  BY <1>1 DEF IInv, StageInv, requests
<1>7. StopInv'
  BY <1>1 DEF IInv, StopInv, NoPrompt, Active, requests
<1> QED
  BY <1>5, <1>6, <1>7 DEF IInv

(* When the context ends, the Browser goes down with it.                   *)
LEMMA ParentInv == ASSUME IInv, ParentDone PROVE IInv'
<1>1. /\ UNCHANGED <<requests, clock, holder, stage, due, streams, main, stop, failed, graceful, chrome>>
      /\ main = "serving" /\ down' = TRUE /\ ctxDone' = TRUE /\ killed' = TRUE
  BY DEF ParentDone, CQ!GoDown
<1>2. TypeOK'
  <2>1. QuietType'
    BY <1>1, TypeParts DEF QuietType, IInv, streams
  <2>2. CallerType' /\ QueueType'
    BY <1>1, TypeParts DEF CallerType, QueueType, IInv, requests
  <2> QED
    BY <2>1, <2>2 DEF TypeOK, QuietType, CallerType, QueueType
<1>3. StageInv' /\ StopInv'
  BY <1>1 DEF IInv, StageInv, StopInv, NoPrompt, Active, requests
<1> QED
  BY <1>2, <1>3 DEF IInv

(* App.run, Close and main pass the stations in order.                     *)
LEMMA AppInv == ASSUME IInv, AppStep PROVE IInv'
<1>1. /\ UNCHANGED <<clock, holder, stage, due, arrived, left, since, ctxDone, failed>>
      /\ main # "exited"
      /\ main' \in {"draining", "closing", "waiting", "closed", "exited"}
      /\ stop' \in {stop, clock}
      /\ graceful' \in BOOLEAN /\ killed' \in BOOLEAN /\ chrome' \in BOOLEAN /\ down' \in BOOLEAN
  BY DEF AppStep, BeginShutdown, ReturnError, DrainEnds, CloseKill, CloseLog, Exit, CQ!GoDown,
         queue, requests, streams, process, IInv, TypeOK
<1>2. stream' \in [Streams -> {"none", "open", "ended"}]
  BY DEF AppStep, BeginShutdown, ReturnError, DrainEnds, CloseKill, CloseLog, Exit,
         streams, IInv, TypeOK
<1>3. /\ conn' \in [Callers -> {"none", "reading", "calling", "answering", "answered", "lost", "cut"}]
      /\ main' # "exited" => conn' = conn
      /\ \A r \in Callers : conn'[r] = conn[r] \/ (Active(r) /\ conn'[r] = "cut")
  <2>1. CASE conn' = conn
    BY <2>1 DEF IInv, TypeOK
  <2>2. CASE Exit
    BY <2>2 DEF Exit, IInv, TypeOK
  <2> QED
    BY <2>1, <2>2
       DEF AppStep, BeginShutdown, ReturnError, DrainEnds, CloseKill, CloseLog, requests
<1>4. TypeOK'
  <2>1. QuietType'
    BY <1>1, <1>2, TypeParts DEF QuietType, IInv
  <2>2. CallerType' /\ QueueType'
    BY <1>1, <1>3, TypeParts DEF CallerType, QueueType, IInv
  <2> QED
    BY <2>1, <2>2 DEF TypeOK, QuietType, CallerType, QueueType
<1>5. StageInv'
  BY <1>1, <1>3 DEF IInv, StageInv, Active
<1>6. StopInv'
  <2> USE Constants DEF IInv, StopInv, NoPrompt, requests, process
  <2>1. CASE BeginShutdown
    <3>1. stop' = clock /\ clock' = clock /\ clock \in Nat
      BY <2>1 DEF BeginShutdown, queue, TypeOK
    <3> QED
      BY <2>1, <3>1 DEF BeginShutdown, queue, Active
  <2>2. CASE ReturnError
    BY <2>2 DEF ReturnError, Active
  <2>3. CASE DrainEnds
    <3>1. NoPrompt
      <4>1. CASE \A r \in Callers : ~Active(r)
        BY <4>1
      <4>2. CASE clock >= stop + Grace
        BY <2>3, <4>2 DEF DrainEnds, TypeOK
      <4> QED
        BY <2>3, <4>1, <4>2 DEF DrainEnds, DrainOver
    <3> QED
      BY <2>3, <3>1 DEF DrainEnds, Active
  <2>4. CASE CloseKill
    BY <2>4 DEF CloseKill, Active
  <2>5. CASE CloseLog
    BY <2>5 DEF CloseLog, Active
  <2>6. CASE Exit
    BY <1>3, <2>6 DEF Exit
  <2> QED
    BY <2>1, <2>2, <2>3, <2>4, <2>5, <2>6 DEF AppStep
<1> QED
  BY <1>4, <1>5, <1>6 DEF IInv

(* Time goes on only when whoever called a Browser that is down has left.  *)
LEMMA TickInv == ASSUME IInv, Tick PROVE IInv'
<1>1. /\ UNCHANGED <<holder, stage, due, down, requests, streams, app, process>>
      /\ clock' = clock + 1 /\ clock \in Nat /\ stop \in Nat /\ Grace \in Nat
      /\ CQ!Settled /\ ~Urgent
  BY Constants DEF Tick, CQ!Tick, IInv, TypeOK
<1>2. TypeOK'
  <2>1. QuietType'
    BY <1>1, TypeParts DEF QuietType, IInv, streams, app, process
  <2>2. CallerType' /\ QueueType'
    BY <1>1, TypeParts DEF CallerType, QueueType, IInv, requests, app
  <2> QED
    BY <2>1, <2>2 DEF TypeOK, QuietType, CallerType, QueueType
<1>3. main = "draining" => NoPrompt /\ clock' <= stop + Grace
  <2> SUFFICES ASSUME main = "draining" PROVE NoPrompt /\ clock' <= stop + Grace
    OBVIOUS
  <2>1. clock' <= stop + Grace
    BY <1>1 DEF Urgent, DrainOver
  <2>2. holder = None /\ \A r \in Callers : stage[r] # "queued"
    BY <1>1 DEF CQ!Settled, CQ!Over, IInv, StopInv
  <2>3. ASSUME NEW r \in Prompt PROVE ~Active(r)
    <3>1. r \in Callers /\ r # None
      BY Constants
    <3>2. conn[r] \notin {"reading", "answering"}
      BY <1>1, <3>1 DEF Urgent
    <3>3. conn[r] # "calling"
      BY <1>1, <2>2, <3>1 DEF Urgent, IInv, TypeOK, StageInv
    <3> QED
      BY <3>2, <3>3 DEF Active
  <2> QED
    BY <2>1, <2>3 DEF NoPrompt
<1>4. StageInv' /\ StopInv'
  BY <1>1, <1>3 DEF IInv, StageInv, StopInv, NoPrompt, Active, requests, app, process
<1> QED
  BY <1>2, <1>4 DEF IInv

(* The invariant holds throughout.                                         *)
LEMMA Invariance == Spec => []IInv
<1>1. IInv /\ [Next]_vars => IInv'
  BY HandlerInv, OutsideInv, ParentInv, AppInv, TickInv DEF Next
<1> QED
  BY <1>1, InitInv, PTL DEF Spec

(* Every variable keeps its type, and the queue of the Browser holds only  *)
(* handlers that call it.                                                  *)
THEOREM Typed == Spec => []TypeOK
<1>1. IInv => TypeOK
  BY DEF IInv
<1> QED
  BY <1>1, Invariance, PTL

(* Beyond its first moment Shutdown waits for streams and slow clients     *)
(* only, and never beyond its deadline (app.go:122-126).                   *)
THEOREM ShutdownIsHeldByClients == Spec => []ShutdownHeldByClients
<1>1. IInv => ShutdownHeldByClients
  BY DEF IInv, StopInv, NoPrompt, ShutdownHeldByClients
<1> QED
  BY <1>1, Invariance, PTL

(* A Shutdown cuts no call of a client that sends and reads at once        *)
(* (app.go:121-127, main.go:15).                                           *)
THEOREM StopIsGraceful == Spec => []GracefulStop
<1>1. IInv => GracefulStop
  BY DEF IInv, StopInv, GracefulStop
<1> QED
  BY <1>1, Invariance, PTL

(* os.Exit is reached only after Close has waited for Chrome (app.go:73,   *)
(* browser.go:236).                                                        *)
THEOREM ChromeDiesFirst == Spec => []NoOrphan
<1>1. IInv => NoOrphan
  BY DEF IInv, StopInv, NoOrphan
<1> QED
  BY <1>1, Invariance, PTL

(* The longest timeout in use.                                             *)
Longest == Patience[CHOOSE q \in Callers : \A r \in Callers : Patience[r] <= Patience[q]]

(* When the caller asked for b.mu.                                         *)
Entry(r) == due[r] - Patience[r]

(* Whoever is in the queue has not been there for longer than the longest  *)
(* timeout: the one inside leaves at its deadline, and has asked before    *)
(* those that wait.                                                        *)
WaitInv ==
    /\ \A r \in Callers : stage[r] \in {"queued", "inside"} =>
          Entry(r) <= clock /\ clock <= Entry(r) + Longest
    /\ \A r, h \in Callers : stage[r] = "queued" /\ stage[h] = "inside" => Entry(h) <= Entry(r)

(* A prompt client's handler has used up the longest timeout once for each *)
(* call it has finished, at most.                                          *)
Spent(r) == arrived[r] + (Runs[r] - left[r]) * Longest

PromptInv ==
    \A r \in Prompt :
        /\ conn[r] = "reading" => clock = arrived[r]
        /\ conn[r] = "calling" /\ stage[r] = "idle" => clock <= Spent(r)
        /\ conn[r] = "calling" /\ stage[r] \in {"queued", "inside"} => Entry(r) <= Spent(r)
        /\ conn[r] = "answering" => clock <= arrived[r] + Runs[r] * Longest
        /\ conn[r] = "lost" => Runs[r] * Longest >= Limit

(* Some caller has the longest timeout.                                    *)
LEMMA LongestIsMax ==
    /\ \A r \in Callers : Longest \in Nat /\ Patience[r] \in Nat /\ Patience[r] <= Longest
    /\ \E q \in Callers : Longest = Patience[q]
    /\ Limit \in Nat
<1> DEFINE q == CHOOSE q \in Callers : \A r \in Callers : Patience[r] <= Patience[q]
<1>1. q \in Callers /\ \A r \in Callers : Patience[r] <= Patience[q]
  BY AgentAssumption DEF AgentAssumption
<1>2. Longest = Patience[q]
  BY DEF Longest
<1>3. Limit \in Nat /\ \A r \in Callers : Patience[r] \in Nat
  BY AgentAssumption DEF AgentAssumption
<1> QED
  BY <1>1, <1>2, <1>3

(* One more call costs one more timeout.                                   *)
LEMMA OneMore ==
    ASSUME NEW a \in Nat, NEW b \in Nat, NEW m \in Nat, 0 < b, b <= a
    PROVE  /\ (a - b) * m \in Nat /\ a * m \in Nat
           /\ (a - b) * m + m <= a * m
           /\ (a - (b - 1)) * m = (a - b) * m + m
<1>1. PICK c \in Nat, d \in Nat : c = a - b /\ d = b - 1 /\ a = c + d + 1
  OBVIOUS
<1>2. a * m = c * m + d * m + m /\ c * m \in Nat /\ d * m \in Nat
  BY <1>1
<1>3. a - (b - 1) = c + 1 /\ (c + 1) * m = c * m + m
  BY <1>1
<1> QED
  BY <1>1, <1>2, <1>3

(* Both hold initially.                                                    *)
LEMMA InitTime == Init => WaitInv /\ PromptInv
  BY Constants DEF Init, CQ!Init, WaitInv, PromptInv

(* The arithmetic of a caller, in the terms of PromptInv.                  *)
LEMMA Budget ==
    ASSUME TypeOK, NEW r \in Callers
    PROVE  /\ Spent(r) \in Nat /\ arrived[r] <= Spent(r) /\ Entry(r) \in Int
           /\ Spent(r) + Longest <= arrived[r] + Runs[r] * Longest
           /\ arrived[r] + (Runs[r] - (left[r] - 1)) * Longest = Spent(r) + Longest
           /\ Runs[r] * Longest \in Nat
<1>1. /\ Runs[r] \in Nat /\ left[r] \in Nat /\ 0 < left[r] /\ left[r] <= Runs[r]
      /\ arrived[r] \in Nat /\ due[r] \in Nat
  BY Constants DEF TypeOK
<1>2. Longest \in Nat /\ Patience[r] \in Nat
  BY LongestIsMax
<1> HIDE DEF Longest
<1>3. /\ (Runs[r] - left[r]) * Longest \in Nat /\ Runs[r] * Longest \in Nat
      /\ (Runs[r] - left[r]) * Longest + Longest <= Runs[r] * Longest
      /\ (Runs[r] - (left[r] - 1)) * Longest = (Runs[r] - left[r]) * Longest + Longest
  BY <1>1, <1>2, OneMore
<1> QED
  BY <1>1, <1>2, <1>3 DEF Spent, Entry

(* A step that leaves the queue, the clock and the counts alone keeps both,*)
(* if no handler goes on in it.                                            *)
LEMMA TimeFrame ==
    ASSUME WaitInv, PromptInv, Prompt \subseteq Callers,
           UNCHANGED <<clock, stage, due, arrived, left>>,
           \A r \in Callers : conn'[r] = conn[r] \/ conn'[r] = "cut"
    PROVE  WaitInv' /\ PromptInv'
<1>1. WaitInv'
  BY DEF WaitInv, Entry
<1>2. PromptInv'
  BY DEF PromptInv, Entry, Spent
<1> QED
  BY <1>1, <1>2

(* The queue: callers enter with the latest entry and leave from the front.*)
LEMMA HandlerWait ==
    ASSUME IInv, WaitInv, NEW r \in Callers, Arrive(r) \/ HandlerStep(r)
    PROVE  WaitInv'
<1> USE DEF IInv, TypeOK, Entry
<1>0. \A q \in Callers : Longest \in Nat /\ Patience[q] \in Nat /\ Patience[q] <= Longest
  BY LongestIsMax
<1>1. CASE Arrive(r) \/ Reject(r) \/ Answer(r)
  BY <1>1 DEF Arrive, Reject, Answer, queue, WaitInv
<1>2. CASE Call(r)
  <2>1. /\ clock' = clock /\ stage[r] = "idle"
        /\ stage' = [stage EXCEPT ![r] = "queued"]
        /\ due' = [due EXCEPT ![r] = clock + Patience[r]]
    BY <1>2 DEF Call, CQ!Enter
  <2>2. Entry(r)' = clock /\ \A q \in Callers : q # r => Entry(q)' = Entry(q)
    BY <1>0, <2>1
  <2> HIDE DEF Entry
  <2> QED
    BY <1>0, <2>1, <2>2 DEF WaitInv
<1>3. CASE Admit(r)
  <2>1. /\ UNCHANGED <<clock, due>> /\ stage[r] = "queued"
        /\ stage' = [stage EXCEPT ![r] = "inside"]
        /\ \A q \in Callers : stage[q] = "queued" => Entry(r) <= Entry(q)
    BY <1>3 DEF Admit, CQ!Admit
  <2>2. \A q \in Callers : Entry(q)' = Entry(q)
    BY <2>1
  <2> HIDE DEF Entry
  <2> QED
    BY <2>1, <2>2 DEF WaitInv
<1>4. CASE NextRun(r) \/ Return(r)
  <2>1. UNCHANGED <<clock, due>> /\ \E x \in {"idle", "done"} : stage' = [stage EXCEPT ![r] = x]
    BY <1>4 DEF NextRun, Return, CQ!ComeBack, CQ!Leave
  <2>2. \A q \in Callers : Entry(q)' = Entry(q)
    BY <2>1
  <2> HIDE DEF Entry
  <2> QED
    BY <2>1, <2>2 DEF WaitInv
<1> QED
  BY <1>1, <1>2, <1>3, <1>4 DEF HandlerStep

(* The handlers: each call moves a caller from one budget to the next.     *)
LEMMA HandlerPrompt ==
    ASSUME IInv, WaitInv, PromptInv, NEW r \in Callers, Arrive(r) \/ HandlerStep(r)
    PROVE  PromptInv'
<1> USE DEF IInv, TypeOK
<1>0. clock \in Nat /\ arrived[r] \in Nat /\ Longest \in Nat /\ Limit \in Nat
  BY LongestIsMax
<1>1. ASSUME NEW q \in Prompt, q # r
      PROVE  /\ UNCHANGED <<clock, conn[q], stage[q], left[q], arrived[q], Entry(q), Spent(q)>>
  <2>1. q \in Callers
    BY Constants
  <2>2. UNCHANGED <<clock, conn[q], stage[q], left[q], arrived[q], due[q]>>
    BY <1>1, <2>1
       DEF Arrive, HandlerStep, Reject, Call, Admit, NextRun, Return, Answer,
           CQ!Enter, CQ!Admit, CQ!ComeBack, CQ!Leave, queue, requests
  <2> QED
    BY <2>2 DEF Entry, Spent
<1>2. ASSUME r \in Prompt
      PROVE  /\ conn'[r] = "reading" => clock' = arrived'[r]
             /\ conn'[r] = "calling" /\ stage'[r] = "idle" => clock' <= Spent(r)'
             /\ conn'[r] = "calling" /\ stage'[r] \in {"queued", "inside"} => Entry(r)' <= Spent(r)'
             /\ conn'[r] = "answering" => clock' <= arrived'[r] + Runs[r] * Longest
             /\ conn'[r] = "lost" => Runs[r] * Longest >= Limit
  <2>0. /\ Spent(r) \in Nat /\ arrived[r] <= Spent(r) /\ Entry(r) \in Int
        /\ Spent(r) + Longest <= arrived[r] + Runs[r] * Longest
        /\ arrived[r] + (Runs[r] - (left[r] - 1)) * Longest = Spent(r) + Longest
        /\ Runs[r] * Longest \in Nat
    BY Budget
  <2>1. CASE Arrive(r)
    BY <2>1 DEF Arrive, queue
  <2>2. CASE Reject(r)
    BY <1>0, <1>2, <2>0, <2>2 DEF Reject, queue, PromptInv
  <2>3. CASE Call(r)
    <3>1. /\ clock' = clock /\ conn'[r] = "calling" /\ stage'[r] = "queued"
          /\ UNCHANGED <<arrived, left>> /\ due'[r] = clock + Patience[r]
          /\ clock <= Spent(r)
      BY <1>0, <1>2, <2>0, <2>3 DEF Call, CQ!Enter, PromptInv
    <3>2. Spent(r)' = Spent(r) /\ Entry(r)' = clock
      BY <3>1, LongestIsMax DEF Spent, Entry
    <3> QED
      BY <3>1, <3>2
  <2>4. CASE Admit(r)
    <3>1. /\ clock' = clock /\ conn'[r] = "calling" /\ conn[r] = "calling"
          /\ stage[r] = "queued" /\ stage'[r] = "inside"
          /\ UNCHANGED <<arrived, left, due>>
      BY <2>4 DEF Admit, CQ!Admit, requests
    <3>2. Spent(r)' = Spent(r) /\ Entry(r)' = Entry(r)
      BY <3>1 DEF Spent, Entry
    <3> QED
      BY <1>2, <3>1, <3>2 DEF PromptInv
  <2>5. CASE NextRun(r)
    <3>1. /\ clock' = clock /\ conn'[r] = "calling" /\ conn[r] = "calling"
          /\ stage[r] = "inside" /\ stage'[r] = "idle"
          /\ UNCHANGED arrived /\ left'[r] = left[r] - 1
      BY <2>5 DEF NextRun, CQ!ComeBack
    <3>2. Spent(r)' = Spent(r) + Longest
      BY <2>0, <3>1 DEF Spent
    <3>3. clock <= Entry(r) + Longest /\ Entry(r) <= Spent(r)
      BY <1>2, <3>1 DEF WaitInv, PromptInv
    <3> QED
      BY <1>0, <2>0, <3>1, <3>2, <3>3
  <2>6. CASE Return(r)
    <3>1. /\ clock' = clock /\ conn'[r] = "answering" /\ conn[r] = "calling"
          /\ stage[r] = "inside" /\ UNCHANGED arrived
      BY <2>6 DEF Return, CQ!Leave
    <3>2. clock <= Entry(r) + Longest /\ Entry(r) <= Spent(r)
      BY <1>2, <3>1 DEF WaitInv, PromptInv
    <3> QED
      BY <1>0, <2>0, <3>1, <3>2
  <2>7. CASE Answer(r)
    <3>1. /\ conn'[r] \in {"lost", "answered"}
          /\ conn'[r] = "lost" => clock >= arrived[r] + Limit
          /\ clock <= arrived[r] + Runs[r] * Longest
      BY <1>2, <2>7 DEF Answer, TimedOut, PromptInv
    <3> QED
      BY <1>0, <2>0, <3>1
  <2> QED
    BY <2>1, <2>2, <2>3, <2>4, <2>5, <2>6, <2>7 DEF HandlerStep
<1> QED
  BY <1>1, <1>2 DEF PromptInv

(* Time goes on while the call inside has time left, and then those behind *)
(* it have, too.                                                           *)
LEMMA TickTime == ASSUME IInv, WaitInv, PromptInv, Tick PROVE WaitInv' /\ PromptInv'
<1> USE DEF IInv, TypeOK
<1>1. /\ UNCHANGED <<holder, stage, due, requests>> /\ clock' = clock + 1
      /\ CQ!Settled /\ ~Urgent /\ main # "exited" /\ clock \in Nat
  BY DEF Tick, CQ!Tick
<1>2. \A r \in Callers : /\ Entry(r)' = Entry(r) /\ Entry(r) \in Int
                         /\ due[r] = Entry(r) + Patience[r] /\ Patience[r] <= Longest
                         /\ Patience[r] \in Nat /\ Longest \in Nat
  BY <1>1, LongestIsMax DEF Entry
<1>3. WaitInv'
  <2>1. ASSUME NEW r \in Callers, stage[r] \in {"queued", "inside"}
        PROVE  clock + 1 <= Entry(r) + Longest
    <3>1. holder \in Callers /\ stage[holder] = "inside" /\ clock < due[holder]
      <4>1. holder # None
        BY <1>1, <2>1, Constants DEF CQ!Settled
      <4>2. holder \in Callers /\ stage[holder] = "inside"
        BY <1>1, <4>1 DEF StageInv
      <4> QED
        BY <1>1, <4>1, <4>2 DEF CQ!Settled, CQ!Over
    <3>2. Entry(holder) <= Entry(r)
      <4>1. CASE stage[r] = "queued"
        BY <3>1, <4>1 DEF WaitInv
      <4>2. CASE stage[r] = "inside"
        <5>1. r = holder
          BY <1>1, <4>2
        <5> QED
          BY <1>2, <5>1
      <4> QED
        BY <2>1, <4>1, <4>2
    <3> QED
      BY <1>1, <1>2, <2>1, <3>1, <3>2
  <2> QED
    BY <1>1, <1>2, <2>1 DEF WaitInv
<1>4. PromptInv'
  <2>1. \A r \in Prompt : /\ r \in Callers /\ Spent(r)' = Spent(r)
                          /\ conn[r] \notin {"reading", "answering"}
                          /\ conn[r] = "calling" => stage[r] # "idle"
    BY <1>1, Constants DEF Urgent, Spent, requests
  <2> QED
    BY <1>1, <1>2, <2>1 DEF PromptInv, requests
<1> QED
  BY <1>3, <1>4

(* The invariant of time holds throughout.                                 *)
LEMMA TimeInvariance == Spec => [](WaitInv /\ PromptInv)
<1>1. IInv /\ WaitInv /\ PromptInv /\ [Next]_vars => WaitInv' /\ PromptInv'
  <2> SUFFICES ASSUME IInv, WaitInv, PromptInv, [Next]_vars PROVE WaitInv' /\ PromptInv'
    OBVIOUS
  <2>1. CASE \E r \in Callers : Arrive(r) \/ HandlerStep(r)
    BY <2>1, HandlerWait, HandlerPrompt
  <2>2. CASE Tick
    BY <2>2, TickTime
  <2>3. CASE AppStep
    <3>1. UNCHANGED <<clock, stage, due, arrived, left>>
      BY <2>3 DEF AppStep, BeginShutdown, ReturnError, DrainEnds, CloseKill, CloseLog, Exit,
                  CQ!GoDown, queue, requests
    <3>2. \A r \in Callers : conn'[r] = conn[r] \/ conn'[r] = "cut"
      BY <2>3 DEF AppStep, BeginShutdown, ReturnError, DrainEnds, CloseKill, CloseLog, Exit, requests
    <3> QED
      BY <3>1, <3>2, TimeFrame, Constants
  <2>4. CASE \/ \E s \in Streams : StreamOpens(s) \/ StreamEnds(s)
             \/ ChromeEnds \/ ParentDone \/ ListenFails \/ UNCHANGED vars
    <3>1. UNCHANGED <<clock, stage, due, arrived, left, conn>>
      BY <2>4 DEF StreamOpens, StreamEnds, ChromeEnds, ParentDone, ListenFails,
                  CQ!GoDown, vars, queue, requests
    <3> QED
      BY <3>1, TimeFrame, Constants
  <2> QED
    BY <2>1, <2>2, <2>3, <2>4 DEF Next
<1> QED
  BY <1>1, InitTime, Invariance, PTL DEF Spec

(* The answer to a client that sends and reads at once misses the          *)
(* WriteTimeout only if the calls of its handler can take that long        *)
(* together (app.go:104, browser.go:816).                                  *)
THEOREM AnswersArrive == Spec => []AnswersReachPromptClients
<1>1. PromptInv => AnswersReachPromptClients
  BY LongestIsMax DEF PromptInv, AnswersReachPromptClients
<1> QED
  BY <1>1, TimeInvariance, PTL

-----------------------------------------------------------------------------
(* What Tick waits for has a step to take, and time goes on without it.    *)

(* A handler or its client is due: to send the body, to read the answer,   *)
(* to call the Browser, to be admitted to it, to return from it.           *)
HandlerDue(r) ==
    \/ conn[r] \in {"reading", "answering"} /\ (r \in Prompt \/ TimedOut(r))
    \/ conn[r] = "calling" /\ stage[r] = "idle"
    \/ /\ conn[r] = "calling" /\ stage[r] = "queued" /\ holder = None
       /\ \A q \in Callers : stage[q] = "queued" => Entry(r) <= Entry(q)
    \/ conn[r] = "calling" /\ stage[r] = "inside" /\ CQ!Over(r)

StreamDue(s) == Open(s) /\ clock >= since[s] + StreamLife

(* App.run, or what it defers, has a step to take that waits for nobody.   *)
AppDue ==
    \/ main = "serving" /\ (ctxDone \/ failed)
    \/ main = "draining" /\ DrainOver
    \/ main \in {"closing", "closed"}

(* The guard of Tick.                                                      *)
TimePasses ==
    /\ main # "exited" /\ ~Urgent /\ CQ!Settled
    /\ (\E r \in Callers : Active(r)) \/ (\E s \in Streams : Open(s))

(* While a request or a stream is there, time passes or somebody is due.   *)
TimeMoves ==
    main # "exited" /\ ((\E r \in Callers : Active(r)) \/ (\E s \in Streams : Open(s)))
    => \/ TimePasses
       \/ \E r \in Callers : HandlerDue(r)
       \/ \E s \in Streams : StreamDue(s)
       \/ AppDue

(* Every non-empty set of naturals has a least element.                    *)
LEMMA Least ==
    ASSUME NEW T \in SUBSET Nat, T # {}
    PROVE  \E x \in T : \A y \in T : x <= y
<1> DEFINE R == {ss \in Nat \X Nat : ss[1] < ss[2]}
<1>1. IsWellFoundedOn(R, Nat)
  BY NatLessThanWellFounded DEF OpToRel
<1>2. PICK x \in T : \A y \in T : ~(<<y, x>> \in R)
  <2> HIDE DEF R
  <2> QED
    BY <1>1, WFMin, Zenon
<1>3. ASSUME NEW y \in T PROVE x <= y
  <2>1. x \in Nat /\ y \in Nat /\ <<y, x>> \notin R
    BY <1>2
  <2> QED
    BY <2>1
<1> QED
  BY <1>3

(* Among the callers that wait for b.mu there is one that came first.      *)
LEMMA FirstInLine ==
    ASSUME IInv, WaitInv, \E r \in Callers : stage[r] = "queued"
    PROVE  \E r \in Callers : /\ stage[r] = "queued"
                               /\ \A q \in Callers : stage[q] = "queued" => Entry(r) <= Entry(q)
<1> DEFINE T == {Entry(r) + Longest : r \in {q \in Callers : stage[q] = "queued"}}
<1>1. ASSUME NEW r \in Callers, stage[r] = "queued"
      PROVE  Entry(r) \in Int /\ Longest \in Nat /\ Entry(r) + Longest \in Nat
  <2>1. due[r] \in Nat /\ Patience[r] \in Nat /\ Longest \in Nat /\ clock \in Nat
    BY LongestIsMax DEF IInv, TypeOK
  <2>2. clock <= Entry(r) + Longest
    BY <1>1 DEF WaitInv
  <2> QED
    BY <2>1, <2>2 DEF Entry
<1>2. T \in SUBSET Nat /\ T # {}
  BY <1>1
<1>3. PICK x \in T : \A y \in T : x <= y
  <2> HIDE DEF T
  <2> QED
    BY <1>2, Least
<1>4. PICK r \in Callers : stage[r] = "queued" /\ x = Entry(r) + Longest
  BY <1>3
<1>5. ASSUME NEW q \in Callers, stage[q] = "queued" PROVE Entry(r) <= Entry(q)
  <2>1. x <= Entry(q) + Longest
    BY <1>3, <1>5
  <2> QED
    BY <1>1, <1>4, <1>5, <2>1
<1> QED
  BY <1>4, <1>5

(* The clock of the agent is never held: not by a slow client, nor by the  *)
(* queue for b.mu, nor by a Shutdown.  The bounds in time that the other   *)
(* theorems state would hold of a clock that stands still, too, and        *)
(* RunReturns needs this and fairness (app.go:118-130).                    *)
THEOREM ClockNeverHeld == Spec => []TimeMoves
<1>1. IInv /\ WaitInv => TimeMoves
  <2> SUFFICES ASSUME IInv, WaitInv, main # "exited",
                      (\E r \in Callers : Active(r)) \/ (\E s \in Streams : Open(s)),
                      ~TimePasses
               PROVE  \/ \E r \in Callers : HandlerDue(r)
                      \/ \E s \in Streams : StreamDue(s)
                      \/ AppDue
    BY DEF TimeMoves
  <2>1. CASE Urgent
    BY <2>1 DEF Urgent, HandlerDue, StreamDue, AppDue
  <2>2. CASE ~CQ!Settled /\ holder # None
    <3>1. holder \in Callers /\ stage[holder] = "inside" /\ conn[holder] = "calling"
      BY <2>2 DEF IInv, TypeOK, StageInv
    <3>2. CQ!Over(holder)
      BY <2>2 DEF CQ!Settled
    <3> QED
      BY <3>1, <3>2 DEF HandlerDue
  <2>3. CASE ~CQ!Settled /\ holder = None
    <3>1. \E r \in Callers : stage[r] = "queued"
      BY <2>3 DEF CQ!Settled
    <3>2. PICK r \in Callers :
                 /\ stage[r] = "queued"
                 /\ \A q \in Callers : stage[q] = "queued" => Entry(r) <= Entry(q)
      BY <3>1, FirstInLine
    <3>3. conn[r] = "calling"
      BY <3>2 DEF IInv, TypeOK
    <3> QED
      BY <2>3, <3>2, <3>3 DEF HandlerDue
  <2> QED
    BY <2>1, <2>2, <2>3 DEF TimePasses
<1> QED
  BY <1>1, Invariance, TimeInvariance, PTL

-----------------------------------------------------------------------------
(* The end of the agent, as a Teardown.                                    *)

(* The steps of the requests and of time leave Chrome and Close alone.     *)
LEMMA StepRefines == ASSUME IInv, [Next]_vars PROVE [Down!Next]_Down!vars
<1> USE DEF IInv, TypeOK
<1>1. CASE UNCHANGED <<chrome, killed, main>>
  BY <1>1 DEF Down!vars
<1>2. ASSUME \/ \E r \in Callers : Arrive(r) \/ HandlerStep(r)
             \/ \E s \in Streams : StreamOpens(s) \/ StreamEnds(s)
             \/ ListenFails \/ Tick \/ UNCHANGED vars
      PROVE  UNCHANGED <<chrome, killed, main>>
  BY <1>2 DEF Arrive, HandlerStep, Reject, Call, Admit, NextRun, Return, Answer, StreamOpens,
              StreamEnds, ListenFails, Tick, app, process, vars
<1>3. CASE ChromeEnds
  BY <1>3 DEF ChromeEnds, app, Down!Next, Down!Die
<1>4. CASE ParentDone
  BY <1>4 DEF ParentDone, Down!Next, Down!Kill
<1>5. CASE BeginShutdown \/ ReturnError \/ DrainEnds
  BY <1>5 DEF BeginShutdown, ReturnError, DrainEnds, process, Down!vars
<1>6. CASE CloseKill
  BY <1>6 DEF CloseKill, Down!Next, Down!Begin
<1>7. CASE CloseLog
  BY <1>7 DEF CloseLog, process, Down!Next, Down!End
<1>8. CASE Exit
  BY <1>8 DEF Exit, process, Down!vars
<1> QED
  BY <1>1, <1>2, <1>3, <1>4, <1>5, <1>6, <1>7, <1>8 DEF Next, AppStep

(* On both ways out of App.run the agent kills Chrome, waits for it, and   *)
(* only then closes the log and exits: it drives the Browser through a     *)
(* Teardown (app.go:73, 118-130).                                          *)
THEOREM Refinement == Spec => TeardownSpec
<1>1. Init => Down!Init
  BY DEF Init, Down!Init
<1>2. IInv /\ [Next]_vars => [Down!Next]_Down!vars
  BY StepRefines
<1> QED
  BY <1>1, <1>2, Invariance, PTL DEF Spec, TeardownSpec, Down!Spec
=============================================================================
