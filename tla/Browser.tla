------------------------------ MODULE Browser ------------------------------
(***************************************************************************)
(* One headless Chrome shared by all requests (browser.go).  A request     *)
(* makes one or more calls of Browser.run; each call creates its context,  *)
(* queues for b.mu, sends DevTools commands one at a time, and gives up    *)
(* when its context is done.  Chrome may end and the Browser may be closed *)
(* at any time, outside b.mu (module ChromeProcess has the details).       *)
(*                                                                         *)
(* A command is known by the request, the run and its place in it; what it *)
(* does to the page is not modelled, only when it takes effect.  Chrome    *)
(* may execute a command after its caller has stopped waiting for it, and  *)
(* commands that are on the wire together in either order.                 *)
(***************************************************************************)
EXTENDS Integers, Sequences

CONSTANTS
    Requests,     \* handler goroutines
    None,         \* no request
    Runs,         \* per request: for each of its runs, how many commands
    Timeout       \* per request: the timeout of its runs, in clock ticks

ASSUME BrowserAssumption ==
    /\ None \notin Requests
    /\ Runs \in [Requests -> Seq(Nat) \ {<<>>}]
    /\ Timeout \in [Requests -> Nat \ {0}]

VARIABLES
    now,          \* the clock
    mu,           \* b.mu: the request that holds it
    pc,           \* per request: where its handler is
    run,          \* per request: index of its current run
    at,           \* per request: commands of the current run answered
    deadline,     \* per request: when the context of the current run ends
    reply,        \* per request: answer to the command it waits for
    answer,       \* per request: the HTTP answer
    wire,         \* commands sent and not yet executed
    applied,      \* commands Chrome has executed, in order
    cancelled,    \* b.ctx is done
    chrome,       \* the Chrome process runs
    journal,      \* success lines, in the order in which the log is given them
    horizon       \* history: the latest arrival of a call plus its timeout

session == <<run, at, deadline, reply, answer>>
devtools == <<wire, applied>>
vars == <<now, mu, pc, session, devtools, cancelled, chrome, journal, horizon>>

Length(r) == Runs[r][run[r]]
Command(r) == <<r, run[r], at[r] + 1>>
CtxDone(r) == cancelled \/ now >= deadline[r]
-----------------------------------------------------------------------------
(* Browser.run *)

(* The context is created before the lock is asked for. *)
Begin(r) ==
    /\ pc[r] = "idle"
    /\ deadline' = [deadline EXCEPT ![r] = now + Timeout[r]]
    /\ horizon' = IF horizon < now + Timeout[r] THEN now + Timeout[r] ELSE horizon
    /\ pc' = [pc EXCEPT ![r] = "queued"]
    /\ UNCHANGED <<now, mu, run, at, reply, answer, devtools, cancelled, chrome, journal>>

(* Mutant: the context is created once the lock is held. *)
AcquireFreshContext(r) ==
    /\ pc[r] = "queued" /\ mu = None
    /\ mu' = r
    /\ pc' = [pc EXCEPT ![r] = "running"]
    /\ deadline' = [deadline EXCEPT ![r] = now + Timeout[r]]
    /\ UNCHANGED <<now, run, at, reply, answer, devtools, cancelled, chrome, journal, horizon>>

(* Mutant: calls are not serialised. *)
AcquireUnlocked(r) ==
    /\ pc[r] = "queued"
    /\ mu' = r
    /\ pc' = [pc EXCEPT ![r] = "running"]
    /\ UNCHANGED <<now, session, devtools, cancelled, chrome, journal, horizon>>

(* b.mu.Lock() does not look at the context. *)
Acquire(r) ==
    /\ pc[r] = "queued" /\ mu = None
    /\ mu' = r
    /\ pc' = [pc EXCEPT ![r] = "running"]
    /\ UNCHANGED <<now, session, devtools, cancelled, chrome, journal, horizon>>

(* Mutant: a run sends one command too many. *)
IssueUnbounded(r) ==
    /\ pc[r] = "running"
    /\ wire' = IF chrome THEN wire \cup {Command(r)} ELSE wire
    /\ pc' = [pc EXCEPT ![r] = "waiting"]
    /\ UNCHANGED <<now, mu, session, applied, cancelled, chrome, journal, horizon>>

(* The select that hands a command to the connection picks either side     *)
(* when the context is done already, so the command may still go out.      *)
Issue(r) ==
    /\ pc[r] = "running" /\ at[r] < Length(r)
    /\ wire' = IF chrome THEN wire \cup {Command(r)} ELSE wire
    /\ pc' = [pc EXCEPT ![r] = "waiting"]
    /\ UNCHANGED <<now, mu, session, applied, cancelled, chrome, journal, horizon>>

(* Mutant: the caller goes on before its command has been answered. *)
AdvanceUnanswered(r) ==
    /\ pc[r] = "waiting"
    /\ at' = [at EXCEPT ![r] = @ + 1]
    /\ reply' = [reply EXCEPT ![r] = "none"]
    /\ pc' = [pc EXCEPT ![r] = "running"]
    /\ UNCHANGED <<now, mu, run, deadline, answer, devtools, cancelled, chrome, journal, horizon>>

Advance(r) ==
    /\ pc[r] = "waiting" /\ reply[r] = "ok"
    /\ at' = [at EXCEPT ![r] = @ + 1]
    /\ reply' = [reply EXCEPT ![r] = "none"]
    /\ pc' = [pc EXCEPT ![r] = "running"]
    /\ UNCHANGED <<now, mu, run, deadline, answer, devtools, cancelled, chrome, journal, horizon>>

(* The success line is published and the lock released; the handler goes   *)
(* on to its next run or answers.  The lines for the start and the failure *)
(* of a run are left out, for no property is about them.                   *)
Finish(r) ==
    /\ pc[r] = "running" /\ at[r] = Length(r)
    /\ journal' = Append(journal, <<r, run[r]>>)
    /\ mu' = None
    /\ \/ /\ run[r] < Len(Runs[r])
          /\ run' = [run EXCEPT ![r] = @ + 1]
          /\ at' = [at EXCEPT ![r] = 0]
          /\ pc' = [pc EXCEPT ![r] = "idle"]
          /\ UNCHANGED answer
       \/ /\ run[r] = Len(Runs[r])
          /\ answer' = [answer EXCEPT ![r] = "ok"]
          /\ pc' = [pc EXCEPT ![r] = "answered"]
          /\ UNCHANGED <<run, at>>
    /\ UNCHANGED <<now, deadline, reply, devtools, cancelled, chrome, horizon>>

(* The context is done, Chrome refused the command, or fn found an error   *)
(* of its own (an unsupported format, a result it cannot decode).          *)
MayFail(r) ==
    \/ pc[r] = "running"
    \/ pc[r] = "waiting" /\ (CtxDone(r) \/ reply[r] = "error")

(* Mutant: the error path does not release the lock. *)
FailLocked(r) ==
    /\ MayFail(r)
    /\ answer' = [answer EXCEPT ![r] = "error"]
    /\ pc' = [pc EXCEPT ![r] = "answered"]
    /\ UNCHANGED <<now, mu, run, at, deadline, reply, devtools, cancelled, chrome, journal, horizon>>

(* Mutant: the handler ignores the error and makes its next call. *)
FailContinue(r) ==
    /\ MayFail(r)
    /\ mu' = None
    /\ run' = [run EXCEPT ![r] = IF @ < Len(Runs[r]) THEN @ + 1 ELSE @]
    /\ at' = [at EXCEPT ![r] = 0]
    /\ reply' = [reply EXCEPT ![r] = "none"]
    /\ answer' = [answer EXCEPT ![r] = IF run[r] < Len(Runs[r]) THEN @ ELSE "error"]
    /\ pc' = [pc EXCEPT ![r] = IF run[r] < Len(Runs[r]) THEN "idle" ELSE "answered"]
    /\ UNCHANGED <<now, deadline, devtools, cancelled, chrome, journal, horizon>>

Fail(r) ==
    /\ MayFail(r)
    /\ mu' = None
    /\ answer' = [answer EXCEPT ![r] = "error"]
    /\ pc' = [pc EXCEPT ![r] = "answered"]
    /\ UNCHANGED <<now, run, at, deadline, reply, devtools, cancelled, chrome, journal, horizon>>

(* Time is observed only while a run holds the lock with a live context: a *)
(* free lock is taken, and a dead context noticed, within the same tick.   *)
Tick ==
    /\ mu # None /\ ~CtxDone(mu)
    /\ now' = now + 1
    /\ UNCHANGED <<mu, pc, session, devtools, cancelled, chrome, journal, horizon>>
-----------------------------------------------------------------------------
(* Chrome and the DevTools connection (external) *)

Waits(c) == pc[c[1]] = "waiting" /\ Command(c[1]) = c

Respond(c, outcome) ==
    reply' = IF Waits(c) THEN [reply EXCEPT ![c[1]] = outcome] ELSE reply

Execute(c) ==
    /\ c \in wire
    /\ wire' = wire \ {c} /\ applied' = Append(applied, c)
    /\ Respond(c, "ok")
    /\ UNCHANGED <<now, mu, pc, run, at, deadline, answer, cancelled, chrome, journal, horizon>>

Refuse(c) ==
    /\ c \in wire
    /\ wire' = wire \ {c}
    /\ Respond(c, "error")
    /\ UNCHANGED <<now, mu, pc, run, at, deadline, answer, applied, cancelled, chrome, journal, horizon>>

ChromeEnds ==
    /\ chrome /\ chrome' = FALSE
    /\ wire' = {}
    /\ UNCHANGED <<now, mu, pc, session, applied, cancelled, journal, horizon>>

(* chromedp cancels the context of a browser it has lost. *)
ConnectionLost ==
    /\ ~chrome /\ ~cancelled
    /\ cancelled' = TRUE
    /\ UNCHANGED <<now, mu, pc, session, devtools, chrome, journal, horizon>>

(* b.cancel in Close, or the end of the context given to NewBrowser. *)
Cancel ==
    /\ ~cancelled /\ cancelled' = TRUE
    /\ UNCHANGED <<now, mu, pc, session, devtools, chrome, journal, horizon>>
-----------------------------------------------------------------------------
(* A browser that NewBrowser has just returned. *)
Init ==
    /\ now = 0 /\ mu = None /\ horizon = 0
    /\ pc = [r \in Requests |-> "idle"]
    /\ run = [r \in Requests |-> 1]
    /\ at = [r \in Requests |-> 0]
    /\ deadline = [r \in Requests |-> 0]
    /\ reply = [r \in Requests |-> "none"]
    /\ answer = [r \in Requests |-> "none"]
    /\ wire = {} /\ applied = <<>>
    /\ cancelled = FALSE /\ chrome = TRUE
    /\ journal = <<>>

(* What a call does without the help of Chrome. *)
Proceed(r) == Acquire(r) \/ Issue(r) \/ Advance(r) \/ Finish(r) \/ Fail(r)

Next ==
    \/ \E r \in Requests : Begin(r) \/ Proceed(r)
    \/ Tick
    \/ \E c \in wire : Execute(c) \/ Refuse(c)
    \/ ChromeEnds \/ ConnectionLost \/ Cancel

Spec == Init /\ [][Next]_vars

(* Handlers run and the clock advances.  Chrome owes no reply: a command   *)
(* may stay on the wire for ever.                                          *)
FairSpec ==
    /\ Spec
    /\ WF_vars(Tick)
    /\ \A r \in Requests :
          /\ WF_vars(Proceed(r))
          /\ WF_vars(run[r] > 1 /\ Begin(r))
-----------------------------------------------------------------------------
(* Every variable stays within the values its Go counterpart can hold.       *)
TypeOK ==
    /\ now \in Nat /\ horizon \in Nat
    /\ mu \in Requests \cup {None}
    /\ pc \in [Requests -> {"idle", "queued", "running", "waiting", "answered"}]
    /\ run \in [Requests -> Nat] /\ \A r \in Requests : run[r] \in DOMAIN Runs[r]
    /\ at \in [Requests -> Nat] /\ \A r \in Requests : at[r] <= Length(r)
    /\ deadline \in [Requests -> Nat]
    /\ reply \in [Requests -> {"none", "ok", "error"}]
    /\ answer \in [Requests -> {"none", "ok", "error"}]
    /\ \A c \in wire : c[1] \in Requests
    /\ cancelled \in BOOLEAN /\ chrome \in BOOLEAN

Program(r) == UNION {{<<r, k, n>> : n \in 1..Runs[r][k]} : k \in DOMAIN Runs[r]}
Precedes(c, d) == c[1] = d[1] /\ (c[2] < d[2] \/ (c[2] = d[2] /\ c[3] < d[3]))
Executed(c) == \E i \in DOMAIN applied : applied[i] = c

Succeeded(r, k) == k < run[r] \/ answer[r] = "ok"
Failed(r, k) == k = run[r] /\ answer[r] = "error"
Late(c) == answer[c[1]] = "error" /\ c = Command(c[1])

(* Chrome executes no command twice, none that its request does not make,    *)
(* and none before all that come earlier in the program of the request; a    *)
(* run that returned nil has had all of its commands executed.  The second   *)
(* call of attach and extract (handlers.go 325-379) therefore touches the    *)
(* page only if the first one succeeded.                                     *)
AppliedInProgramOrder ==
    /\ \A i, j \in DOMAIN applied : applied[i] = applied[j] => i = j
    /\ \A j \in DOMAIN applied :
          /\ applied[j] \in Program(applied[j][1])
          /\ \A c \in Program(applied[j][1]) :
                Precedes(c, applied[j]) => \E i \in 1..j - 1 : applied[i] = c
    /\ \A r \in Requests : \A c \in Program(r) : Succeeded(r, c[2]) => Executed(c)

(* b.mu keeps runs apart: between two commands of a run that is not given up *)
(* Chrome executes a foreign command only if it is the one its caller was    *)
(* waiting for when it gave up, and no caller has two commands outstanding.  *)
ForeignOnlyLate ==
    /\ \A i, j, m \in DOMAIN applied :
          LET own == applied[i]
              foreign == applied[m]
          IN  (/\ i < m /\ m < j
               /\ applied[j][1] = own[1] /\ applied[j][2] = own[2]
               /\ ~Failed(own[1], own[2])
               /\ <<foreign[1], foreign[2]>> # <<own[1], own[2]>>)
              => Late(foreign)
    /\ \A c, d \in wire : c[1] = d[1] => c = d

(* The success lines stand in the log in the order in which Chrome did the   *)
(* work, for they are published before the lock is released.                 *)
SuccessLinesInOrder ==
    \A i, j \in DOMAIN journal, m, n \in DOMAIN applied :
        (/\ i < j
         /\ applied[m][1] = journal[i][1] /\ applied[m][2] = journal[i][2]
         /\ applied[n][1] = journal[j][1] /\ applied[n][2] = journal[j][2])
        => m < n

(* Waiting for b.mu uses up the timeout of the waiting call, so any queue of *)
(* calls drains by the latest deadline in it, not by the sum of the timeouts.*)
DrainsByLatestDeadline ==
    \A r \in Requests : pc[r] \in {"queued", "running", "waiting"} => now <= horizon

(* Every call that queued for the browser gets an answer, though Chrome may  *)
(* never reply, die, or be closed under it.                                  *)
EveryCallAnswered == \A r \in Requests : (pc[r] = "queued") ~> (answer[r] # "none")

(* To its callers the Browser is a queue with deadlines: runs exclude each   *)
(* other, the wait for b.mu counts against the timeout, and a call returns   *)
(* when its context is done, whatever Chrome does.                           *)
Queue == INSTANCE CallQueue WITH
    Callers <- Requests, Patience <- Timeout, clock <- now, holder <- mu,
    stage <- [r \in Requests |->
                 IF pc[r] \in {"running", "waiting"} THEN "inside"
                 ELSE IF pc[r] = "answered" THEN "done" ELSE pc[r]],
    due <- deadline, down <- cancelled
QueueSpec == Queue!Spec
=============================================================================
