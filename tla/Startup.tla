------------------------------ MODULE Startup ------------------------------
(***************************************************************************)
(* NewBrowser (browser.go): the DevTools port, the profile directory, the  *)
(* Chrome process, the probing of the port, the connection.  The port is   *)
(* fixed by the configuration or was free a moment ago.  Another Chrome    *)
(* may listen on a fixed one: an earlier agent that ended without          *)
(* Browser.Close leaves its Chrome behind.  Either kind can be taken by    *)
(* somebody else before the Chrome of this Browser binds it.               *)
(*                                                                         *)
(* Time is counted from the creation of the startup context, in ticks.  It *)
(* matters only while the port is probed: what comes before creates no     *)
(* deadline, and what comes after has none.                                *)
(***************************************************************************)
EXTENDS Integers

CONSTANTS
    Attempts,        \* devtoolsProbeAttempts
    Backoff,         \* devtoolsProbeRetryBackoff
    ClientTimeout,   \* timeout of the HTTP client of one probe
    StartupTimeout   \* devtoolsStartupTimeout

ASSUME StartupAssumption ==
    /\ Attempts \in Nat \ {0} /\ Backoff \in Nat \ {0}
    /\ ClientTimeout \in Nat \ {0} /\ StartupTimeout \in Nat \ {0}

VARIABLES
    stage,        \* what NewBrowser is doing, or how it has returned
    attempt,      \* probes that have failed
    now,          \* the clock
    since,        \* when the current probe or pause began
    dir,          \* profile directory: "none", "given", or "temp"
    own,          \* the Chrome that NewBrowser started
    other,        \* a foreign Chrome, on the port while it is "serving"
    reached,      \* which of them answered last
    killed,       \* a kill signal was sent to the own Chrome
    observer,     \* the goroutine in cmd.Wait: none, waiting, collected or done
    held,         \* children of the own Chrome hold its pipes
    parentDone    \* the context given to NewBrowser is done

clock == <<attempt, now, since>>
chromes == <<own, other, killed, observer, held>>
vars == <<stage, clock, dir, chromes, reached, parentDone>>

Running == own \in {"booting", "serving"}
Serving == (IF own = "serving" THEN {"own"} ELSE {}) \cup (IF other = "serving" THEN {"other"} ELSE {})

(* Mutant: the probes get the context of the caller. *)
CtxDoneParent == parentDone

(* startupCtx *)
CtxDone == parentDone \/ now >= StartupTimeout

(* Mutant: the select has no case for the context. *)
CancelsNever == FALSE

(* The two cases of the select between two probes. *)
Cancels == stage = "pause" /\ CtxDone
TimerFires == stage = "pause" /\ now >= since + Backoff

(* client.Do returns: its context, or the timeout of the client, is over. *)
RequestEnds == stage = "probe" /\ (CtxDone \/ now >= since + ClientTimeout)
-----------------------------------------------------------------------------
(* The port is configured, or allocateFreePort finds one that nobody uses. *)
ChoosePort ==
    /\ stage = "port"
    /\ \/ stage' = "dir" /\ other' \in {other, "none"}
       \/ stage' = "failed" /\ UNCHANGED other
    /\ UNCHANGED <<clock, dir, own, killed, observer, held, reached, parentDone>>

MakeDir ==
    /\ stage = "dir"
    /\ \/ stage' = "failed" /\ UNCHANGED dir
       \/ stage' = "spawn" /\ dir' \in {"given", "temp"}
    /\ UNCHANGED <<clock, chromes, reached, parentDone>>

(* No executable, or cmd.Start fails: nothing is undone. *)
SpawnFails ==
    /\ stage = "spawn"
    /\ stage' = "failed"
    /\ UNCHANGED <<clock, dir, chromes, reached, parentDone>>

(* cmd.Start looks at its context. *)
Spawn ==
    /\ stage = "spawn" /\ ~parentDone
    /\ own' = "booting" /\ observer' = "waiting" /\ stage' = "probe"
    /\ UNCHANGED <<clock, dir, other, killed, held, reached, parentDone>>

ProbeAnswered ==
    /\ stage = "probe" /\ ~CtxDone
    /\ reached' \in Serving
    /\ stage' = "enable"
    /\ UNCHANGED <<clock, dir, chromes, parentDone>>

Abandon == stage' = "failed" /\ killed' = TRUE

(* Mutant: the next probe follows at once. *)
ProbeFailsNoPause ==
    /\ stage = "probe"
    /\ attempt' = attempt + 1 /\ since' = now
    /\ IF attempt + 1 = Attempts THEN Abandon ELSE UNCHANGED <<stage, killed>>
    /\ UNCHANGED <<now, dir, own, other, observer, held, reached, parentDone>>

(* Mutant: one probe too many. *)
ProbeFailsOneMore ==
    /\ stage = "probe"
    /\ attempt' = attempt + 1 /\ since' = now
    /\ \/ attempt = Attempts /\ Abandon
       \/ attempt < Attempts /\ stage' = "pause" /\ UNCHANGED killed
    /\ UNCHANGED <<now, dir, own, other, observer, held, reached, parentDone>>

(* Refused, timed out, cancelled, or an answer that is not a Chrome's *)
ProbeFails ==
    /\ stage = "probe"
    /\ attempt' = attempt + 1 /\ since' = now
    /\ \/ attempt + 1 = Attempts /\ Abandon
       \/ attempt + 1 < Attempts /\ stage' = "pause" /\ UNCHANGED killed
    /\ UNCHANGED <<now, dir, own, other, observer, held, reached, parentDone>>

(* The select takes either branch when both are ready. *)
PauseEnds ==
    /\ TimerFires
    /\ stage' = "probe" /\ since' = now
    /\ UNCHANGED <<attempt, now, dir, chromes, reached, parentDone>>

PauseCancelled ==
    /\ Cancels
    /\ Abandon
    /\ UNCHANGED <<clock, dir, own, other, observer, held, reached, parentDone>>

(* The allocator asks the port again, so it may reach another Chrome than  *)
(* the probe did.                                                          *)
EnableSucceeds ==
    /\ stage = "enable" /\ ~parentDone
    /\ reached' \in Serving
    /\ stage' = "ready"
    /\ UNCHANGED <<clock, dir, chromes, parentDone>>

(* Mutant: the process is left to itself. *)
EnableFailsUnkilled ==
    /\ stage = "enable"
    /\ stage' = "failed"
    /\ UNCHANGED <<clock, dir, chromes, reached, parentDone>>

EnableFails ==
    /\ stage = "enable"
    /\ Abandon
    /\ UNCHANGED <<clock, dir, own, other, observer, held, reached, parentDone>>

(* Ticks are long beside the steps of a goroutine: what is due happens     *)
(* before the next one.                                                    *)
Tick ==
    /\ stage \in {"probe", "pause"}
    /\ ~Cancels /\ ~TimerFires /\ ~RequestEnds
    /\ now' = now + 1
    /\ UNCHANGED <<stage, attempt, since, dir, chromes, reached, parentDone>>
-----------------------------------------------------------------------------
(* A Chrome that finds the port taken runs without listening. *)
OwnServes ==
    /\ own = "booting" /\ other # "serving"
    /\ own' = "serving"
    /\ UNCHANGED <<stage, clock, dir, other, killed, observer, held, reached, parentDone>>

OwnExits ==
    /\ Running
    /\ own' = "exited"
    /\ UNCHANGED <<stage, clock, dir, other, killed, observer, held, reached, parentDone>>

(* allocateFreePort has closed its listener, so nobody holds the port.     *)
OtherTakesPort ==
    /\ stage # "port" /\ other = "none" /\ own # "serving"
    /\ other' = "serving"
    /\ UNCHANGED <<stage, clock, dir, own, killed, observer, held, reached, parentDone>>

OtherExits ==
    /\ other = "serving"
    /\ other' = "exited"
    /\ UNCHANGED <<stage, clock, dir, own, killed, observer, held, reached, parentDone>>

ChildStarts ==
    /\ Running /\ ~held
    /\ held' = TRUE
    /\ UNCHANGED <<stage, clock, dir, own, other, killed, observer, reached, parentDone>>

ChildrenEnd ==
    /\ held /\ held' = FALSE
    /\ UNCHANGED <<stage, clock, dir, own, other, killed, observer, reached, parentDone>>

(* cmd.Wait collects the exit status, then waits for those who copy from   *)
(* the pipes, as in module ChromeProcess.                                  *)
Collect ==
    /\ observer = "waiting" /\ own = "exited"
    /\ observer' = "collected"
    /\ UNCHANGED <<stage, clock, dir, own, other, killed, held, reached, parentDone>>

Observe ==
    /\ observer = "collected" /\ ~held
    /\ observer' = "done"
    /\ UNCHANGED <<stage, clock, dir, own, other, killed, held, reached, parentDone>>

(* exec.CommandContext kills the process. *)
ParentEnds ==
    /\ ~parentDone
    /\ parentDone' = TRUE /\ killed' = (killed \/ Running)
    /\ UNCHANGED <<stage, clock, dir, own, other, observer, held, reached>>

Init ==
    /\ stage = "port" /\ attempt = 0 /\ now = 0 /\ since = 0
    /\ dir = "none" /\ own = "none" /\ other \in {"none", "serving"}
    /\ reached = "none" /\ killed = FALSE /\ observer = "none" /\ held = FALSE
    /\ parentDone = FALSE

Next ==
    \/ ChoosePort \/ MakeDir \/ SpawnFails \/ Spawn
    \/ ProbeAnswered \/ ProbeFails \/ PauseEnds \/ PauseCancelled
    \/ EnableSucceeds \/ EnableFails \/ Tick
    \/ OwnServes \/ OwnExits \/ OtherTakesPort \/ OtherExits
    \/ ChildStarts \/ ChildrenEnd \/ Collect \/ Observe \/ ParentEnds

Spec == Init /\ [][Next]_vars

(* Time passes while the port is probed, the goroutines of the start run,  *)
(* and a process that was killed dies.  A Chrome promises nothing: neither *)
(* an answer nor, for its children, an end.                                *)
FairSpec ==
    /\ Spec
    /\ WF_vars(Tick) /\ WF_vars(RequestEnds /\ ProbeFails)
    /\ WF_vars(PauseEnds) /\ WF_vars(PauseCancelled)
    /\ WF_vars(killed /\ OwnExits) /\ WF_vars(Collect) /\ WF_vars(Observe)
-----------------------------------------------------------------------------
(* Every variable stays within the values its Go counterpart can hold.       *)
TypeOK ==
    /\ stage \in {"port", "dir", "spawn", "probe", "pause", "enable", "ready", "failed"}
    /\ attempt \in 0..Attempts /\ now \in Nat /\ since \in 0..now
    /\ dir \in {"none", "given", "temp"}
    /\ own \in {"none", "booting", "serving", "exited"}
    /\ other \in {"none", "serving", "exited"}
    /\ reached \in {"none", "own", "other"}
    /\ killed \in BOOLEAN /\ parentDone \in BOOLEAN
    /\ observer \in {"none", "waiting", "collected", "done"} /\ held \in BOOLEAN

(* The startup timeout has not been exceeded as long as the port is probed,  *)
(* although the probes may hang for much longer together.                    *)
ProbingBounded == stage \in {"probe", "pause", "enable"} => now <= StartupTimeout

(* Probing comes to an end, with an answer or without, and by the startup    *)
(* timeout: whatever Chrome does, neither a request nor a pause outlasts the *)
(* context they are given (browser.go:890, 911).                             *)
ProbingEnds ==
    (stage = "probe") ~> (stage \in {"enable", "ready", "failed"} /\ now <= StartupTimeout)

(* A Chrome that is slow to start is given all the pauses or all of the      *)
(* timeout before NewBrowser gives it up.                                    *)
PatientStartup ==
    (stage = "failed" /\ own # "none" /\ reached = "none" /\ ~parentDone)
        => now >= (Attempts - 1) * Backoff \/ now >= StartupTimeout

(* However the start fails, the Chrome it has started ends, its exit status  *)
(* is collected by the goroutine of line 183, and that goroutine ends too    *)
(* once no child of Chrome holds the pipes any more.                         *)
FailureLeavesNoChrome ==
    /\ (stage = "failed") ~> (own \in {"none", "exited"} /\ observer # "waiting")
    /\ (stage = "failed" /\ own = "exited" /\ ~held) ~> (observer \in {"none", "done"})

(* browser.go:113 "NewBrowser launches a headless Chrome instance reachable  *)
(* through chromedp": the Chrome behind the Browser is the one it launched.  *)
LaunchedIsReached == stage = "ready" => reached = "own"
=============================================================================
