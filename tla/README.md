# A verification of the browser plugin's agent

The repository builds an agent, `src/agent`, that runs inside a micro-VM, keeps
one headless Chrome and offers it over HTTP. This directory holds TLA+ models of
the agent's Go code, the TLC configurations that check them, and proofs that
TLAPS checks. Files are quoted relative to `src/agent/internal/runtime`.

Reading order: `LogFeed`, `LogEmitter`, `LogEmitterProofs`; `CallQueue`,
`Browser`, `BrowserProofs`, `BrowserOrderProofs`; `Teardown`, `ChromeProcess`,
`ChromeProcessProofs`; `Agent`,
`AgentProofs`; `Navigation`, `NavigationProofs`; `Startup`, `StartupProofs`;
`Handlers`, `HandlersProofs`.

    tlc -workers 2 -config LogEmitterRaces.cfg MCLogEmitter
    tlapm LogEmitterProofs.tla

## 1. Inventory

| Component | Code | State it keeps | Operations |
|---|---|---|---|
| Log emitter | `browser/log.go` | `closed`, the map `subs` of channels, the counter `next`, an RWMutex | `Publish`, `Subscribe`, the unsubscribe callback, `Close` |
| Log stream | `app/app.go:205` | one subscription per connection | receive and write, leave with client or deadline, unsubscribe |
| Browser calls | `browser/browser.go:276-860` | `b.mu`, `b.ctx`, the DevTools connection | `run` and the methods that give it a callback |
| Navigation wait | `browser/browser.go:354` | a listener and a channel of one | `WaitForNavigation` |
| Chrome and Close | `browser/browser.go:158-187, 232, 995` | the process and its two pipes, the goroutine in `cmd.Wait`, the profile directory | output through `logWriter`, the exit, its report, `Close` |
| Startup | `browser/browser.go:113-229, 862-950` | profile directory, process, startup context | `NewBrowser`, `waitForDevTools`, `fetchDevToolsMetadata` |
| HTTP handlers | `browser/handlers.go`, `browser/runtime.go` | none of their own | decode, check, one or two calls, answer |
| Timeout arithmetic | `runtime.go:96`, `browser.go:801`, `app.go:90` | the default timeout | `duration`, `timeout` |
| Agent and shutdown | `app/app.go:49-131`, `cmd/browser-agent` | connections and their deadlines, the order of shutting down | `Run`, `App.run`, `server.Shutdown`, the deferred `Runtime.Shutdown`, `os.Exit` |
| Configuration | `app/app.go:133-186` | strings and one duration | `loadConfig` |
| Manifest | `src/manifest/*.json` | declared actions | read by the host |
| Image, build, tests | `src/runtime`, `src/Makefile`, `src/tests` | none | none |

**How they interact.** A handler goroutine, one per request, calls the Browser;
every call of `Browser.run` takes `b.mu`, so requests queue there. Every call
publishes lines to the log emitter before and after, and so do the writers behind
Chrome's output and the goroutine that waits for the process. Log streams are
goroutines of the same server, each reading one channel of the emitter.
`Browser.Close` takes no part in `b.mu`: it cancels the context that all calls
derive from, kills and waits for Chrome, removes the profile and closes the log,
which in turn ends the streams. Everything runs in one process; what is external
is Chrome, the DevTools connection of chromedp, and the HTTP clients.

**What is hard here.** `Publish` takes its read lock twice and channels are closed
by two different parties. A call that times out leaves its last command with
Chrome, which may execute it in the middle of the next call. Waiting for `b.mu`
counts against a call's timeout but cannot be interrupted. Two waiters compete for
the exit status of one process, and one of them also waits for pipes that Chrome's
children may hold for ever. A start can fail at each of its steps with a
process running, on a port that somebody else may have taken. Events of one
navigation can end the wait for another. Shutdown waits for streams that only end
after it. Durations wrap around.

**What makes each component correct.** Log emitter: no send on, or second close
of, a closed channel; every channel is closed once; order per publisher; no loss
short of a full channel; publishers never wait for readers. Browser calls: a
caller's commands are executed in order, without foreign ones in between except
from callers that have given up; a call that queues is answered; the queue drains
by its deadlines. Chrome and Close: Close ends without waiting for calls or pipes;
the profile outlives Chrome; a crash is reported, behind the output that explains
it. Agent: an answer is not lost because others were served first; a stop cuts off
no prompt client, ends in time, and leaves no Chrome behind. Startup: it ends in
time, is patient, and leaves no process behind. Navigation: a wait is ended by its
own events, never holds up the delivery of events, and returns. Handlers: the
status tells what was done, what was refused was not done, and every call has a
real timeout.

## 2. The models

### LogFeed and LogEmitter

`LogEmitter` models `log.go` with the handler loop of `app.go:205-237`. Its
variables are the fields of `logEmitter` (`closed`, `subs`, `next`), the channels
(`chan`, `sent`, `rcvd`: what is queued is `sent` beyond `rcvd`), what a loop has
visited (`visited`), and the lock. `sync.RWMutex` is modelled as Go implements it:
a writer announces itself (`Lock`), which parks later readers, then waits for the
readers inside (`Exclusive`); its release lets the parked readers in. Every lock
operation is a step; the section under the exclusive lock is a single step. The
two read sections of `Publish` (35-39 and 41-49) are separate, and its walk over
the map is one step per entry, in any order, as Go ranges over a map. `count`
numbers the events of a publisher; `base` and `full` are history variables: what
each publisher had published when a stream subscribed, and which events found a
stream's channel full at the moment they were offered to it.

`LogFeed` is the abstract specification: bounded, ordered streams that end
together, without locks, ids or loops. `LogEmitter` implements it with
`phase <- chan` and `shut <- closed` (`FeedSpec`).

### CallQueue and Browser

`CallQueue` is what the callers of the Browser may rely on: a call waits for the
one inside, its timeout runs from its arrival, it is admitted even when that is
over, and time does not pass while a call that is over is still inside. It says
nothing of locks, commands or Chrome.

`Browser` is one Chrome and any number of handler goroutines. A request makes one
or more calls of `Browser.run` (attach and extract make two): `Begin` creates the
context, whose timeout runs from then on, `Acquire` is `b.mu.Lock()`, `Issue` and
`Advance` send a command and take its reply, `Finish` and `Fail` are the two ends
of `run`. A command is a triple of request, run and position. Chrome executes or
refuses what is on `wire` at any time and in any order, also after its caller has
left; it owes nobody a reply. Of the log lines, `journal` keeps those that tell of
a success. `Cancel` stands for both `Close` and the end of the Browser's context,
and `ConnectionLost` follows the end of Chrome: calls notice nothing but `b.ctx`.
`Browser` implements `CallQueue` (`QueueSpec`), and `Agent` uses `CallQueue` in its
place.

Left to chromedp, and modelled from its use: how a command reaches Chrome, that a
lost connection cancels the context, and that a call whose context is done returns.
Some callbacks call `Do` on the context of `run` itself (`browser.go:584`); whether
that context carries what `Do` needs is up to chromedp, and `MayFail` lets any
callback fail at any point.

### Teardown and ChromeProcess

`Teardown` is what the agent may rely on when a Browser ends: Chrome is killed
before `Close` waits for it, and the log is closed when Chrome has ended and not
before. `ChromeProcess` implements it with `stage` read off `killed` and `logOpen`;
`Agent`, whose `CloseKill` and `CloseLog` are the two ends of a `Close`, is shown to
drive the Browser through one on each way out of `App.run` (`TeardownSpec` in both).

`ChromeProcess` is the process between `NewBrowser`'s return and the end of `Close`. Each pipe has a
copying goroutine of `os/exec` that reads (`Read`) and gives `logWriter.Write` what
it got, line by line (`PublishLine`). Output comes in pieces, two to a line; a read
takes any number of them, so a line that arrives in two reads becomes two events,
where `log.go:8` speaks of a log line. `Collect` and `ObserveExit` are the two
halves of `cmd.Wait` in the goroutine of line 183: it takes the exit status and
then waits for the copying goroutines, which end when nobody holds the pipes,
Chrome's children included. `CloseCancel` to `CloseLog` are the steps of `Close`.
`ParentDone` is the end of the context given to `NewBrowser`.

### Agent

From the return of `browser.New` to the end of the process. A request is followed
from its headers (`Arrive`) through the calls of its handler, which queue in a
`CallQueue`, to its answer, which is lost after the `WriteTimeout`. `AppStep` is
`App.run` and what `Run` defers: `BeginShutdown` when the context is done or
`ReturnError` when the listener has failed, `DrainEnds` when `server.Shutdown`
returns, `CloseKill`, `CloseLog`, and `Exit` for `os.Exit`, which waits for nobody.
A stream ends with its client, with the deadline of the middleware, or when
`CloseLog` shuts the log. Time passes only when every handler and `App.run` have
done what they could do (`Urgent`): these take microseconds where the timeouts are
seconds. Clients outside `Prompt` may be as slow as the server's timeouts allow.

`main.go:12` passes `context.Background()`, so in the shipped program `ctxDone`
never holds and only a failing listener ends `Run`; a signal ends the process
without any of this. The graceful path is modelled because the code has it, for
any caller of `Run`. A handler asks the Browser first come, first served, for
`sync.Mutex` hands a lock to a waiter that has been passed over for a millisecond.

### Navigation

`WaitForNavigation`, one wait after the other (`b.mu` admits no two), against a
page that moves through requested, committed, interactive and loaded, may stop at
any of them, and may change its fragment or navigate an inner frame without
loading. Events travel in a queue and reach the listener, if there is one, in
order (`Deliver`). The timer of line 378 is made after the context of the call
with the same duration, so its branch is never the first to be ready; both are
the action `TimedOut`.

### Startup

`NewBrowser` from the choice of the port to the Browser it returns, with the
started Chrome (`own`), somebody else who listens on the same port (`other`: a
Chrome that an earlier agent left, or whoever takes the port between
`allocateFreePort` and Chrome), the goroutine in `cmd.Wait` and a caller that may
cancel at any time.
Time is counted in pauses of 250 ms and passes while the port is probed. `Cancels`
and `TimerFires` are the two cases of the select of line 890, `RequestEnds` the end
of a request by its context or by the timeout of its client; a tick is long beside
the steps of a goroutine, so one of these that is due happens before the next tick.
Without the context in the select, or with the caller's context in its place, the
clock of the model runs past the startup timeout, and `ProbingEnds` fails. `reached` is
which Chrome answered last: the probe and the allocator each ask the port anew.
`Collect` and `Observe` are the two halves of `cmd.Wait`, the second of which waits
for the pipes, as in `ChromeProcess`; `held` says that children of Chrome hold them.

### Handlers

One handler goroutine from the router to its answer. A request is reduced to what
a handler can tell apart: whether the body decodes, has unknown fields, or is
unreadable; whether required fields are sound; which parts of a profile it has;
its `timeout_ms`. `Plan` is the sequence of Browser calls of an endpoint.
`Duration` and `Effective` are `Runtime.duration` and `Browser.timeout`, with the
wrap-around of a signed integer whose range is `2 * Half`.

## 3. What TLC checks

| Run | Instance | Shows |
|---|---|---|
| `log_races` | 2 publishers of 2 lines each, 2 streams of capacity 2, 1 closer | `NoPanic`, `OrderedPerPublisher`, `NoLossBelowCapacity`, with the walks of two publishers overlapping |
| `log_order` | 1 publisher of 3 lines, 2 streams of capacity 2, 2 closers | `TypeOK`, `OpenIffRegistered`, `NeverStuck`, `FeedSpec` (implements `LogFeed`); `PublishReturns` though no stream reads; `StreamsEnd` for a stream whose own client reads |
| `browser` | attach (runs of one and two commands) and click (three commands), timeouts 1 and 2 | `TypeOK`, `AppliedInProgramOrder`, `ForeignOnlyLate`, `SuccessLinesInOrder`, `DrainsByLatestDeadline`, `EveryCallAnswered`, `QueueSpec` (implements `CallQueue`) |
| `process` | two pipes with 2 and 3 pieces of output | `TypeOK`, `ProfileOutlivesChrome`, `OutputBeforeReport`, `CrashReported`, `CloseEnds`, `TeardownSpec` (implements `Teardown`) |
| `process_exits` | the same | counterexample to `OnlyUnexpectedReported` |
| `agent` | attach (two calls, prompt client), click (one call, any client), one log stream; call timeouts 2, `WriteTimeout` 5, grace 1 | `TypeOK`, `AnswersReachPromptClients`, `ShutdownHeldByClients`, `GracefulStop`, `RunReturns`, `TeardownSpec` (drives a `Teardown`) |
| `navigation` | 3 navigations, 3 waits | `TypeOK`, `EndedByOwnEvent`, `EventsFlow`, `WaitsReturn` |
| `navigation_early` | the same | counterexample to `WaitEndsLoaded` |
| `startup` | 6 attempts, pause 1, client timeout 2, startup timeout 6 | `TypeOK`, `PatientStartup`, `ProbingEnds`, `FailureLeavesNoChrome` |
| `startup_orphan` | the same | counterexample to `LaunchedIsReached` |
| `handlers` | every endpoint and body, durations of 12 bits | `TypeOK`, `CallsBounded`, `StatusTellsOutcome`, `TimeoutHonoured` |
| `handlers_manifest` | the same | counterexample to `DeclaredIsServed` |

**Bounds.** `Lines` ends each publisher, `Pieces` the output of Chrome,
`Navigations` and `Waits` the page and its callers; the requests of `Browser` and
`Agent` each run once, and those of `Agent` arrive by `LastArrival`; a start is
made once. Order and loss turn on publishers that overlap and on channels that
fill: two publishers of two lines each walk the map together, stay behind or
overtake each other, and can fill a channel of two, empty it and fill it again
(`log_races`). One publisher of three lines overfills a channel of two, and two
closers, one of which finds the emitter closed, meet two streams that come and go
(`log_order`). Two requests are enough for one to be late in the other's way, and
`attach` has the second run that a late command can precede; a third request adds a longer queue
and no new pair. Three pieces are a line and the beginning of another, so reads
split a line and join two. In `Agent` a tick is twenty to thirty seconds. The two
calls of `attach`, each with its time in the queue, take up to four ticks, one
below the `WriteTimeout`, so a timeout that started again with the admission would exceed
it; the grace period is shorter than a call or a stream; and arrivals at 0 and 1
make the queue meet a stop at every point. Three waits and three navigations let
an event of one navigation be delivered in the wait for another and leave one
event unread. The values of `Startup` keep the proportions of the real ones (40
attempts, pauses of 1, a client timeout of 8, a startup timeout of 40, in units of
250 ms): the pauses last just less than the timeout, and hanging probes exceed it.
Twelve bits, with ten units to the millisecond, put requested timeouts on both
sides of each wrap-around. No configuration uses a state constraint.
`QuietAfterClose` and `NoOrphan` are in no run: they follow from `FeedSpec` and from
`TeardownSpec`, and are stated, and proved, for the reader.
`CHECK_DEADLOCK FALSE` is set in all of them, for a program whose callers have
gone has nothing left to do.

**Fairness.** `LogEmitter`: goroutines inside the emitter keep running. Reading is
not assumed; `StreamsEnd` takes it as the premise, separately for each stream. The
code justifies that premise with the server's `WriteTimeout` (`app.go:104`): a
write to a client that has stopped reading fails after 120 seconds, and the
handler then leaves. `Browser`: goroutines run, time passes, and `b.mu`, whose
starvation mode hands it to the longest waiter, is obtained. Chrome owes no reply
and the first call of a request need not be made. `ChromeProcess`: goroutines run
and a killed process dies; Chrome need not end by itself and its children may keep
the pipes for ever, which is why `CrashReported` is stated from their end on and
`CloseEnds` is not. `Agent`: goroutines run, time passes, a killed Chrome dies;
clients owe nothing, and what they hold up the server's deadlines end.
`Navigation`: chromedp delivers, the deadline comes, the caller runs; the page may
stop for ever. `Startup`: time passes while the port is probed, a request that is
due to end ends, a pause that is over is left, a killed process dies, and its observer runs;
that the observer ends is stated from the moment on at which nobody holds the pipes.
There is no fairness on Chrome answering, so `network.Enable` at `browser.go:203`, which has
no deadline, may last for ever in the model as in the code.

**Mutants.** Beside many definitions stands a variant marked "Mutant": a plausible
mistake in the same code (a lock not taken, a missing default case, a context
created too late, a missing check). With the variant in place of the definition,
TLC finds the property it is meant for violated in the same instance, for every
property of every passing run. They are not part of the specifications.

## 4. What is proved

For all values of the constants, under the assumptions named in the modules: the
sets of goroutines are disjoint, capacities, attempts and durations are positive,
every request makes at least one call, some timeout is the longest, the default
timeout fits a duration, and no pipe has the name of the report of an exit. Every
invariant, action property and refinement that a passing run checks is a theorem.

**LogEmitter** (`LogEmitterProofs`). The inductive invariant is built in layers,
each using those before.
1. `TypeOK` with `Counting` (a receiver is never ahead of its channel).
2. `LockInv`: who holds, awaits or is parked at the lock, as a function of the
   control points. It gives exclusion: whoever has `Exclusive` is alone.
3. `RegInv`: map, ids and channels agree whenever the lock is free; ids name
   streams; an emitter that is closed has an empty map. `NoPanic` and
   `OpenIffRegistered` do not carry themselves: that a channel found in the map is
   open needs the ids to be distinct and the map to be empty after `Close`.
4. `OrderInv`: an event on a channel is either older than the publisher's current
   one, or its entry has been visited in this walk. Without the second case
   the walk could give the same event twice.
5. `LossInv`: every visited entry that is still open was reached.

From these follow `Typed`, `NeverPanics`, `LockIsLive`, `NoChannelLeaks`,
`PublicationOrder`, `NoLoss` (an event that did not get onto the channel of a stream
subscribed throughout was offered to it while it was full; what it missed before
excuses nothing), `ClosedIsQuiet`, and `Refinement`: each step of the
emitter is a step of `LogFeed` or a stutter.

**Browser** (`BrowserProofs`). `MuInv`: `b.mu` is held by the call that is inside
and by no other; `HorizonInv`: no deadline of a call under way is past `horizon`,
and time is not either, since a call whose context is done moves before the clock
does. From them `Typed`, `QueueDrains`, and `Refinement`: every step is one of
`CallQueue` or a stutter, which needs `MuInv` for the admission of a single call
and for the condition under which time may pass.

**The order of commands** (`BrowserOrderProofs`). What Chrome has executed is tied to
the place at which each request stands in its program (`Command(r)`): everything
before that place has been executed and nothing behind it (`PlaceInv`); what is on
the wire is the command at the place of its request, which waits for it or has
failed, and has not been executed (`WireInv`). A failed request never leaves its
place, which is why its last command may still come and no further one. Then
`SequenceInv`: nothing is executed twice or before what precedes it, hence
`ProgramOrder`. For `RunsKeptApart`, `UndisturbedInv`: since the first command of the
call that holds `b.mu`, nothing foreign was executed but commands whose callers had
given up waiting for them; this is `ForeignOnlyLate` of the runs that are not over
yet, and `ForeignOnlyLate` alone is not inductive, for it says nothing of a run of
which one command has been executed. For `LinesInOrder`, `JournalInv`: what a run in
the journal did came before what the call that holds `b.mu` has done.

**ChromeProcess** (`ChromeProcessProofs`). `CopyInv`: a copying goroutine that is
done has passed everything on and nobody is left to write; `CloseInv`: the order
of `Close`; `ReportInv`: only the observer, at its end, publishes the exit. From
them `Typed` and `ProfileKept`. For `OutputInOrder` (the property `OutputBeforeReport`),
`PendingInv`: the lines of a read not yet published are consecutive, each within a
line, up to what has been read; and `LogInv`: the log holds every piece up to where
these begin, in order. Both say which pieces are covered rather than what a
filtered log looks like, so a step adds one event and no sequence is traversed.
`NothingLeftOut` (`EndInv`) is about the ends of the observer and of `Close`, and gives
`Refinement`: every step is one of `Teardown` or a stutter.

**Agent** (`AgentProofs`). For the stop, `StopInv` says at each station of `App.run`
what is over: the end of the context takes the Browser down, so every call inside
or queued is over, and time does not go on before they have left; what is still
active after the first moment of a Shutdown is not prompt. For the answers,
`WaitInv`: whoever is inside came no later than whoever is queued, and time is at
most the longest timeout past the arrival of either; then `PromptInv`: a prompt
request whose handler has finished k calls is at most k longest timeouts old when
it asks for the next. Hence `AnswersArrive`: the length of the queue does not appear in the
bound. That the clock stops for the call inside is not enough, for it says nothing
of those behind it; the order of arrival does. `Refinement` shows the `Teardown`.

**Startup** (`StartupProofs`). `ProbingInTime` and `StartupIsPatient`, by `PauseInv`:
the current probe began no earlier than `attempt * Backoff`, since each failed
probe but the last was followed by a whole pause; and time does not pass the startup
timeout, since a request and a pause are both over when it is. `ProbingUsesUp` shows
that this bound does not come from a clock that is held: while the port is probed
the clock can tick or the loop can go on, and each such step lowers `Left`, a natural
number made of the time and the attempts that are left.

**Navigation** (`NavigationProofs`). `FilledByOwn`: a full channel was filled by
the listener of the current call. From it `Typed` and `OwnEvent`.

**Handlers** (`HandlersProofs`). `EveryCallBounded`: no call has a timeout that is
zero or negative, although `duration` may wrap around to one, because
`Browser.timeout` replaces it (invariant `CallInv`). `ClientTimeoutKept`: a timeout
that can be expressed in the width of a duration arrives as it is at every call but
the second of `extract`, which has the default whatever the client asked for
(`handlers.go:368`), since `Wrap` is the identity there (`WrapIdentity`, `ExpressibleUnchanged`). `StatusIsTruthful` by two
invariants: `GateInv` (`RefusedUntouched`), what each stage has let through, so that
what is refused is never called and never answered with 200; and `ProgressInv`, the
calls made so far are a successful prefix of the plan.

**What liveness rests on.** TLAPS does not reason about fairness or `ENABLED`, so
`PublishReturns`, `StreamsEnd`, `EveryCallAnswered`, `CrashReported`, `CloseEnds`,
`RunReturns`, `EventsFlow`, `WaitsReturn`, `ProbingEnds` and `FailureLeavesNoChrome` are checked by
TLC only. What they need besides fairness is proved, with the guards of the steps in
question spelled out:

* `LockIsLive`: while a goroutine is in an operation of the emitter, one of them can
  take its next step.
* `NoStandstill`: while a call of the Browser is under way, time comes closer to its
  deadline, or `b.mu` can be taken, or the call inside is over and leaves.
* `ClockNeverHeld`: while the agent serves a request or a stream, time can pass or
  whoever holds it up has a step to take. That one of the callers in the queue came
  first is a least element of a set of naturals, which the library has in first-order
  form (`NatLessThanWellFounded` with `WFMin`). `NoStandstill` and `ClockNeverHeld` also
  show that the theorems about deadlines are not true because time stands still.
* `NothingLeftOut`: an observer that is done has reported a crash, unless the log was
  closed; `Close` waits only for a process that it has killed.
* `ProbingInTime` and `ProbingUsesUp`: probing has a bounded number of steps, all
  within the startup timeout, and one of them can always be taken.
* `FailedStartKills`: a start that failed has killed the Chrome it started, and a
  goroutine waits for it.

## 5. Where code and text disagree

* **An exit the agent asked for is reported as unexpected** (`process_exits`).
  `browser.go:182` says "Observe unexpected exits."; the goroutine reports any
  error of `cmd.Wait`, also the kill of `Close` (235) or of the context (158).
* **The Chrome that answers need not be the one launched** (`startup_orphan`).
  `browser.go:113` says "NewBrowser launches a headless Chrome instance reachable
  through chromedp."; the probe accepts any that answers on the configured port.
  An agent that ends by a signal leaves its Chrome there: `main.go` passes a
  context that never ends and handles no signal, so only a server that fails to
  listen leads to `Close`.
* **A navigation wait ends before loading does** (`navigation_early`).
  `browser.go:354` says "blocks until the current navigation finishes loading";
  `EventFrameNavigated` and `DOMContentLoaded` end it as well. The counterexample is
  the event of an inner frame, of a page that stays loaded throughout.
* **The declared actions are not served** (`handlers_manifest`). The manifest
  declares paths below `/v1/browser/actions`, `/v1/browser/dom` and so on; the
  routes mounted are `/v1/browser`, `/v1/dom`, `/v1/script`, `/v1/profile`.

Three things no text contradicts, and a reader may still not expect. The second call
of `extract` runs with the default timeout and drops the one its client asked for
(`handlers.go:368`; `TimeoutHonoured` names it as the exception). `attach` answers 400
alike for a refused body, for cookies that failed, and for cookies that took effect
with storage that failed (`handlers.go:346, 354`). A navigation wait cannot tell
which navigation an event belongs to, so one that was under way before ends it.

## 6. What is not modelled

* What a command does to a page, the JavaScript that is sent, screenshots and the
  contents of cookies and storage: data that no control depends on.
* `mountActionRoutes` (`handlers.go:218-323`), which nothing calls.
* `/healthz` and `/devtools` requests: they neither call the Browser nor last.
  Connections without a request are idle to `server.Shutdown`, which closes them.
* Within `Agent`, when in the first five seconds of a Shutdown an accepted
  connection brings its first request: five seconds are less than a tick.
* Blank lines of Chrome's output, which `logWriter` drops (`browser.go:1013`).
* Configuration strings, the text of log lines, server-sent-event framing, the
  choice of executable.
* Chromedp and Chrome beyond what the code uses; the host's proxy; build, image
  and tests.

Hazards without a property, and why, are listed with the hazards in
`PROJECT.json`; among them that `extract` makes two calls that are not atomic,
that a failed start leaves its temporary directory behind, and that
`network.Enable` has no deadline.

## 7. Plan

What is left, in this order.

1. The part of `EventsFlow` and `WaitsReturn` that is safety, in the form of the
   theorems above: the listener of a wait never waits itself.
2. `StreamsEnd` for a single stream as a bound: how many of its own receives separate
   a stream from its end once the log is closed.
3. A larger `Agent` with three callers, which needs a coarser clock than the one
   the theorem is about.
