----------------------------- MODULE LogEmitter -----------------------------
(***************************************************************************)
(* The log fan-out of the agent: logEmitter (log.go), the goroutines that  *)
(* publish to it, the connections that stream it (handleLogs in app.go)    *)
(* and the goroutine that closes it (Browser.Close).                       *)
(*                                                                         *)
(* Publish takes the read lock twice, once to look at closed and once to   *)
(* walk the subscribers, so a Close or an unsubscribe can run in between.  *)
(* Every lock operation is a step of its own; what a goroutine does under  *)
(* the exclusive lock is one step, for nobody can look inside it.          *)
(***************************************************************************)
EXTENDS Integers, Sequences, FiniteSets

CONSTANTS
    Publishers,   \* goroutines that call Publish
    Streams,      \* connections to /v1/logs/stream, each subscribing once
    Closers,      \* goroutines that call Close
    None,         \* no goroutine
    Lines,        \* bound: events per publisher
    Buffer        \* capacity of a subscriber's channel (128 in handleLogs)

Writers == Streams \cup Closers
Procs == Publishers \cup Writers

ASSUME LogAssumption ==
    /\ Publishers \cap Writers = {}
    /\ Streams \cap Closers = {}
    /\ None \notin Procs
    /\ Lines \in Nat
    /\ Buffer \in Nat \ {0}

VARIABLES
    closed,       \* logEmitter.closed
    subs,         \* logEmitter.subs: pairs <<id, stream>>
    next,         \* logEmitter.next
    chan,         \* per stream: "nil", "open" or "closed"
    sent,         \* per stream: every event ever put on its channel
    rcvd,         \* per stream: how many of them handleLogs has received
    id,           \* per stream: the id its unsubscribe callback captured
    pc,           \* control point of every goroutine
    count,        \* per publisher: events it has begun to publish
    visited,      \* per publisher: entries its range loop has passed
    base,         \* history: count when the stream was registered
    full,         \* history: per stream, events that found its channel full
    readers,      \* RWMutex: goroutines holding the read lock
    parked,       \* RWMutex: readers queued behind a writer
    writer,       \* RWMutex: the writer that holds or awaits the lock
    panicked      \* a send on, or a second close of, a closed channel

emitter == <<closed, subs, next>>
channels == <<chan, sent, rcvd>>
rwlock == <<readers, parked, writer>>
vars == <<closed, subs, next, chan, sent, rcvd, id, pc, count, visited, base,
          full, readers, parked, writer, panicked>>

NoId == -1
Event == Publishers \X (1..Lines)

Goto(p, label) == pc' = [pc EXCEPT ![p] = label]
-----------------------------------------------------------------------------
(* sync.RWMutex.  A writer first announces itself, which parks the readers *)
(* that come after it, then waits for the readers that are inside to       *)
(* leave.  Its release lets every parked reader in.                        *)

RLock(p) ==
    /\ \/ writer = None /\ readers' = readers \cup {p} /\ UNCHANGED parked
       \/ writer # None /\ parked' = parked \cup {p} /\ UNCHANGED readers
    /\ UNCHANGED writer

RUnlock(p) == readers' = readers \ {p} /\ UNCHANGED <<parked, writer>>

Lock(p) == writer = None /\ writer' = p /\ UNCHANGED <<readers, parked>>

Exclusive(p) == writer = p /\ readers = {}

Unlock == writer' = None /\ readers' = parked /\ parked' = {}
-----------------------------------------------------------------------------
(* Publish *)

PublishBegin(p) ==
    /\ pc[p] = "idle" /\ count[p] < Lines
    /\ count' = [count EXCEPT ![p] = @ + 1]
    /\ RLock(p) /\ Goto(p, "check")
    /\ UNCHANGED <<emitter, channels, id, visited, base, full, panicked>>

PublishCheck(p) ==
    /\ pc[p] = "check" /\ p \in readers
    /\ Goto(p, IF closed THEN "idle" ELSE "relock")
    /\ RUnlock(p)
    /\ UNCHANGED <<emitter, channels, id, count, visited, base, full, panicked>>

PublishRelock(p) ==
    /\ pc[p] = "relock"
    /\ RLock(p) /\ Goto(p, "loop")
    /\ UNCHANGED <<emitter, channels, id, count, visited, base, full, panicked>>

(* Mutant: the capacity is off by one. *)
HasRoomOffByOne(s) == Len(sent[s]) - rcvd[s] <= Buffer

HasRoom(s) == Len(sent[s]) - rcvd[s] < Buffer

(* Mutant: the send has no default case and waits for room. *)
OfferBlocking(s, e) ==
    /\ chan[s] = "open" /\ HasRoom(s)
    /\ sent' = [sent EXCEPT ![s] = Append(@, e)]
    /\ UNCHANGED <<chan, rcvd, panicked>>

(* select { case ch <- event: default: } *)
Offer(s, e) ==
    \/ /\ chan[s] = "closed"
       /\ panicked' = TRUE /\ UNCHANGED channels
    \/ /\ chan[s] = "open" /\ HasRoom(s)
       /\ sent' = [sent EXCEPT ![s] = Append(@, e)]
       /\ UNCHANGED <<chan, rcvd, panicked>>
    \/ /\ chan[s] = "open" /\ ~HasRoom(s)
       /\ UNCHANGED <<channels, panicked>>

(* The event finds the channel of s holding as many events as it can. *)
NoteFull(s, e) ==
    full' = [full EXCEPT ![s] = IF Len(sent[s]) - rcvd[s] = Buffer THEN @ \cup {e} ELSE @]

(* Mutant: the default case returns from Publish instead of going on. *)
PublishSendUntilFull(p) ==
    /\ pc[p] = "loop" /\ p \in readers
    /\ \E sub \in subs \ visited[p] :
          /\ Offer(sub[2], <<p, count[p]>>) /\ NoteFull(sub[2], <<p, count[p]>>)
          /\ visited' = [visited EXCEPT ![p] = IF HasRoom(sub[2]) THEN @ \cup {sub} ELSE subs]
    /\ UNCHANGED <<emitter, id, pc, count, base, rwlock>>

(* Mutant: the loop offers the event again to an entry it has passed. *)
PublishSendAgain(p) ==
    /\ pc[p] = "loop" /\ p \in readers
    /\ \E sub \in subs :
          /\ Offer(sub[2], <<p, count[p]>>) /\ NoteFull(sub[2], <<p, count[p]>>)
          /\ visited' = [visited EXCEPT ![p] = @ \cup {sub}]
    /\ UNCHANGED <<emitter, id, pc, count, base, rwlock>>

PublishSend(p) ==
    /\ pc[p] = "loop" /\ p \in readers
    /\ \E sub \in subs \ visited[p] :
          /\ Offer(sub[2], <<p, count[p]>>) /\ NoteFull(sub[2], <<p, count[p]>>)
          /\ visited' = [visited EXCEPT ![p] = @ \cup {sub}]
    /\ UNCHANGED <<emitter, id, pc, count, base, rwlock>>

PublishReturn(p) ==
    /\ pc[p] = "loop" /\ p \in readers /\ subs \subseteq visited[p]
    /\ RUnlock(p) /\ Goto(p, "idle")
    /\ visited' = [visited EXCEPT ![p] = {}]
    /\ UNCHANGED <<emitter, channels, id, count, base, full, panicked>>
-----------------------------------------------------------------------------
(* Subscribe, the receive loop of handleLogs, and the unsubscribe callback *)

SubscribeLock(s) ==
    /\ pc[s] = "new"
    /\ Lock(s) /\ Goto(s, "subscribe")
    /\ UNCHANGED <<emitter, channels, id, count, visited, base, full, panicked>>

(* Mutant: the counter is not advanced, so ids collide. *)
RegisterSameId(s) ==
    /\ id' = [id EXCEPT ![s] = next]
    /\ subs' = {sub \in subs : sub[1] # next} \cup {<<next, s>>}
    /\ base' = [base EXCEPT ![s] = count]
    /\ UNCHANGED next

(* e.subs[id] = ch, with the counter advanced *)
Register(s) ==
    /\ id' = [id EXCEPT ![s] = next]
    /\ next' = next + 1
    /\ subs' = {sub \in subs : sub[1] # next} \cup {<<next, s>>}
    /\ base' = [base EXCEPT ![s] = count]

(* Mutant: Subscribe does not look at closed. *)
SubscribeUnchecked(s) ==
    /\ pc[s] = "subscribe" /\ Exclusive(s)
    /\ Register(s)
    /\ chan' = [chan EXCEPT ![s] = "open"]
    /\ Unlock /\ Goto(s, "receive")
    /\ UNCHANGED <<closed, sent, rcvd, count, visited, full, panicked>>

Subscribe(s) ==
    /\ pc[s] = "subscribe" /\ Exclusive(s)
    /\ \/ closed /\ UNCHANGED <<subs, next, id, base>>
       \/ ~closed /\ Register(s)
    /\ chan' = [chan EXCEPT ![s] = IF closed THEN "closed" ELSE "open"]
    /\ Unlock /\ Goto(s, "receive")
    /\ UNCHANGED <<closed, sent, rcvd, count, visited, full, panicked>>

Receive(s) ==
    /\ pc[s] = "receive" /\ rcvd[s] < Len(sent[s])
    /\ rcvd' = [rcvd EXCEPT ![s] = @ + 1]
    /\ UNCHANGED <<emitter, chan, sent, id, pc, count, visited, base, full, rwlock, panicked>>

(* event, ok := <-ch with !ok: the channel is closed and drained *)
StreamClosed(s) ==
    /\ pc[s] = "receive" /\ chan[s] = "closed" /\ rcvd[s] = Len(sent[s])
    /\ Goto(s, "leave")
    /\ UNCHANGED <<emitter, channels, id, count, visited, base, full, rwlock, panicked>>

(* <-ctx.Done(): the client went away or middleware.Timeout fired *)
ClientGone(s) ==
    /\ pc[s] = "receive"
    /\ Goto(s, "leave")
    /\ UNCHANGED <<emitter, channels, id, count, visited, base, full, rwlock, panicked>>

(* A second close of a channel panics. *)
CloseChannels(S) ==
    /\ chan' = [s \in Streams |-> IF s \in S THEN "closed" ELSE chan[s]]
    /\ panicked' = (panicked \/ \E s \in S : chan[s] = "closed")

(* The callback handed out by a closed emitter does nothing. *)
UnsubscribeNothing(s) ==
    /\ pc[s] = "leave" /\ id[s] = NoId
    /\ Goto(s, "done")
    /\ UNCHANGED <<emitter, channels, id, count, visited, base, full, rwlock, panicked>>

UnsubscribeLock(s) ==
    /\ pc[s] = "leave" /\ id[s] # NoId
    /\ Lock(s) /\ Goto(s, "unsubscribe")
    /\ UNCHANGED <<emitter, channels, id, count, visited, base, full, panicked>>

(* Mutant: the callback closes its channel without looking it up. *)
EntryUnchecked(s) == {<<id[s], s>>}

(* if sub, ok := e.subs[id]; ok *)
Entry(s) == {sub \in subs : sub[1] = id[s]}

Unsubscribe(s) ==
    /\ pc[s] = "unsubscribe" /\ Exclusive(s)
    /\ subs' = subs \ Entry(s)
    /\ CloseChannels({sub[2] : sub \in Entry(s)})
    /\ Unlock /\ Goto(s, "done")
    /\ UNCHANGED <<closed, next, sent, rcvd, id, count, visited, base, full>>
-----------------------------------------------------------------------------
(* Close *)

CloseLock(c) ==
    /\ pc[c] = "ready"
    /\ Lock(c) /\ Goto(c, "close")
    /\ UNCHANGED <<emitter, channels, id, count, visited, base, full, panicked>>

(* Mutant: Close sets the flag and trusts Publish to look at it. *)
CloseFlagOnly(c) ==
    /\ pc[c] = "close" /\ Exclusive(c)
    /\ closed' = TRUE
    /\ Unlock /\ Goto(c, "done")
    /\ UNCHANGED <<subs, next, channels, id, count, visited, base, full, panicked>>

(* Mutant: the early return of Close does not release the lock. *)
CloseTwiceLocked(c) ==
    /\ pc[c] = "close" /\ Exclusive(c)
    /\ \/ closed /\ UNCHANGED <<closed, subs, chan, panicked, rwlock>>
       \/ /\ ~closed
          /\ closed' = TRUE
          /\ CloseChannels({sub[2] : sub \in subs})
          /\ subs' = {} /\ Unlock
    /\ Goto(c, "done")
    /\ UNCHANGED <<next, sent, rcvd, id, count, visited, base, full>>

(* With closed already set the emitter has no subscriber left to close. *)
Close(c) ==
    /\ pc[c] = "close" /\ Exclusive(c)
    /\ \/ closed /\ UNCHANGED <<closed, subs, chan, panicked>>
       \/ /\ ~closed
          /\ closed' = TRUE
          /\ CloseChannels({sub[2] : sub \in subs})
          /\ subs' = {}
    /\ Unlock /\ Goto(c, "done")
    /\ UNCHANGED <<next, sent, rcvd, id, count, visited, base, full>>
-----------------------------------------------------------------------------
Init ==
    /\ closed = FALSE /\ subs = {} /\ next = 0
    /\ chan = [s \in Streams |-> "nil"]
    /\ sent = [s \in Streams |-> <<>>]
    /\ rcvd = [s \in Streams |-> 0]
    /\ id = [s \in Streams |-> NoId]
    /\ pc = [p \in Procs |-> IF p \in Publishers THEN "idle"
                             ELSE IF p \in Streams THEN "new" ELSE "ready"]
    /\ count = [p \in Publishers |-> 0]
    /\ visited = [p \in Publishers |-> {}]
    /\ base = [s \in Streams |-> [p \in Publishers |-> 0]]
    /\ full = [s \in Streams |-> {}]
    /\ readers = {} /\ parked = {} /\ writer = None
    /\ panicked = FALSE

(* What a publisher that has entered Publish does next. *)
PublishStep(p) ==
    PublishCheck(p) \/ PublishRelock(p) \/ PublishSend(p) \/ PublishReturn(p)

(* What a stream does once it is connected, its own departure apart. *)
StreamStep(s) ==
    \/ SubscribeLock(s) \/ Subscribe(s) \/ StreamClosed(s)
    \/ UnsubscribeNothing(s) \/ UnsubscribeLock(s) \/ Unsubscribe(s)

Next ==
    \/ \E p \in Publishers : PublishBegin(p) \/ PublishStep(p)
    \/ \E s \in Streams : StreamStep(s) \/ Receive(s) \/ ClientGone(s)
    \/ \E c \in Closers : CloseLock(c) \/ Close(c)

Spec == Init /\ [][Next]_vars

(* Goroutines that are inside a lock-protected section keep running.  No   *)
(* stream is obliged to receive: its client may have stopped reading.      *)
FairSpec ==
    /\ Spec
    /\ \A p \in Publishers : WF_vars(PublishStep(p))
    /\ \A s \in Streams : WF_vars(StreamStep(s))
    /\ \A c \in Closers : WF_vars(Close(c))
-----------------------------------------------------------------------------
(* Every variable stays within the values its Go counterpart can hold; in    *)
(* particular no channel ever holds more than Buffer events.                 *)
TypeOK ==
    /\ closed \in BOOLEAN /\ panicked \in BOOLEAN
    /\ subs \subseteq Nat \X Streams /\ next \in Nat
    /\ chan \in [Streams -> {"nil", "open", "closed"}]
    /\ sent \in [Streams -> Seq(Event)]
    /\ rcvd \in [Streams -> Nat]
    /\ \A s \in Streams : Len(sent[s]) - rcvd[s] \in 0..Buffer
    /\ id \in [Streams -> Nat \cup {NoId}]
    /\ pc \in [Procs -> {"idle", "check", "relock", "loop", "new", "subscribe",
                         "receive", "leave", "unsubscribe", "ready", "close", "done"}]
    /\ count \in [Publishers -> 0..Lines]
    /\ visited \in [Publishers -> SUBSET (Nat \X Streams)]
    /\ base \in [Streams -> [Publishers -> 0..Lines]]
    /\ full \in [Streams -> SUBSET Event]
    /\ readers \subseteq Publishers /\ parked \subseteq Publishers
    /\ writer \in Writers \cup {None}

(* No goroutine ever sends on a closed channel or closes one twice, although *)
(* Publish, the unsubscribe callback and Close race for the same channels.   *)
NoPanic == ~panicked

(* A channel is open exactly while the emitter's map holds it, so Close and  *)
(* the callback between them close every channel Subscribe made.             *)
OpenIffRegistered ==
    \A s \in Streams : (chan[s] = "open") <=> (\E sub \in subs : sub[2] = s)

(* A stream sees the events of one publisher in publication order and none   *)
(* of them twice, whatever Publish calls overlap and walk the map together.  *)
OrderedPerPublisher ==
    \A s \in Streams : \A i, j \in DOMAIN sent[s] :
        (i < j /\ sent[s][i][1] = sent[s][j][1]) => sent[s][i][2] < sent[s][j][2]

(* Events p has finished publishing. *)
Completed(p) == IF pc[p] = "idle" THEN count[p] ELSE count[p] - 1

(* s was sent e, or its channel was full when e was offered to it. *)
Reached(s, e) == (\E i \in DOMAIN sent[s] : sent[s][i] = e) \/ e \in full[s]

(* A Publish that began after a stream subscribed and returned while it was  *)
(* still subscribed put its event on the stream's channel, unless that very  *)
(* channel was full when its turn came (log.go:44-47): what a stream missed  *)
(* before, and what another subscriber has not read, cost it nothing.        *)
NoLossBelowCapacity ==
    \A s \in Streams, p \in Publishers :
        chan[s] = "open" =>
            \A n \in base[s][p] + 1 .. Completed(p) : Reached(s, <<p, n>>)

(* log.go:31 "Publishing on a closed emitter is a no-op": once Close has     *)
(* released the lock no channel grows, even for a Publish that had already   *)
(* seen closed = false (a consequence of FeedSpec, below).                   *)
QuietAfterClose == [][closed => UNCHANGED sent]_vars

(* Goroutines in an operation of the emitter; one goes on unless it waits    *)
(* for the lock.                                                             *)
Busy ==
    {p \in Publishers : pc[p] # "idle"}
        \cup {w \in Writers : pc[w] \in {"subscribe", "unsubscribe", "close"}}
GoesOn(p) == pc[p] = "relock" \/ p \in readers \/ Exclusive(p)

(* Nobody waits in a circle, though Publish takes the read lock a second     *)
(* time (log.go:41) with writers queueing in between, and Close runs twice.  *)
NeverStuck == Busy # {} => \E p \in Busy : GoesOn(p)

(* A Publish returns although a subscriber has stopped reading and others    *)
(* subscribe, leave or close at the same time.                               *)
PublishReturns == \A p \in Publishers : (pc[p] # "idle") ~> (pc[p] = "idle")

(* After Close a connected stream drains what it was sent and ends, if its   *)
(* own client keeps reading; another client that has stopped does not matter.*)
StreamsEnd ==
    \A s \in Streams :
        WF_vars(Receive(s)) => ((closed /\ chan[s] # "nil") ~> (pc[s] = "done"))

(* The locking of log.go provides the feed that LogFeed promises. *)
Feed == INSTANCE LogFeed WITH phase <- chan, shut <- closed
FeedSpec == Feed!Spec
=============================================================================
