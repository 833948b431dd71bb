------------------------- MODULE LogEmitterProofs -------------------------
(***************************************************************************)
(* Proofs about LogEmitter for any number of publishers, streams and       *)
(* closers, any number of events and any capacity.  Five inductive         *)
(* invariants are established one on top of the other:                     *)
(*                                                                         *)
(*   TypeOK, Counting   types, and the event a publisher is working on     *)
(*   LockInv            who is inside which section of the RWMutex         *)
(*   RegInv             ids, the map and the channels agree                *)
(*   OrderInv           what a loop has passed, and the order of channels  *)
(*   LossInv            what a finished or half-finished loop has reached  *)
(*                                                                         *)
(* The theorems at the end follow from them.                               *)
(***************************************************************************)
EXTENDS LogEmitter, SequenceTheorems, TLAPS

(* A publisher that is inside Publish has counted its event. *)
Counting == \A p \in Publishers : pc[p] # "idle" => count[p] > 0

(* Types are inductive once the event of a running Publish is known to be  *)
(* one of 1..Lines, which is what puts only events on channels.            *)
LEMMA TypeCorrect == Spec => [](TypeOK /\ Counting)
<1> DEFINE Inv == TypeOK /\ Counting
<1>1. Init => Inv
  <2> SUFFICES ASSUME Init PROVE Inv
    OBVIOUS
  <2>1. /\ pc \in [Procs -> {"idle", "check", "relock", "loop", "new", "subscribe",
                         "receive", "leave", "unsubscribe", "ready", "close", "done"}]
        /\ \A p \in Publishers : pc[p] = "idle"
    BY DEF Init, Procs
  <2>2. sent \in [Streams -> Seq(Event)] /\ \A s \in Streams : Len(sent[s]) - rcvd[s] = 0
    BY DEF Init
  <2>3. \A s \in Streams : Len(sent[s]) - rcvd[s] \in 0..Buffer
    BY <2>2, LogAssumption
  <2>4. /\ count \in [Publishers -> 0..Lines] /\ rcvd \in [Streams -> Nat]
        /\ base \in [Streams -> [Publishers -> 0..Lines]] /\ full \in [Streams -> SUBSET Event]
        /\ id \in [Streams -> Nat \cup {NoId}]
    BY LogAssumption DEF Init
  <2>5. /\ chan \in [Streams -> {"nil", "open", "closed"}]
        /\ visited \in [Publishers -> SUBSET (Nat \X Streams)]
        /\ subs = {} /\ next = 0 /\ readers = {} /\ parked = {} /\ writer = None
        /\ closed = FALSE /\ panicked = FALSE
    BY DEF Init
  <2> QED
    BY <2>1, <2>2, <2>3, <2>4, <2>5 DEF TypeOK, Counting
<1>2. Inv /\ [Next]_vars => Inv'
  <2> SUFFICES ASSUME Inv, [Next]_vars PROVE Inv'
    OBVIOUS
  <2> USE LogAssumption DEF TypeOK, Counting, Procs, Writers, NoId, Goto, emitter, channels, rwlock
  <2>1. ASSUME NEW p \in Publishers, PublishBegin(p) PROVE Inv'
    BY <2>1 DEF PublishBegin, RLock
  <2>2. ASSUME NEW p \in Publishers, PublishCheck(p) PROVE Inv'
    BY <2>2 DEF PublishCheck, RUnlock
  <2>3. ASSUME NEW p \in Publishers, PublishRelock(p) PROVE Inv'
    BY <2>3 DEF PublishRelock, RLock
  <2>4. ASSUME NEW p \in Publishers, PublishSend(p) PROVE Inv'
    <3> PICK sub \in subs \ visited[p] :
                /\ Offer(sub[2], <<p, count[p]>>) /\ NoteFull(sub[2], <<p, count[p]>>)
                /\ visited' = [visited EXCEPT ![p] = @ \cup {sub}]
      BY <2>4 DEF PublishSend
    <3> DEFINE s == sub[2]  e == <<p, count[p]>>
    <3>1. s \in Streams /\ e \in Event
      <4>1. sub \in Nat \X Streams
        OBVIOUS
      <4>2. count[p] \in 0..Lines /\ count[p] > 0
        BY <2>4 DEF PublishSend
      <4>3. count[p] \in 1..Lines
        BY <4>2
      <4> QED
        BY <4>1, <4>3 DEF Event
    <3>2. UNCHANGED <<emitter, id, pc, count, base, rwlock>>
      BY <2>4 DEF PublishSend
    <3>3. visited' \in [Publishers -> SUBSET (Nat \X Streams)] /\ full' \in [Streams -> SUBSET Event]
      <4>1. full' \in [Streams -> SUBSET Event]
        BY <3>1 DEF NoteFull
      <4> QED
        BY <4>1
    <3>4. CASE UNCHANGED channels /\ panicked' \in BOOLEAN
      BY <3>2, <3>3, <3>4
    <3>5. CASE /\ HasRoom(s) /\ sent' = [sent EXCEPT ![s] = Append(@, e)]
               /\ UNCHANGED <<chan, rcvd, panicked>>
      <4>1. sent' \in [Streams -> Seq(Event)]
        BY <3>1, <3>5
      <4>2. ASSUME NEW t \in Streams PROVE Len(sent'[t]) - rcvd'[t] \in 0..Buffer
        BY <3>1, <3>5, AppendProperties DEF HasRoom
      <4> QED
        BY <3>2, <3>3, <3>5, <4>1, <4>2
    <3> QED
      BY <3>1, <3>2, <3>3, <3>4, <3>5 DEF Offer
  <2>5. ASSUME NEW p \in Publishers, PublishReturn(p) PROVE Inv'
    BY <2>5 DEF PublishReturn, RUnlock
  <2>6. ASSUME NEW s \in Streams, SubscribeLock(s) PROVE Inv'
    BY <2>6 DEF SubscribeLock, Lock
  <2>7. ASSUME NEW s \in Streams, Subscribe(s) PROVE Inv'
    <3>1. UNCHANGED <<closed, sent, rcvd, count, visited, full, panicked>>
      BY <2>7 DEF Subscribe
    <3>2. /\ subs' \subseteq Nat \X Streams /\ next' \in Nat
          /\ id' \in [Streams -> Nat \cup {NoId}]
          /\ base' \in [Streams -> [Publishers -> 0..Lines]]
      <4>1. CASE UNCHANGED <<subs, next, id, base>>
        BY <4>1
      <4>2. CASE Register(s)
        <5>1. <<next, s>> \in Nat \X Streams
          OBVIOUS
        <5> QED
          BY <4>2, <5>1 DEF Register
      <4> QED
        BY <2>7, <4>1, <4>2 DEF Subscribe
    <3>3. /\ readers' \subseteq Publishers /\ parked' \subseteq Publishers
          /\ writer' \in Writers \cup {None}
      BY <2>7 DEF Subscribe, Unlock
    <3>4. chan' \in [Streams -> {"nil", "open", "closed"}]
      BY <2>7 DEF Subscribe
    <3>5. /\ pc' = [pc EXCEPT ![s] = "receive"]
          /\ pc' \in [Procs -> {"idle", "check", "relock", "loop", "new", "subscribe",
                               "receive", "leave", "unsubscribe", "ready", "close", "done"}]
      BY <2>7 DEF Subscribe
    <3>6. \A p \in Publishers : pc'[p] # "idle" => count'[p] > 0
      <4>1. \A p \in Publishers : pc'[p] = pc[p]
        BY <3>5
      <4> QED
        BY <3>1, <4>1
    <3>7. /\ closed' \in BOOLEAN /\ panicked' \in BOOLEAN /\ sent' \in [Streams -> Seq(Event)]
          /\ rcvd' \in [Streams -> Nat] /\ \A t \in Streams : Len(sent'[t]) - rcvd'[t] \in 0..Buffer
          /\ count' \in [Publishers -> 0..Lines] /\ visited' \in [Publishers -> SUBSET (Nat \X Streams)]
          /\ full' \in [Streams -> SUBSET Event]
      BY <3>1
    <3> QED
      BY ONLY <3>2, <3>3, <3>4, <3>5, <3>6, <3>7 DEF TypeOK, Counting, Procs, Writers
  <2>8. ASSUME NEW s \in Streams, Receive(s) PROVE Inv'
    <3>1. rcvd' \in [Streams -> Nat]
      BY <2>8 DEF Receive
    <3>2. ASSUME NEW t \in Streams PROVE Len(sent'[t]) - rcvd'[t] \in 0..Buffer
      <4>1. Len(sent[t]) \in Nat /\ rcvd[t] \in Nat /\ Len(sent[t]) - rcvd[t] \in 0..Buffer
        OBVIOUS
      <4>2. t # s \/ rcvd[t] < Len(sent[t])
        BY <2>8 DEF Receive
      <4> QED
        BY <2>8, <4>1, <4>2 DEF Receive
    <3> QED
      BY <2>8, <3>1, <3>2 DEF Receive
  <2>9. ASSUME NEW s \in Streams, StreamClosed(s) PROVE Inv'
    BY <2>9 DEF StreamClosed
  <2>10. ASSUME NEW s \in Streams, ClientGone(s) PROVE Inv'
    BY <2>10 DEF ClientGone
  <2>11. ASSUME NEW s \in Streams, UnsubscribeNothing(s) PROVE Inv'
    BY <2>11 DEF UnsubscribeNothing
  <2>12. ASSUME NEW s \in Streams, UnsubscribeLock(s) PROVE Inv'
    BY <2>12 DEF UnsubscribeLock, Lock
  <2>13. ASSUME NEW s \in Streams, Unsubscribe(s) PROVE Inv'
    BY <2>13 DEF Unsubscribe, Entry, CloseChannels, Exclusive, Unlock
  <2>14. ASSUME NEW c \in Closers, CloseLock(c) PROVE Inv'
    BY <2>14 DEF CloseLock, Lock
  <2>15. ASSUME NEW c \in Closers, Close(c) PROVE Inv'
    BY <2>15 DEF Close, CloseChannels, Exclusive, Unlock
  <2>16. CASE UNCHANGED vars
    BY <2>16 DEF vars
  <2> QED
    BY <2>1, <2>2, <2>3, <2>4, <2>5, <2>6, <2>7, <2>8, <2>9,
       <2>10, <2>11, <2>12, <2>13, <2>14, <2>15, <2>16
       DEF Next, PublishStep, StreamStep
<1> QED
  BY <1>1, <1>2, PTL DEF Spec

(* Where a goroutine is in the program says what it holds of the lock, and *)
(* nobody but a reader is inside Publish while it walks the subscribers.   *)
LockInv ==
    /\ readers \cap parked = {}
    /\ parked # {} => writer # None
    /\ \A p \in Publishers :
          /\ pc[p] \in {"idle", "check", "relock", "loop"}
          /\ pc[p] \in {"check", "loop"} <=> p \in readers \cup parked
    /\ \A s \in Streams :
          pc[s] \in {"new", "subscribe", "receive", "leave", "unsubscribe", "done"}
    /\ \A c \in Closers : pc[c] \in {"ready", "close", "done"}
    /\ \A w \in Writers : pc[w] \in {"subscribe", "unsubscribe", "close"} <=> writer = w

(* A writer holds the lock alone, and a reader that arrives meanwhile is   *)
(* parked until the writer's release.                                      *)
LEMMA Locking == Spec => []LockInv
<1>1. Init => LockInv
  BY LogAssumption DEF Init, LockInv, Procs, Writers
<1>2. TypeOK /\ LockInv /\ [Next]_vars => LockInv'
  <2> SUFFICES ASSUME TypeOK, LockInv, [Next]_vars PROVE LockInv'
    OBVIOUS
  <2> USE LogAssumption DEF TypeOK, LockInv, Procs, Writers, NoId, Goto, emitter, channels, rwlock
  <2>1. ASSUME NEW p \in Publishers, PublishBegin(p) PROVE LockInv'
    BY <2>1 DEF PublishBegin, RLock
  <2>2. ASSUME NEW p \in Publishers, PublishCheck(p) PROVE LockInv'
    BY <2>2 DEF PublishCheck, RUnlock
  <2>3. ASSUME NEW p \in Publishers, PublishRelock(p) PROVE LockInv'
    BY <2>3 DEF PublishRelock, RLock
  <2>4. ASSUME NEW p \in Publishers, PublishSend(p) PROVE LockInv'
    BY <2>4 DEF PublishSend, Offer
  <2>5. ASSUME NEW p \in Publishers, PublishReturn(p) PROVE LockInv'
    BY <2>5 DEF PublishReturn, RUnlock
  <2>6. ASSUME NEW s \in Streams, SubscribeLock(s) PROVE LockInv'
    BY <2>6 DEF SubscribeLock, Lock
  <2>7. ASSUME NEW s \in Streams, Subscribe(s) PROVE LockInv'
    BY <2>7 DEF Subscribe, Register, Exclusive, Unlock
  <2>8. ASSUME NEW s \in Streams, Receive(s) PROVE LockInv'
    BY <2>8 DEF Receive
  <2>9. ASSUME NEW s \in Streams, StreamClosed(s) PROVE LockInv'
    BY <2>9 DEF StreamClosed
  <2>10. ASSUME NEW s \in Streams, ClientGone(s) PROVE LockInv'
    BY <2>10 DEF ClientGone
  <2>11. ASSUME NEW s \in Streams, UnsubscribeNothing(s) PROVE LockInv'
    BY <2>11 DEF UnsubscribeNothing
  <2>12. ASSUME NEW s \in Streams, UnsubscribeLock(s) PROVE LockInv'
    BY <2>12 DEF UnsubscribeLock, Lock
  <2>13. ASSUME NEW s \in Streams, Unsubscribe(s) PROVE LockInv'
    BY <2>13 DEF Unsubscribe, Entry, CloseChannels, Exclusive, Unlock
  <2>14. ASSUME NEW c \in Closers, CloseLock(c) PROVE LockInv'
    BY <2>14 DEF CloseLock, Lock
  <2>15. ASSUME NEW c \in Closers, Close(c) PROVE LockInv'
    BY <2>15 DEF Close, CloseChannels, Exclusive, Unlock
  <2>16. CASE UNCHANGED vars
    BY <2>16 DEF vars
  <2> QED
    BY <2>1, <2>2, <2>3, <2>4, <2>5, <2>6, <2>7, <2>8, <2>9,
       <2>10, <2>11, <2>12, <2>13, <2>14, <2>15, <2>16
       DEF Next, PublishStep, StreamStep
<1> QED
  BY TypeCorrect, <1>1, <1>2, PTL DEF Spec

(* The map, the channels and the ids captured by the callbacks agree, ids  *)
(* are never reused, and Close leaves the map empty for good.              *)
RegInv ==
    /\ \A sub \in subs : id[sub[2]] = sub[1] /\ chan[sub[2]] = "open"
    /\ \A s \in Streams :
          /\ chan[s] = "open" => <<id[s], s>> \in subs
          /\ chan[s] = "nil" <=> pc[s] \in {"new", "subscribe"}
          /\ chan[s] = "nil" => id[s] = NoId
          /\ id[s] < next
    /\ \A s, t \in Streams : id[s] = id[t] /\ id[s] # NoId => s = t
    /\ closed => subs = {}
    /\ ~panicked

(* Every write to the map and to the channels is made under the exclusive  *)
(* lock, which is why the three agree whenever it is free.                 *)
LEMMA Registered == Spec => []RegInv
<1>1. Init => RegInv
  BY LogAssumption DEF Init, RegInv, Procs, Writers, NoId
<1>2. TypeOK /\ LockInv /\ RegInv /\ [Next]_vars => RegInv'
  <2> SUFFICES ASSUME TypeOK, LockInv, RegInv, [Next]_vars PROVE RegInv'
    OBVIOUS
  <2> USE LogAssumption DEF TypeOK, LockInv, RegInv, Procs, Writers, NoId, Goto, emitter, channels, rwlock
  <2>1. ASSUME NEW p \in Publishers, PublishBegin(p) PROVE RegInv'
    BY <2>1 DEF PublishBegin, RLock
  <2>2. ASSUME NEW p \in Publishers, PublishCheck(p) PROVE RegInv'
    BY <2>2 DEF PublishCheck, RUnlock
  <2>3. ASSUME NEW p \in Publishers, PublishRelock(p) PROVE RegInv'
    BY <2>3 DEF PublishRelock, RLock
  <2>4. ASSUME NEW p \in Publishers, PublishSend(p) PROVE RegInv'
    <3>1. ASSUME NEW sub \in subs PROVE chan[sub[2]] # "closed"
      OBVIOUS
    <3>2. UNCHANGED <<chan, panicked>>
      BY <2>4, <3>1 DEF PublishSend, Offer
    <3> QED
      BY <2>4, <3>2 DEF PublishSend
  <2>5. ASSUME NEW p \in Publishers, PublishReturn(p) PROVE RegInv'
    BY <2>5 DEF PublishReturn, RUnlock
  <2>6. ASSUME NEW s \in Streams, SubscribeLock(s) PROVE RegInv'
    BY <2>6 DEF SubscribeLock, Lock
  <2>7. ASSUME NEW s \in Streams, Subscribe(s) PROVE RegInv'
    <3>1. chan[s] = "nil" /\ id[s] = NoId
      BY <2>7 DEF Subscribe
    <3>2. CASE closed
      <4>1. UNCHANGED <<subs, next, id, closed, panicked>>
        BY <2>7, <3>2 DEF Subscribe
      <4>2. /\ chan' = [chan EXCEPT ![s] = "closed"]
            /\ pc' = [pc EXCEPT ![s] = "receive"]
        BY <2>7, <3>2 DEF Subscribe
      <4> QED
        BY <3>2, <4>1, <4>2
    <3>3. CASE ~closed
      <4>1. /\ chan' = [chan EXCEPT ![s] = "open"]
            /\ pc' = [pc EXCEPT ![s] = "receive"]
            /\ UNCHANGED <<closed, panicked>>
        BY <2>7, <3>3 DEF Subscribe
      <4>2. id' = [id EXCEPT ![s] = next] /\ next' = next + 1
        BY <2>7, <3>3 DEF Subscribe, Register
      <4>3. \A sub \in subs : sub[1] # next /\ sub[2] # s
        BY <3>1
      <4>4. subs' = subs \cup {<<next, s>>}
        BY <2>7, <3>3, <4>3 DEF Subscribe, Register
      <4>5. \A sub \in subs' : id'[sub[2]] = sub[1] /\ chan'[sub[2]] = "open"
        BY <4>1, <4>2, <4>3, <4>4
      <4>6. ASSUME NEW t \in Streams
            PROVE /\ chan'[t] = "open" => <<id'[t], t>> \in subs'
                  /\ chan'[t] = "nil" <=> pc'[t] \in {"new", "subscribe"}
                  /\ chan'[t] = "nil" => id'[t] = NoId
                  /\ id'[t] < next'
        BY <4>1, <4>2, <4>4
      <4>7. ASSUME NEW t \in Streams, NEW u \in Streams, id'[t] = id'[u], id'[t] # NoId
            PROVE t = u
        <5>1. ASSUME NEW v \in Streams PROVE id[v] # next
          <6>1. id[v] \in Nat \cup {-1}
            OBVIOUS
          <6>2. next \in Nat
            OBVIOUS
          <6>3. id[v] < next
            OBVIOUS
          <6> QED
            BY ONLY <6>1, <6>2, <6>3
        <5>2. CASE t = s /\ u # s
          BY <4>2, <4>7, <5>1, <5>2
        <5>3. CASE t # s /\ u = s
          BY <4>2, <4>7, <5>1, <5>3
        <5>4. CASE t # s /\ u # s
          BY <4>2, <4>7, <5>4
        <5> QED
          BY <5>2, <5>3, <5>4
      <4>8. ~closed' /\ ~panicked'
        BY <3>3, <4>1
      <4> QED
        BY ONLY <4>5, <4>6, <4>7, <4>8 DEF RegInv
    <3> QED
      BY <3>2, <3>3
  <2>8. ASSUME NEW s \in Streams, Receive(s) PROVE RegInv'
    BY <2>8 DEF Receive
  <2>9. ASSUME NEW s \in Streams, StreamClosed(s) PROVE RegInv'
    BY <2>9 DEF StreamClosed
  <2>10. ASSUME NEW s \in Streams, ClientGone(s) PROVE RegInv'
    BY <2>10 DEF ClientGone
  <2>11. ASSUME NEW s \in Streams, UnsubscribeNothing(s) PROVE RegInv'
    BY <2>11 DEF UnsubscribeNothing
  <2>12. ASSUME NEW s \in Streams, UnsubscribeLock(s) PROVE RegInv'
    BY <2>12 DEF UnsubscribeLock, Lock
  <2>13. ASSUME NEW s \in Streams, Unsubscribe(s) PROVE RegInv'
    <3>1. /\ pc' = [pc EXCEPT ![s] = "done"] /\ subs' = subs \ Entry(s)
          /\ UNCHANGED <<closed, next, id>>
      BY <2>13 DEF Unsubscribe
    <3>2. chan[s] # "nil"
      BY <2>13 DEF Unsubscribe
    <3>3. ASSUME NEW sub \in Entry(s) PROVE sub = <<id[s], s>> /\ sub \in subs
      BY DEF Entry
    <3>4. <<id[s], s>> \in subs => <<id[s], s>> \in Entry(s)
      BY DEF Entry
    <3>5. chan' = [t \in Streams |-> IF t = s /\ <<id[s], s>> \in subs THEN "closed" ELSE chan[t]]
      BY <2>13, <3>3, <3>4 DEF Unsubscribe, CloseChannels
    <3>6. panicked' = FALSE
      BY <2>13, <3>3 DEF Unsubscribe, CloseChannels
    <3>7. \A sub \in subs' : id'[sub[2]] = sub[1] /\ chan'[sub[2]] = "open"
      <4> SUFFICES ASSUME NEW sub \in subs' PROVE id'[sub[2]] = sub[1] /\ chan'[sub[2]] = "open"
        OBVIOUS
      <4>1. sub \in subs /\ sub \notin Entry(s) /\ sub[2] \in Streams
        BY <3>1
      <4>2. sub[2] # s
        BY <4>1 DEF Entry
      <4> QED
        BY <3>1, <3>5, <4>1, <4>2
    <3>8. ASSUME NEW t \in Streams
          PROVE /\ chan'[t] = "open" => <<id'[t], t>> \in subs'
                /\ chan'[t] = "nil" <=> pc'[t] \in {"new", "subscribe"}
                /\ chan'[t] = "nil" => id'[t] = NoId
                /\ id'[t] < next'
      <4>1. CASE t = s
        BY <3>1, <3>2, <3>5, <4>1
      <4>2. CASE t # s
        <5>1. chan'[t] = chan[t] /\ pc'[t] = pc[t]
          BY <3>1, <3>5, <4>2
        <5>2. <<id[t], t>> \notin Entry(s)
          BY <3>3, <4>2
        <5> QED
          BY <3>1, <5>1, <5>2
      <4> QED
        BY <4>1, <4>2
    <3> QED
      BY <3>1, <3>6, <3>7, <3>8
  <2>14. ASSUME NEW c \in Closers, CloseLock(c) PROVE RegInv'
    BY <2>14 DEF CloseLock, Lock
  <2>15. ASSUME NEW c \in Closers, Close(c) PROVE RegInv'
    <3>1. CASE closed
      BY <2>15, <3>1 DEF Close
    <3>2. CASE ~closed
      <4>1. /\ closed' = TRUE /\ subs' = {} /\ UNCHANGED <<next, id>>
            /\ pc' = [pc EXCEPT ![c] = "done"]
        BY <2>15, <3>2 DEF Close
      <4>2. CloseChannels({sub[2] : sub \in subs})
        BY <2>15, <3>2 DEF Close
      <4>3. panicked' = FALSE
        BY <4>2 DEF CloseChannels
      <4>4. \A t \in Streams : /\ chan'[t] # "open"
                               /\ chan'[t] = "nil" <=> chan[t] = "nil"
        <5> TAKE t \in Streams
        <5>1. chan[t] = "open" => \E sub \in subs : sub[2] = t
          <6>1. chan[t] = "open" => <<id[t], t>> \in subs
            OBVIOUS
          <6> QED
            BY <6>1
        <5>2. chan'[t] = IF \E sub \in subs : sub[2] = t THEN "closed" ELSE chan[t]
          BY <4>2 DEF CloseChannels
        <5>3. (\E sub \in subs : sub[2] = t) => chan[t] = "open"
          OBVIOUS
        <5> QED
          BY <5>1, <5>2, <5>3
      <4>5. ASSUME NEW t \in Streams
            PROVE /\ chan'[t] = "nil" <=> pc'[t] \in {"new", "subscribe"}
                  /\ chan'[t] = "nil" => id'[t] = NoId
                  /\ id'[t] < next'
        <5>1. /\ chan[t] = "nil" <=> pc[t] \in {"new", "subscribe"}
              /\ chan[t] = "nil" => id[t] = NoId
              /\ id[t] < next
          OBVIOUS
        <5>2. pc'[t] = pc[t]
          BY <4>1
        <5> QED
          BY ONLY <4>1, <4>4, <5>1, <5>2
      <4> QED
        BY <4>1, <4>3, <4>4, <4>5
    <3> QED
      BY <3>1, <3>2
  <2>16. CASE UNCHANGED vars
    BY <2>16 DEF vars
  <2> QED
    BY <2>1, <2>2, <2>3, <2>4, <2>5, <2>6, <2>7, <2>8, <2>9,
       <2>10, <2>11, <2>12, <2>13, <2>14, <2>15, <2>16
       DEF Next, PublishStep, StreamStep
<1> QED
  BY TypeCorrect, Locking, <1>1, <1>2, PTL DEF Spec

(* What a publisher's progress says of the events it has put on channels:  *)
(* before its loop none bears its current number, and inside the loop only *)
(* the streams it has passed can hold one that does.                       *)
EventInv(s, i) ==
    LET p == sent[s][i][1]
        n == sent[s][i][2]
    IN  /\ n <= count[p]
        /\ pc[p] \in {"check", "relock"} => n < count[p]
        /\ (pc[p] = "loop" /\ n = count[p]) => \E v \in visited[p] : v[2] = s

OrderInv ==
    /\ OrderedPerPublisher
    /\ \A s \in Streams : \A i \in DOMAIN sent[s] : EventInv(s, i)
    /\ \A p \in Publishers :
          /\ \A v \in visited[p] : id[v[2]] = v[1]
          /\ visited[p] # {} => p \in readers /\ pc[p] = "loop"

(* The entry a loop is about to pass is of a stream that does not hold the *)
(* event yet: ids name streams and a stream keeps its id.                  *)
LEMMA FreshEvent ==
    ASSUME TypeOK, LockInv, RegInv, OrderInv,
           NEW p \in Publishers, NEW sub \in subs \ visited[p], pc[p] = "loop",
           NEW i \in DOMAIN sent[sub[2]], sent[sub[2]][i][1] = p
    PROVE  sent[sub[2]][i][2] < count[p]
<1> DEFINE s == sub[2]
<1>1. sub \in Nat \X Streams /\ s \in Streams
  BY DEF TypeOK
<1>2. EventInv(s, i)
  BY <1>1 DEF OrderInv
<1>3. ASSUME NEW v \in visited[p] PROVE v[2] # s
  <2>1. v \in Nat \X Streams
    BY DEF TypeOK
  <2>2. id[v[2]] = v[1] /\ id[sub[2]] = sub[1]
    BY DEF OrderInv, RegInv
  <2> QED
    BY <1>1, <2>1, <2>2
<1>4. sent[s][i] \in Publishers \X (1..Lines) /\ count[p] \in Nat
  BY <1>1, LogAssumption DEF TypeOK, Event
<1> QED
  BY <1>2, <1>3, <1>4 DEF EventInv

(* What the goroutines that publish nothing leave alone.  An id can change *)
(* only under the exclusive lock, when no publisher is inside its loop.    *)
LEMMA OthersFrame ==
    ASSUME TypeOK, LockInv, OrderInv,
           \/ \E s \in Streams : StreamStep(s) \/ Receive(s) \/ ClientGone(s)
           \/ \E c \in Closers : CloseLock(c) \/ Close(c)
           \/ UNCHANGED vars
    PROVE  /\ UNCHANGED <<sent, visited, count>>
           /\ \A q \in Publishers :
                 /\ pc'[q] = pc[q]
                 /\ visited[q] # {} => q \in readers'
                 /\ \A v \in visited[q] : id'[v[2]] = id[v[2]] /\ (chan'[v[2]] = "open" => chan[v[2]] = "open")
<1> DEFINE PublishersStay == \A q \in Publishers : pc'[q] = pc[q]
<1>3. ASSUME NEW w \in Writers, NEW label, Goto(w, label) PROVE PublishersStay
  <2>1. DOMAIN pc = Procs /\ pc' = [pc EXCEPT ![w] = label]
    BY <1>3 DEF TypeOK, Goto
  <2>2. \A q \in Publishers : q \in Procs /\ q # w
    BY LogAssumption DEF Procs
  <2> QED
    BY ONLY <2>1, <2>2
<1> HIDE DEF PublishersStay
<1>0. \A q \in Publishers : visited[q] # {} => q \in readers
  BY DEF OrderInv
<1>1. CASE \/ \E s \in Streams : \/ SubscribeLock(s) \/ StreamClosed(s) \/ UnsubscribeNothing(s)
                                 \/ UnsubscribeLock(s) \/ Receive(s) \/ ClientGone(s)
           \/ \E c \in Closers : CloseLock(c)
           \/ UNCHANGED vars
  <2>1. UNCHANGED <<sent, visited, count, id, chan, readers>>
    BY <1>1 DEF SubscribeLock, StreamClosed, UnsubscribeNothing, UnsubscribeLock, Receive, ClientGone,
                CloseLock, Lock, channels, rwlock, vars
  <2>2. ASSUME UNCHANGED pc PROVE PublishersStay
    BY <2>2 DEF PublishersStay
  <2>3. ASSUME NEW s \in Streams, \/ SubscribeLock(s) \/ StreamClosed(s) \/ UnsubscribeNothing(s)
                                 \/ UnsubscribeLock(s) \/ ClientGone(s)
        PROVE PublishersStay
    BY <1>3, <2>3 DEF SubscribeLock, StreamClosed, UnsubscribeNothing, UnsubscribeLock, ClientGone, Writers
  <2>4. ASSUME NEW c \in Closers, CloseLock(c) PROVE PublishersStay
    BY <1>3, <2>4 DEF CloseLock, Writers
  <2>5. PublishersStay
    BY <1>1, <2>2, <2>3, <2>4 DEF Receive, vars
  <2> QED
    BY ONLY <1>0, <2>1, <2>5 DEF PublishersStay
<1>2. CASE \/ \E s \in Streams : Subscribe(s) \/ Unsubscribe(s)
           \/ \E c \in Closers : Close(c)
  <2>1. readers = {} /\ UNCHANGED <<sent, visited, count>>
    BY <1>2 DEF Subscribe, Unsubscribe, Close, Exclusive
  <2>2. \A q \in Publishers : visited[q] = {}
    BY <1>0, <2>1
  <2>3. PublishersStay
    BY <1>2, <1>3 DEF Subscribe, Unsubscribe, Close, Writers
  <2> QED
    BY ONLY <2>1, <2>2, <2>3 DEF PublishersStay
<1> QED
  BY <1>1, <1>2 DEF StreamStep

(* What a publisher does outside its loop, and when it returns: nothing is *)
(* sent, and it moves on its own account only.                             *)
LEMMA LockStepFrame ==
    ASSUME TypeOK, LockInv, NEW p \in Publishers,
           PublishBegin(p) \/ PublishCheck(p) \/ PublishRelock(p) \/ PublishReturn(p)
    PROVE  /\ UNCHANGED <<sent, id, chan, base>>
           /\ \A q \in Publishers \ {p} :
                 /\ pc'[q] = pc[q] /\ count'[q] = count[q] /\ visited'[q] = visited[q]
                 /\ q \in readers => q \in readers'
           /\ \/ pc[p] = "idle" /\ pc'[p] = "check" /\ count'[p] = count[p] + 1
              \/ pc[p] = "check" /\ pc'[p] \in {"idle", "relock"} /\ count'[p] = count[p]
                 /\ (closed \/ pc'[p] = "relock")
              \/ pc[p] = "relock" /\ pc'[p] = "loop" /\ count'[p] = count[p]
              \/ pc[p] = "loop" /\ pc'[p] = "idle" /\ count'[p] = count[p]
           /\ \/ pc[p] # "loop" /\ visited'[p] = visited[p]
              \/ pc[p] = "loop" /\ visited'[p] = {} /\ subs \subseteq visited[p]
<1> USE DEF Goto, channels
<1>1. DOMAIN pc = Procs /\ DOMAIN count = Publishers /\ DOMAIN visited = Publishers
  BY LogAssumption DEF TypeOK, Procs
<1>2. CASE PublishBegin(p)
  <2>1. /\ UNCHANGED <<sent, id, chan, base, visited>> /\ pc[p] = "idle"
        /\ count' = [count EXCEPT ![p] = @ + 1] /\ pc' = [pc EXCEPT ![p] = "check"]
        /\ readers \subseteq readers'
    BY <1>2 DEF PublishBegin, RLock
  <2> QED
    BY ONLY <1>1, <2>1, p \in Publishers DEF Procs
<1>3. CASE PublishCheck(p)
  <2>1. /\ UNCHANGED <<sent, id, chan, base, visited, count>> /\ pc[p] = "check"
        /\ pc' = [pc EXCEPT ![p] = IF closed THEN "idle" ELSE "relock"]
        /\ readers' = readers \ {p}
    BY <1>3 DEF PublishCheck, RUnlock
  <2> QED
    BY ONLY <1>1, <2>1, p \in Publishers DEF Procs
<1>4. CASE PublishRelock(p)
  <2>1. /\ UNCHANGED <<sent, id, chan, base, visited, count>> /\ pc[p] = "relock"
        /\ pc' = [pc EXCEPT ![p] = "loop"] /\ readers \subseteq readers'
    BY <1>4 DEF PublishRelock, RLock
  <2> QED
    BY ONLY <1>1, <2>1, p \in Publishers DEF Procs
<1>5. CASE PublishReturn(p)
  <2>1. /\ UNCHANGED <<sent, id, chan, base, count>> /\ pc[p] = "loop" /\ subs \subseteq visited[p]
        /\ pc' = [pc EXCEPT ![p] = "idle"] /\ readers' = readers \ {p}
        /\ visited' = [visited EXCEPT ![p] = {}]
    BY <1>5 DEF PublishReturn, RUnlock
  <2> QED
    BY ONLY <1>1, <2>1, p \in Publishers DEF Procs
<1> QED
  BY <1>2, <1>3, <1>4, <1>5

(* What a step of the loop does: an entry of the map, which stands for an  *)
(* open channel, is offered the event and passed.                          *)
LEMMA SendFrame ==
    ASSUME TypeOK, LockInv, RegInv, NEW p \in Publishers, PublishSend(p)
    PROVE  /\ \E sub \in subs \ visited[p] :
                 /\ Offer(sub[2], <<p, count[p]>>) /\ NoteFull(sub[2], <<p, count[p]>>)
                 /\ visited' = [visited EXCEPT ![p] = @ \cup {sub}]
                 /\ sub \in Nat \X Streams /\ sub[2] \in Streams
                 /\ id[sub[2]] = sub[1] /\ chan[sub[2]] = "open"
           /\ p \in readers /\ pc[p] = "loop"
           /\ UNCHANGED <<id, pc, count, base, chan, readers>>
<1> PICK sub \in subs \ visited[p] :
            /\ Offer(sub[2], <<p, count[p]>>) /\ NoteFull(sub[2], <<p, count[p]>>)
            /\ visited' = [visited EXCEPT ![p] = @ \cup {sub}]
  BY DEF PublishSend
<1>1. sub \in Nat \X Streams /\ id[sub[2]] = sub[1] /\ chan[sub[2]] = "open"
  BY DEF TypeOK, RegInv
<1>2. UNCHANGED chan
  BY <1>1 DEF Offer, channels
<1> QED
  BY <1>1, <1>2 DEF PublishSend, rwlock

(* One event of a publisher at a time, offered to each entry of the map    *)
(* once, keeps each channel in the order of publication.                   *)
LEMMA Ordered == Spec => []OrderInv
<1>1. Init => OrderInv
  BY LogAssumption DEF Init, OrderInv, OrderedPerPublisher, EventInv, Procs, Writers, NoId
<1>2. TypeOK /\ LockInv /\ RegInv /\ OrderInv /\ [Next]_vars => OrderInv'
  <2> SUFFICES ASSUME TypeOK, LockInv, RegInv, OrderInv, [Next]_vars PROVE OrderInv'
    OBVIOUS
  <2>3. CASE \/ \E s \in Streams : StreamStep(s) \/ Receive(s) \/ ClientGone(s)
             \/ \E c \in Closers : CloseLock(c) \/ Close(c)
             \/ UNCHANGED vars
    <3>1. /\ UNCHANGED <<sent, visited, count>>
          /\ \A q \in Publishers :
                /\ pc'[q] = pc[q]
                /\ visited[q] # {} => q \in readers'
                /\ \A v \in visited[q] : id'[v[2]] = id[v[2]]
      BY <2>3, OthersFrame
    <3>2. ASSUME NEW t \in Streams, NEW i \in DOMAIN sent[t] PROVE EventInv(t, i)'
      <4>1. EventInv(t, i) /\ sent[t][i] \in Event
        BY DEF OrderInv, TypeOK
      <4>2. sent[t][i][1] \in Publishers
        BY <4>1 DEF Event
      <4> QED
        BY <3>1, <4>1, <4>2 DEF EventInv
    <3>3. OrderedPerPublisher'
      BY <3>1 DEF OrderedPerPublisher, OrderInv
    <3> QED
      BY <3>1, <3>2, <3>3 DEF OrderInv
  <2>1. ASSUME NEW p \in Publishers, PublishSend(p) PROVE OrderInv'
    <3>0. /\ p \in readers /\ pc[p] = "loop" /\ UNCHANGED <<id, pc, count, readers>>
          /\ \E sub \in subs \ visited[p] :
                /\ Offer(sub[2], <<p, count[p]>>)
                /\ visited' = [visited EXCEPT ![p] = @ \cup {sub}]
                /\ sub \in Nat \X Streams /\ sub[2] \in Streams /\ id[sub[2]] = sub[1]
      BY <2>1, SendFrame
    <3> PICK sub \in subs \ visited[p] :
                /\ Offer(sub[2], <<p, count[p]>>)
                /\ visited' = [visited EXCEPT ![p] = @ \cup {sub}]
                /\ sub \in Nat \X Streams /\ sub[2] \in Streams /\ id[sub[2]] = sub[1]
      BY <3>0
    <3> DEFINE s == sub[2]  e == <<p, count[p]>>
    <3>1. /\ \A q \in Publishers \ {p} : visited'[q] = visited[q]
          /\ visited'[p] = visited[p] \cup {sub}
      BY DEF TypeOK
    <3>2. ASSUME NEW q \in Publishers
          PROVE /\ \A v \in visited'[q] : id'[v[2]] = v[1]
                /\ visited'[q] # {} => q \in readers' /\ pc'[q] = "loop"
      <4>1. /\ \A v \in visited[q] : id[v[2]] = v[1]
            /\ visited[q] # {} => q \in readers /\ pc[q] = "loop"
        BY DEF OrderInv
      <4> QED
        BY ONLY <3>0, <3>1, <4>1, q \in Publishers, id[sub[2]] = sub[1]
    <3>3. ASSUME NEW t \in Streams, NEW i \in DOMAIN sent[t], sent'[t][i] = sent[t][i]
          PROVE EventInv(t, i)'
      <4>1. EventInv(t, i) /\ sent[t] \in Seq(Event)
        BY DEF OrderInv, TypeOK
      <4>2. sent[t][i][1] \in Publishers
        BY <4>1 DEF Event
      <4>3. visited[sent[t][i][1]] \subseteq visited'[sent[t][i][1]]
        BY ONLY <3>1, <4>2
      <4> QED
        BY ONLY <3>0, <3>3, <4>1, <4>3 DEF EventInv
    <3>4. CASE UNCHANGED sent
      <4>1. OrderedPerPublisher
        BY DEF OrderInv
      <4> QED
        BY ONLY <3>2, <3>3, <3>4, <4>1 DEF OrderedPerPublisher, OrderInv
    <3>5. CASE sent' = [sent EXCEPT ![s] = Append(@, e)]
      <4>0. sent[s] \in Seq(Event) /\ sent'[s] = Append(sent[s], e) /\ count[p] \in Nat
        BY <3>5, LogAssumption DEF TypeOK
      <4>1. /\ DOMAIN sent'[s] = 1..Len(sent[s]) + 1 /\ Len(sent[s]) \in Nat
            /\ DOMAIN sent[s] = 1..Len(sent[s])
            /\ \A i \in DOMAIN sent[s] : sent'[s][i] = sent[s][i]
            /\ sent'[s][Len(sent[s]) + 1] = e
        BY ONLY <4>0
      <4>2. \A t \in Streams \ {s} : sent'[t] = sent[t]
        BY <3>5 DEF TypeOK
      <4>3. ASSUME NEW i \in DOMAIN sent[s], sent[s][i][1] = p
            PROVE  sent[s][i][2] < count[p]
        BY <3>0, <4>3, FreshEvent
      <4>4. OrderedPerPublisher'
        <5> SUFFICES ASSUME NEW t \in Streams, NEW i \in DOMAIN sent'[t], NEW j \in DOMAIN sent'[t],
                            i < j, sent'[t][i][1] = sent'[t][j][1]
                     PROVE  sent'[t][i][2] < sent'[t][j][2]
          BY DEF OrderedPerPublisher
        <5>0. \A u \in Streams : \A k, m \in DOMAIN sent[u] :
                 (k < m /\ sent[u][k][1] = sent[u][m][1]) => sent[u][k][2] < sent[u][m][2]
          BY DEF OrderInv, OrderedPerPublisher
        <5>1. CASE t # s
          <6>1. sent'[t] = sent[t]
            BY <4>2, <5>1
          <6> QED
            BY ONLY <5>0, <6>1, t \in Streams, i \in DOMAIN sent'[t], j \in DOMAIN sent'[t],
                    i < j, sent'[t][i][1] = sent'[t][j][1]
        <5>2. CASE t = s
          <6>1. i \in 1..Len(sent[s]) + 1 /\ j \in 1..Len(sent[s]) + 1 /\ Len(sent[s]) \in Nat
            BY <4>1, <5>2, Zenon
          <6>2. i \in 1..Len(sent[s]) /\ (j \in 1..Len(sent[s]) \/ j = Len(sent[s]) + 1)
            BY ONLY <6>1, i < j
          <6>3. i \in DOMAIN sent[s] /\ sent'[s][i] = sent[s][i]
            BY ONLY <4>1, <6>2
          <6>4. CASE j \in DOMAIN sent[s]
            <7>1. sent'[s][j] = sent[s][j]
              BY ONLY <4>1, <6>4
            <7> QED
              BY ONLY <5>0, <5>2, <6>3, <6>4, <7>1, t \in Streams, i < j, sent'[t][i][1] = sent'[t][j][1]
          <6>5. CASE j = Len(sent[s]) + 1
            <7>1. sent'[s][j] = e
              BY ONLY <4>1, <6>5
            <7> QED
              BY ONLY <4>3, <5>2, <6>3, <7>1, sent'[t][i][1] = sent'[t][j][1]
          <6> QED
            BY ONLY <4>1, <6>2, <6>4, <6>5
        <5> QED
          BY <5>1, <5>2
      <4>5. ASSUME NEW t \in Streams, NEW i \in DOMAIN sent'[t] PROVE EventInv(t, i)'
        <5>1. CASE t # s
          <6>1. i \in DOMAIN sent[t] /\ sent'[t][i] = sent[t][i]
            BY <4>2, <5>1
          <6> QED
            BY <3>3, <6>1
        <5>2. CASE t = s /\ i \in DOMAIN sent[s]
          BY <3>3, <4>1, <5>2
        <5>3. CASE t = s /\ i = Len(sent[s]) + 1
          <6>1. sent'[t][i] = e
            BY ONLY <4>1, <5>3
          <6>2. \E v \in visited'[p] : v[2] = t
            BY <3>1, <5>3
          <6>3. sent'[t][i][1] = p /\ sent'[t][i][2] = count'[p]
            BY <3>0, <6>1
          <6>4. pc'[p] = "loop" /\ count'[p] \in Nat
            BY <3>0, <4>0
          <6> QED
            BY ONLY <6>2, <6>3, <6>4 DEF EventInv
        <5>4. t = s => (i \in DOMAIN sent[s] \/ i = Len(sent[s]) + 1)
          <6> SUFFICES ASSUME t = s PROVE i \in DOMAIN sent[s] \/ i = Len(sent[s]) + 1
            OBVIOUS
          <6>1. i \in 1..Len(sent[s]) + 1 /\ Len(sent[s]) \in Nat
            BY <4>1, Zenon
          <6>2. i \in 1..Len(sent[s]) \/ i = Len(sent[s]) + 1
            BY ONLY <6>1
          <6> QED
            BY ONLY <4>1, <6>2
        <5> QED
          BY <5>1, <5>2, <5>3, <5>4
      <4> QED
        BY ONLY <3>2, <4>4, <4>5 DEF OrderInv
    <3> QED
      BY <3>4, <3>5 DEF Offer, channels
  <2>2. ASSUME NEW p \in Publishers,
               PublishBegin(p) \/ PublishCheck(p) \/ PublishRelock(p) \/ PublishReturn(p)
        PROVE  OrderInv'
    <3>1. /\ UNCHANGED <<sent, id>>
          /\ \A q \in Publishers \ {p} :
                /\ pc'[q] = pc[q] /\ count'[q] = count[q] /\ visited'[q] = visited[q]
                /\ q \in readers => q \in readers'
      BY <2>2, LockStepFrame
    <3>2. /\ \/ pc[p] = "idle" /\ pc'[p] = "check" /\ count'[p] = count[p] + 1
             \/ pc[p] = "check" /\ pc'[p] \in {"idle", "relock"} /\ count'[p] = count[p]
             \/ pc[p] = "relock" /\ pc'[p] = "loop" /\ count'[p] = count[p]
             \/ pc[p] = "loop" /\ pc'[p] = "idle" /\ count'[p] = count[p]
          /\ (pc[p] # "loop" /\ visited'[p] = visited[p]) \/ visited'[p] = {}
      BY <2>2, LockStepFrame
    <3>3. ASSUME NEW t \in Streams, NEW i \in DOMAIN sent[t] PROVE EventInv(t, i)'
      <4>1. EventInv(t, i) /\ sent[t] \in Seq(Event)
        BY DEF OrderInv, TypeOK
      <4>2. PICK q \in Publishers, n \in 1..Lines : sent[t][i] = <<q, n>>
        BY <4>1 DEF Event
      <4>3. CASE q # p
        BY ONLY <3>1, <4>1, <4>2, <4>3 DEF EventInv
      <4>4. CASE q = p
        <5>1. count[p] \in Nat /\ n \in Nat
          BY LogAssumption DEF TypeOK
        <5> QED
          BY ONLY <3>1, <3>2, <4>1, <4>2, <4>4, <5>1 DEF EventInv
      <4> QED
        BY <4>3, <4>4
    <3>4. ASSUME NEW q \in Publishers
          PROVE /\ \A v \in visited'[q] : id'[v[2]] = v[1]
                /\ visited'[q] # {} => q \in readers' /\ pc'[q] = "loop"
      <4>1. /\ \A v \in visited[q] : id[v[2]] = v[1]
            /\ visited[q] # {} => q \in readers /\ pc[q] = "loop"
        BY DEF OrderInv
      <4> QED
        BY ONLY <3>1, <3>2, <4>1, q \in Publishers
    <3>5. OrderedPerPublisher
      BY DEF OrderInv
    <3> QED
      BY ONLY <3>1, <3>3, <3>4, <3>5 DEF OrderInv, OrderedPerPublisher
  <2> QED
    BY <2>1, <2>2, <2>3 DEF Next, PublishStep
<1> QED
  BY TypeCorrect, Locking, Registered, <1>1, <1>2, PTL DEF Spec

(* A stream the loop has passed was sent the event or had no room for it.  *)
LossInv ==
    /\ NoLossBelowCapacity
    /\ \A p \in Publishers : \A v \in visited[p] :
          chan[v[2]] = "open" => Reached(v[2], <<p, count[p]>>)

(* Channels only grow, and what found a channel full is not forgotten. *)
LEMMA ReachedStays ==
    ASSUME TypeOK, TypeOK', [Next]_vars, NEW s \in Streams, NEW e, Reached(s, e)
    PROVE  Reached(s, e)'
<1>1. \/ sent'[s] = sent[s]
      \/ \E f \in Event : sent'[s] = Append(sent[s], f)
  <2>1. CASE UNCHANGED sent
    BY <2>1
  <2>2. ASSUME NEW p \in Publishers, PublishSend(p) PROVE <1>1
    <3>1. PICK sub \in subs : Offer(sub[2], <<p, count[p]>>)
      BY <2>2 DEF PublishSend
    <3>2. CASE sent' = [sent EXCEPT ![sub[2]] = Append(@, <<p, count[p]>>)]
      <4>1. CASE sub[2] = s
        <5>1. sent'[s] = Append(sent[s], <<p, count[p]>>)
          BY <3>2, <4>1 DEF TypeOK
        <5>2. Len(sent[s]) \in Nat /\ sent[s] \in Seq(Event) /\ sent'[s] \in Seq(Event)
          BY DEF TypeOK
        <5>3. sent'[s][Len(sent[s]) + 1] = <<p, count[p]>> /\ Len(sent[s]) + 1 \in DOMAIN sent'[s]
          BY <5>1, <5>2
        <5> QED
          BY <5>1, <5>2, <5>3
      <4>2. CASE sub[2] # s
        BY <3>2, <4>2 DEF TypeOK
      <4> QED
        BY <4>1, <4>2
    <3> QED
      BY <3>1, <3>2 DEF Offer, channels
  <2> QED
    BY <2>1, <2>2 DEF Next, PublishStep, StreamStep, vars, channels, PublishBegin, PublishCheck,
       PublishRelock, PublishReturn, SubscribeLock, Subscribe, Receive, StreamClosed, ClientGone,
       UnsubscribeNothing, UnsubscribeLock, Unsubscribe, CloseLock, Close
<1>2. sent[s] \in Seq(Event)
  BY DEF TypeOK
<1>3. ASSUME NEW f \in Event, sent'[s] = Append(sent[s], f)
      PROVE  \A i \in DOMAIN sent[s] : i \in DOMAIN sent'[s] /\ sent'[s][i] = sent[s][i]
  BY <1>2, <1>3
<1>4. full[s] \subseteq full'[s]
  <2>1. CASE UNCHANGED full
    BY <2>1
  <2>2. ASSUME NEW p \in Publishers, PublishSend(p) PROVE full[s] \subseteq full'[s]
    BY <2>2 DEF PublishSend, NoteFull, TypeOK
  <2> QED
    BY <2>1, <2>2 DEF Next, PublishStep, StreamStep, vars, PublishBegin, PublishCheck,
       PublishRelock, PublishReturn, SubscribeLock, Subscribe, Receive, StreamClosed, ClientGone,
       UnsubscribeNothing, UnsubscribeLock, Unsubscribe, CloseLock, Close
<1> QED
  BY <1>1, <1>3, <1>4 DEF Reached

(* The map does not change under the read lock, so a loop that ends has    *)
(* passed every stream that was registered when it began.                  *)
LEMMA Lossless == Spec => []LossInv
<1>1. Init => LossInv
  BY DEF Init, LossInv, NoLossBelowCapacity
<1>2. TypeOK /\ TypeOK' /\ LockInv /\ RegInv /\ OrderInv /\ LossInv /\ [Next]_vars => LossInv'
  <2> SUFFICES ASSUME TypeOK, TypeOK', LockInv, RegInv, OrderInv, LossInv, [Next]_vars
               PROVE  LossInv'
    OBVIOUS
  <2>1. ASSUME NEW t \in Streams, NEW q \in Publishers, NEW n \in base[t][q] + 1 .. Completed(q),
               chan[t] = "open"
        PROVE  Reached(t, <<q, n>>)'
    <3>1. Reached(t, <<q, n>>)
      BY <2>1 DEF LossInv, NoLossBelowCapacity
    <3> QED
      BY <3>1, ReachedStays
  <2>2. ASSUME NEW q \in Publishers, NEW v \in visited[q], chan[v[2]] = "open", count'[q] = count[q]
        PROVE  Reached(v[2], <<q, count[q]>>)'
    <3>1. v[2] \in Streams
      BY DEF TypeOK
    <3>2. Reached(v[2], <<q, count[q]>>)
      BY <2>2 DEF LossInv
    <3> QED
      BY <2>2, <3>1, <3>2, ReachedStays
  <2>6. CASE \/ \E s \in Streams : StreamStep(s) \/ Receive(s) \/ ClientGone(s)
             \/ \E c \in Closers : CloseLock(c) \/ Close(c)
             \/ UNCHANGED vars
    <3>1. /\ UNCHANGED <<visited, count>>
          /\ \A q \in Publishers :
                /\ pc'[q] = pc[q]
                /\ \A v \in visited[q] : chan'[v[2]] = "open" => chan[v[2]] = "open"
      BY <2>6, OthersFrame
    <3>2. \A q \in Publishers : Completed(q)' = Completed(q)
      BY <3>1 DEF Completed
    <3>3. ASSUME NEW t \in Streams, chan'[t] = "open"
          PROVE  (chan[t] = "open" /\ base'[t] = base[t]) \/ base'[t] = count
      <4> USE DEF TypeOK, channels, emitter
      <4>1. CASE UNCHANGED <<chan, base>>
        BY <3>3, <4>1
      <4>2. ASSUME NEW s \in Streams, Subscribe(s) PROVE (chan[t] = "open" /\ base'[t] = base[t]) \/ base'[t] = count
        BY <3>3, <4>2 DEF Subscribe, Register
      <4>3. ASSUME NEW s \in Streams, Unsubscribe(s) PROVE (chan[t] = "open" /\ base'[t] = base[t]) \/ base'[t] = count
        BY <3>3, <4>3 DEF Unsubscribe, CloseChannels
      <4>4. ASSUME NEW c \in Closers, Close(c) PROVE (chan[t] = "open" /\ base'[t] = base[t]) \/ base'[t] = count
        BY <3>3, <4>4 DEF Close, CloseChannels
      <4> QED
        BY <2>6, <4>1, <4>2, <4>3, <4>4 DEF StreamStep, SubscribeLock, StreamClosed,
           UnsubscribeNothing, UnsubscribeLock, Receive, ClientGone, CloseLock, vars
    <3>4. ASSUME NEW t \in Streams, NEW q \in Publishers, chan'[t] = "open",
                 NEW n \in base'[t][q] + 1 .. Completed(q)'
          PROVE  Reached(t, <<q, n>>)'
      <4>1. count[q] \in Nat /\ (Completed(q) = count[q] \/ Completed(q) = count[q] - 1)
        BY LogAssumption DEF Completed, TypeOK
      <4>2. n \in base'[t][q] + 1 .. Completed(q)
        BY <3>2, <3>4
      <4>3. base'[t] # count
        BY <4>1, <4>2
      <4> QED
        BY <2>1, <3>3, <3>4, <4>2, <4>3
    <3>5. NoLossBelowCapacity'
      BY <3>4 DEF NoLossBelowCapacity
    <3> QED
      BY <2>2, <3>1, <3>5 DEF LossInv
  <2>3. ASSUME NEW p \in Publishers, PublishBegin(p) \/ PublishCheck(p) \/ PublishRelock(p)
        PROVE  LossInv'
    <3>1. /\ UNCHANGED <<chan, base, visited>>
          /\ \A q \in Publishers \ {p} : pc'[q] = pc[q] /\ count'[q] = count[q]
      BY <2>3, LockStepFrame DEF PublishBegin, PublishCheck, PublishRelock, channels
    <3>2. \/ pc[p] = "idle" /\ pc'[p] = "check" /\ count'[p] = count[p] + 1
          \/ pc[p] = "check" /\ count'[p] = count[p] /\ (closed \/ pc'[p] = "relock")
          \/ pc[p] = "relock" /\ pc'[p] = "loop" /\ count'[p] = count[p]
          \/ pc[p] = "loop" /\ pc'[p] = "idle"
      BY <2>3, LockStepFrame
    <3>3. pc[p] # "loop"
      BY <2>3 DEF PublishBegin, PublishCheck, PublishRelock
    <3>4. ASSUME NEW q \in Publishers, NEW t \in Streams, chan[t] = "open"
          PROVE  Completed(q)' = Completed(q)
      <4>1. ~closed
        BY <3>4 DEF RegInv
      <4>2. CASE q # p
        BY <3>1, <4>2 DEF Completed
      <4>3. CASE q = p
        <5>1. count[p] \in Nat
          BY LogAssumption DEF TypeOK
        <5> QED
          BY ONLY <3>2, <3>3, <4>1, <4>3, <5>1 DEF Completed
      <4> QED
        BY <4>2, <4>3
    <3>5. NoLossBelowCapacity'
      <4> SUFFICES ASSUME NEW t \in Streams, NEW q \in Publishers, chan'[t] = "open",
                          NEW n \in base'[t][q] + 1 .. Completed(q)'
                   PROVE  Reached(t, <<q, n>>)'
        BY DEF NoLossBelowCapacity
      <4> QED
        BY <2>1, <3>1, <3>4
    <3>6. ASSUME NEW q \in Publishers, visited[q] # {} PROVE count'[q] = count[q]
      <4>1. pc[q] = "loop"
        BY <3>6 DEF OrderInv
      <4> QED
        BY <3>1, <3>3, <4>1
    <3>7. \A q \in Publishers : \A v \in visited'[q] :
             chan'[v[2]] = "open" => Reached(v[2], <<q, count[q]>>)'
      BY <2>2, <3>1, <3>6
    <3> QED
      BY <3>5, <3>7 DEF LossInv
  <2>4. ASSUME NEW p \in Publishers, PublishSend(p) PROVE LossInv'
    <3>0. /\ UNCHANGED <<pc, count, base, chan>>
          /\ \E sub \in subs \ visited[p] :
                /\ Offer(sub[2], <<p, count[p]>>) /\ NoteFull(sub[2], <<p, count[p]>>)
                /\ visited' = [visited EXCEPT ![p] = @ \cup {sub}]
                /\ sub[2] \in Streams /\ chan[sub[2]] = "open"
      BY <2>4, SendFrame
    <3> PICK sub \in subs \ visited[p] :
                /\ Offer(sub[2], <<p, count[p]>>) /\ NoteFull(sub[2], <<p, count[p]>>)
                /\ visited' = [visited EXCEPT ![p] = @ \cup {sub}]
                /\ sub[2] \in Streams /\ chan[sub[2]] = "open"
      BY <3>0
    <3>1. Reached(sub[2], <<p, count[p]>>)'
      <4> DEFINE s == sub[2]  e == <<p, count[p]>>
      <4>1. sent[s] \in Seq(Event) /\ sent'[s] \in Seq(Event) /\ rcvd[s] \in Nat /\ Buffer \in Nat
        BY LogAssumption DEF TypeOK
      <4>2. CASE sent' = [sent EXCEPT ![s] = Append(@, e)]
        <5>1. sent'[s] = Append(sent[s], e)
          BY <4>2 DEF TypeOK
        <5>2. sent'[s][Len(sent[s]) + 1] = e /\ Len(sent[s]) + 1 \in DOMAIN sent'[s]
          BY ONLY <4>1, <5>1
        <5> QED
          BY <3>0, <5>2 DEF Reached
      <4>3. CASE ~HasRoom(s) /\ UNCHANGED sent
        <5>1. Len(sent[s]) - rcvd[s] = Buffer
          <6> DEFINE queued == Len(sent[s]) - rcvd[s]
          <6>1. queued \in 0..Buffer /\ ~(queued < Buffer)
            BY <4>3 DEF TypeOK, HasRoom
          <6> HIDE DEF queued
          <6>2. queued = Buffer
            BY ONLY <4>1, <6>1
          <6> QED
            BY <6>2 DEF queued
        <5>2. e \in full'[s]
          <6>1. full' = [full EXCEPT ![s] = @ \cup {e}]
            BY <5>1 DEF NoteFull
          <6>2. s \in Streams /\ DOMAIN full = Streams
            BY DEF TypeOK
          <6> QED
            BY ONLY <6>1, <6>2
        <5> QED
          BY <3>0, <5>2 DEF Reached
      <4> QED
        BY <4>2, <4>3 DEF Offer, channels
    <3>2. NoLossBelowCapacity'
      BY <2>1, <3>0 DEF NoLossBelowCapacity, Completed
    <3>3. ASSUME NEW q \in Publishers, NEW v \in visited'[q], chan'[v[2]] = "open"
          PROVE  Reached(v[2], <<q, count[q]>>)'
      <4>1. CASE v \in visited[q]
        BY <2>2, <3>0, <3>3, <4>1
      <4>2. CASE v \notin visited[q]
        <5>1. q = p /\ v = sub
          BY <4>2, <3>3 DEF TypeOK
        <5> QED
          BY <3>0, <3>1, <5>1
      <4> QED
        BY <4>1, <4>2
    <3> QED
      BY <3>2, <3>3 DEF LossInv
  <2>5. ASSUME NEW p \in Publishers, PublishReturn(p) PROVE LossInv'
    <3>1. /\ UNCHANGED <<chan, base, count>> /\ subs \subseteq visited[p] /\ pc[p] = "loop"
          /\ visited' = [visited EXCEPT ![p] = {}] /\ pc' = [pc EXCEPT ![p] = "idle"]
      BY <2>5 DEF PublishReturn, Goto, channels
    <3>2. \A q \in Publishers : visited'[q] \subseteq visited[q] /\ (q # p => Completed(q)' = Completed(q))
      BY <3>1, LogAssumption DEF TypeOK, Completed, Procs
    <3>3. ASSUME NEW t \in Streams, NEW q \in Publishers, chan[t] = "open",
                 NEW n \in base[t][q] + 1 .. Completed(q)'
          PROVE  Reached(t, <<q, n>>)'
      <4>1. CASE n \in base[t][q] + 1 .. Completed(q)
        BY <2>1, <3>3, <4>1
      <4>2. CASE n \notin base[t][q] + 1 .. Completed(q)
        <5>1. q = p
          BY <3>2, <3>3, <4>2
        <5>2. count[p] \in Nat /\ base[t][p] \in Nat
          BY LogAssumption DEF TypeOK
        <5>3. Completed(p) = count[p] - 1 /\ Completed(p)' \in {count[p], count[p] - 1}
          BY <3>1 DEF Completed
        <5>4. n = count[p]
          BY ONLY <3>3, <4>2, <5>1, <5>2, <5>3
        <5>5. <<id[t], t>> \in visited[p]
          BY <3>1, <3>3 DEF RegInv
        <5>6. Reached(t, <<p, count[p]>>)'
          <6>1. chan[<<id[t], t>>[2]] = "open"
            BY <3>3
          <6> QED
            BY <2>2, <3>1, <5>5, <6>1
        <5> QED
          BY <3>1, <5>1, <5>4, <5>6
      <4> QED
        BY <4>1, <4>2
    <3>4. NoLossBelowCapacity'
      BY <3>1, <3>3 DEF NoLossBelowCapacity
    <3>5. \A q \in Publishers : \A v \in visited'[q] :
             chan'[v[2]] = "open" => Reached(v[2], <<q, count[q]>>)'
      BY <2>2, <3>1, <3>2
    <3> QED
      BY <3>4, <3>5 DEF LossInv
  <2> QED
    BY <2>3, <2>4, <2>5, <2>6 DEF Next, PublishStep
<1> QED
  BY TypeCorrect, Locking, Registered, Ordered, <1>1, <1>2, PTL DEF Spec
-----------------------------------------------------------------------------
(* Every variable keeps its type; in particular a channel never holds more *)
(* than Buffer events (the non-blocking send of Publish, log.go:43-47).    *)
THEOREM Typed == Spec => []TypeOK
  BY TypeCorrect, PTL

(* Publish, the unsubscribe callbacks and Close never send on or close a   *)
(* channel that is closed already, however many of them race.              *)
THEOREM NeverPanics == Spec => []NoPanic
<1>1. RegInv => NoPanic
  BY DEF RegInv, NoPanic
<1> QED
  BY <1>1, Registered, PTL

(* As long as a goroutine is in an operation of the emitter, one of them   *)
(* can take its next step: parked readers wait for a writer, a writer only *)
(* for readers that are inside, and these for nobody (log.go:34-50).       *)
THEOREM LockIsLive == Spec => []NeverStuck
<1>1. TypeOK /\ LockInv => NeverStuck
  <2> SUFFICES ASSUME TypeOK, LockInv, NEW p \in Busy PROVE \E q \in Busy : GoesOn(q)
    BY DEF NeverStuck
  <2>1. ASSUME NEW q \in readers PROVE q \in Busy /\ GoesOn(q)
    BY <2>1 DEF TypeOK, LockInv, Busy, GoesOn
  <2>2. ASSUME writer # None, readers = {} PROVE writer \in Busy /\ GoesOn(writer)
    BY <2>2 DEF TypeOK, LockInv, Busy, GoesOn, Exclusive
  <2>3. ASSUME p \in Publishers PROVE pc[p] = "relock" \/ p \in readers \/ writer # None
    BY <2>3 DEF LockInv, Busy, Writers
  <2>4. ASSUME p \in Writers PROVE writer # None
    BY <2>4, LogAssumption DEF LogAssumption, LockInv, Busy, Procs
  <2> QED
    BY <2>1, <2>2, <2>3, <2>4 DEF GoesOn, Busy
<1> QED
  BY <1>1, Typed, Locking, PTL

(* A channel is open exactly while the map of the emitter holds it.        *)
THEOREM NoChannelLeaks == Spec => []OpenIffRegistered
<1>1. TypeOK /\ RegInv => OpenIffRegistered
  <2> SUFFICES ASSUME TypeOK, RegInv, NEW s \in Streams
               PROVE  (chan[s] = "open") <=> (\E sub \in subs : sub[2] = s)
    BY DEF OpenIffRegistered
  <2>1. ASSUME chan[s] = "open" PROVE \E sub \in subs : sub[2] = s
    <3>1. <<id[s], s>> \in subs
      BY <2>1 DEF RegInv
    <3> QED
      BY <3>1
  <2>2. ASSUME NEW sub \in subs, sub[2] = s PROVE chan[s] = "open"
    BY <2>2 DEF RegInv
  <2> QED
    BY <2>1, <2>2
<1> QED
  BY <1>1, TypeCorrect, Registered, PTL

(* Each stream holds the events of one publisher in publication order and  *)
(* none twice.                                                             *)
THEOREM PublicationOrder == Spec => []OrderedPerPublisher
<1>1. OrderInv => OrderedPerPublisher
  BY DEF OrderInv
<1> QED
  BY <1>1, Ordered, PTL

(* A completed Publish put its event on the channel of every stream that   *)
(* was subscribed throughout, unless that channel was full when the event  *)
(* was offered to it (log.go:43-48).                                       *)
THEOREM NoLoss == Spec => []NoLossBelowCapacity
<1>1. LossInv => NoLossBelowCapacity
  BY DEF LossInv
<1> QED
  BY <1>1, Lossless, PTL

(* After Close no channel grows, even by a Publish that found closed unset *)
(* and took the read lock again afterwards.                                *)
THEOREM ClosedIsQuiet == Spec => QuietAfterClose
<1>1. RegInv /\ [Next]_vars => [closed => UNCHANGED sent]_vars
  <2> SUFFICES ASSUME RegInv, Next, closed PROVE UNCHANGED sent
    BY DEF vars
  <2>1. subs = {}
    BY DEF RegInv
  <2>2. ASSUME NEW p \in Publishers, PublishSend(p) PROVE FALSE
    BY <2>1, <2>2 DEF PublishSend
  <2> QED
    BY <2>2 DEF Next, PublishStep, StreamStep, channels, PublishBegin, PublishCheck, PublishRelock,
       PublishReturn, SubscribeLock, Subscribe, Receive, StreamClosed, ClientGone,
       UnsubscribeNothing, UnsubscribeLock, Unsubscribe, CloseLock, Close
<1> QED
  BY <1>1, Registered, PTL DEF Spec, QuietAfterClose
-----------------------------------------------------------------------------
(* The emitter provides the feed of LogFeed.  A send is a delivery of the  *)
(* feed, Subscribe opens a stream, the callback ends it, Close ends them   *)
(* all; every other step moves only locks and program counters.            *)
LEMMA SendIsDelivery ==
    ASSUME TypeOK, Counting, LockInv, RegInv, OrderInv, NEW p \in Publishers, PublishSend(p)
    PROVE  (\E s \in Streams, e \in Feed!Event : Feed!Deliver(e, s)) \/ UNCHANGED Feed!vars
<1> PICK sub \in subs \ visited[p] : Offer(sub[2], <<p, count[p]>>)
  BY DEF PublishSend
<1> DEFINE s == sub[2]  e == <<p, count[p]>>
<1>1. sub \in Nat \X Streams /\ s \in Streams /\ chan[s] = "open" /\ pc[p] = "loop" /\ UNCHANGED closed
  BY DEF TypeOK, RegInv, PublishSend, emitter
<1>2. e \in Feed!Event
  <2>1. count[p] \in 0..Lines /\ count[p] > 0 /\ Lines \in Nat
    BY <1>1, LogAssumption DEF TypeOK, Counting
  <2> QED
    BY <2>1 DEF Feed!Event
<1>3. ASSUME NEW i \in DOMAIN sent[s], sent[s][i][1] = e[1] PROVE sent[s][i][2] < e[2]
  BY <1>1, <1>3, FreshEvent
<1>4. CASE UNCHANGED channels
  BY <1>1, <1>4 DEF channels, Feed!vars
<1>5. CASE HasRoom(s) /\ sent' = [sent EXCEPT ![s] = Append(@, e)] /\ UNCHANGED <<chan, rcvd, panicked>>
  <2>1. Feed!Newer(e, s)
    BY <1>3 DEF Feed!Newer
  <2> QED
    BY <1>1, <1>2, <1>5, <2>1 DEF Feed!Deliver, HasRoom
<1> QED
  BY <1>1, <1>4, <1>5 DEF Offer

(* Every step of the emitter is a step of the feed or leaves it unchanged. *)
LEMMA StepRefines ==
    ASSUME TypeOK, Counting, LockInv, RegInv, OrderInv, [Next]_vars
    PROVE  [Feed!Next]_(Feed!vars)
<1>1. CASE \/ \E p \in Publishers : PublishBegin(p) \/ PublishCheck(p) \/ PublishRelock(p) \/ PublishReturn(p)
           \/ \E s \in Streams : \/ SubscribeLock(s) \/ StreamClosed(s) \/ ClientGone(s)
                                 \/ UnsubscribeNothing(s) \/ UnsubscribeLock(s)
           \/ \E c \in Closers : CloseLock(c)
           \/ UNCHANGED vars
  BY <1>1 DEF PublishBegin, PublishCheck, PublishRelock, PublishReturn, SubscribeLock, StreamClosed,
              ClientGone, UnsubscribeNothing, UnsubscribeLock, CloseLock, vars, channels, emitter, Feed!vars
<1>2. ASSUME NEW p \in Publishers, PublishSend(p) PROVE [Feed!Next]_(Feed!vars)
  BY <1>2, SendIsDelivery DEF Feed!Next
<1>3. ASSUME NEW s \in Streams, Subscribe(s) PROVE Feed!Open(s)
  BY <1>3 DEF Subscribe, RegInv, Feed!Open
<1>4. ASSUME NEW s \in Streams, Receive(s) PROVE Feed!Take(s)
  BY <1>4 DEF Receive, emitter, Feed!Take
<1>5. ASSUME NEW s \in Streams, Unsubscribe(s) PROVE Feed!End(s) \/ UNCHANGED Feed!vars
  <2>1. UNCHANGED <<sent, rcvd, closed>> /\ CloseChannels({sub[2] : sub \in Entry(s)})
    BY <1>5 DEF Unsubscribe
  <2>2. ASSUME NEW sub \in Entry(s) PROVE sub[2] = s /\ chan[s] = "open"
    <3>1. sub \in subs /\ sub[1] = id[s] /\ sub \in Nat \X Streams
      BY DEF Entry, TypeOK
    <3>2. id[sub[2]] = sub[1] /\ chan[sub[2]] = "open"
      BY <3>1 DEF RegInv
    <3>3. id[s] # NoId
      BY <3>1 DEF NoId
    <3> QED
      BY <3>1, <3>2, <3>3 DEF RegInv
  <2>3. CASE Entry(s) = {}
    BY <2>1, <2>3 DEF CloseChannels, Feed!vars, TypeOK
  <2>4. CASE Entry(s) # {}
    <3>1. {sub[2] : sub \in Entry(s)} = {s} /\ chan[s] = "open"
      BY <2>2, <2>4
    <3>2. chan' = [chan EXCEPT ![s] = "closed"]
      BY <2>1, <3>1 DEF CloseChannels, TypeOK
    <3> QED
      BY <2>1, <3>1, <3>2 DEF Feed!End
  <2> QED
    BY <2>3, <2>4
<1>6. ASSUME NEW c \in Closers, Close(c) PROVE Feed!Shut \/ UNCHANGED Feed!vars
  <2>1. CASE closed
    BY <1>6, <2>1 DEF Close, Feed!vars
  <2>2. CASE ~closed
    <3>1. /\ closed' = TRUE /\ UNCHANGED <<sent, rcvd>>
          /\ CloseChannels({sub[2] : sub \in subs})
      BY <1>6, <2>2 DEF Close
    <3>2. ASSUME NEW t \in Streams PROVE (t \in {sub[2] : sub \in subs}) <=> (chan[t] = "open")
      <4>1. ASSUME chan[t] = "open" PROVE t \in {sub[2] : sub \in subs}
        <5>1. <<id[t], t>> \in subs
          BY <4>1 DEF RegInv
        <5> QED
          BY <5>1
      <4>2. ASSUME t \in {sub[2] : sub \in subs} PROVE chan[t] = "open"
        BY <4>2 DEF RegInv
      <4> QED
        BY <4>1, <4>2
    <3>3. chan' = [t \in Streams |-> IF chan[t] = "open" THEN "closed" ELSE chan[t]]
      BY <3>1, <3>2 DEF CloseChannels
    <3> QED
      BY <2>2, <3>1, <3>3 DEF Feed!Shut
  <2> QED
    BY <2>1, <2>2
<1> QED
  BY <1>1, <1>2, <1>3, <1>4, <1>5, <1>6 DEF Next, PublishStep, StreamStep, Feed!Next

(* The locking of log.go implements the bounded ordered streams of LogFeed. *)
THEOREM Refinement == Spec => FeedSpec
<1>1. Init => Feed!Init
  BY DEF Init, Feed!Init
<1> QED
  BY <1>1, StepRefines, TypeCorrect, Locking, Registered, Ordered, PTL DEF Spec, FeedSpec, Feed!Spec
=============================================================================
