--------------------------- MODULE BrowserProofs ---------------------------
(***************************************************************************)
(* Proofs about Browser for any number of requests, any runs and any       *)
(* timeouts: types, the bound on the queue for b.mu, and the refinement of *)
(* CallQueue.  They rest on b.mu being held by the call that is inside and *)
(* by no other, and on the latest deadline being kept in horizon.          *)
(***************************************************************************)
EXTENDS Browser, TLAPS

Inside(r) == pc[r] \in {"running", "waiting"}

(* b.mu and the program counters agree. *)
MuInv == \A r \in Requests : mu = r <=> Inside(r)

(* The latest deadline is kept in horizon, and time has not passed it while *)
(* a call is under way.                                                     *)
HorizonInv ==
    \A r \in Requests : pc[r] \in {"queued", "running", "waiting"} =>
        deadline[r] <= horizon /\ now <= horizon

(* A call that waits for a reply has a command of its run outstanding.      *)
WaitInv == \A r \in Requests : pc[r] = "waiting" => at[r] < Length(r)

IInv == TypeOK /\ MuInv /\ WaitInv /\ HorizonInv

(* A run is a number of commands, and there is at least one run.           *)
LEMMA RunShape ==
    ASSUME NEW r \in Requests
    PROVE  /\ 1 \in DOMAIN Runs[r]
           /\ Len(Runs[r]) \in Nat
           /\ \A k \in DOMAIN Runs[r] :
                 /\ k \in Nat /\ Runs[r][k] \in Nat
                 /\ k < Len(Runs[r]) => k + 1 \in DOMAIN Runs[r]
<1>1. Runs[r] \in Seq(Nat) /\ Runs[r] # <<>>
  BY BrowserAssumption DEF BrowserAssumption
<1>2. /\ Len(Runs[r]) \in Nat /\ DOMAIN Runs[r] = 1..Len(Runs[r])
      /\ Len(Runs[r]) # 0
      /\ \A k \in 1..Len(Runs[r]) : Runs[r][k] \in Nat
  BY <1>1
<1> QED
  BY <1>2

(* Timeouts are positive, and no request is called None.                   *)
LEMMA Constants == None \notin Requests /\ \A r \in Requests : Timeout[r] \in Nat /\ Timeout[r] > 0
  BY BrowserAssumption DEF BrowserAssumption

(* Init establishes the invariant.                                         *)
LEMMA InitInv == Init => IInv
<1> SUFFICES ASSUME Init PROVE IInv
  OBVIOUS
<1>1. TypeOK
  <2>1. \A r \in Requests : run[r] \in DOMAIN Runs[r] /\ Length(r) \in Nat
    BY RunShape DEF Init, Length
  <2>2. /\ now \in Nat /\ horizon \in Nat /\ mu \in Requests \cup {None}
        /\ at \in [Requests -> Nat] /\ run \in [Requests -> Nat]
        /\ deadline \in [Requests -> Nat]
        /\ \A r \in Requests : at[r] = 0
    BY DEF Init
  <2>3. /\ pc \in [Requests -> {"idle", "queued", "running", "waiting", "answered"}]
        /\ reply \in [Requests -> {"none", "ok", "error"}]
        /\ answer \in [Requests -> {"none", "ok", "error"}]
        /\ wire = {}
        /\ cancelled \in BOOLEAN /\ chrome \in BOOLEAN
    BY DEF Init
  <2>4. ASSUME NEW r \in Requests PROVE at[r] <= Length(r)
    <3>1. at[r] = 0 /\ Length(r) \in Nat
      BY <2>1, <2>2
    <3>2. PICK len \in Nat : len = Length(r)
      BY <3>1
    <3> QED
      BY <3>1, <3>2
  <2> QED
    BY <2>1, <2>2, <2>3, <2>4 DEF TypeOK
<1>2. MuInv
  BY Constants DEF Init, MuInv, Inside
<1>3. WaitInv /\ HorizonInv
  BY DEF Init, WaitInv, HorizonInv
<1> QED
  BY <1>1, <1>2, <1>3 DEF IInv

(* A step of the call of one request keeps the invariant.                  *)
LEMMA CallInv ==
    ASSUME IInv, NEW r \in Requests, Begin(r) \/ Proceed(r)
    PROVE  IInv'
<1> USE Constants DEF IInv, TypeOK, session, devtools
<1>0. /\ \A q \in Requests : Length(q) \in Nat
      /\ run[r] \in Nat /\ Len(Runs[r]) \in Nat
      /\ run[r] < Len(Runs[r]) => run[r] + 1 \in DOMAIN Runs[r] /\ Runs[r][run[r] + 1] \in Nat
  BY RunShape DEF Length
<1>1. CASE Begin(r)
  <2>1. TypeOK'
    <3>1. now + Timeout[r] \in Nat /\ horizon' \in Nat /\ deadline' \in [Requests -> Nat]
      BY <1>1 DEF Begin
    <3>2. pc' \in [Requests -> {"idle", "queued", "running", "waiting", "answered"}]
      BY <1>1 DEF Begin
    <3> QED
      BY <1>1, <3>1, <3>2 DEF Begin, Length
  <2>2. MuInv'
    BY <1>1 DEF Begin, MuInv, Inside
  <2>3. WaitInv'
    BY <1>0, <1>1 DEF Begin, WaitInv, Length
  <2>4. HorizonInv'
    BY <1>1 DEF Begin, HorizonInv
  <2> QED
    BY <2>1, <2>2, <2>3, <2>4
<1>2. CASE Acquire(r)
  <2>1. TypeOK'
    BY <1>0, <1>2 DEF Acquire, Length, WaitInv
  <2>2. MuInv'
    BY <1>2 DEF Acquire, MuInv, Inside
  <2>3. WaitInv'
    BY <1>0, <1>2 DEF Acquire, WaitInv, Length
  <2>4. HorizonInv'
    BY <1>2 DEF Acquire, HorizonInv
  <2> QED
    BY <2>1, <2>2, <2>3, <2>4
<1>3. CASE Issue(r)
  <2>1. TypeOK'
    <3>1. Command(r)[1] = r
      BY DEF Command
    <3>2. \A c \in wire' : c[1] \in Requests
      BY <1>3, <3>1 DEF Issue
    <3>3. pc' \in [Requests -> {"idle", "queued", "running", "waiting", "answered"}]
      BY <1>3 DEF Issue
    <3> QED
      BY <1>3, <3>2, <3>3 DEF Issue, Length
  <2>2. MuInv'
    BY <1>3 DEF Issue, MuInv, Inside
  <2>3. WaitInv'
    BY <1>0, <1>3 DEF Issue, WaitInv, Length
  <2>4. HorizonInv'
    BY <1>3 DEF Issue, HorizonInv
  <2> QED
    BY <2>1, <2>2, <2>3, <2>4
<1>4. CASE Advance(r)
  <2>1. TypeOK'
    <3>1. at' \in [Requests -> Nat] /\ \A q \in Requests : at'[q] <= Length(q)'
      BY <1>0, <1>4 DEF Advance, Length, WaitInv
    <3>2. /\ pc' \in [Requests -> {"idle", "queued", "running", "waiting", "answered"}]
          /\ reply' \in [Requests -> {"none", "ok", "error"}]
      BY <1>4 DEF Advance
    <3> QED
      BY <1>4, <3>1, <3>2 DEF Advance
  <2>2. MuInv'
    BY <1>4 DEF Advance, MuInv, Inside
  <2>3. WaitInv'
    BY <1>0, <1>4 DEF Advance, WaitInv, Length
  <2>4. HorizonInv'
    BY <1>4 DEF Advance, HorizonInv
  <2> QED
    BY <2>1, <2>2, <2>3, <2>4
<1>5. CASE Finish(r)
  <2>1. TypeOK'
    <3>1. /\ pc' \in [Requests -> {"idle", "queued", "running", "waiting", "answered"}]
          /\ answer' \in [Requests -> {"none", "ok", "error"}]
          /\ mu' = None /\ UNCHANGED <<now, deadline, reply, wire, cancelled, chrome, horizon>>
      BY <1>5 DEF Finish
    <3>2. /\ run' \in [Requests -> Nat] /\ at' \in [Requests -> Nat]
          /\ \A q \in Requests : run'[q] \in DOMAIN Runs[q] /\ at'[q] <= Length(q)'
      <4>1. CASE run' = [run EXCEPT ![r] = @ + 1] /\ at' = [at EXCEPT ![r] = 0] /\ run[r] < Len(Runs[r])
        <5>1. run' \in [Requests -> Nat] /\ at' \in [Requests -> Nat]
          BY <1>0, <4>1
        <5>2. run'[r] = run[r] + 1 /\ at'[r] = 0 /\ Length(r)' \in Nat
          BY <1>0, <4>1 DEF Length
        <5>3. ASSUME NEW q \in Requests, q # r
              PROVE  run'[q] = run[q] /\ at'[q] = at[q] /\ Length(q)' = Length(q)
          BY <4>1, <5>3 DEF Length
        <5>4. run'[r] \in DOMAIN Runs[r] /\ at'[r] <= Length(r)'
          BY <1>0, <4>1, <5>2
        <5>5. ASSUME NEW q \in Requests PROVE run'[q] \in DOMAIN Runs[q] /\ at'[q] <= Length(q)'
          BY <5>3, <5>4
        <5> QED
          BY <5>1, <5>5
      <4>2. CASE UNCHANGED <<run, at>>
        BY <4>2 DEF Length
      <4> QED
        BY <1>5, <4>1, <4>2 DEF Finish
    <3> QED
      BY <3>1, <3>2
  <2>2. MuInv'
    BY <1>5 DEF Finish, MuInv, Inside
  <2>3. WaitInv'
    BY <1>0, <1>5 DEF Finish, WaitInv, Length
  <2>4. HorizonInv'
    BY <1>5 DEF Finish, HorizonInv
  <2> QED
    BY <2>1, <2>2, <2>3, <2>4
<1>6. CASE Fail(r)
  <2>1. TypeOK'
    BY <1>0, <1>6 DEF Fail, Length, WaitInv
  <2>2. MuInv'
    BY <1>6 DEF Fail, MuInv, Inside, MayFail
  <2>3. WaitInv'
    BY <1>0, <1>6 DEF Fail, WaitInv, Length
  <2>4. HorizonInv'
    BY <1>6 DEF Fail, HorizonInv, MayFail
  <2> QED
    BY <2>1, <2>2, <2>3, <2>4
<1> QED
  BY <1>1, <1>2, <1>3, <1>4, <1>5, <1>6 DEF Proceed

(* Chrome and the connection touch no call, except for the reply.          *)
LEMMA OutsideInv ==
    ASSUME IInv,
           \/ \E c \in wire : Execute(c) \/ Refuse(c)
           \/ ChromeEnds \/ ConnectionLost \/ Cancel
    PROVE  IInv'
<1>1. /\ UNCHANGED <<now, mu, pc, run, at, deadline, answer, horizon>>
      /\ wire' \subseteq wire
      /\ cancelled' \in BOOLEAN /\ chrome' \in BOOLEAN
  BY DEF Execute, Refuse, ChromeEnds, ConnectionLost, Cancel, session, devtools, IInv, TypeOK
<1>2. reply' \in [Requests -> {"none", "ok", "error"}]
  BY DEF Execute, Refuse, ChromeEnds, ConnectionLost, Cancel, Respond, session, devtools, IInv, TypeOK
<1> QED
  BY <1>1, <1>2 DEF IInv, TypeOK, MuInv, WaitInv, HorizonInv, Inside, Length

(* Time stops at the deadline of the call that holds b.mu.                 *)
LEMMA TickInv == ASSUME IInv, Tick PROVE IInv'
<1> USE DEF IInv, TypeOK
<1>1. mu \in Requests /\ now < deadline[mu]
  BY DEF Tick, CtxDone
<1>2. deadline[mu] <= horizon
  BY <1>1 DEF MuInv, Inside, HorizonInv
<1>3. now' \in Nat /\ now' <= horizon
  BY <1>1, <1>2 DEF Tick
<1>4. UNCHANGED <<mu, pc, run, at, deadline, reply, answer, wire, cancelled, chrome, horizon>>
  BY DEF Tick, session, devtools
<1> QED
  BY <1>3, <1>4 DEF MuInv, WaitInv, HorizonInv, Inside, Length

(* The invariant holds throughout.                                         *)
LEMMA Invariance == Spec => []IInv
<1>1. IInv /\ [Next]_vars => IInv'
  <2>1. ASSUME IInv, UNCHANGED vars PROVE IInv'
    BY <2>1 DEF vars, session, devtools, IInv, TypeOK, MuInv, WaitInv, HorizonInv, Inside, Length
  <2> QED
    BY <2>1, CallInv, OutsideInv, TickInv DEF Next
<1> QED
  BY <1>1, InitInv, PTL DEF Spec

(* Every variable keeps its type; in particular no run sends more commands *)
(* than its callback has (browser.go:809).                                 *)
THEOREM Typed == Spec => []TypeOK
<1>1. IInv => TypeOK
  BY DEF IInv
<1> QED
  BY <1>1, Invariance, PTL

(* No call is under way after the latest deadline that has ever been given *)
(* to one, however many are queued (browser.go:816, 819).                  *)
THEOREM QueueDrains == Spec => []DrainsByLatestDeadline
<1>1. IInv => DrainsByLatestDeadline
  BY DEF IInv, HorizonInv, DrainsByLatestDeadline
<1> QED
  BY <1>1, Invariance, PTL

(* The guards of Tick, and of Acquire and Fail for a call that is over.    *)
TimePasses == mu # None /\ ~CtxDone(mu)
Admissible(r) == pc[r] = "queued" /\ mu = None
MustLeave(r) == mu = r /\ CtxDone(r) /\ MayFail(r)

(* While a call is under way, either time comes closer to its deadline, or *)
(* b.mu is free for one that is queued, or the call inside is over and     *)
(* leaves.                                                                 *)
CallsMove ==
    \A r \in Requests : pc[r] \in {"queued", "running", "waiting"} =>
        TimePasses \/ \E q \in Requests : Admissible(q) \/ MustLeave(q)

(* Calls never stand still, whatever Chrome does: besides fairness this is *)
(* what EveryCallAnswered needs, and QueueDrains would hold of a clock     *)
(* that stands still (browser.go:816-835).                                 *)
THEOREM NoStandstill == Spec => []CallsMove
<1>1. IInv => CallsMove
  <2> SUFFICES ASSUME IInv, NEW r \in Requests, pc[r] \in {"queued", "running", "waiting"}
               PROVE  TimePasses \/ \E q \in Requests : Admissible(q) \/ MustLeave(q)
    BY DEF CallsMove
  <2>1. CASE mu = None
    <3>1. pc[r] = "queued"
      BY <2>1, Constants DEF IInv, MuInv, Inside
    <3> QED
      BY <2>1, <3>1 DEF Admissible
  <2>2. CASE mu # None
    <3>1. mu \in Requests /\ Inside(mu)
      BY <2>2 DEF IInv, TypeOK, MuInv
    <3>2. CtxDone(mu) => MustLeave(mu)
      BY <3>1 DEF MustLeave, MayFail, Inside
    <3> QED
      BY <2>2, <3>1, <3>2 DEF TimePasses
  <2> QED
    BY <2>1, <2>2
<1> QED
  BY <1>1, Invariance, PTL

(* What CallQueue makes of a request's program counter.                    *)
Stage == [r \in Requests |->
             IF pc[r] \in {"running", "waiting"} THEN "inside"
             ELSE IF pc[r] = "answered" THEN "done" ELSE pc[r]]

(* A step of a call is a step of the queue or leaves it unchanged.         *)
LEMMA CallRefines ==
    ASSUME IInv, NEW r \in Requests, Begin(r) \/ Proceed(r)
    PROVE  Queue!Next \/ UNCHANGED Queue!vars
<1> USE DEF IInv, TypeOK, session, devtools
<1>0. Stage[r] = (IF pc[r] \in {"running", "waiting"} THEN "inside"
                  ELSE IF pc[r] = "answered" THEN "done" ELSE pc[r])
  BY DEF Stage
<1>1. ASSUME NEW x, pc' = [pc EXCEPT ![r] = x],
             NEW y, y = (IF x \in {"running", "waiting"} THEN "inside"
                         ELSE IF x = "answered" THEN "done" ELSE x)
      PROVE  Stage' = [Stage EXCEPT ![r] = y]
  BY <1>1 DEF Stage
<1>2. CASE Begin(r)
  <2>1. Stage[r] = "idle" /\ Stage' = [Stage EXCEPT ![r] = "queued"]
    BY <1>0, <1>1, <1>2 DEF Begin
  <2>2. Queue!Enter(r)
    BY <1>2, <2>1 DEF Begin, Queue!Enter, Stage
  <2> QED
    BY <2>2 DEF Queue!Next
<1>3. CASE Acquire(r)
  <2>1. Stage[r] = "queued" /\ Stage' = [Stage EXCEPT ![r] = "inside"]
    BY <1>0, <1>1, <1>3 DEF Acquire
  <2>2. Queue!Admit(r)
    BY <1>3, <2>1 DEF Acquire, Queue!Admit, Stage
  <2> QED
    BY <2>2 DEF Queue!Next
<1>4. CASE Issue(r) \/ Advance(r)
  <2>1. Stage' = Stage
    BY <1>4 DEF Issue, Advance, Stage
  <2> QED
    BY <1>4, <2>1 DEF Issue, Advance, Queue!vars, Stage
<1>5. CASE Finish(r)
  <2>1. Stage[r] = "inside"
    BY <1>0, <1>5 DEF Finish
  <2>2. CASE pc' = [pc EXCEPT ![r] = "idle"]
    <3>1. Stage' = [Stage EXCEPT ![r] = "idle"]
      BY <1>1, <2>2
    <3>2. Queue!ComeBack(r)
      BY <1>5, <2>1, <3>1 DEF Finish, Queue!ComeBack, Stage
    <3> QED
      BY <3>2 DEF Queue!Next
  <2>3. CASE pc' = [pc EXCEPT ![r] = "answered"]
    <3>1. Stage' = [Stage EXCEPT ![r] = "done"]
      BY <1>1, <2>3
    <3>2. Queue!Leave(r)
      BY <1>5, <2>1, <3>1 DEF Finish, Queue!Leave, Stage
    <3> QED
      BY <3>2 DEF Queue!Next
  <2> QED
    BY <1>5, <2>2, <2>3 DEF Finish
<1>6. CASE Fail(r)
  <2>1. Stage[r] = "inside" /\ Stage' = [Stage EXCEPT ![r] = "done"]
    BY <1>0, <1>1, <1>6 DEF Fail, MayFail
  <2>2. Queue!Leave(r)
    BY <1>6, <2>1 DEF Fail, Queue!Leave, Stage
  <2> QED
    BY <2>2 DEF Queue!Next
<1> QED
  BY <1>2, <1>3, <1>4, <1>5, <1>6 DEF Proceed

(* Chrome is invisible in the queue until the Browser is lost.             *)
LEMMA OutsideRefines ==
    ASSUME IInv,
           \/ \E c \in wire : Execute(c) \/ Refuse(c)
           \/ ChromeEnds \/ ConnectionLost \/ Cancel
    PROVE  Queue!Next \/ UNCHANGED Queue!vars
<1>1. CASE ConnectionLost \/ Cancel
  <2>1. Queue!GoDown
    BY <1>1 DEF ConnectionLost, Cancel, Queue!GoDown, session
  <2> QED
    BY <2>1 DEF Queue!Next
<1>2. CASE (\E c \in wire : Execute(c) \/ Refuse(c)) \/ ChromeEnds
  BY <1>2 DEF Execute, Refuse, ChromeEnds, session, Queue!vars
<1> QED
  BY <1>1, <1>2

(* Every step of the Browser is a step of the queue or leaves it unchanged.*)
LEMMA StepRefines ==
    ASSUME IInv, [Next]_vars
    PROVE  [Queue!Next]_(Queue!vars)
<1>1. CASE Tick
  <2>1. Queue!Settled
    BY <1>1, Constants DEF Tick, CtxDone, Queue!Settled, Queue!Over
  <2>2. Queue!Tick
    BY <1>1, <2>1 DEF Tick, Queue!Tick, session
  <2> QED
    BY <2>2 DEF Queue!Next
<1>2. CASE UNCHANGED vars
  BY <1>2 DEF vars, session, Queue!vars
<1> QED
  BY <1>1, <1>2, CallRefines, OutsideRefines DEF Next

(* The calls of browser.go:809 implement CallQueue, whatever Chrome does.  *)
THEOREM Refinement == Spec => QueueSpec
<1>1. Init => Queue!Init
  BY DEF Init, Queue!Init
<1> QED
  BY <1>1, StepRefines, Invariance, PTL DEF Spec, QueueSpec, Queue!Spec
=============================================================================
