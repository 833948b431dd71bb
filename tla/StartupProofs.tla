--------------------------- MODULE StartupProofs ---------------------------
(***************************************************************************)
(* Proofs about Startup for any number of attempts and any durations.      *)
(***************************************************************************)
EXTENDS Startup, TLAPS

(* Every failed probe but the last was followed by a whole pause, and      *)
(* nothing has been started, or reached, before its time.                  *)
PauseInv ==
    /\ stage \in {"port", "dir", "spawn"} => attempt = 0 /\ own = "none"
    /\ stage \in {"probe", "pause"} => attempt < Attempts
    /\ stage = "probe" => since >= attempt * Backoff
    /\ stage = "pause" => attempt > 0 /\ since >= (attempt - 1) * Backoff
    /\ stage = "enable" => reached # "none" /\ attempt < Attempts
    /\ now <= StartupTimeout
    /\ PatientStartup

(* Each step of NewBrowser and of the processes around it keeps the count  *)
(* of the pauses.                                                          *)
LEMMA PauseStep == ASSUME TypeOK, PauseInv, [Next]_vars PROVE TypeOK' /\ PauseInv'
<1> USE StartupAssumption DEF StartupAssumption, TypeOK, PauseInv, PatientStartup, clock, chromes
<1>1. CASE MakeDir
  BY <1>1 DEF MakeDir
<1>2. CASE SpawnFails
  BY <1>2 DEF SpawnFails
<1>3. CASE Spawn
  <2>1. since' >= attempt' * Backoff
    <3>1. attempt' = 0 /\ since' \in Nat /\ 0 * Backoff = 0
      BY <1>3 DEF Spawn
    <3> QED
      BY <3>1
  <2> QED
    BY <1>3, <2>1 DEF Spawn
<1>4. CASE ProbeAnswered
  BY <1>4 DEF ProbeAnswered, Serving
<1>5. CASE ProbeFails
  <2>1. attempt' = attempt + 1 /\ attempt' - 1 = attempt /\ since' = now /\ now' = now
    BY <1>5 DEF ProbeFails
  <2>2. now >= attempt * Backoff
    <3>1. attempt * Backoff \in Nat
      OBVIOUS
    <3> QED
      BY <1>5, <3>1 DEF ProbeFails
  <2>3. CASE attempt + 1 = Attempts
    <3>1. now' >= (Attempts - 1) * Backoff
      <4>1. Attempts - 1 = attempt
        BY <2>3
      <4> QED
        BY <2>1, <2>2, <4>1
    <3>2. stage' = "failed" /\ killed' = TRUE /\ attempt' = Attempts
      BY <1>5, <2>1, <2>3 DEF ProbeFails, Abandon
    <3>3. TypeOK'
      BY <1>5, <2>1, <3>2 DEF ProbeFails
    <3>4. PatientStartup'
      BY <3>1 DEF PatientStartup
    <3> QED
      BY <1>5, <2>1, <3>2, <3>3, <3>4 DEF ProbeFails
  <2>4. CASE attempt + 1 < Attempts
    <3>1. since' >= (attempt' - 1) * Backoff
      BY <2>1, <2>2
    <3> QED
      BY <1>5, <2>1, <2>4, <3>1 DEF ProbeFails
  <2> QED
    BY <1>5, <2>3, <2>4 DEF ProbeFails
<1>6. CASE PauseEnds
  <2>1. (attempt - 1) * Backoff + Backoff = attempt * Backoff
    OBVIOUS
  <2>2. /\ since' >= since + Backoff /\ attempt' = attempt /\ now' = now /\ since' = now
        /\ since >= (attempt - 1) * Backoff /\ stage' = "probe"
    BY <1>6 DEF PauseEnds, TimerFires
  <2>3. since' >= attempt' * Backoff
    <3>1. (attempt - 1) * Backoff \in Int /\ attempt * Backoff \in Int
      OBVIOUS
    <3> QED
      BY <2>1, <2>2, <3>1
  <2> QED
    BY <1>6, <2>2, <2>3 DEF PauseEnds, TimerFires
<1>7. CASE PauseCancelled
  BY <1>7 DEF PauseCancelled, Cancels, CtxDone, Abandon
<1>8. CASE EnableSucceeds
  BY <1>8 DEF EnableSucceeds, Serving
<1>9. CASE EnableFails
  BY <1>9 DEF EnableFails, Abandon
<1>10. CASE Tick
  <2>1. now' = now + 1 /\ now < StartupTimeout
    BY <1>10 DEF Tick, Cancels, RequestEnds, CtxDone
  <2> QED
    BY <1>10, <2>1 DEF Tick
<1>11. CASE OwnServes
  BY <1>11 DEF OwnServes
<1>12. CASE OwnExits
  BY <1>12 DEF OwnExits, Running
<1>13. CASE OtherExits
  BY <1>13 DEF OtherExits
<1>14. CASE ChildStarts \/ ChildrenEnd \/ Collect \/ Observe
  <2>1. CASE ChildStarts
    BY <2>1 DEF ChildStarts
  <2>2. CASE ChildrenEnd
    <3>1. held' \in BOOLEAN
      BY <2>2, Zenon DEF ChildrenEnd
    <3>2. UNCHANGED <<stage, attempt, now, since, dir, own, other, killed, observer, reached, parentDone>>
      BY <2>2 DEF ChildrenEnd
    <3> QED
      BY <3>1, <3>2
  <2>3. CASE Collect
    BY <2>3 DEF Collect
  <2>4. CASE Observe
    BY <2>4 DEF Observe
  <2> QED
    BY <1>14, <2>1, <2>2, <2>3, <2>4
<1>15. CASE ParentEnds
  BY <1>15 DEF ParentEnds, Running
<1>16. CASE ChoosePort
  BY <1>16 DEF ChoosePort
<1>17. CASE OtherTakesPort
  BY <1>17 DEF OtherTakesPort
<1>18. CASE UNCHANGED vars
  BY <1>18 DEF vars
<1> QED
  BY <1>1, <1>2, <1>3, <1>4, <1>5, <1>6, <1>7, <1>8, <1>9, <1>10, <1>11,
     <1>12, <1>13, <1>14, <1>15, <1>16, <1>17, <1>18 DEF Next

(* The invariant holds in every state of NewBrowser.                       *)
LEMMA Pauses == Spec => [](TypeOK /\ PauseInv)
<1>1. Init => TypeOK /\ PauseInv
  <2> SUFFICES ASSUME Init PROVE TypeOK /\ PauseInv
    OBVIOUS
  <2>1. TypeOK
    <3>1. attempt \in 0..Attempts /\ now \in Nat /\ since \in 0..now
      BY StartupAssumption DEF StartupAssumption, Init
    <3>2. killed \in BOOLEAN /\ parentDone \in BOOLEAN /\ held \in BOOLEAN
      BY DEF Init
    <3> QED
      BY <3>1, <3>2, Zenon DEF Init, TypeOK
  <2>2. PatientStartup
    BY DEF Init, PatientStartup
  <2>3. /\ stage = "port" /\ attempt = 0 /\ own = "none"
        /\ now <= StartupTimeout
    BY StartupAssumption DEF StartupAssumption, Init
  <2> QED
    BY <2>1, <2>2, <2>3, Zenon DEF PauseInv
<1>2. TypeOK /\ PauseInv /\ [Next]_vars => TypeOK' /\ PauseInv'
  BY PauseStep
<1> QED
  BY <1>1, <1>2, PTL DEF Spec

(* Every variable keeps its type; in particular no probe is made after the *)
(* last one (browser.go:878).                                              *)
THEOREM Typed == Spec => []TypeOK
  BY Pauses, PTL

(* The clock is not past the startup timeout while the port is probed:     *)
(* the select and the request both end with their context (browser.go:179, *)
(* 890, 911).                                                              *)
THEOREM ProbingInTime == Spec => []ProbingBounded
<1>1. PauseInv => ProbingBounded
  BY DEF PauseInv, ProbingBounded
<1> QED
  BY <1>1, Pauses, PTL

(* The time and the attempts that probing has left. *)
Left == (StartupTimeout - now) + 2 * (Attempts - attempt) + (IF stage = "pause" THEN 1 ELSE 0)

Probing == stage \in {"probe", "pause"}
probing == <<stage, attempt, now>>

(* A step of the start uses up something of what is left, and what is left *)
(* is never negative.                                                      *)
UsesUp ==
    /\ Left \in Nat
    /\ Probing /\ Probing' /\ probing' # probing => Left' < Left

(* Either the clock can tick, or the request or the pause is over and the  *)
(* loop can go on: the time does not stand still.                          *)
Proceeds ==
    Probing =>
        \/ /\ now < StartupTimeout
           /\ now < since + (IF stage = "probe" THEN ClientTimeout ELSE Backoff)
           /\ ~Cancels /\ ~TimerFires /\ ~RequestEnds
        \/ RequestEnds /\ attempt < Attempts
        \/ TimerFires \/ Cancels

(* While the port is probed the start can always take a step, or time can  *)
(* pass, and each of these steps brings the end of probing nearer: with    *)
(* ProbingInTime, what ProbingEnds needs besides fairness                  *)
(* (browser.go:878-899).                                                   *)
THEOREM ProbingUsesUp == Spec => []Proceeds /\ [][UsesUp]_vars
<1>1. TypeOK /\ PauseInv => Proceeds
  <2> SUFFICES ASSUME TypeOK, PauseInv, Probing PROVE Proceeds
    BY DEF Proceeds
  <2> USE StartupAssumption DEF StartupAssumption, TypeOK, PauseInv, Proceeds, Probing
  <2>1. CASE stage = "probe"
    BY <2>1 DEF RequestEnds, Cancels, TimerFires, CtxDone
  <2>2. CASE stage = "pause"
    BY <2>2 DEF RequestEnds, Cancels, TimerFires, CtxDone
  <2> QED
    BY <2>1, <2>2
<1>2. TypeOK /\ PauseInv /\ [Next]_vars => [UsesUp]_vars
  <2> SUFFICES ASSUME TypeOK, PauseInv, Next PROVE UsesUp
    OBVIOUS
  <2> USE StartupAssumption DEF StartupAssumption, TypeOK, PauseInv, Left, Probing, probing, clock, chromes
  <2>1. Left \in Nat
    OBVIOUS
  <2>2. ASSUME Probing, Probing', probing' # probing PROVE Left' < Left
    <3>1. CASE Tick
      BY <2>2, <3>1 DEF Tick
    <3>2. CASE ProbeFails
      BY <2>2, <3>2 DEF ProbeFails, Abandon
    <3>3. CASE PauseEnds
      BY <2>2, <3>3 DEF PauseEnds, TimerFires
    <3> QED
      BY <2>2, <3>1, <3>2, <3>3 DEF Next, ChoosePort, MakeDir, SpawnFails, Spawn, ProbeAnswered,
         PauseCancelled, Abandon, EnableSucceeds, EnableFails, OwnServes, OwnExits, OtherTakesPort,
         OtherExits, ChildStarts, ChildrenEnd, Collect, Observe, ParentEnds
  <2> QED
    BY <2>1, <2>2 DEF UsesUp
<1> QED
  BY <1>1, <1>2, Pauses, PTL DEF Spec

(* A Chrome is not given up before all the pauses have passed or the       *)
(* timeout has (browser.go:878-895).                                       *)
THEOREM StartupIsPatient == Spec => []PatientStartup
<1>1. PauseInv => PatientStartup
  BY DEF PauseInv
<1> QED
  BY <1>1, Pauses, PTL

-----------------------------------------------------------------------------
(* A Chrome that was started is waited for; it has been killed when the    *)
(* start has failed, unless it had ended before.                           *)
FailedIsDoomed ==
    /\ own # "none" => observer # "none"
    /\ observer \in {"collected", "done"} => own = "exited"
    /\ stage = "failed" /\ Running => killed

(* No return of an error leaves a Chrome behind that is neither killed nor *)
(* waited for: what FailureLeavesNoChrome needs besides fairness           *)
(* (browser.go:183-207).                                                   *)
THEOREM FailedStartKills == Spec => []FailedIsDoomed
<1>1. Init => FailedIsDoomed
  BY DEF Init, FailedIsDoomed, Running
<1>2. TypeOK /\ PauseInv /\ FailedIsDoomed /\ [Next]_vars => FailedIsDoomed'
  <2> SUFFICES ASSUME TypeOK, PauseInv, FailedIsDoomed, [Next]_vars PROVE FailedIsDoomed'
    OBVIOUS
  <2> USE DEF TypeOK, FailedIsDoomed, Running, clock, chromes
  <2>1. CASE ChoosePort \/ MakeDir \/ SpawnFails
    BY <2>1 DEF ChoosePort, MakeDir, SpawnFails, PauseInv
  <2>2. CASE Spawn
    BY <2>2 DEF Spawn
  <2>3. CASE ProbeAnswered \/ ProbeFails \/ PauseEnds \/ PauseCancelled
    BY <2>3 DEF ProbeAnswered, ProbeFails, PauseEnds, PauseCancelled, Abandon
  <2>4. CASE EnableSucceeds \/ EnableFails \/ Tick
    BY <2>4 DEF EnableSucceeds, EnableFails, Tick, Abandon
  <2>5. CASE \/ OwnServes \/ OwnExits \/ OtherTakesPort \/ OtherExits
            \/ ChildStarts \/ ChildrenEnd \/ Collect \/ Observe \/ ParentEnds
    BY <2>5 DEF OwnServes, OwnExits, OtherTakesPort, OtherExits, ChildStarts, ChildrenEnd,
       Collect, Observe, ParentEnds
  <2>6. CASE UNCHANGED vars
    BY <2>6 DEF vars
  <2> QED
    BY <2>1, <2>2, <2>3, <2>4, <2>5, <2>6 DEF Next
<1> QED
  BY <1>1, <1>2, Pauses, PTL DEF Spec
=============================================================================
