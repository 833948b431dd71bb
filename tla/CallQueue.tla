----------------------------- MODULE CallQueue -----------------------------
(***************************************************************************)
(* What the callers of one Browser may rely on, with none of the DevTools  *)
(* traffic it is made of.  Calls are admitted one at a time.  Each brings  *)
(* a deadline, fixed when it asks for admission; the one that is inside    *)
(* leaves at its deadline at the latest, or at once when the Browser goes  *)
(* down.  No time passes while the next one could be admitted.  A caller   *)
(* that has succeeded may come back with a further call.                   *)
(***************************************************************************)
EXTENDS Naturals

CONSTANTS
    Callers,      \* goroutines that share the Browser
    None,         \* no caller
    Patience      \* per caller: the timeout of its calls

VARIABLES
    clock,        \* the time
    holder,       \* the caller that is inside
    stage,        \* per caller: "idle", "queued", "inside" or "done"
    due,          \* per caller: the deadline of its current call
    down          \* the Browser has been closed or lost

vars == <<clock, holder, stage, due, down>>

Init ==
    /\ clock = 0 /\ holder = None /\ down = FALSE
    /\ stage = [r \in Callers |-> "idle"]
    /\ due = [r \in Callers |-> 0]

Over(r) == down \/ clock >= due[r]

(* The timeout covers the wait for admission. *)
Enter(r) ==
    /\ stage[r] = "idle"
    /\ stage' = [stage EXCEPT ![r] = "queued"]
    /\ due' = [due EXCEPT ![r] = clock + Patience[r]]
    /\ UNCHANGED <<clock, holder, down>>

(* Mutant: the timeout starts with the admission. *)
AdmitFresh(r) ==
    /\ stage[r] = "queued" /\ holder = None
    /\ stage' = [stage EXCEPT ![r] = "inside"]
    /\ holder' = r
    /\ due' = [due EXCEPT ![r] = clock + Patience[r]]
    /\ UNCHANGED <<clock, down>>

(* A call is admitted even when its deadline has passed. *)
Admit(r) ==
    /\ stage[r] = "queued" /\ holder = None
    /\ stage' = [stage EXCEPT ![r] = "inside"]
    /\ holder' = r
    /\ UNCHANGED <<clock, due, down>>

ComeBack(r) ==
    /\ stage[r] = "inside"
    /\ stage' = [stage EXCEPT ![r] = "idle"]
    /\ holder' = None
    /\ UNCHANGED <<clock, due, down>>

Leave(r) ==
    /\ stage[r] = "inside"
    /\ stage' = [stage EXCEPT ![r] = "done"]
    /\ holder' = None
    /\ UNCHANGED <<clock, due, down>>

(* Whoever is inside or could be admitted has acted before time goes on. *)
Settled ==
    IF holder = None THEN \A r \in Callers : stage[r] # "queued" ELSE ~Over(holder)

Tick ==
    /\ Settled
    /\ clock' = clock + 1
    /\ UNCHANGED <<holder, stage, due, down>>

GoDown ==
    /\ down' = TRUE
    /\ UNCHANGED <<clock, holder, stage, due>>

Next ==
    \/ \E r \in Callers : Enter(r) \/ Admit(r) \/ ComeBack(r) \/ Leave(r)
    \/ Tick \/ GoDown

Spec == Init /\ [][Next]_vars
=============================================================================
