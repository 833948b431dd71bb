------------------------------ MODULE Teardown ------------------------------
(***************************************************************************)
(* What the agent may rely on of Browser.Close and of the end of the       *)
(* context of a Browser, with none of the pipes, waiters and steps it      *)
(* takes: Chrome is killed before Close waits for it, the log is closed    *)
(* once Chrome has ended and not before, and a Close begins and ends once. *)
(***************************************************************************)

VARIABLES
    alive,        \* Chrome runs
    doomed,       \* a kill signal was sent to it
    stage         \* Browser.Close: "open", "closing" or "closed"

vars == <<alive, doomed, stage>>

Init == alive = TRUE /\ doomed = FALSE /\ stage = "open"

(* Chrome may end without having been killed.                              *)
Die ==
    /\ alive /\ alive' = FALSE
    /\ UNCHANGED <<doomed, stage>>

(* The context given to NewBrowser is done. *)
Kill ==
    /\ doomed' = TRUE
    /\ UNCHANGED <<alive, stage>>

Begin ==
    /\ stage = "open" /\ stage' = "closing"
    /\ doomed' = TRUE
    /\ UNCHANGED alive

End ==
    /\ stage = "closing" /\ ~alive
    /\ stage' = "closed"
    /\ UNCHANGED <<alive, doomed>>

Next == Die \/ Kill \/ Begin \/ End

Spec == Init /\ [][Next]_vars
=============================================================================
