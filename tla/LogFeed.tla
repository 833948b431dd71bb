------------------------------ MODULE LogFeed ------------------------------
(***************************************************************************)
(* What a subscriber of the agent's log may rely on, with none of the      *)
(* locking that log.go uses to provide it.  Every subscriber owns a        *)
(* bounded stream.  A stream receives an event at most once, the events    *)
(* of one publisher in the order of their publication, and nothing after   *)
(* it has ended.  Nothing is promised about the relative order of two      *)
(* publishers, and two streams may disagree on it.                         *)
(***************************************************************************)
EXTENDS Naturals, Sequences

CONSTANTS
    Publishers,   \* goroutines that call Publish
    Streams,      \* connections that subscribe
    Lines,        \* bound: events per publisher
    Buffer        \* capacity of a stream

VARIABLES
    phase,        \* per stream: not subscribed, open, or ended
    sent,         \* per stream: every event that ever entered it, in order
    rcvd,         \* per stream: how many of them its reader has taken
    shut          \* whether the feed as a whole has ended

vars == <<phase, sent, rcvd, shut>>

Event == Publishers \X (1..Lines)

Init ==
    /\ phase = [s \in Streams |-> "nil"]
    /\ sent = [s \in Streams |-> <<>>]
    /\ rcvd = [s \in Streams |-> 0]
    /\ shut = FALSE

(* e is newer than every event of its publisher that s has been given. *)
Newer(e, s) ==
    \A i \in DOMAIN sent[s] : sent[s][i][1] = e[1] => sent[s][i][2] < e[2]

(* A subscription to a feed that has ended yields a stream that has ended. *)
Open(s) ==
    /\ phase[s] = "nil"
    /\ phase' = [phase EXCEPT ![s] = IF shut THEN "closed" ELSE "open"]
    /\ UNCHANGED <<sent, rcvd, shut>>

Deliver(e, s) ==
    /\ phase[s] = "open"
    /\ Len(sent[s]) - rcvd[s] < Buffer
    /\ Newer(e, s)
    /\ sent' = [sent EXCEPT ![s] = Append(@, e)]
    /\ UNCHANGED <<phase, rcvd, shut>>

Take(s) ==
    /\ rcvd[s] < Len(sent[s])
    /\ rcvd' = [rcvd EXCEPT ![s] = @ + 1]
    /\ UNCHANGED <<phase, sent, shut>>

End(s) ==
    /\ phase[s] = "open"
    /\ phase' = [phase EXCEPT ![s] = "closed"]
    /\ UNCHANGED <<sent, rcvd, shut>>

(* The end of the feed ends every open stream at once. *)
Shut ==
    /\ ~shut
    /\ shut' = TRUE
    /\ phase' = [s \in Streams |-> IF phase[s] = "open" THEN "closed" ELSE phase[s]]
    /\ UNCHANGED <<sent, rcvd>>

Next ==
    \/ \E s \in Streams : Open(s) \/ Take(s) \/ End(s)
    \/ \E s \in Streams, e \in Event : Deliver(e, s)
    \/ Shut

Spec == Init /\ [][Next]_vars
=============================================================================
