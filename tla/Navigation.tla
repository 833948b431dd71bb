----------------------------- MODULE Navigation -----------------------------
(***************************************************************************)
(* WaitForNavigation (browser.go): a listener on the events of the page,   *)
(* with a channel of one element between the goroutine that delivers the   *)
(* events and the caller that waits.  b.mu lets one wait run at a time, so *)
(* a single waiter makes one wait after the other.                         *)
(*                                                                         *)
(* Events travel: Chrome sends them as the page loads, and chromedp hands  *)
(* them to the listeners registered when they arrive, in order.            *)
(***************************************************************************)
EXTENDS Integers, Sequences

CONSTANTS
    Navigations,  \* bound: navigations of the page
    Waits         \* bound: calls of WaitForNavigation

ASSUME NavigationAssumption == Navigations \in Nat /\ Waits \in Nat

VARIABLES
    page,         \* how far the page has loaded
    started,      \* navigations started
    events,       \* events sent and not yet delivered
    wait,         \* the current call: "none", "waiting", "returned"
    made,         \* calls made
    listener,     \* events in the channel of the current call
    ctxDone,      \* the context of the current call is done
    result,       \* what the last call returned
    heard         \* history: events the listener of the current call was given

vars == <<page, started, events, wait, made, listener, ctxDone, result, heard>>
-----------------------------------------------------------------------------
(* The page (external).  Something that ran before, a click or a script,   *)
(* starts a navigation; the agent itself cannot while the wait holds b.mu. *)

Send(event) == events' = Append(events, event)

Start ==
    /\ started < Navigations
    /\ started' = started + 1 /\ page' = "requested"
    /\ UNCHANGED <<events, wait, made, listener, ctxDone, result, heard>>

Commit ==
    /\ page = "requested"
    /\ page' = "committed" /\ Send("frameNavigated")
    /\ UNCHANGED <<started, wait, made, listener, ctxDone, result, heard>>

DomContent ==
    /\ page = "committed"
    /\ page' = "interactive" /\ Send("domContent")
    /\ UNCHANGED <<started, wait, made, listener, ctxDone, result, heard>>

Load ==
    /\ page = "interactive"
    /\ page' = "loaded" /\ Send("load")
    /\ UNCHANGED <<started, wait, made, listener, ctxDone, result, heard>>

(* A change of the fragment, or a navigation of a frame inside the page,   *)
(* loads no new page.                                                      *)
WithinPage ==
    /\ page # "requested" /\ started < Navigations
    /\ started' = started + 1
    /\ \E event \in {"withinDocument", "frameNavigated"} : Send(event)
    /\ UNCHANGED <<page, wait, made, listener, ctxDone, result, heard>>
-----------------------------------------------------------------------------
Ending == {"frameNavigated", "domContent", "load", "withinDocument"}

(* Mutant: the send to the channel has no default case, and waits for room *)
(* even when the caller has gone.                                          *)
DeliverBlocking ==
    /\ events # <<>> /\ listener = 0
    /\ events' = Tail(events)
    /\ IF wait = "waiting" /\ Head(events) \in Ending
       THEN listener' = 1 /\ heard' = heard \cup {Head(events)}
       ELSE UNCHANGED <<listener, heard>>
    /\ UNCHANGED <<page, started, wait, made, ctxDone, result>>

(* Mutant: the channel has room for every event. *)
DeliverAll ==
    /\ events # <<>>
    /\ events' = Tail(events)
    /\ IF wait = "waiting" /\ Head(events) \in Ending
       THEN listener' = listener + 1 /\ heard' = heard \cup {Head(events)}
       ELSE UNCHANGED <<listener, heard>>
    /\ UNCHANGED <<page, started, wait, made, ctxDone, result>>

(* The callback of ListenTarget.  Its channel holds one event and the send *)
(* gives up when it is full; once the call has returned it is not invoked. *)
Deliver ==
    /\ events # <<>>
    /\ events' = Tail(events)
    /\ IF wait = "waiting" /\ Head(events) \in Ending
       THEN listener' = 1 /\ heard' = heard \cup {Head(events)}
       ELSE UNCHANGED <<listener, heard>>
    /\ UNCHANGED <<page, started, wait, made, ctxDone, result>>

(* Mutant: the channel outlives the call. *)
ListenShared ==
    /\ wait # "waiting" /\ made < Waits
    /\ wait' = "waiting" /\ made' = made + 1
    /\ ctxDone' = FALSE /\ heard' = {}
    /\ UNCHANGED <<page, started, events, listener, result>>

Listen ==
    /\ wait # "waiting" /\ made < Waits
    /\ wait' = "waiting" /\ made' = made + 1
    /\ listener' = 0 /\ ctxDone' = FALSE /\ heard' = {}
    /\ UNCHANGED <<page, started, events, result>>

(* The timer of the wait starts after the context of the call and with the *)
(* same duration, so the context is always done first.                     *)
TimeUp ==
    /\ wait = "waiting" /\ ~ctxDone
    /\ ctxDone' = TRUE
    /\ UNCHANGED <<page, started, events, wait, made, listener, result, heard>>

Return(how) == wait' = "returned" /\ result' = how

Finished ==
    /\ wait = "waiting" /\ listener = 1
    /\ Return("finished") /\ listener' = 0
    /\ UNCHANGED <<page, started, events, made, ctxDone, heard>>

(* Mutant: the wait does not look at its context. *)
TimedOutNever == FALSE /\ UNCHANGED vars

TimedOut ==
    /\ wait = "waiting" /\ ctxDone
    /\ Return("timedOut")
    /\ UNCHANGED <<page, started, events, made, listener, ctxDone, heard>>

Init ==
    /\ page = "loaded" /\ started = 0 /\ events = <<>>
    /\ wait = "none" /\ made = 0 /\ listener = 0 /\ ctxDone = FALSE
    /\ result = "none" /\ heard = {}

Next ==
    \/ Start \/ Commit \/ DomContent \/ Load \/ WithinPage
    \/ Deliver \/ Listen \/ TimeUp \/ Finished \/ TimedOut

Spec == Init /\ [][Next]_vars

(* chromedp delivers, time passes and the caller runs; the page may hang.  *)
FairSpec == Spec /\ WF_vars(Deliver) /\ WF_vars(TimeUp) /\ WF_vars(Finished \/ TimedOut)
-----------------------------------------------------------------------------
(* Every variable stays within the values its Go counterpart can hold; in    *)
(* particular the channel never holds more than one event.                   *)
TypeOK ==
    /\ page \in {"requested", "committed", "interactive", "loaded"}
    /\ started \in 0..Navigations /\ made \in 0..Waits
    /\ events \in Seq(Ending)
    /\ wait \in {"none", "waiting", "returned"}
    /\ listener \in 0..1 /\ ctxDone \in BOOLEAN
    /\ result \in {"none", "finished", "timedOut"}
    /\ heard \subseteq Ending

(* A wait that succeeds was ended by an event that reached its own listener, *)
(* not by what an earlier wait had left unread.                              *)
EndedByOwnEvent == (wait = "returned" /\ result = "finished") => heard # {}

(* A wait never holds up the delivery of events to the rest of chromedp: not *)
(* when it has been told already, nor when its caller has given up.          *)
EventsFlow == (events # <<>>) ~> (events = <<>>)

(* A wait returns, whether or not the page ever finishes loading.            *)
WaitsReturn == (wait = "waiting") ~> (wait = "returned")

(* browser.go:354 "WaitForNavigation blocks until the current navigation     *)
(* finishes loading": a wait that succeeds has seen the end of a navigation. *)
WaitEndsLoaded ==
    (wait = "returned" /\ result = "finished") => heard \cap {"load", "withinDocument"} # {}
=============================================================================
