-------------------------- MODULE NavigationProofs --------------------------
(***************************************************************************)
(* Proofs about Navigation for any number of navigations and of waits.     *)
(***************************************************************************)
EXTENDS Navigation, SequenceTheorems, TLAPS

(* A full channel has been filled by the listener of the current call. *)
FilledByOwn == (wait = "waiting" /\ listener = 1) => heard # {}

HearInv == FilledByOwn /\ EndedByOwnEvent

(* The type invariant without the flag ctxDone. *)
CountType ==
    /\ page \in {"requested", "committed", "interactive", "loaded"}
    /\ started \in 0..Navigations /\ made \in 0..Waits
    /\ events \in Seq(Ending)
    /\ wait \in {"none", "waiting", "returned"}
    /\ listener \in 0..1
    /\ result \in {"none", "finished", "timedOut"}
    /\ heard \subseteq Ending

LEMMA TypeParts == /\ TypeOK <=> CountType /\ ctxDone \in BOOLEAN
                   /\ TypeOK' <=> CountType' /\ ctxDone' \in BOOLEAN
  BY Zenon DEF TypeOK, CountType

(* Sending an event, and taking the first one, leaves a queue of events.   *)
LEMMA QueueOfEvents ==
    ASSUME events \in Seq(Ending), NEW event \in Ending
    PROVE  /\ Append(events, event) \in Seq(Ending)
           /\ events # <<>> => Head(events) \in Ending /\ Tail(events) \in Seq(Ending)
<1>1. Append(events, event) \in Seq(Ending)
  BY AppendProperties
<1>2. events # <<>> => Head(events) \in Ending /\ Tail(events) \in Seq(Ending)
  BY HeadTailProperties
<1> QED
  BY <1>1, <1>2

(* The page touches only its own variables.                                *)
LEMMA PageStep ==
    ASSUME TypeOK, HearInv, Start \/ Commit \/ DomContent \/ Load \/ WithinPage
    PROVE  TypeOK' /\ HearInv'
<1>1. UNCHANGED <<wait, made, listener, ctxDone, result, heard>>
  BY DEF Start, Commit, DomContent, Load, WithinPage
<1>2. HearInv'
  BY <1>1 DEF HearInv, FilledByOwn, EndedByOwnEvent
<1>3. events' \in Seq(Ending)
  <2>1. CASE Start
    BY <2>1 DEF Start, TypeOK
  <2>2. CASE ~Start
    <3>1. \E event \in Ending : events' = Append(events, event)
      BY <2>2 DEF Commit, DomContent, Load, WithinPage, Send, Ending
    <3> QED
      BY <3>1, QueueOfEvents DEF TypeOK
  <2> QED
    BY <2>1, <2>2
<1>4. page' \in {"requested", "committed", "interactive", "loaded"} /\ started' \in 0..Navigations
  BY NavigationAssumption
     DEF NavigationAssumption, TypeOK, Start, Commit, DomContent, Load, WithinPage
<1> QED
  BY <1>1, <1>2, <1>3, <1>4 DEF TypeOK

(* What is delivered to a waiting call is recorded as heard.               *)
LEMMA DeliverStep == ASSUME TypeOK, HearInv, Deliver PROVE TypeOK' /\ HearInv'
<1>1. Head(events) \in Ending /\ events' \in Seq(Ending)
  <2>1. "load" \in Ending
    BY DEF Ending
  <2> QED
    BY <2>1, QueueOfEvents DEF Deliver, TypeOK
<1>2. CASE wait = "waiting"
  <2>1. listener' = 1 /\ heard' = heard \cup {Head(events)}
        /\ UNCHANGED <<page, started, wait, made, ctxDone, result>>
    BY <1>1, <1>2 DEF Deliver
  <2> QED
    BY <1>1, <1>2, <2>1 DEF TypeOK, HearInv, FilledByOwn, EndedByOwnEvent
<1>3. CASE wait # "waiting"
  <2>1. UNCHANGED <<page, started, wait, made, ctxDone, result, listener, heard>>
    BY <1>3 DEF Deliver
  <2> QED
    BY <1>1, <2>1 DEF TypeOK, HearInv, FilledByOwn, EndedByOwnEvent
<1> QED
  BY <1>2, <1>3

(* A call starts with an empty channel and ends only by a full one or its  *)
(* own context.                                                            *)
LEMMA CallStep ==
    ASSUME TypeOK, HearInv, Listen \/ TimeUp \/ Finished \/ TimedOut
    PROVE  TypeOK' /\ HearInv'
<1> USE NavigationAssumption
    DEF NavigationAssumption, TypeOK, HearInv, FilledByOwn, EndedByOwnEvent, Return
<1>1. CASE Listen
  <2>1. CountType' /\ HearInv'
    BY <1>1 DEF Listen, CountType
  <2>2. ctxDone' \in BOOLEAN
    BY <1>1 DEF Listen
  <2> QED
    BY <2>1, <2>2, TypeParts
<1>2. CASE TimeUp
  BY <1>2 DEF TimeUp
<1>3. CASE Finished
  BY <1>3 DEF Finished
<1>4. CASE TimedOut
  BY <1>4 DEF TimedOut
<1> QED
  BY <1>1, <1>2, <1>3, <1>4

(* The invariant holds throughout.                                         *)
LEMMA Invariance == Spec => [](TypeOK /\ HearInv)
<1>1. Init => TypeOK /\ HearInv
  <2> SUFFICES ASSUME Init PROVE TypeOK /\ HearInv
    OBVIOUS
  <2>1. events \in Seq(Ending)
    BY EmptySeq DEF Init
  <2>2. CountType
    BY <2>1, NavigationAssumption DEF Init, CountType, NavigationAssumption
  <2>3. ctxDone \in BOOLEAN
    BY DEF Init
  <2>4. HearInv
    BY DEF Init, HearInv, FilledByOwn, EndedByOwnEvent
  <2> QED
    BY <2>2, <2>3, <2>4, TypeParts
<1>2. TypeOK /\ HearInv /\ [Next]_vars => TypeOK' /\ HearInv'
  <2> SUFFICES ASSUME TypeOK, HearInv, [Next]_vars PROVE TypeOK' /\ HearInv'
    OBVIOUS
  <2>1. CASE UNCHANGED vars
    BY <2>1 DEF vars, TypeOK, HearInv, FilledByOwn, EndedByOwnEvent
  <2> QED
    BY <2>1, PageStep, DeliverStep, CallStep DEF Next
<1> QED
  BY <1>1, <1>2, PTL DEF Spec

(* Every variable keeps to its type; in particular the channel of a wait   *)
(* never holds more than the one event it has room for.                    *)
THEOREM Typed == Spec => []TypeOK
  BY Invariance, PTL

(* A wait that succeeds was ended by an event that its own listener was    *)
(* given, never by what an earlier wait left behind, however many waits    *)
(* and navigations there are.                                              *)
THEOREM OwnEvent == Spec => []EndedByOwnEvent
<1>1. TypeOK /\ HearInv => EndedByOwnEvent
  BY DEF HearInv
<1> QED
  BY <1>1, Invariance, PTL
=============================================================================
