------------------------ MODULE ChromeProcessProofs ------------------------
(***************************************************************************)
(* Proofs about ChromeProcess for any pipes and any amount of output:      *)
(* types, the order of Close, and what the log has of the output.  For the *)
(* last, what a copying goroutine is about to publish is consecutive and   *)
(* begins where the log ends, and the report comes when nothing is left.   *)
(***************************************************************************)
EXTENDS ChromeProcess, SequenceTheorems, TLAPS

(* Close waits for the process before it removes the directory.            *)
CloseInv ==
    /\ closer \in {"waited", "removed", "done"} => chrome # "running"
    /\ ~dir => closer \in {"removed", "done"}

(* Nothing is left to come from a pipe.                                    *)
Drained(p) == copier[p] = "done" /\ pending[p] = <<>> /\ taken[p] = wrote[p]

(* A copying goroutine that is done has passed on everything, and nobody   *)
(* is left who could write more.                                           *)
CopyInv ==
    /\ \A p \in Pipes : copier[p] = "done" => Drained(p) /\ chrome # "running" /\ ~children
    /\ observer = "done" => \A p \in Pipes : Drained(p)

ExitLine == <<"exited">>
Event == {ExitLine} \cup (Pipes \X Nat \X Nat)

(* The report is published by the observer, which is done then, and it is  *)
(* the last event of the log.                                              *)
ReportInv ==
    /\ journal \in Seq(Event)
    /\ Reported => observer = "done" /\ journal[Len(journal)] = <<"exited">>

(* The parts of a read are ranges of the pipe.                             *)
LEMMA SplitType ==
    ASSUME NEW p \in Pipes, NEW a \in Nat, NEW b \in Nat, a > 0, b >= a
    PROVE  Split(p, a, b) \in Seq(Pipes \X Nat \X Nat)
<1> DEFINE From(n) == IF 2 * n - 1 < a THEN a ELSE 2 * n - 1
           To(n) == IF 2 * n > b THEN b ELSE 2 * n
           first == LineOf(a)
           len == LineOf(b) - first + 1
<1>1. first \in Nat /\ first > 0 /\ len \in Nat
  BY DEF LineOf
<1>2. ASSUME NEW i \in 1..len
      PROVE  <<p, From(first + i - 1), To(first + i - 1)>> \in Pipes \X Nat \X Nat
  <2>1. first + i - 1 \in Nat /\ first + i - 1 > 0
    BY <1>1
  <2>2. From(first + i - 1) \in Nat /\ To(first + i - 1) \in Nat
    BY <2>1
  <2> QED
    BY <2>2
<1>3. Split(p, a, b) = [i \in 1..len |-> <<p, From(first + i - 1), To(first + i - 1)>>]
  BY DEF Split
<1>4. Split(p, a, b) \in [1..len -> Pipes \X Nat \X Nat]
  BY <1>2, <1>3
<1> QED
  BY <1>1, <1>4, SeqDef

(* A piece of output is not the report.                                    *)
LEMMA OutputIsNoReport == \A e \in Pipes \X Nat \X Nat : e # <<"exited">>
<1> SUFFICES ASSUME NEW e \in Pipes \X Nat \X Nat, e = <<"exited">> PROVE FALSE
  OBVIOUS
<1>1. DOMAIN e = 1..3
  OBVIOUS
<1>2. DOMAIN e = 1..1
  OBVIOUS
<1> QED
  BY <1>1, <1>2

IInv == TypeOK /\ CloseInv /\ CopyInv /\ ReportInv

(* Whatever is published keeps the log a sequence; the report ends it.     *)
LEMMA PublishEvent ==
    ASSUME journal \in Seq(Event), NEW e \in Event, Publish(e)
    PROVE  /\ journal' \in Seq(Event)
           /\ Reported' => Reported \/ e = ExitLine
           /\ e = ExitLine /\ Reported' /\ (Reported => journal[Len(journal)] = ExitLine)
                  => journal'[Len(journal')] = ExitLine
<1>1. CASE journal' = journal
  BY <1>1 DEF Reported, ExitLine
<1>2. CASE journal' = Append(journal, e)
  <2>1. /\ journal' \in Seq(Event) /\ Len(journal') = Len(journal) + 1
        /\ journal'[Len(journal')] = e
        /\ \A i \in 1..Len(journal) : journal'[i] = journal[i]
        /\ DOMAIN journal = 1..Len(journal) /\ DOMAIN journal' = 1..Len(journal) + 1
        /\ Len(journal) \in Nat
    BY <1>2
  <2>2. ASSUME Reported' PROVE Reported \/ e = ExitLine
    <3>1. PICK i \in DOMAIN journal' : journal'[i] = ExitLine
      BY <2>2 DEF Reported, ExitLine
    <3>2. CASE i = Len(journal) + 1
      BY <2>1, <3>1, <3>2
    <3>3. CASE i \in 1..Len(journal)
      BY <2>1, <3>1, <3>3 DEF Reported, ExitLine
    <3> QED
      BY <2>1, <3>1, <3>2, <3>3
  <2> QED
    BY <2>1, <2>2
<1> QED
  BY <1>1, <1>2 DEF Publish

(* Init establishes the invariant.                                         *)
LEMMA InitInv == Init => IInv
<1> SUFFICES ASSUME Init PROVE IInv
  OBVIOUS
<1>1. TypeOK
  <2>1. \A p \in Pipes : Pieces[p] \in Nat /\ taken[p] = 0 /\ wrote[p] = 0
    BY ProcessAssumption DEF ProcessAssumption, Init
  <2>2. /\ wrote \in [Pipes -> Nat] /\ taken \in [Pipes -> Nat]
        /\ pending \in [Pipes -> Seq(Pipes \X Nat \X Nat)]
        /\ copier \in [Pipes -> {"copying", "done"}]
    BY DEF Init
  <2>3. /\ chrome = "running" /\ killed = {} /\ children = TRUE /\ reaped = "none"
        /\ observer = "waiting" /\ closer = "off" /\ dir = TRUE /\ logOpen = TRUE
    BY DEF Init
  <2> QED
    BY <2>1, <2>2, <2>3 DEF TypeOK
<1>2. CloseInv /\ CopyInv
  BY DEF Init, CloseInv, CopyInv
<1>3. ReportInv
  BY DEF Init, ReportInv, Reported
<1> QED
  BY <1>1, <1>2, <1>3 DEF IInv

(* Steps of Chrome, of its children, and of the kill.                      *)
LEMMA ProcessInv ==
    ASSUME IInv,
           \/ \E how \in {"clean", "crash", "killed"} : ChromeEnds(how)
           \/ ChildrenEnd \/ ParentDone
    PROVE  IInv'
<1> USE DEF IInv, TypeOK, CloseInv, CopyInv, Drained, ReportInv, Reported, process, output, teardown
<1>1. ASSUME NEW how \in {"clean", "crash", "killed"}, ChromeEnds(how) PROVE IInv'
  BY <1>1 DEF ChromeEnds
<1>2. CASE ChildrenEnd
  <2>1. children' \in BOOLEAN /\ ~children'
    BY <1>2 DEF ChildrenEnd
  <2>2. UNCHANGED <<chrome, killed, reaped, wrote, taken, pending, copier,
                    observer, closer, dir, logOpen, journal>>
    BY <1>2 DEF ChildrenEnd
  <2> QED
    BY <2>1, <2>2
<1>3. CASE ParentDone
  <2>1. killed' \subseteq {"close", "context"}
    BY <1>3 DEF ParentDone
  <2>2. UNCHANGED <<chrome, children, reaped, wrote, taken, pending, copier,
                    observer, closer, dir, logOpen, journal>>
    BY <1>3 DEF ParentDone
  <2> QED
    BY <2>1, <2>2
<1> QED
  BY <1>1, <1>2, <1>3

(* Only a pipe that somebody holds grows, so none of those that are done.  *)
LEMMA WriteInv == ASSUME IInv, NEW p \in Pipes, Write(p) PROVE IInv'
<1>1. /\ UNCHANGED <<chrome, killed, children, reaped, taken, pending, copier,
                     observer, closer, dir, logOpen, journal>>
      /\ wrote' = [wrote EXCEPT ![p] = @ + 1] /\ wrote[p] < Pieces[p]
      /\ copier[p] # "done"
  BY DEF Write, process, teardown, IInv, CopyInv
<1>2. TypeOK'
  <2>1. Pieces[p] \in Nat
    BY ProcessAssumption DEF ProcessAssumption
  <2>2. wrote' \in [Pipes -> Nat] /\ \A q \in Pipes : taken[q] <= wrote'[q] /\ wrote'[q] <= Pieces[q]
    BY <1>1, <2>1 DEF IInv, TypeOK
  <2> QED
    BY <1>1, <2>2 DEF IInv, TypeOK
<1>3. CopyInv'
  BY <1>1 DEF IInv, TypeOK, CopyInv, Drained
<1> QED
  BY <1>1, <1>2, <1>3 DEF IInv, CloseInv, ReportInv, Reported

(* A copying goroutine loses nothing and stops when nothing is left.       *)
LEMMA CopyStepInv == ASSUME IInv, NEW p \in Pipes, CopyStep(p) PROVE IInv'
<1> USE DEF IInv
<1>1. CASE Read(p)
  <2>1. PICK m \in taken[p] + 1 .. wrote[p] :
            /\ taken' = [taken EXCEPT ![p] = m]
            /\ pending' = [pending EXCEPT ![p] = Split(p, taken[p] + 1, m)]
    BY <1>1 DEF Read
  <2>2. /\ UNCHANGED <<chrome, killed, children, reaped, wrote, copier,
                       observer, closer, dir, logOpen, journal>>
        /\ copier[p] = "copying"
    BY <1>1 DEF Read, process, teardown
  <2>3. Split(p, taken[p] + 1, m) \in Seq(Pipes \X Nat \X Nat)
    <3>1. taken[p] + 1 \in Nat /\ m \in Nat /\ taken[p] + 1 > 0 /\ m >= taken[p] + 1
      BY DEF TypeOK
    <3> QED
      BY <3>1, SplitType
  <2>4. TypeOK'
    <3>1. taken' \in [Pipes -> Nat] /\ \A q \in Pipes : taken'[q] <= wrote[q]
      BY <2>1 DEF TypeOK
    <3>2. pending' \in [Pipes -> Seq(Pipes \X Nat \X Nat)]
      BY <2>1, <2>3 DEF TypeOK
    <3> QED
      BY <2>2, <3>1, <3>2 DEF TypeOK
  <2>5. CopyInv'
    BY <2>1, <2>2 DEF TypeOK, CopyInv, Drained
  <2> QED
    BY <2>2, <2>4, <2>5 DEF CloseInv, ReportInv, Reported
<1>2. CASE PublishLine(p)
  <2>1. /\ UNCHANGED <<chrome, killed, children, reaped, wrote, taken, copier,
                       observer, closer, dir, logOpen>>
        /\ pending[p] # <<>> /\ pending' = [pending EXCEPT ![p] = Tail(@)]
        /\ Publish(Head(pending[p]))
    BY <1>2 DEF PublishLine, process, teardown
  <2>2. /\ Head(pending[p]) \in Pipes \X Nat \X Nat
        /\ Tail(pending[p]) \in Seq(Pipes \X Nat \X Nat)
    <3>1. pending[p] \in Seq(Pipes \X Nat \X Nat) /\ pending[p] # <<>>
      BY <2>1 DEF TypeOK
    <3> QED
      BY <3>1, HeadTailProperties
  <2>3. Head(pending[p]) \in Event /\ Head(pending[p]) # ExitLine
    BY <2>2, OutputIsNoReport DEF Event, ExitLine
  <2>4. observer # "done"
    BY <2>1 DEF CopyInv, Drained
  <2>5. TypeOK'
    <3>1. pending' \in [Pipes -> Seq(Pipes \X Nat \X Nat)]
      BY <2>1, <2>2 DEF TypeOK
    <3> QED
      BY <2>1, <3>1 DEF TypeOK
  <2>6. CopyInv'
    BY <2>1, <2>4 DEF TypeOK, CopyInv, Drained
  <2>7. ReportInv'
    BY <2>1, <2>3, <2>4, PublishEvent DEF ReportInv
  <2> QED
    BY <2>1, <2>5, <2>6, <2>7 DEF CloseInv
<1>3. CASE EndOfFile(p)
  <2>1. /\ UNCHANGED <<chrome, killed, children, reaped, wrote, taken, pending,
                       observer, closer, dir, logOpen, journal>>
        /\ pending[p] = <<>> /\ taken[p] = wrote[p] /\ chrome # "running" /\ ~children
        /\ copier' = [copier EXCEPT ![p] = "done"]
    BY <1>3 DEF EndOfFile, process, teardown
  <2>2. TypeOK' /\ CopyInv'
    BY <2>1 DEF TypeOK, CopyInv, Drained
  <2> QED
    BY <2>1, <2>2 DEF CloseInv, ReportInv, Reported
<1> QED
  BY <1>1, <1>2, <1>3 DEF CopyStep

(* The observer reports when both pipes are drained.                       *)
LEMMA ObserverInv == ASSUME IInv, ObserverStep PROVE IInv'
<1> USE DEF IInv
<1>1. CASE Collect
  <2>1. /\ UNCHANGED <<chrome, killed, children, wrote, taken, pending, copier,
                       closer, dir, logOpen, journal>>
        /\ observer = "waiting" /\ observer' = "collected"
        /\ reaped' \in {"none", "observer", "closer"}
    BY <1>1 DEF Collect, Reap, output, teardown, TypeOK
  <2>2. TypeOK' /\ CopyInv'
    BY <2>1 DEF TypeOK, CopyInv, Drained
  <2> QED
    BY <2>1, <2>2 DEF CloseInv, ReportInv, Reported
<1>2. CASE ObserveExit
  <2>1. /\ UNCHANGED <<chrome, killed, children, reaped, wrote, taken, pending, copier,
                       closer, dir, logOpen>>
        /\ observer = "collected" /\ observer' = "done"
        /\ \A p \in Pipes : copier[p] = "done"
        /\ Publish(ExitLine) \/ UNCHANGED journal
    BY <1>2 DEF ObserveExit, Report, ExitLine, process, output, teardown
  <2>2. TypeOK' /\ CopyInv'
    BY <2>1 DEF TypeOK, CopyInv, Drained
  <2>3. ReportInv'
    <3>1. CASE UNCHANGED journal
      BY <2>1, <3>1 DEF ReportInv, Reported
    <3>2. CASE Publish(ExitLine)
      BY <2>1, <3>2, PublishEvent DEF ReportInv, Event, ExitLine
    <3> QED
      BY <2>1, <3>1, <3>2
  <2> QED
    BY <2>1, <2>2, <2>3 DEF CloseInv
<1> QED
  BY <1>1, <1>2 DEF ObserverStep

(* Close goes on in its order.                                             *)
LEMMA CloserInv == ASSUME IInv, CloseCancel \/ CloseStep PROVE IInv'
<1> USE DEF IInv
<1>1. /\ UNCHANGED <<chrome, children, wrote, taken, pending, copier, observer, journal>>
      /\ killed' \subseteq {"close", "context"}
      /\ reaped' \in {"none", "observer", "closer"}
      /\ closer' \in {"cancelled", "killed", "waited", "removed", "done"}
      /\ dir' \in BOOLEAN /\ logOpen' \in BOOLEAN
  BY ProcessAssumption
     DEF ProcessAssumption, CloseCancel, CloseStep, CloseKill, CloseWait, CloseRemoveDir, CloseLog,
         Reap, process, output, TypeOK
<1>2. TypeOK' /\ CopyInv'
  BY <1>1 DEF TypeOK, CopyInv, Drained
<1>3. CloseInv'
  BY <1>1 DEF CloseInv, CloseCancel, CloseStep, CloseKill, CloseWait, CloseRemoveDir, CloseLog, process
<1> QED
  BY <1>1, <1>2, <1>3 DEF ReportInv, Reported

(* The invariant holds throughout.                                         *)
LEMMA Invariance == Spec => []IInv
<1>1. IInv /\ [Next]_vars => IInv'
  <2>1. ASSUME IInv, UNCHANGED vars PROVE IInv'
    BY <2>1 DEF vars, process, output, teardown, IInv, TypeOK, CloseInv, CopyInv, Drained, ReportInv, Reported
  <2> QED
    BY <2>1, ProcessInv, WriteInv, CopyStepInv, ObserverInv, CloserInv DEF Next
<1> QED
  BY <1>1, InitInv, PTL DEF Spec

(* Every variable keeps its type, and no copying goroutine reads what has  *)
(* not been written.                                                       *)
THEOREM Typed == Spec => []TypeOK
<1>1. IInv => TypeOK
  BY DEF IInv
<1> QED
  BY <1>1, Invariance, PTL

(* Close removes the profile only after Process.Wait (browser.go:236-240). *)
THEOREM ProfileKept == Spec => []ProfileOutlivesChrome
<1>1. IInv => ProfileOutlivesChrome
  BY DEF IInv, CloseInv, ProfileOutlivesChrome
<1> QED
  BY <1>1, Invariance, PTL

-----------------------------------------------------------------------------
(* The output in the log.                                                  *)

(* The first piece of p that has not been published yet.                   *)
Start(p) == IF pending[p] = <<>> THEN taken[p] + 1 ELSE pending[p][1][2]

(* Events s, in this order, hold the pieces of p up to the end, each within *)
(* a line and each behind the one before it.                               *)
Consecutive(s, p, end) ==
    /\ \A i \in DOMAIN s :
          /\ s[i][1] = p /\ 1 <= s[i][2] /\ s[i][2] <= s[i][3]
          /\ LineOf(s[i][2]) = LineOf(s[i][3])
    /\ \A i \in DOMAIN s : i + 1 \in DOMAIN s => s[i + 1][2] = s[i][3] + 1
    /\ s # <<>> => /\ s[Len(s)][3] = end
                   /\ \A n \in s[1][2]..end : \E i \in DOMAIN s : Holds(s[i], p, n)

PendingInv == \A p \in Pipes : Consecutive(pending[p], p, taken[p])

(* In the log the output of a pipe has no gap and no piece twice.          *)
InOrder(i, p) ==
    /\ LineOf(journal[i][2]) = LineOf(journal[i][3])
    /\ \A n \in 1..journal[i][2] - 1 : \E j \in 1..i - 1 : Holds(journal[j], p, n)
    /\ \A j \in 1..i - 1 : journal[j][1] = p => journal[j][3] < journal[i][2]

(* An open log has the output up to where publishing goes on.              *)
UpTo(p) ==
    /\ \A i \in DOMAIN journal : journal[i][1] = p => journal[i][3] < Start(p)
    /\ \A n \in 1..Start(p) - 1 : \E i \in DOMAIN journal : Holds(journal[i], p, n)

LogInv ==
    /\ \A p \in Pipes, i \in DOMAIN journal : journal[i][1] = p => InOrder(i, p)
    /\ logOpen => \A p \in Pipes : UpTo(p)

(* The parts of a read follow each other from its first piece to its last. *)
LEMMA SplitShape ==
    ASSUME NEW p \in Pipes, NEW a \in Nat, NEW b \in Nat, a > 0, b >= a
    PROVE  /\ Consecutive(Split(p, a, b), p, b)
           /\ Split(p, a, b) # <<>> /\ Split(p, a, b)[1][2] = a
<1> DEFINE s == Split(p, a, b)
           first == LineOf(a)
           len == LineOf(b) - first + 1
           From(n) == IF 2 * n - 1 < a THEN a ELSE 2 * n - 1
           To(n) == IF 2 * n > b THEN b ELSE 2 * n
<1>1. /\ first \in Nat /\ first > 0 /\ len \in Nat /\ len >= 1
      /\ 2 * first - 1 <= a /\ a <= 2 * first
      /\ 2 * (first + len - 1) - 1 <= b /\ b <= 2 * (first + len - 1)
  BY DEF LineOf
<1>2. s = [i \in 1..len |-> <<p, From(first + i - 1), To(first + i - 1)>>]
  BY DEF Split
<1>3. /\ s \in Seq(Pipes \X Nat \X Nat) /\ DOMAIN s = 1..len /\ Len(s) = len /\ s # <<>>
  <2>1. s \in Seq(Pipes \X Nat \X Nat)
    BY SplitType
  <2>2. DOMAIN s = 1..len
    BY <1>2
  <2> HIDE DEF s, len
  <2>3. Len(s) \in Nat /\ DOMAIN s = 1..Len(s)
    BY <2>1
  <2>4. Len(s) = len
    BY <1>1, <2>2, <2>3
  <2> QED
    BY <1>1, <2>1, <2>2, <2>4
<1>4. ASSUME NEW i \in 1..len
      PROVE  s[i][1] = p /\ s[i][2] = From(first + i - 1) /\ s[i][3] = To(first + i - 1)
  BY <1>2
<1> HIDE DEF s, first, len
<1>5. ASSUME NEW i \in DOMAIN s
      PROVE  /\ s[i][1] = p /\ 1 <= s[i][2] /\ s[i][2] <= s[i][3]
             /\ LineOf(s[i][2]) = LineOf(s[i][3])
  <2>1. i \in Nat /\ i >= 1 /\ i <= len
    BY <1>1, <1>3
  <2>2. PICK n \in Nat : n = first + i - 1 /\ n >= first /\ n <= first + len - 1
    BY <1>1, <2>1
  <2>3. s[i][1] = p /\ s[i][2] = From(n) /\ s[i][3] = To(n)
    BY <1>4, <2>1, <2>2
  <2>4. 1 <= From(n) /\ From(n) <= To(n) /\ 2 * n - 1 <= From(n) /\ To(n) <= 2 * n
    BY <1>1, <2>2
  <2>5. LineOf(From(n)) = n /\ LineOf(To(n)) = n
    BY <2>4 DEF LineOf
  <2> QED
    BY <2>3, <2>4, <2>5
<1>6. ASSUME NEW i \in DOMAIN s, i + 1 \in DOMAIN s PROVE s[i + 1][2] = s[i][3] + 1
  <2>1. i \in Nat /\ i >= 1 /\ i + 1 <= len
    BY <1>1, <1>3, <1>6
  <2>2. PICK n \in Nat : n = first + i - 1 /\ n >= first /\ n + 1 <= first + len - 1
    BY <1>1, <2>1
  <2>3. s[i][3] = To(n) /\ s[i + 1][2] = From(n + 1)
    <3>1. i \in 1..len /\ i + 1 \in 1..len /\ first + (i + 1) - 1 = n + 1
      BY <1>1, <2>1, <2>2
    <3> HIDE DEF From, To
    <3>2. s[i][3] = To(first + i - 1) /\ s[i + 1][2] = From(first + (i + 1) - 1)
      BY <1>4, <3>1
    <3> QED
      BY <2>2, <3>1, <3>2
  <2> QED
    BY <1>1, <2>2, <2>3
<1>7. s[1][2] = a
  BY <1>1, <1>3, <1>4
<1>8. s[Len(s)][3] = b
  BY <1>1, <1>3, <1>4
<1>9. ASSUME NEW n \in a..b PROVE \E i \in DOMAIN s : Holds(s[i], p, n)
  <2>1. PICK l \in Nat : l = LineOf(n) /\ 2 * l - 1 <= n /\ n <= 2 * l
    BY DEF LineOf
  <2>2. l >= first /\ l <= first + len - 1
    BY <1>1, <2>1
  <2>3. PICK i \in DOMAIN s : l = first + i - 1
    <3>1. l - first + 1 \in 1..len /\ l = first + (l - first + 1) - 1
      BY <1>1, <2>1, <2>2
    <3> QED
      BY <1>3, <3>1
  <2>4. s[i][1] = p /\ s[i][2] = From(l) /\ s[i][3] = To(l)
    BY <1>3, <1>4, <2>3
  <2> QED
    BY <2>1, <2>4 DEF Holds
<1> QED
  BY <1>3, <1>5, <1>6, <1>7, <1>8, <1>9 DEF Consecutive, s

(* The places in a sequence and in its tail.                               *)
LEMMA Shifted ==
    ASSUME NEW len \in Nat
    PROVE  /\ \A i \in 1..len - 1 : i + 1 \in 1..len
           /\ \A i \in 1..len : i # 1 => i - 1 \in 1..len - 1 /\ (i - 1) + 1 = i
OBVIOUS

(* What is left when the first of consecutive events has been published.   *)
LEMMA TailConsecutive ==
    ASSUME NEW p \in Pipes, NEW s \in Seq(Pipes \X Nat \X Nat), NEW end \in Nat,
           s # <<>>, Consecutive(s, p, end)
    PROVE  /\ Consecutive(Tail(s), p, end)
           /\ Head(s) = s[1] /\ s[1] \in Pipes \X Nat \X Nat /\ s[1][1] = p
           /\ LineOf(s[1][2]) = LineOf(s[1][3])
           /\ 1 <= s[1][2] /\ s[1][2] <= s[1][3]
           /\ s[1][3] + 1 = (IF Tail(s) = <<>> THEN end + 1 ELSE Tail(s)[1][2])
<1>1. /\ Len(s) \in Nat /\ Len(s) >= 1 /\ DOMAIN s = 1..Len(s)
      /\ Tail(s) \in Seq(Pipes \X Nat \X Nat)
      /\ Len(Tail(s)) = Len(s) - 1 /\ DOMAIN Tail(s) = 1..Len(s) - 1
      /\ \A i \in 1..Len(s) - 1 : Tail(s)[i] = s[i + 1]
      /\ Head(s) = s[1]
      /\ Tail(s) = <<>> <=> Len(s) = 1
      /\ 1 \in DOMAIN s
  <2>1. Len(s) \in Nat /\ Len(s) >= 1 /\ DOMAIN s = 1..Len(s) /\ Head(s) = s[1]
    OBVIOUS
  <2>2. /\ Tail(s) \in Seq(Pipes \X Nat \X Nat) /\ Len(Tail(s)) = Len(s) - 1
        /\ \A i \in 1..Len(s) - 1 : Tail(s)[i] = s[i + 1]
    OBVIOUS
  <2>3. Tail(s) = <<>> <=> Len(Tail(s)) = 0
    BY <2>2, EmptySeq
  <2>4. DOMAIN Tail(s) = 1..Len(Tail(s))
    BY <2>2
  <2>5. Tail(s) = <<>> <=> Len(s) = 1
    <3>1. PICK len \in Nat : len = Len(s)
      BY <2>1
    <3>2. len - 1 = 0 <=> len = 1
      OBVIOUS
    <3> QED
      BY <2>2, <2>3, <3>1, <3>2
  <2>6. 1 \in DOMAIN s
    BY <2>1
  <2>7. DOMAIN Tail(s) = 1..Len(s) - 1
    BY <2>2, <2>4
  <2> QED
    BY <2>1, <2>2, <2>5, <2>6, <2>7
<1>2. \A i \in DOMAIN s : s[i] \in Pipes \X Nat \X Nat /\ s[i][2] \in Nat /\ s[i][3] \in Nat
  <2>1. \A i \in DOMAIN s : s[i] \in Pipes \X Nat \X Nat
    OBVIOUS
  <2> QED
    BY <2>1
<1>3. \A i \in DOMAIN Tail(s) : i + 1 \in DOMAIN s /\ Tail(s)[i] = s[i + 1]
  <2> SUFFICES ASSUME NEW i \in DOMAIN Tail(s) PROVE i + 1 \in DOMAIN s /\ Tail(s)[i] = s[i + 1]
    OBVIOUS
  <2>1. i \in 1..Len(s) - 1 /\ Len(s) \in Nat
    BY <1>1
  <2>2. i + 1 \in 1..Len(s)
    BY <2>1, Shifted
  <2> QED
    BY <1>1, <2>1, <2>2
<1>4. \A i \in DOMAIN Tail(s) :
          /\ Tail(s)[i][1] = p /\ 1 <= Tail(s)[i][2] /\ Tail(s)[i][2] <= Tail(s)[i][3]
          /\ LineOf(Tail(s)[i][2]) = LineOf(Tail(s)[i][3])
  BY <1>3 DEF Consecutive
<1>5. ASSUME NEW i \in DOMAIN Tail(s), i + 1 \in DOMAIN Tail(s)
      PROVE  Tail(s)[i + 1][2] = Tail(s)[i][3] + 1
  <2>1. i + 1 \in DOMAIN s /\ (i + 1) + 1 \in DOMAIN s
    BY <1>3, <1>5
  <2> QED
    BY <1>3, <1>5, <2>1 DEF Consecutive
<1>6. s[1][3] + 1 = (IF Tail(s) = <<>> THEN end + 1 ELSE Tail(s)[1][2])
  <2>1. CASE Tail(s) = <<>>
    <3>1. Len(s) = 1
      BY <1>1, <2>1
    <3>2. s[1][3] = end
      BY <3>1 DEF Consecutive
    <3> QED
      BY <2>1, <3>2
  <2>2. CASE Tail(s) # <<>>
    <3>1. Len(s) >= 2
      BY <1>1, <2>2
    <3>2. 1 \in DOMAIN s /\ 1 + 1 \in DOMAIN s /\ Tail(s)[1] = s[1 + 1]
      BY <1>1, <3>1
    <3> QED
      BY <2>2, <3>2 DEF Consecutive
  <2> QED
    BY <2>1, <2>2
<1>7. ASSUME Tail(s) # <<>>
      PROVE  /\ Tail(s)[Len(Tail(s))][3] = end
             /\ \A n \in Tail(s)[1][2]..end : \E i \in DOMAIN Tail(s) : Holds(Tail(s)[i], p, n)
  <2>1. Len(s) >= 2
    BY <1>1, <1>7
  <2>2. Tail(s)[Len(Tail(s))][3] = end
    BY <1>1, <2>1 DEF Consecutive
  <2>3. ASSUME NEW n \in Tail(s)[1][2]..end PROVE \E i \in DOMAIN Tail(s) : Holds(Tail(s)[i], p, n)
    <3>1. Tail(s)[1][2] = s[1][3] + 1 /\ s[1][2] \in Nat /\ s[1][3] \in Nat
      BY <1>1, <1>2, <1>6, <1>7
    <3>2. s[1][2] <= s[1][3]
      BY <1>1 DEF Consecutive
    <3>3. n \in Int /\ n >= s[1][3] + 1 /\ n <= end
      <4>1. n \in (s[1][3] + 1)..end
        BY <3>1
      <4> QED
        BY <3>1, <4>1
    <3>4. n \in s[1][2]..end /\ ~(n <= s[1][3])
      BY <3>1, <3>2, <3>3
    <3>5. PICK i \in DOMAIN s : Holds(s[i], p, n)
      BY <3>4 DEF Consecutive
    <3>6. i # 1
      BY <3>4, <3>5 DEF Holds
    <3>7. i - 1 \in 1..Len(s) - 1 /\ (i - 1) + 1 = i
      <4>1. i \in 1..Len(s) /\ Len(s) \in Nat
        BY <1>1
      <4> QED
        BY <3>6, <4>1, Shifted
    <3>8. i - 1 \in DOMAIN Tail(s) /\ Tail(s)[i - 1] = s[i]
      BY <1>1, <3>7
    <3> QED
      BY <3>5, <3>8
  <2> QED
    BY <2>2, <2>3
<1> QED
  BY <1>1, <1>2, <1>4, <1>5, <1>6, <1>7 DEF Consecutive

(* An event that names a pipe is a piece of its output.                    *)
LEMMA OutputEvent ==
    ASSUME NEW e \in Event, NEW p \in Pipes, e[1] = p
    PROVE  e \in Pipes \X Nat \X Nat /\ e[2] \in Nat /\ e[3] \in Nat
<1>1. e # ExitLine
  BY ProcessAssumption DEF ProcessAssumption, ExitLine
<1>2. e \in Pipes \X Nat \X Nat
  BY <1>1 DEF Event
<1> QED
  BY <1>2

(* The log with one event more.                                            *)
LEMMA AppendShape ==
    ASSUME journal \in Seq(Event), NEW e \in Event, journal' = Append(journal, e)
    PROVE  /\ Len(journal) \in Nat /\ DOMAIN journal = 1..Len(journal)
           /\ \A i \in DOMAIN journal : i \in DOMAIN journal' /\ journal'[i] = journal[i]
           /\ journal'[Len(journal) + 1] = e /\ Len(journal) + 1 \in DOMAIN journal'
           /\ \A i \in DOMAIN journal' : i \in DOMAIN journal \/ i = Len(journal) + 1
OBVIOUS

(* The order of what the log has does not change.                          *)
LEMMA InOrderStays ==
    ASSUME journal \in Seq(Event), NEW e \in Event, journal' = Append(journal, e),
           NEW p \in Pipes, NEW i \in DOMAIN journal, InOrder(i, p)
    PROVE  InOrder(i, p)'
<1>1. \A j \in 1..i : j \in DOMAIN journal /\ journal'[j] = journal[j]
  BY AppendShape
<1>2. \A j \in 1..i - 1 : j \in 1..i
  BY AppendShape
<1>3. i \in 1..i
  BY AppendShape
<1> QED
  BY <1>1, <1>2, <1>3 DEF InOrder, Holds

(* Only reading, publishing and the report touch output and log.           *)
LEMMA Quiet ==
    ASSUME [Next]_vars
    PROVE  \/ \E p \in Pipes : Read(p) \/ PublishLine(p)
           \/ UNCHANGED <<taken, pending>> /\ logOpen' = logOpen /\ Publish(ExitLine)
           \/ UNCHANGED <<taken, pending, journal>> /\ (logOpen' => logOpen)
<1>1. ASSUME NEW p \in Pipes, Write(p) \/ EndOfFile(p)
      PROVE  UNCHANGED <<taken, pending, journal>> /\ (logOpen' => logOpen)
  BY <1>1 DEF Write, EndOfFile
<1>2. ASSUME ChildrenEnd \/ ParentDone \/ \E how \in {"clean", "crash", "killed"} : ChromeEnds(how)
      PROVE  UNCHANGED <<taken, pending, journal>> /\ (logOpen' => logOpen)
  BY <1>2 DEF ChildrenEnd, ParentDone, ChromeEnds, output
<1>3. ASSUME Collect \/ CloseCancel \/ CloseStep
      PROVE  UNCHANGED <<taken, pending, journal>> /\ (logOpen' => logOpen)
  BY <1>3 DEF Collect, CloseCancel, CloseStep, CloseKill, CloseWait, CloseRemoveDir, CloseLog, output
<1>4. ASSUME ObserveExit
      PROVE  UNCHANGED <<taken, pending, logOpen>> /\ (Publish(ExitLine) \/ UNCHANGED journal)
  BY <1>4 DEF ObserveExit, Report, output, ExitLine
<1>5. UNCHANGED vars => UNCHANGED <<taken, pending, journal, logOpen>>
  BY DEF vars, output
<1> QED
  BY <1>1, <1>2, <1>3, <1>4, <1>5 DEF Next, CopyStep, ObserverStep

(* What reading and publishing do to the events of a pipe.                 *)
LEMMA PendingStep == ASSUME IInv, PendingInv, [Next]_vars PROVE PendingInv'
<1> USE DEF IInv, TypeOK
<1>1. ASSUME NEW p \in Pipes, Read(p) PROVE PendingInv'
  <2>1. PICK m \in taken[p] + 1 .. wrote[p] :
            /\ taken' = [taken EXCEPT ![p] = m]
            /\ pending' = [pending EXCEPT ![p] = Split(p, taken[p] + 1, m)]
    BY <1>1 DEF Read
  <2>2. taken[p] + 1 \in Nat /\ m \in Nat /\ taken[p] + 1 > 0 /\ m >= taken[p] + 1
    BY <2>1
  <2>3. Consecutive(Split(p, taken[p] + 1, m), p, m)
    BY <2>2, SplitShape
  <2>4. taken'[p] = m /\ pending'[p] = Split(p, taken[p] + 1, m)
        /\ \A q \in Pipes \ {p} : taken'[q] = taken[q] /\ pending'[q] = pending[q]
    BY <2>1
  <2> QED
    BY <2>3, <2>4 DEF PendingInv
<1>2. ASSUME NEW p \in Pipes, PublishLine(p) PROVE PendingInv'
  <2>1. /\ taken' = taken /\ pending[p] # <<>>
        /\ pending'[p] = Tail(pending[p])
        /\ \A q \in Pipes \ {p} : pending'[q] = pending[q]
    BY <1>2 DEF PublishLine
  <2>2. Consecutive(Tail(pending[p]), p, taken[p])
    BY <2>1, TailConsecutive DEF PendingInv
  <2> QED
    BY <2>1, <2>2 DEF PendingInv
<1>3. CASE UNCHANGED <<taken, pending>>
  BY <1>3 DEF PendingInv
<1> QED
  BY <1>1, <1>2, <1>3, Quiet

LEMMA LogStep == ASSUME IInv, PendingInv, LogInv, [Next]_vars PROVE LogInv'
<1>0. journal \in Seq(Event)
  BY DEF IInv, ReportInv
<1>1. ASSUME NEW p \in Pipes, Read(p) PROVE LogInv'
  <2>1. PICK m \in taken[p] + 1 .. wrote[p] :
            /\ taken' = [taken EXCEPT ![p] = m]
            /\ pending' = [pending EXCEPT ![p] = Split(p, taken[p] + 1, m)]
    BY <1>1 DEF Read
  <2>2. taken[p] + 1 \in Nat /\ m \in Nat /\ taken[p] + 1 > 0 /\ m >= taken[p] + 1
    BY <2>1 DEF IInv, TypeOK
  <2>3. Split(p, taken[p] + 1, m) # <<>> /\ Split(p, taken[p] + 1, m)[1][2] = taken[p] + 1
    BY <2>2, SplitShape
  <2>4. UNCHANGED <<journal, logOpen>> /\ pending[p] = <<>>
    BY <1>1 DEF Read
  <2>5. ASSUME NEW q \in Pipes PROVE Start(q)' = Start(q)
    <3>1. CASE q = p
      <4>1. pending'[p] = Split(p, taken[p] + 1, m)
        BY <2>1 DEF IInv, TypeOK
      <4> QED
        BY <2>3, <2>4, <3>1, <4>1 DEF Start
    <3>2. CASE q # p
      <4>1. taken'[q] = taken[q] /\ pending'[q] = pending[q]
        BY <2>1, <3>2 DEF IInv, TypeOK
      <4> QED
        BY <4>1 DEF Start
    <3> QED
      BY <3>1, <3>2
  <2>6. \A q \in Pipes, i \in DOMAIN journal' : journal'[i][1] = q => InOrder(i, q)'
    BY <2>4 DEF LogInv, InOrder
  <2>7. logOpen' => \A q \in Pipes : UpTo(q)'
    BY <2>4, <2>5 DEF LogInv, UpTo
  <2> QED
    BY <2>6, <2>7 DEF LogInv
<1>2. ASSUME NEW p \in Pipes, PublishLine(p) PROVE LogInv'
  <2> DEFINE e == pending[p][1]
  <2>1. /\ UNCHANGED <<taken, logOpen>> /\ pending[p] # <<>>
        /\ pending'[p] = Tail(pending[p]) /\ Publish(Head(pending[p]))
        /\ \A q \in Pipes \ {p} : pending'[q] = pending[q]
        /\ pending[p] \in Seq(Pipes \X Nat \X Nat) /\ taken[p] \in Nat
    BY <1>2 DEF PublishLine, IInv, TypeOK
  <2>2. /\ Head(pending[p]) = e /\ e \in Pipes \X Nat \X Nat /\ e[1] = p
        /\ LineOf(e[2]) = LineOf(e[3]) /\ 1 <= e[2] /\ e[2] <= e[3]
        /\ e[3] + 1 = (IF Tail(pending[p]) = <<>> THEN taken[p] + 1 ELSE Tail(pending[p])[1][2])
    <3>1. Consecutive(pending[p], p, taken[p])
      BY DEF PendingInv
    <3> QED
      BY <2>1, <3>1, TailConsecutive
  <2>3. /\ Start(p) = e[2] /\ Start(p)' = e[3] + 1 /\ e[2] \in Nat /\ e[3] \in Nat
        /\ \A q \in Pipes \ {p} : Start(q)' = Start(q)
    <3>1. Start(p) = e[2]
      BY <2>1 DEF Start
    <3>2. Start(p)' = (IF Tail(pending[p]) = <<>> THEN taken[p] + 1 ELSE Tail(pending[p])[1][2])
      BY <2>1 DEF Start
    <3>3. e[2] \in Nat /\ e[3] \in Nat
      BY <2>2
    <3>4. \A q \in Pipes \ {p} : Start(q)' = Start(q)
      BY <2>1 DEF Start
    <3> QED
      BY <2>2, <3>1, <3>2, <3>3, <3>4
  <2> HIDE DEF e
  <2>4. CASE ~logOpen
    <3>1. UNCHANGED journal /\ ~logOpen'
      BY <2>1, <2>4 DEF Publish
    <3> QED
      BY <3>1 DEF LogInv, InOrder
  <2>5. CASE logOpen
    <3>1. journal' = Append(journal, e) /\ e \in Event
      BY <2>1, <2>2, <2>5 DEF Publish, Event
    <3>2. /\ Len(journal) \in Nat /\ DOMAIN journal = 1..Len(journal)
          /\ \A i \in DOMAIN journal : i \in DOMAIN journal' /\ journal'[i] = journal[i]
          /\ journal'[Len(journal) + 1] = e /\ Len(journal) + 1 \in DOMAIN journal'
          /\ \A i \in DOMAIN journal' : i \in DOMAIN journal \/ i = Len(journal) + 1
      BY <1>0, <3>1, AppendShape
    <3>3. UpTo(p)
      BY <2>5 DEF LogInv
    <3> PICK new \in Nat : new = Len(journal) + 1 /\ 1..new - 1 = DOMAIN journal
      BY <3>2
    <3>4. InOrder(new, p)'
      <4>1. \A n \in 1..e[2] - 1 : \E j \in 1..new - 1 : Holds(journal'[j], p, n)
        BY <2>3, <3>2, <3>3 DEF UpTo
      <4>2. \A j \in 1..new - 1 : journal'[j][1] = p => journal'[j][3] < e[2]
        BY <2>3, <3>2, <3>3 DEF UpTo
      <4> QED
        BY <2>2, <3>2, <4>1, <4>2 DEF InOrder
    <3>5. ASSUME NEW q \in Pipes, NEW i \in DOMAIN journal', journal'[i][1] = q PROVE InOrder(i, q)'
      <4>1. CASE i \in DOMAIN journal
        <5>1. InOrder(i, q)
          BY <3>2, <3>5, <4>1 DEF LogInv
        <5> QED
          BY <1>0, <3>1, <4>1, <5>1, InOrderStays
      <4>2. CASE i = new
        <5>1. q = p
          BY <2>2, <3>2, <3>5, <4>2
        <5> QED
          BY <3>4, <4>2, <5>1
      <4> QED
        BY <3>2, <4>1, <4>2
    <3>6. UpTo(p)'
      <4>1. ASSUME NEW i \in DOMAIN journal', journal'[i][1] = p PROVE journal'[i][3] < e[3] + 1
        <5>1. CASE i \in DOMAIN journal
          <6>1. journal'[i] = journal[i] /\ journal[i] \in Event
            BY <1>0, <3>2, <5>1
          <6>2. journal[i][3] \in Nat /\ journal[i][3] < e[2]
            BY <2>3, <3>3, <4>1, <5>1, <6>1, OutputEvent DEF UpTo
          <6> QED
            BY <2>2, <2>3, <6>1, <6>2
        <5>2. CASE i = Len(journal) + 1
          BY <2>3, <3>2, <5>2
        <5> QED
          BY <3>2, <5>1, <5>2
      <4>2. ASSUME NEW n \in 1..(e[3] + 1) - 1 PROVE \E i \in DOMAIN journal' : Holds(journal'[i], p, n)
        <5>1. CASE n < e[2]
          BY <2>3, <3>2, <3>3, <5>1 DEF UpTo
        <5>2. CASE n >= e[2]
          <6>1. Holds(e, p, n)
            BY <2>2, <2>3, <5>2 DEF Holds
          <6> QED
            BY <3>2, <6>1
        <5> QED
          BY <2>3, <5>1, <5>2
      <4> QED
        BY <2>3, <4>1, <4>2 DEF UpTo
    <3>7. ASSUME NEW q \in Pipes, q # p PROVE UpTo(q)'
      <4>1. UpTo(q) /\ Start(q)' = Start(q)
        BY <2>3, <2>5, <3>7 DEF LogInv
      <4>2. \A i \in DOMAIN journal' : journal'[i][1] = q => i \in DOMAIN journal
        BY <2>2, <3>2, <3>7
      <4> QED
        BY <3>2, <4>1, <4>2 DEF UpTo
    <3> QED
      BY <3>5, <3>6, <3>7 DEF LogInv
  <2> QED
    BY <2>4, <2>5
<1>3. CASE UNCHANGED <<taken, pending>> /\ logOpen' = logOpen /\ Publish(ExitLine)
  <2>1. \A q \in Pipes : Start(q)' = Start(q)
    BY <1>3 DEF Start
  <2>2. CASE UNCHANGED journal
    BY <1>3, <2>1, <2>2 DEF LogInv, InOrder, UpTo
  <2>3. CASE journal' = Append(journal, ExitLine)
    <3>1. /\ \A i \in DOMAIN journal : i \in DOMAIN journal' /\ journal'[i] = journal[i]
          /\ \A i \in DOMAIN journal' : i \in DOMAIN journal \/ journal'[i] = ExitLine
      BY <1>0, <2>3, AppendShape DEF Event
    <3>2. \A q \in Pipes, i \in DOMAIN journal' :
              journal'[i][1] = q => i \in DOMAIN journal /\ journal[i][1] = q
      BY <3>1, ProcessAssumption DEF ProcessAssumption, ExitLine
    <3>3. ASSUME NEW q \in Pipes, NEW i \in DOMAIN journal', journal'[i][1] = q PROVE InOrder(i, q)'
      <4>1. i \in DOMAIN journal /\ InOrder(i, q) /\ ExitLine \in Event
        BY <3>2, <3>3 DEF LogInv, Event
      <4> QED
        BY <1>0, <2>3, <4>1, InOrderStays
    <3>4. ASSUME logOpen', NEW q \in Pipes PROVE UpTo(q)'
      <4>1. UpTo(q)
        BY <1>3, <3>4 DEF LogInv
      <4> QED
        BY <2>1, <3>1, <3>2, <4>1 DEF UpTo
    <3> QED
      BY <3>3, <3>4 DEF LogInv
  <2> QED
    BY <1>3, <2>2, <2>3 DEF Publish
<1>4. CASE UNCHANGED <<taken, pending, journal>> /\ (logOpen' => logOpen)
  <2>1. \A q \in Pipes : Start(q)' = Start(q)
    BY <1>4 DEF Start
  <2> QED
    BY <1>4, <2>1 DEF LogInv, InOrder, UpTo
<1> QED
  BY <1>1, <1>2, <1>3, <1>4, Quiet

LEMMA LogInvariance == Spec => [](IInv /\ PendingInv /\ LogInv)
<1>1. Init => IInv /\ PendingInv /\ LogInv
  <2> SUFFICES ASSUME Init PROVE PendingInv /\ LogInv
    BY InitInv
  <2>1. \A p \in Pipes : pending[p] = <<>> /\ taken[p] = 0
    BY DEF Init
  <2>2. journal = <<>> /\ DOMAIN journal = {} /\ DOMAIN <<>> = {}
    BY DEF Init
  <2>3. PendingInv
    BY <2>1, <2>2 DEF PendingInv, Consecutive
  <2>4. LogInv
    BY <2>1, <2>2 DEF LogInv, UpTo, Start
  <2> QED
    BY <2>3, <2>4
<1>2. IInv /\ PendingInv /\ LogInv /\ [Next]_vars => PendingInv' /\ LogInv'
  BY PendingStep, LogStep
<1> QED
  BY <1>1, <1>2, Invariance, PTL DEF Spec

(* The log has the output of each pipe in order, without a gap, a double or *)
(* an event over two lines; an open log misses nothing that was read; the  *)
(* report of the exit is behind all of it (log.go:50-97, browser.go:184).  *)
THEOREM OutputInOrder == Spec => []OutputBeforeReport
<1>1. IInv /\ PendingInv /\ LogInv => OutputBeforeReport
  <2> SUFFICES ASSUME IInv, PendingInv, LogInv PROVE OutputBeforeReport
    OBVIOUS
  <2>1. ASSUME logOpen, NEW p \in Pipes, NEW n \in 1..taken[p]
        PROVE  \/ \E i \in DOMAIN journal : Holds(journal[i], p, n)
               \/ \E i \in DOMAIN pending[p] : Holds(pending[p][i], p, n)
    <3>1. UpTo(p) /\ taken[p] \in Nat /\ pending[p] \in Seq(Pipes \X Nat \X Nat)
      BY <2>1 DEF LogInv, IInv, TypeOK
    <3>2. CASE pending[p] = <<>>
      <4>1. n \in 1..Start(p) - 1
        BY <3>1, <3>2 DEF Start
      <4> QED
        BY <3>1, <4>1 DEF UpTo
    <3>3. CASE pending[p] # <<>>
      <4>1. PICK from \in Nat : from = pending[p][1][2] /\ from = Start(p)
        <5>1. pending[p][1] \in Pipes \X Nat \X Nat
          BY <3>1, <3>3
        <5> QED
          BY <3>3, <5>1 DEF Start
      <4>2. CASE n < from
        BY <3>1, <4>1, <4>2 DEF UpTo
      <4>3. CASE n >= from
        <5>1. n \in pending[p][1][2]..taken[p]
          BY <3>1, <4>1, <4>3
        <5> QED
          BY <3>3, <5>1 DEF PendingInv, Consecutive
      <4> QED
        BY <4>1, <4>2, <4>3
    <3> QED
      BY <3>2, <3>3
  <2>2. Reported => /\ journal[Len(journal)] = <<"exited">>
                    /\ \A p \in Pipes : taken[p] = wrote[p] /\ pending[p] = <<>>
    BY DEF IInv, CopyInv, Drained, ReportInv
  <2> QED
    BY <2>1, <2>2 DEF OutputBeforeReport, LogInv, InOrder
<1> QED
  BY <1>1, LogInvariance, PTL

-----------------------------------------------------------------------------
(* What the ends of the observer and of Close have seen to: an exit that    *)
(* was not clean is in the log, if it was open; Close has killed before it  *)
(* waits.                                                                   *)
EndInv ==
    /\ observer # "waiting" => chrome # "running"
    /\ observer = "done" /\ chrome # "clean" => Reported \/ ~logOpen
    /\ closer \in {"killed", "waited", "removed", "done"} => "close" \in killed
    /\ ~logOpen => closer = "done"

(* The goroutine that waits for Chrome does not end without having reported *)
(* a crash, except to a log that Close has closed, which comes last; and    *)
(* Close waits only for a process that it has killed: what CrashReported    *)
(* and CloseEnds need besides fairness (browser.go:183-190, 232-243).       *)
THEOREM NothingLeftOut == Spec => []EndInv
<1>1. Init => EndInv
  BY DEF Init, EndInv
<1>2. IInv /\ EndInv /\ [Next]_vars => EndInv'
  <2> SUFFICES ASSUME IInv, EndInv, [Next]_vars PROVE EndInv'
    OBVIOUS
  <2>0. Reported => Reported'
    <3>1. ASSUME NEW e \in Event, Publish(e), Reported PROVE Reported'
      <4>1. journal \in Seq(Event)
        BY DEF IInv, ReportInv
      <4>2. CASE journal' = Append(journal, e)
        BY <3>1, <4>1, <4>2, AppendShape DEF Reported
      <4> QED
        BY <3>1, <4>2 DEF Publish, Reported
    <3>2. ASSUME NEW p \in Pipes, Read(p) \/ PublishLine(p) PROVE Reported => Reported'
      <4>1. CASE Read(p)
        BY <4>1 DEF Read, Reported
      <4>2. CASE PublishLine(p)
        <5>1. Head(pending[p]) \in Pipes \X Nat \X Nat
          BY <4>2 DEF PublishLine, IInv, TypeOK
        <5> QED
          BY <3>1, <4>2, <5>1 DEF PublishLine, Event
      <4> QED
        BY <3>2, <4>1, <4>2
    <3>3. UNCHANGED journal => (Reported => Reported')
      BY DEF Reported
    <3> QED
      BY <3>1, <3>2, <3>3, Quiet DEF Event
  <2> USE DEF IInv, TypeOK, EndInv
  <2>1. ASSUME NEW p \in Pipes, Write(p) \/ CopyStep(p) PROVE EndInv'
    BY <2>0, <2>1 DEF Write, CopyStep, Read, PublishLine, EndOfFile, process, teardown
  <2>2. CASE ChildrenEnd \/ ParentDone \/ \E how \in {"clean", "crash", "killed"} : ChromeEnds(how)
    BY <2>0, <2>2 DEF ChildrenEnd, ParentDone, ChromeEnds, teardown
  <2>3. CASE Collect
    BY <2>0, <2>3 DEF Collect, teardown
  <2>4. CASE ObserveExit
    <3>1. /\ observer' = "done" /\ UNCHANGED <<process, teardown, logOpen>>
          /\ chrome # "clean" => Publish(ExitLine)
      BY <2>4 DEF ObserveExit, Report, ExitLine
    <3>2. ASSUME Publish(ExitLine), logOpen PROVE Reported'
      <4>1. journal \in Seq(Event) /\ ExitLine \in Event /\ journal' = Append(journal, ExitLine)
        BY <3>2 DEF ReportInv, Event, Publish
      <4> QED
        BY <4>1, AppendShape DEF Reported, ExitLine
    <3>3. observer # "waiting"
      BY <2>4 DEF ObserveExit
    <3> QED
      BY <3>1, <3>2, <3>3 DEF process, teardown
  <2>5. CASE CloseCancel \/ CloseStep
    BY <2>0, <2>5 DEF CloseCancel, CloseStep, CloseKill, CloseWait, CloseRemoveDir, CloseLog, process
  <2>6. CASE UNCHANGED vars
    BY <2>0, <2>6 DEF vars, process, teardown
  <2> QED
    BY <2>1, <2>2, <2>3, <2>4, <2>5, <2>6 DEF Next, ObserverStep
<1> QED
  BY <1>1, <1>2, Invariance, PTL DEF Spec

(* A step of the process, its output, its observer or Close is a step of a  *)
(* Teardown, or none.                                                       *)
LEMMA StepRefines == ASSUME IInv, EndInv, [Next]_vars PROVE [Down!Next]_Down!vars
<1> USE DEF IInv, TypeOK, EndInv
<1>1. CASE UNCHANGED <<chrome, killed, logOpen>>
  BY <1>1 DEF Down!vars
<1>2. ASSUME \E p \in Pipes : Write(p) \/ CopyStep(p)
      PROVE  UNCHANGED <<chrome, killed, logOpen>>
  BY <1>2 DEF Write, CopyStep, Read, PublishLine, EndOfFile, process
<1>3. ASSUME ChildrenEnd \/ ObserverStep \/ CloseCancel \/ CloseWait \/ CloseRemoveDir
             \/ UNCHANGED vars
      PROVE  UNCHANGED <<chrome, killed, logOpen>>
  BY <1>3 DEF ChildrenEnd, ObserverStep, Collect, ObserveExit, Report,
              CloseCancel, CloseWait, CloseRemoveDir, process, vars
<1>4. ASSUME NEW how \in {"clean", "crash", "killed"}, ChromeEnds(how) PROVE Down!Die
  BY <1>4 DEF ChromeEnds, Down!Die
<1>5. CASE ParentDone
  <2>1. killed' = killed \cup {"context"} /\ UNCHANGED <<chrome, logOpen>>
    BY <1>5 DEF ParentDone
  <2>2. killed' # {} /\ ("close" \in killed' <=> "close" \in killed)
    BY <2>1
  <2> QED
    BY <2>1, <2>2 DEF Down!Next, Down!Kill
<1>6. CASE CloseKill
  <2>1. closer = "cancelled" /\ killed' = killed \cup {"close"} /\ UNCHANGED <<chrome, logOpen>>
    BY <1>6 DEF CloseKill
  <2>2. logOpen /\ killed' # {} /\ "close" \in killed'
    BY <2>1
  <2>3. CASE "close" \in killed
    BY <2>1, <2>2, <2>3 DEF Down!Next, Down!Kill
  <2>4. CASE "close" \notin killed
    BY <2>1, <2>2, <2>4 DEF Down!Next, Down!Begin
  <2> QED
    BY <2>3, <2>4
<1>7. CASE CloseLog
  <2>1. closer = "removed" /\ logOpen' = FALSE /\ UNCHANGED <<chrome, killed>>
    BY <1>7 DEF CloseLog, process
  <2>2. logOpen /\ "close" \in killed /\ chrome # "running"
    BY <2>1 DEF CloseInv
  <2> QED
    BY <2>1, <2>2 DEF Down!Next, Down!End
<1> QED
  BY <1>1, <1>2, <1>3, <1>4, <1>5, <1>6, <1>7 DEF Next, CloseStep, Down!Next

(* Close kills Chrome before it waits, and closes the log after Chrome has *)
(* ended and not before: the process with its pipes, its observer and the  *)
(* steps of Close implements Teardown (browser.go:158-190, 232-243).       *)
THEOREM Refinement == Spec => TeardownSpec
<1>1. Init => Down!Init
  BY DEF Init, Down!Init
<1>2. IInv /\ EndInv /\ [Next]_vars => [Down!Next]_Down!vars
  BY StepRefines
<1> QED
  BY <1>1, <1>2, Invariance, NothingLeftOut, PTL DEF Spec, TeardownSpec, Down!Spec
=============================================================================
