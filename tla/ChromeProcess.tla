--------------------------- MODULE ChromeProcess ---------------------------
(***************************************************************************)
(* The Chrome process of a Browser, from NewBrowser's return to the end    *)
(* of Browser.Close: its output, which os/exec copies from two pipes into  *)
(* logWriter; the goroutine in cmd.Wait that reports its exit; the steps   *)
(* of Close; and the end of the context given to NewBrowser.               *)
(*                                                                         *)
(* Output comes in pieces, two to a line, the second of which ends the     *)
(* line.  A read may return any number of them, so a line may come in two  *)
(* reads.  Blank lines, which logWriter drops, do not count as output.     *)
(* Chrome's own children hold its pipes too, and may outlive it.           *)
(***************************************************************************)
EXTENDS Integers, Sequences

CONSTANTS
    Pipes,        \* the pipes behind cmd.Stdout and cmd.Stderr
    Pieces,       \* bound: per pipe, the pieces of output
    TempProfile   \* cleanupUserDataDir

ASSUME ProcessAssumption ==
    /\ Pieces \in [Pipes -> Nat]
    /\ TempProfile \in BOOLEAN
    /\ "exited" \notin Pipes

VARIABLES
    chrome,       \* "running", or how the process ended
    killed,       \* who has sent it a kill signal: "close", "context"
    children,     \* some child of Chrome still holds the pipes
    reaped,       \* who collected the exit status: none, observer or closer
    wrote,        \* per pipe: pieces written
    taken,        \* per pipe: pieces read by its copying goroutine
    pending,      \* per pipe: lines of the last read not yet published
    copier,       \* per pipe: "copying" or "done"
    observer,     \* the goroutine in cmd.Wait: waiting, collected or done
    closer,       \* how far Browser.Close has come
    dir,          \* the profile directory exists
    logOpen,      \* b.log is not closed
    journal       \* what the log accepted: output and the report of the exit

output == <<wrote, taken, pending, copier>>
process == <<chrome, killed, children, reaped>>
teardown == <<closer, dir>>
vars == <<process, output, observer, teardown, logOpen, journal>>

(* A closed log drops the line. *)
Publish(line) == journal' = IF logOpen THEN Append(journal, line) ELSE journal
-----------------------------------------------------------------------------
(* Chrome and its children (external) *)

Write(p) ==
    /\ chrome = "running" \/ children
    /\ wrote[p] < Pieces[p]
    /\ wrote' = [wrote EXCEPT ![p] = @ + 1]
    /\ UNCHANGED <<process, taken, pending, copier, observer, teardown, logOpen, journal>>

ChromeEnds(how) ==
    /\ chrome = "running"
    /\ how = "killed" => killed # {}
    /\ chrome' = how
    /\ UNCHANGED <<killed, children, reaped, output, observer, teardown, logOpen, journal>>

ChildrenEnd ==
    /\ children /\ children' = FALSE
    /\ UNCHANGED <<chrome, killed, reaped, output, observer, teardown, logOpen, journal>>

(* exec.CommandContext kills the process when the context is done. *)
ParentDone ==
    /\ "context" \notin killed /\ killed' = killed \cup {"context"}
    /\ UNCHANGED <<chrome, children, reaped, output, observer, teardown, logOpen, journal>>
-----------------------------------------------------------------------------
(* The copying goroutine of a pipe, and logWriter.Write *)

LineOf(k) == (k + 1) \div 2

(* The pieces a..b split at the ends of lines, each part as <<p, from, to>>. *)
Split(p, a, b) ==
    LET From(n) == IF 2 * n - 1 < a THEN a ELSE 2 * n - 1
        To(n) == IF 2 * n > b THEN b ELSE 2 * n
        first == LineOf(a)
    IN  [i \in 1..LineOf(b) - first + 1 |-> <<p, From(first + i - 1), To(first + i - 1)>>]

(* Mutant: the read is not bounded by what has been written. *)
ReadMore(p) ==
    /\ copier[p] = "copying" /\ pending[p] = <<>>
    /\ \E m \in taken[p] + 1 .. wrote[p] + 1 :
          /\ taken' = [taken EXCEPT ![p] = m]
          /\ pending' = [pending EXCEPT ![p] = Split(p, taken[p] + 1, m)]
    /\ UNCHANGED <<process, wrote, copier, observer, teardown, logOpen, journal>>

Read(p) ==
    /\ copier[p] = "copying" /\ pending[p] = <<>>
    /\ \E m \in taken[p] + 1 .. wrote[p] :
          /\ taken' = [taken EXCEPT ![p] = m]
          /\ pending' = [pending EXCEPT ![p] = Split(p, taken[p] + 1, m)]
    /\ UNCHANGED <<process, wrote, copier, observer, teardown, logOpen, journal>>

PublishLine(p) ==
    /\ pending[p] # <<>>
    /\ Publish(Head(pending[p]))
    /\ pending' = [pending EXCEPT ![p] = Tail(@)]
    /\ UNCHANGED <<process, wrote, taken, copier, observer, teardown, logOpen>>

EndOfFile(p) ==
    /\ copier[p] = "copying" /\ pending[p] = <<>> /\ taken[p] = wrote[p]
    /\ chrome # "running" /\ ~children
    /\ copier' = [copier EXCEPT ![p] = "done"]
    /\ UNCHANGED <<process, wrote, taken, pending, observer, teardown, logOpen, journal>>
-----------------------------------------------------------------------------
(* The goroutine of NewBrowser that waits for the process.  cmd.Wait first  *)
(* collects the exit status and then waits for both copying goroutines.    *)

Reap(who) == reaped' = IF reaped = "none" THEN who ELSE reaped

Collect ==
    /\ observer = "waiting" /\ chrome # "running"
    /\ observer' = "collected"
    /\ Reap("observer")
    /\ UNCHANGED <<chrome, killed, children, output, teardown, logOpen, journal>>

(* cmd.Wait returns an error for any exit but a clean one, when Close has   *)
(* collected the status before it, and for a clean exit that the kill of   *)
(* exec.CommandContext still met.                                          *)
Report ==
    /\ observer' = "done"
    /\ \/ (chrome # "clean" \/ reaped = "closer" \/ "context" \in killed) /\ Publish(<<"exited">>)
       \/ chrome = "clean" /\ reaped # "closer" /\ UNCHANGED journal
    /\ UNCHANGED <<process, output, teardown, logOpen>>

(* Mutant: the test on the result of cmd.Wait is the wrong way round. *)
ObserveExitInverted ==
    /\ observer = "collected" /\ \A p \in Pipes : copier[p] = "done"
    /\ observer' = "done"
    /\ IF chrome = "clean" /\ reaped # "closer" THEN Publish(<<"exited">>) ELSE UNCHANGED journal
    /\ UNCHANGED <<process, output, teardown, logOpen>>

(* Mutant: the exit is reported as soon as the process has been collected. *)
ObserveExitEarly == observer = "collected" /\ Report

ObserveExit ==
    /\ observer = "collected" /\ \A p \in Pipes : copier[p] = "done"
    /\ Report
-----------------------------------------------------------------------------
(* Browser.Close *)

CloseCancel ==
    /\ closer = "off" /\ closer' = "cancelled"
    /\ UNCHANGED <<process, output, observer, dir, logOpen, journal>>

(* Mutant: the process is not killed. *)
CloseKillNothing ==
    /\ closer = "cancelled" /\ closer' = "killed"
    /\ UNCHANGED <<process, output, observer, dir, logOpen, journal>>

CloseKill ==
    /\ closer = "cancelled" /\ closer' = "killed"
    /\ killed' = killed \cup {"close"}
    /\ UNCHANGED <<chrome, children, reaped, output, observer, dir, logOpen, journal>>

(* Mutant: the directory is removed without waiting for the process. *)
CloseWaitNot ==
    /\ closer = "killed" /\ closer' = "waited"
    /\ UNCHANGED <<process, output, observer, dir, logOpen, journal>>

(* Process.Wait knows nothing of the pipes. *)
CloseWait ==
    /\ closer = "killed" /\ chrome # "running"
    /\ closer' = "waited"
    /\ Reap("closer")
    /\ UNCHANGED <<chrome, killed, children, output, observer, dir, logOpen, journal>>

CloseRemoveDir ==
    /\ closer = "waited" /\ closer' = "removed"
    /\ dir' = (dir /\ ~TempProfile)
    /\ UNCHANGED <<process, output, observer, logOpen, journal>>

CloseLog ==
    /\ closer = "removed" /\ closer' = "done"
    /\ logOpen' = FALSE
    /\ UNCHANGED <<process, output, observer, dir, journal>>
-----------------------------------------------------------------------------
Init ==
    /\ chrome = "running" /\ killed = {} /\ children = TRUE /\ reaped = "none"
    /\ wrote = [p \in Pipes |-> 0] /\ taken = [p \in Pipes |-> 0]
    /\ pending = [p \in Pipes |-> <<>>]
    /\ copier = [p \in Pipes |-> "copying"]
    /\ observer = "waiting"
    /\ closer = "off" /\ dir = TRUE /\ logOpen = TRUE
    /\ journal = <<>>

CopyStep(p) == Read(p) \/ PublishLine(p) \/ EndOfFile(p)

ObserverStep == Collect \/ ObserveExit

CloseStep == CloseKill \/ CloseWait \/ CloseRemoveDir \/ CloseLog

Next ==
    \/ \E p \in Pipes : Write(p) \/ CopyStep(p)
    \/ \E how \in {"clean", "crash", "killed"} : ChromeEnds(how)
    \/ ChildrenEnd \/ ParentDone
    \/ ObserverStep
    \/ CloseCancel \/ CloseStep

Spec == Init /\ [][Next]_vars

(* Goroutines run and a killed process dies.  Chrome need not end by       *)
(* itself, and its children may keep the pipes open for ever.              *)
FairSpec ==
    /\ Spec
    /\ \A p \in Pipes : WF_vars(CopyStep(p))
    /\ WF_vars(ObserverStep) /\ WF_vars(CloseStep)
    /\ WF_vars(ChromeEnds("killed"))
-----------------------------------------------------------------------------
(* Every variable stays within the values its Go counterpart can hold; no    *)
(* more is read from a pipe than was written to it.                          *)
TypeOK ==
    /\ chrome \in {"running", "clean", "crash", "killed"}
    /\ killed \subseteq {"close", "context"} /\ children \in BOOLEAN
    /\ reaped \in {"none", "observer", "closer"}
    /\ wrote \in [Pipes -> Nat] /\ taken \in [Pipes -> Nat]
    /\ \A p \in Pipes : taken[p] <= wrote[p] /\ wrote[p] <= Pieces[p]
    /\ pending \in [Pipes -> Seq(Pipes \X Nat \X Nat)]
    /\ copier \in [Pipes -> {"copying", "done"}]
    /\ observer \in {"waiting", "collected", "done"}
    /\ closer \in {"off", "cancelled", "killed", "waited", "removed", "done"}
    /\ dir \in BOOLEAN /\ logOpen \in BOOLEAN

Reported == \E i \in DOMAIN journal : journal[i] = <<"exited">>

(* Piece n of the output of p is in the event.                               *)
Holds(event, p, n) == event[1] = p /\ event[2] <= n /\ n <= event[3]

(* Close removes the temporary profile only when Chrome no longer runs.      *)
ProfileOutlivesChrome == ~dir => chrome # "running"

(* The log has each pipe's output in order and without a gap, no piece is in *)
(* two events and no event spans two lines; while the log is open nothing    *)
(* that was read is missing; and the report of the exit stands behind        *)
(* everything that Chrome and its children have written.                     *)
OutputBeforeReport ==
    /\ \A p \in Pipes, i \in DOMAIN journal : journal[i][1] = p =>
          /\ LineOf(journal[i][2]) = LineOf(journal[i][3])
          /\ \A n \in 1..journal[i][2] - 1 : \E j \in 1..i - 1 : Holds(journal[j], p, n)
          /\ \A j \in 1..i - 1 : journal[j][1] = p => journal[j][3] < journal[i][2]
    /\ logOpen => \A p \in Pipes : \A n \in 1..taken[p] :
          \/ \E i \in DOMAIN journal : Holds(journal[i], p, n)
          \/ \E i \in DOMAIN pending[p] : Holds(pending[p][i], p, n)
    /\ Reported => /\ journal[Len(journal)] = <<"exited">>
                   /\ \A p \in Pipes : taken[p] = wrote[p] /\ pending[p] = <<>>

(* A crash of Chrome is reported to whoever still streams the log, once no   *)
(* child of Chrome holds its pipes any more.                                 *)
CrashReported == (chrome = "crash" /\ ~children) ~> (~logOpen \/ Reported)

(* Close comes to its end, whatever becomes of the pipes and the observer.   *)
CloseEnds == (closer # "off") ~> (closer = "done")

(* browser.go:182 "Observe unexpected exits.": no exit that the agent itself *)
(* asked for is reported as unexpected.                                      *)
OnlyUnexpectedReported == Reported => chrome # "killed"

(* To the agent this is a Teardown: Chrome is killed before Close waits, and *)
(* the log stays open until Chrome has ended, whoever collects it.           *)
Down == INSTANCE Teardown WITH
    alive <- chrome = "running", doomed <- killed # {},
    stage <- IF ~logOpen THEN "closed" ELSE IF "close" \in killed THEN "closing" ELSE "open"
TeardownSpec == Down!Spec
=============================================================================
