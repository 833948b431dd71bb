------------------------- MODULE BrowserOrderProofs -------------------------
(***************************************************************************)
(* Proofs about what Chrome executes for the requests of Browser, and      *)
(* when: program order, what may come between two commands of a run, and   *)
(* the order of the success lines.  They rest on the place of a request in *)
(* its program: everything before it has been executed, nothing after it   *)
(* has been sent, and the command at it is under way only while the        *)
(* request waits for it or after the request has failed.                   *)
(***************************************************************************)
EXTENDS BrowserProofs, SequenceTheorems

Commands == UNION {Program(r) : r \in Requests}

(* The place of a request that does not wait: no answer is outstanding; one *)
(* that has not sent anything stands before its first command; one that was *)
(* answered with success stands behind its last.                            *)
StageInv ==
    \A r \in Requests :
        /\ (answer[r] = "none") <=> (pc[r] # "answered")
        /\ pc[r] \in {"idle", "queued", "running"} => reply[r] = "none"
        /\ pc[r] \in {"idle", "queued"} => at[r] = 0
        /\ answer[r] = "ok" => run[r] = Len(Runs[r]) /\ at[r] = Length(r)

(* The command at the place of the request has been sent.                   *)
Sent(r) == pc[r] = "waiting" \/ answer[r] = "error"

(* What is on the wire is at the place of its request, which has sent it;   *)
(* it has not been executed.                                                *)
WireInv ==
    /\ wire \subseteq Commands
    /\ \A c \in wire : c = Command(c[1]) /\ Sent(c[1]) /\ ~Executed(c)

(* What was executed lies before the place of its request, or at it, which  *)
(* then has sent it; all that lies before has been executed.                *)
PlaceInv ==
    /\ applied \in Seq(Commands)
    /\ \A r \in Requests :
          /\ \A c \in Program(r) : Precedes(c, Command(r)) => Executed(c)
          /\ pc[r] = "waiting" /\ reply[r] = "ok" => Executed(Command(r))
          /\ Executed(Command(r)) => Sent(r)
          /\ \A i \in DOMAIN applied : applied[i][1] = r =>
                applied[i] = Command(r) \/ Precedes(applied[i], Command(r))

(* Nothing is executed twice, nor before what precedes it.                  *)
SequenceInv ==
    /\ \A i, j \in DOMAIN applied : applied[i] = applied[j] => i = j
    /\ \A j \in DOMAIN applied : \A c \in Program(applied[j][1]) :
          Precedes(c, applied[j]) => \E i \in 1..j - 1 : applied[i] = c

(* A command of the run that is under way for r.                            *)
Current(r, c) == c[1] = r /\ c[2] = run[r]

(* Since the first command of the run that holds b.mu, only commands that   *)
(* their callers had given up came in between.                              *)
UndisturbedInv ==
    \A r \in Requests : Inside(r) =>
        \A i, m \in DOMAIN applied :
            i < m /\ Current(r, applied[i]) /\ ~Current(r, applied[m])
            => Late(applied[m])

(* A run whose line is in the journal has succeeded, and all it did came    *)
(* before what the run that holds b.mu has done.                            *)
JournalInv ==
    /\ journal \in Seq(Requests \X Nat)
    /\ \A i \in DOMAIN journal : Succeeded(journal[i][1], journal[i][2])
    /\ \A i \in DOMAIN journal, r \in Requests, m, n \in DOMAIN applied :
          /\ Inside(r)
          /\ applied[m][1] = journal[i][1] /\ applied[m][2] = journal[i][2]
          /\ Current(r, applied[n])
          => m < n

OrderInv ==
    /\ StageInv /\ WireInv /\ PlaceInv /\ SequenceInv
    /\ UndisturbedInv /\ ForeignOnlyLate
    /\ JournalInv /\ SuccessLinesInOrder

-----------------------------------------------------------------------------
(* Commands, and the one step that executes one.                           *)

(* What a command of a program is.                                         *)
LEMMA ProgramShape ==
    ASSUME NEW r \in Requests
    PROVE  \A c : c \in Program(r) <=>
               /\ c = <<r, c[2], c[3]>>
               /\ c[2] \in DOMAIN Runs[r] /\ c[2] \in Nat
               /\ c[3] \in Nat /\ c[3] >= 1 /\ c[3] <= Runs[r][c[2]]
<1>1. ASSUME NEW c \in Program(r)
      PROVE  \E k \in DOMAIN Runs[r] : \E n \in 1..Runs[r][k] : c = <<r, k, n>>
  BY <1>1 DEF Program
<1>2. ASSUME NEW k \in DOMAIN Runs[r], NEW n \in 1..Runs[r][k]
      PROVE  <<r, k, n>> \in Program(r) /\ k \in Nat /\ n \in Nat /\ n >= 1 /\ n <= Runs[r][k]
  BY RunShape DEF Program
<1> QED
  BY <1>1, <1>2, RunShape

(* A command belongs to the program of the request it names.               *)
LEMMA CommandShape ==
    \A c : c \in Commands <=> c[1] \in Requests /\ c \in Program(c[1])
<1>1. \A r \in Requests : \A c \in Program(r) : c[1] = r
  <2> SUFFICES ASSUME NEW r \in Requests, NEW c \in Program(r) PROVE c[1] = r
    OBVIOUS
  <2>1. c = <<r, c[2], c[3]>>
    BY ProgramShape
  <2> QED
    BY <2>1
<1> QED
  BY <1>1 DEF Commands

(* The place of a request, in numbers.                                     *)
LEMMA PlaceShape ==
    ASSUME IInv, NEW r \in Requests
    PROVE  /\ Command(r)[1] = r /\ Command(r)[2] = run[r] /\ Command(r)[3] = at[r] + 1
           /\ run[r] \in Nat /\ at[r] \in Nat /\ run[r] \in DOMAIN Runs[r]
           /\ Length(r) \in Nat /\ at[r] <= Length(r) /\ Length(r) = Runs[r][run[r]]
           /\ Command(r) \in Program(r) <=> at[r] < Length(r)
<1>1. /\ run[r] \in Nat /\ at[r] \in Nat /\ run[r] \in DOMAIN Runs[r]
      /\ at[r] <= Length(r)
  BY DEF IInv, TypeOK
<1>2. Length(r) \in Nat /\ Length(r) = Runs[r][run[r]]
  BY <1>1, RunShape DEF Length
<1>3. Command(r)[1] = r /\ Command(r)[2] = run[r] /\ Command(r)[3] = at[r] + 1
  BY DEF Command
<1>4. Command(r) = <<r, Command(r)[2], Command(r)[3]>>
  BY DEF Command
<1>5. Command(r) \in Program(r) <=> at[r] + 1 <= Runs[r][run[r]]
  BY <1>1, <1>3, <1>4, ProgramShape
<1> QED
  BY <1>1, <1>2, <1>3, <1>5

(* What executing a command does to the history.                           *)
LEMMA AppendShape ==
    ASSUME applied \in Seq(Commands), NEW c \in Commands, applied' = Append(applied, c)
    PROVE  /\ applied' \in Seq(Commands)
           /\ Len(applied) \in Nat /\ Len(applied) + 1 \in DOMAIN applied'
           /\ DOMAIN applied = 1..Len(applied)
           /\ DOMAIN applied' = 1..Len(applied) + 1
           /\ \A i \in DOMAIN applied : i \in DOMAIN applied' /\ applied'[i] = applied[i]
           /\ applied'[Len(applied) + 1] = c
           /\ \A i \in DOMAIN applied' : i \in DOMAIN applied \/ i = Len(applied) + 1
           /\ \A d : Executed(d)' <=> Executed(d) \/ d = c
<1>1. /\ applied' \in Seq(Commands)
      /\ Len(applied) \in Nat /\ Len(applied) + 1 \in DOMAIN applied'
      /\ DOMAIN applied = 1..Len(applied)
      /\ DOMAIN applied' = 1..Len(applied) + 1
      /\ \A i \in DOMAIN applied : i \in DOMAIN applied' /\ applied'[i] = applied[i]
      /\ applied'[Len(applied) + 1] = c
      /\ \A i \in DOMAIN applied' : i \in DOMAIN applied \/ i = Len(applied) + 1
  OBVIOUS
<1>2. \A d : Executed(d)' <=> Executed(d) \/ d = c
  BY <1>1 DEF Executed
<1> QED
  BY <1>1, <1>2

(* A step of the call of one request executes nothing and leaves all other *)
(* requests where they are.                                                *)
LEMMA CallFrame ==
    ASSUME IInv, NEW r \in Requests, Begin(r) \/ Proceed(r)
    PROVE  /\ UNCHANGED applied
           /\ \A q \in Requests \ {r} :
                 /\ pc'[q] = pc[q] /\ run'[q] = run[q] /\ at'[q] = at[q]
                 /\ reply'[q] = reply[q] /\ answer'[q] = answer[q]
                 /\ Command(q)' = Command(q) /\ Length(q)' = Length(q)
<1>1. UNCHANGED applied
  BY DEF Begin, Proceed, Acquire, Issue, Advance, Finish, Fail, devtools
<1>2. ASSUME NEW q \in Requests \ {r}
      PROVE  /\ pc'[q] = pc[q] /\ run'[q] = run[q] /\ at'[q] = at[q]
             /\ reply'[q] = reply[q] /\ answer'[q] = answer[q]
  BY DEF Begin, Proceed, Acquire, Issue, Advance, Finish, Fail, session, IInv, TypeOK
<1> QED
  BY <1>1, <1>2 DEF Command, Length

(* Chrome, the connection and the clock move no request.                   *)
LEMMA OutsideFrame ==
    ASSUME \/ \E c \in wire : Execute(c) \/ Refuse(c)
           \/ Tick \/ ChromeEnds \/ ConnectionLost \/ Cancel \/ UNCHANGED vars
    PROVE  /\ UNCHANGED <<pc, run, at, answer, journal>>
           /\ wire' \subseteq wire
           /\ \A q \in Requests : Command(q)' = Command(q) /\ Length(q)' = Length(q)
<1>1. UNCHANGED <<pc, run, at, answer, journal>> /\ wire' \subseteq wire
  BY DEF Execute, Refuse, Tick, ChromeEnds, ConnectionLost, Cancel, vars, session, devtools
<1> QED
  BY <1>1 DEF Command, Length

-----------------------------------------------------------------------------
(* Where requests stand.                                                   *)

LEMMA StageStep == ASSUME IInv, StageInv, [Next]_vars PROVE StageInv'
<1> USE DEF IInv, TypeOK
<1>1. ASSUME NEW r \in Requests, Begin(r) \/ Proceed(r) PROVE StageInv'
  <2>0. /\ \A q \in Requests \ {r} :
                 /\ pc'[q] = pc[q] /\ run'[q] = run[q] /\ at'[q] = at[q]
                 /\ reply'[q] = reply[q] /\ answer'[q] = answer[q]
                 /\ Command(q)' = Command(q) /\ Length(q)' = Length(q)
    BY <1>1, CallFrame
  <2>1. /\ (answer'[r] = "none") <=> (pc'[r] # "answered")
        /\ pc'[r] \in {"idle", "queued", "running"} => reply'[r] = "none"
        /\ pc'[r] \in {"idle", "queued"} => at'[r] = 0
        /\ answer'[r] = "ok" => run'[r] = Len(Runs[r]) /\ at'[r] = Length(r)'
    <3>1. CASE Begin(r)
      BY <3>1 DEF Begin, StageInv, devtools
    <3>2. CASE Acquire(r)
      BY <3>2 DEF Acquire, StageInv, session
    <3>3. CASE Issue(r)
      BY <3>3 DEF Issue, StageInv, session
    <3>4. CASE Advance(r)
      BY <3>4 DEF Advance, StageInv
    <3>5. CASE Finish(r)
      BY <3>5 DEF Finish, StageInv, Length
    <3>6. CASE Fail(r)
      BY <3>6 DEF Fail, MayFail, StageInv, Length
    <3> QED
      BY <1>1, <3>1, <3>2, <3>3, <3>4, <3>5, <3>6 DEF Proceed
  <2>2. ASSUME NEW q \in Requests, q # r
        PROVE  /\ (answer'[q] = "none") <=> (pc'[q] # "answered")
               /\ pc'[q] \in {"idle", "queued", "running"} => reply'[q] = "none"
               /\ pc'[q] \in {"idle", "queued"} => at'[q] = 0
               /\ answer'[q] = "ok" => run'[q] = Len(Runs[q]) /\ at'[q] = Length(q)'
    <3>1. /\ pc'[q] = pc[q] /\ run'[q] = run[q] /\ at'[q] = at[q]
          /\ reply'[q] = reply[q] /\ answer'[q] = answer[q] /\ Length(q)' = Length(q)
      BY <2>0, <2>2
    <3> QED
      BY <3>1 DEF StageInv
  <2> QED
    BY <2>1, <2>2 DEF StageInv
<1>2. ASSUME \/ \E c \in wire : Execute(c) \/ Refuse(c)
             \/ Tick \/ ChromeEnds \/ ConnectionLost \/ Cancel \/ UNCHANGED vars
      PROVE  StageInv'
  <2>1. /\ UNCHANGED <<pc, run, at, answer>>
        /\ \A q \in Requests : Length(q)' = Length(q)
    BY <1>2, OutsideFrame
  <2>2. ASSUME NEW q \in Requests, pc[q] # "waiting" PROVE reply'[q] = reply[q]
    BY <1>2, <2>2 DEF Execute, Refuse, Respond, Waits, Tick, ChromeEnds, ConnectionLost, Cancel,
                      vars, session, devtools
  <2>3. ASSUME NEW q \in Requests
        PROVE  /\ (answer'[q] = "none") <=> (pc'[q] # "answered")
               /\ pc'[q] \in {"idle", "queued", "running"} => reply'[q] = "none"
               /\ pc'[q] \in {"idle", "queued"} => at'[q] = 0
               /\ answer'[q] = "ok" => run'[q] = Len(Runs[q]) /\ at'[q] = Length(q)'
    <3>1. /\ pc'[q] = pc[q] /\ run'[q] = run[q] /\ at'[q] = at[q] /\ answer'[q] = answer[q]
          /\ Length(q)' = Length(q)
      BY <2>1
    <3> QED
      BY <2>2, <3>1 DEF StageInv
  <2> QED
    BY <2>3 DEF StageInv
<1> QED
  BY <1>1, <1>2 DEF Next

(* A request that stands at a command it has not sent yet is running it.   *)
LEMMA WireStep == ASSUME IInv, StageInv, WireInv, PlaceInv, [Next]_vars PROVE WireInv'
<1>1. ASSUME NEW r \in Requests, Begin(r) \/ Proceed(r) PROVE WireInv'
  <2>0. /\ UNCHANGED applied
        /\ \A q \in Requests \ {r} :
              pc'[q] = pc[q] /\ answer'[q] = answer[q] /\ Command(q)' = Command(q)
    BY <1>1, CallFrame
  <2>1. ASSUME NEW c \in wire, c[1] # r
        PROVE  c \in Commands /\ (c = Command(c[1]) /\ Sent(c[1]) /\ ~Executed(c))'
    <3>1. c \in Commands /\ c[1] \in Requests \ {r} /\ c = Command(c[1]) /\ Sent(c[1]) /\ ~Executed(c)
      BY <2>1, CommandShape DEF WireInv
    <3>2. Command(c[1])' = Command(c[1]) /\ Sent(c[1])' /\ ~Executed(c)'
      BY <2>0, <3>1 DEF Sent, Executed
    <3> QED
      BY <3>1, <3>2
  <2>2. CASE Issue(r)
    <3>1. /\ UNCHANGED <<run, at, answer>>
          /\ wire' \subseteq wire \cup {Command(r)}
      BY <2>2 DEF Issue, session
    <3>2. Command(r)' = Command(r)
      BY <3>1 DEF Command
    <3>3. Sent(r)'
      BY <2>2 DEF Issue, Sent, IInv, TypeOK
    <3>4. Command(r) \in Commands /\ Command(r)[1] = r
      BY <2>2, PlaceShape, CommandShape DEF Issue
    <3>5. pc[r] = "running" /\ answer[r] = "none"
      BY <2>2 DEF Issue, StageInv
    <3>6. ~Executed(Command(r))'
      BY <2>0, <3>2, <3>5 DEF PlaceInv, Sent, Executed
    <3>7. ASSUME NEW c \in wire, c[1] = r PROVE FALSE
      BY <3>5, <3>7 DEF WireInv, Sent
    <3> QED
      BY <2>1, <3>1, <3>2, <3>3, <3>4, <3>6, <3>7 DEF WireInv
  <2>3. CASE Begin(r) \/ Acquire(r)
    <3>1. UNCHANGED <<wire, applied, run, at, answer>> /\ pc[r] # "waiting"
      BY <2>3 DEF Begin, Acquire, session, devtools
    <3>2. Command(r)' = Command(r) /\ (Sent(r) => Sent(r)')
      BY <3>1 DEF Command, Sent
    <3>3. ASSUME NEW c \in wire, c[1] = r
          PROVE  c \in Commands /\ (c = Command(c[1]) /\ Sent(c[1]) /\ ~Executed(c))'
      BY <3>1, <3>2, <3>3 DEF WireInv, Executed
    <3> QED
      BY <2>1, <3>1, <3>3 DEF WireInv
  <2>4. CASE Advance(r) \/ Finish(r)
    <3>1. UNCHANGED wire
      BY <2>4 DEF Advance, Finish, devtools
    <3>2. ~(\E c \in wire : c[1] = r)
      <4>1. CASE Advance(r)
        BY <4>1 DEF Advance, PlaceInv, WireInv
      <4>2. CASE Finish(r)
        BY <4>2 DEF Finish, WireInv, Sent, StageInv
      <4> QED
        BY <2>4, <4>1, <4>2
    <3> QED
      BY <2>1, <3>1, <3>2 DEF WireInv
  <2>5. CASE Fail(r)
    <3>1. UNCHANGED <<wire, applied, run, at>> /\ answer'[r] = "error"
      BY <2>5 DEF Fail, devtools, IInv, TypeOK
    <3>2. Command(r)' = Command(r) /\ Sent(r)'
      BY <3>1 DEF Command, Sent
    <3>3. ASSUME NEW c \in wire, c[1] = r
          PROVE  c \in Commands /\ (c = Command(c[1]) /\ Sent(c[1]) /\ ~Executed(c))'
      BY <3>1, <3>2, <3>3 DEF WireInv, Executed
    <3> QED
      BY <2>1, <3>1, <3>3 DEF WireInv
  <2> QED
    BY <1>1, <2>2, <2>3, <2>4, <2>5 DEF Proceed
<1>2. ASSUME NEW c \in wire, Execute(c) PROVE WireInv'
  <2>1. c \in Commands /\ applied' = Append(applied, c) /\ wire' = wire \ {c}
    BY <1>2 DEF Execute, WireInv
  <2>2. \A d : Executed(d)' <=> Executed(d) \/ d = c
    BY <2>1, AppendShape DEF PlaceInv
  <2>3. UNCHANGED <<pc, answer>> /\ \A q \in Requests : Command(q)' = Command(q)
    BY <1>2, OutsideFrame
  <2>4. ASSUME NEW d \in wire, d # c
        PROVE  d \in Commands /\ (d = Command(d[1]) /\ Sent(d[1]) /\ ~Executed(d))'
    <3>1. d \in Commands /\ d[1] \in Requests /\ d = Command(d[1]) /\ Sent(d[1]) /\ ~Executed(d)
      BY CommandShape DEF WireInv
    <3>2. Command(d[1])' = Command(d[1]) /\ Sent(d[1])' /\ ~Executed(d)'
      BY <2>2, <2>3, <2>4, <3>1 DEF Sent
    <3> QED
      BY <3>1, <3>2
  <2> QED
    BY <2>1, <2>4 DEF WireInv
<1>3. ASSUME (\E c \in wire : Refuse(c)) \/ Tick \/ ChromeEnds \/ ConnectionLost \/ Cancel
             \/ UNCHANGED vars
      PROVE  WireInv'
  <2>1. UNCHANGED <<pc, answer>> /\ wire' \subseteq wire
        /\ \A q \in Requests : Command(q)' = Command(q)
    BY <1>3, OutsideFrame
  <2>2. UNCHANGED applied
    BY <1>3 DEF Refuse, Tick, ChromeEnds, ConnectionLost, Cancel, vars, devtools
  <2>3. ASSUME NEW d \in wire
        PROVE  d \in Commands /\ (d = Command(d[1]) /\ Sent(d[1]) /\ ~Executed(d))'
    <3>1. d \in Commands /\ d[1] \in Requests /\ d = Command(d[1]) /\ Sent(d[1]) /\ ~Executed(d)
      BY CommandShape DEF WireInv
    <3>2. Command(d[1])' = Command(d[1]) /\ Sent(d[1])' /\ ~Executed(d)'
      BY <2>1, <2>2, <3>1 DEF Sent, Executed
    <3> QED
      BY <3>1, <3>2
  <2> QED
    BY <2>1, <2>3 DEF WireInv
<1> QED
  BY <1>1, <1>2, <1>3 DEF Next

(* The next place of a request lies behind the present one, and nothing of *)
(* its program lies between the two.                                       *)
LEMMA NextPlace ==
    ASSUME IInv, NEW r \in Requests, Advance(r) \/ Finish(r), answer'[r] = "none"
    PROVE  /\ Precedes(Command(r), Command(r)')
           /\ \A c \in Program(r) :
                 Precedes(c, Command(r)') => Precedes(c, Command(r)) \/ c = Command(r)
           /\ \A c : Precedes(c, Command(r)) /\ c \in Program(r) => Precedes(c, Command(r)')
<1>0. /\ Command(r) = <<r, run[r], at[r] + 1>> /\ Command(r)' = <<r, run'[r], at'[r] + 1>>
      /\ run[r] \in Nat /\ at[r] \in Nat /\ Length(r) = Runs[r][run[r]]
      /\ run \in [Requests -> Nat] /\ at \in [Requests -> Nat]
  BY PlaceShape DEF Command, IInv, TypeOK
<1>1. \/ run'[r] = run[r] /\ at'[r] = at[r] + 1
      \/ run'[r] = run[r] + 1 /\ at'[r] = 0 /\ at[r] = Runs[r][run[r]]
  BY <1>0 DEF Advance, Finish, IInv, TypeOK
<1>2. Precedes(Command(r), Command(r)')
  BY <1>0, <1>1 DEF Precedes
<1>3. ASSUME NEW c \in Program(r)
      PROVE  /\ Precedes(c, Command(r)') => Precedes(c, Command(r)) \/ c = Command(r)
             /\ Precedes(c, Command(r)) => Precedes(c, Command(r)')
  <2>1. /\ c = <<r, c[2], c[3]>> /\ c[2] \in Nat /\ c[3] \in Nat /\ c[3] >= 1 /\ c[3] <= Runs[r][c[2]]
    BY ProgramShape
  <2>2. PICK k \in Nat, n \in Nat : c = <<r, k, n>> /\ n >= 1 /\ n <= Runs[r][k]
    BY <2>1
  <2> QED
    BY <1>0, <1>1, <2>2 DEF Precedes
<1> QED
  BY <1>2, <1>3

LEMMA PlaceStep == ASSUME IInv, StageInv, WireInv, PlaceInv, [Next]_vars PROVE PlaceInv'
<1>1. ASSUME NEW r \in Requests, Begin(r) \/ Proceed(r) PROVE PlaceInv'
  <2>0. /\ UNCHANGED applied
        /\ \A q \in Requests \ {r} :
              /\ pc'[q] = pc[q] /\ reply'[q] = reply[q] /\ answer'[q] = answer[q]
              /\ Command(q)' = Command(q)
    BY <1>1, CallFrame
  <2>1. ASSUME NEW q \in Requests, q # r
        PROVE  /\ \A c \in Program(q) : Precedes(c, Command(q)') => Executed(c)'
               /\ pc'[q] = "waiting" /\ reply'[q] = "ok" => Executed(Command(q))'
               /\ Executed(Command(q))' => Sent(q)'
               /\ \A i \in DOMAIN applied : applied[i][1] = q =>
                     applied[i] = Command(q)' \/ Precedes(applied[i], Command(q)')
    BY <2>0, <2>1 DEF PlaceInv, Executed, Sent
  <2>2. \A i \in DOMAIN applied : applied[i][1] \in Requests /\ applied[i] \in Program(applied[i][1])
    BY CommandShape DEF PlaceInv
  <2>3. SUFFICES
          /\ \A c \in Program(r) : Precedes(c, Command(r)') => Executed(c)'
          /\ pc'[r] = "waiting" /\ reply'[r] = "ok" => Executed(Command(r))'
          /\ Executed(Command(r))' => Sent(r)'
          /\ \A i \in DOMAIN applied : applied[i][1] = r =>
                applied[i] = Command(r)' \/ Precedes(applied[i], Command(r)')
    BY <2>0, <2>1, <2>2 DEF PlaceInv
  <2>4. CASE Begin(r) \/ Acquire(r) \/ Issue(r) \/ Fail(r) \/ (Finish(r) /\ answer'[r] # "none")
    <3>1. UNCHANGED <<applied, run, at, reply>>
      BY <2>0, <2>4 DEF Begin, Acquire, Issue, Fail, Finish, session, StageInv, IInv, TypeOK
    <3>2. Command(r)' = Command(r)
      BY <3>1 DEF Command
    <3>3. Executed(Command(r)) => Sent(r)'
      <4>1. CASE Begin(r) \/ Acquire(r) \/ Finish(r)
        BY <4>1, <2>0 DEF PlaceInv, StageInv, Sent, Begin, Acquire, Finish
      <4>2. CASE Issue(r) \/ Fail(r)
        BY <4>2 DEF Issue, Fail, Sent, IInv, TypeOK
      <4> QED
        BY <2>4, <4>1, <4>2
    <3>4. pc'[r] = "waiting" /\ reply'[r] = "ok" => FALSE
      BY <2>4, <3>1 DEF Begin, Acquire, Issue, Fail, Finish, StageInv, IInv, TypeOK
    <3> QED
      BY <3>1, <3>2, <3>3, <3>4 DEF PlaceInv, Executed
  <2>5. CASE (Advance(r) \/ Finish(r)) /\ answer'[r] = "none"
    <3>1. /\ Precedes(Command(r), Command(r)')
          /\ \A c \in Program(r) :
                Precedes(c, Command(r)') => Precedes(c, Command(r)) \/ c = Command(r)
          /\ \A c : Precedes(c, Command(r)) /\ c \in Program(r) => Precedes(c, Command(r)')
      BY <2>5, NextPlace
    <3>2. Command(r) \in Program(r) => Executed(Command(r))
      <4>1. CASE Advance(r)
        BY <4>1 DEF Advance, PlaceInv
      <4>2. CASE Finish(r)
        BY <4>2, PlaceShape DEF Finish
      <4> QED
        BY <2>5, <4>1, <4>2
    <3>3. pc'[r] # "waiting"
      BY <2>5 DEF Advance, Finish, IInv, TypeOK
    <3>4. \A i \in DOMAIN applied : applied[i][1] = r => Precedes(applied[i], Command(r)')
      BY <2>2, <3>1 DEF PlaceInv
    <3>5. ~Precedes(Command(r)', Command(r)') /\ Command(r)'[1] = r
      BY PlaceShape, <2>5 DEF Command, Precedes, Advance, Finish, IInv, TypeOK
    <3>6. ~Executed(Command(r))'
      BY <2>0, <3>4, <3>5 DEF Executed
    <3> QED
      BY <2>0, <3>1, <3>2, <3>3, <3>4, <3>6 DEF PlaceInv, Executed
  <2>6. Advance(r) => answer'[r] = "none"
    BY DEF Advance, StageInv
  <2> QED
    BY <1>1, <2>4, <2>5, <2>6 DEF Proceed
<1>2. ASSUME NEW c \in wire, Execute(c) PROVE PlaceInv'
  <2>1. /\ c \in Commands /\ applied' = Append(applied, c)
        /\ c = Command(c[1]) /\ Sent(c[1]) /\ c[1] \in Requests
    BY <1>2, CommandShape DEF Execute, WireInv
  <2>2. UNCHANGED <<pc, answer>> /\ \A q \in Requests : Command(q)' = Command(q)
    BY <1>2, OutsideFrame
  <2>3. /\ applied' \in Seq(Commands)
        /\ \A i \in DOMAIN applied : i \in DOMAIN applied' /\ applied'[i] = applied[i]
        /\ applied'[Len(applied) + 1] = c
        /\ \A i \in DOMAIN applied' : i \in DOMAIN applied \/ i = Len(applied) + 1
        /\ \A d : Executed(d)' <=> Executed(d) \/ d = c
    BY <2>1, AppendShape DEF PlaceInv
  <2>4. ASSUME NEW q \in Requests
        PROVE  /\ \A d \in Program(q) : Precedes(d, Command(q)') => Executed(d)'
               /\ pc'[q] = "waiting" /\ reply'[q] = "ok" => Executed(Command(q))'
               /\ Executed(Command(q))' => Sent(q)'
    <3>1. \A d \in Program(q) : Precedes(d, Command(q)') => Executed(d)'
      BY <2>2, <2>3 DEF PlaceInv
    <3>2. pc'[q] = "waiting" /\ reply'[q] = "ok" => Executed(Command(q))'
      <4>1. CASE c = Command(q)
        BY <2>2, <2>3, <4>1
      <4>2. CASE c # Command(q)
        <5>1. reply'[q] = reply[q]
          BY <1>2, <2>1, <4>2 DEF Execute, Respond, Waits
        <5> QED
          BY <2>2, <2>3, <5>1 DEF PlaceInv
      <4> QED
        BY <4>1, <4>2
    <3>3. Executed(Command(q))' => Sent(q)'
      <4>1. c = Command(q) => c[1] = q
        BY PlaceShape
      <4> QED
        BY <2>1, <2>2, <2>3, <4>1 DEF PlaceInv, Sent
    <3> QED
      BY <3>1, <3>2, <3>3
  <2>5. ASSUME NEW q \in Requests, NEW i \in DOMAIN applied', applied'[i][1] = q
        PROVE  applied'[i] = Command(q)' \/ Precedes(applied'[i], Command(q)')
    <3>1. CASE i \in DOMAIN applied
      BY <2>2, <2>3, <2>5, <3>1 DEF PlaceInv
    <3>2. CASE i = Len(applied) + 1
      BY <2>1, <2>2, <2>3, <2>5, <3>2
    <3> QED
      BY <2>3, <3>1, <3>2
  <2> QED
    BY <2>3, <2>4, <2>5 DEF PlaceInv
<1>3. ASSUME (\E c \in wire : Refuse(c)) \/ Tick \/ ChromeEnds \/ ConnectionLost \/ Cancel
             \/ UNCHANGED vars
      PROVE  PlaceInv'
  <2>1. UNCHANGED <<pc, answer>> /\ \A q \in Requests : Command(q)' = Command(q)
    BY <1>3, OutsideFrame
  <2>2. UNCHANGED applied
    BY <1>3 DEF Refuse, Tick, ChromeEnds, ConnectionLost, Cancel, vars, devtools
  <2>3. \A q \in Requests : reply'[q] = "ok" => reply[q] = "ok"
    BY <1>3 DEF Refuse, Respond, Tick, ChromeEnds, ConnectionLost, Cancel, vars, session, IInv, TypeOK
  <2>4. ASSUME NEW q \in Requests
        PROVE  /\ \A d \in Program(q) : Precedes(d, Command(q)') => Executed(d)'
               /\ pc'[q] = "waiting" /\ reply'[q] = "ok" => Executed(Command(q))'
               /\ Executed(Command(q))' => Sent(q)'
    BY <2>1, <2>2, <2>3 DEF PlaceInv, Executed, Sent
  <2>5. ASSUME NEW q \in Requests, NEW i \in DOMAIN applied', applied'[i][1] = q
        PROVE  applied'[i] = Command(q)' \/ Precedes(applied'[i], Command(q)')
    BY <2>1, <2>2, <2>5 DEF PlaceInv
  <2> QED
    BY <2>2, <2>4, <2>5 DEF PlaceInv
<1> QED
  BY <1>1, <1>2, <1>3 DEF Next

(* The command that is executed next has not been executed, and all that   *)
(* precedes it has.                                                        *)
LEMMA SequenceStep ==
    ASSUME IInv, WireInv, PlaceInv, SequenceInv, [Next]_vars
    PROVE  SequenceInv'
<1>1. ASSUME NEW c \in wire, Execute(c) PROVE SequenceInv'
  <2>1. /\ c \in Commands /\ applied' = Append(applied, c) /\ ~Executed(c)
        /\ c = Command(c[1]) /\ c[1] \in Requests
    BY <1>1, CommandShape DEF Execute, WireInv
  <2>2. /\ Len(applied) \in Nat /\ DOMAIN applied = 1..Len(applied)
        /\ \A i \in DOMAIN applied : i \in DOMAIN applied' /\ applied'[i] = applied[i]
        /\ applied'[Len(applied) + 1] = c
        /\ \A i \in DOMAIN applied' : i \in DOMAIN applied \/ i = Len(applied) + 1
    BY <2>1, AppendShape DEF PlaceInv
  <2>3. \A i, j \in DOMAIN applied' : applied'[i] = applied'[j] => i = j
    BY <2>1, <2>2 DEF SequenceInv, Executed
  <2>4. ASSUME NEW j \in DOMAIN applied', NEW d \in Program(applied'[j][1]), Precedes(d, applied'[j])
        PROVE  \E i \in 1..j - 1 : applied'[i] = d
    <3>1. CASE j \in DOMAIN applied
      <4>1. applied'[j] = applied[j]
        BY <2>2, <3>1
      <4>2. PICK i \in 1..j - 1 : applied[i] = d
        BY <2>4, <3>1, <4>1 DEF SequenceInv
      <4>3. i \in DOMAIN applied
        BY <2>2, <3>1
      <4> QED
        BY <2>2, <4>2, <4>3
    <3>2. CASE j = Len(applied) + 1
      <4>1. Executed(d)
        BY <2>1, <2>2, <2>4, <3>2 DEF PlaceInv
      <4>2. PICK i \in DOMAIN applied : applied[i] = d
        BY <4>1 DEF Executed
      <4>3. i \in 1..j - 1
        BY <2>2, <3>2
      <4> QED
        BY <2>2, <4>2, <4>3
    <3> QED
      BY <2>2, <3>1, <3>2
  <2> QED
    BY <2>3, <2>4 DEF SequenceInv
<1>2. CASE UNCHANGED applied
  BY <1>2 DEF SequenceInv
<1>3. (\E r \in Requests : Begin(r) \/ Proceed(r)) => UNCHANGED applied
  BY CallFrame
<1>4. (\E c \in wire : Refuse(c)) \/ Tick \/ ChromeEnds \/ ConnectionLost \/ Cancel
      \/ UNCHANGED vars => UNCHANGED applied
  BY DEF Refuse, Tick, ChromeEnds, ConnectionLost, Cancel, vars, devtools
<1> QED
  BY <1>1, <1>2, <1>3, <1>4 DEF Next

-----------------------------------------------------------------------------
(* What comes between two commands of a run.                               *)

(* The only step that executes anything executes a command at the place of *)
(* its request, which has sent it; every other step leaves the history.    *)
LEMMA ExecutesOne ==
    ASSUME IInv, WireInv, PlaceInv, [Next]_vars
    PROVE  \/ UNCHANGED applied
           \/ \E q \in Requests :
                 /\ Sent(q) /\ UNCHANGED <<pc, run, at, answer, journal>>
                 /\ Command(q) \in Commands /\ applied' = Append(applied, Command(q))
<1>1. ASSUME NEW c \in wire, Execute(c)
      PROVE  \E q \in Requests :
                /\ Sent(q) /\ UNCHANGED <<pc, run, at, answer, journal>>
                /\ Command(q) \in Commands /\ applied' = Append(applied, Command(q))
  <2>1. c \in Commands /\ c = Command(c[1]) /\ Sent(c[1]) /\ c[1] \in Requests
    BY CommandShape DEF WireInv
  <2>2. applied' = Append(applied, c)
    BY <1>1 DEF Execute
  <2>3. UNCHANGED <<pc, run, at, answer, journal>>
    BY <1>1, OutsideFrame
  <2> QED
    BY <2>1, <2>2, <2>3
<1>2. (\E r \in Requests : Begin(r) \/ Proceed(r)) => UNCHANGED applied
  BY CallFrame
<1>3. (\E c \in wire : Refuse(c)) \/ Tick \/ ChromeEnds \/ ConnectionLost \/ Cancel
      \/ UNCHANGED vars => UNCHANGED applied
  BY DEF Refuse, Tick, ChromeEnds, ConnectionLost, Cancel, vars, devtools
<1> QED
  BY <1>1, <1>2, <1>3 DEF Next

(* How a run ended does not change any more.                               *)
LEMMA EndStays ==
    ASSUME IInv, StageInv, [Next]_vars, NEW q \in Requests, NEW k
    PROVE  /\ Failed(q, k) => Failed(q, k)'
           /\ answer[q] = "error" =>
                 answer'[q] = "error" /\ run'[q] = run[q] /\ at'[q] = at[q]
           /\ k \in Nat /\ Succeeded(q, k) => Succeeded(q, k)'
<1>1. CASE Begin(q) \/ Proceed(q)
  <2>1. answer[q] = "none"
    BY <1>1 DEF Begin, Proceed, Acquire, Issue, Advance, Finish, Fail, MayFail, StageInv
  <2>2. run'[q] = run[q] \/ run'[q] = run[q] + 1
    BY <1>1 DEF Begin, Proceed, Acquire, Issue, Advance, Finish, Fail, session, IInv, TypeOK
  <2> QED
    BY <2>1, <2>2 DEF Failed, Succeeded, IInv, TypeOK
<1>2. CASE UNCHANGED <<run, at, answer>>
  BY <1>2 DEF Failed, Succeeded
<1>3. ASSUME NEW r \in Requests, r # q, Begin(r) \/ Proceed(r)
      PROVE  run'[q] = run[q] /\ at'[q] = at[q] /\ answer'[q] = answer[q]
  BY <1>3, CallFrame
<1>4. \/ \E c \in wire : Execute(c) \/ Refuse(c)
      \/ Tick \/ ChromeEnds \/ ConnectionLost \/ Cancel \/ UNCHANGED vars
      => UNCHANGED <<run, at, answer>>
  BY OutsideFrame
<1> QED
  BY <1>1, <1>2, <1>3, <1>4 DEF Next, Failed, Succeeded

(* Nor does the place of a request whose caller has given up.              *)
LEMMA LateStays ==
    ASSUME IInv, StageInv, [Next]_vars, NEW m \in DOMAIN applied, applied'[m] = applied[m],
           applied[m][1] \in Requests, Late(applied[m])
    PROVE  Late(applied[m])'
<1> DEFINE q == applied[m][1]
<1>1. answer[q] = "error" /\ applied[m] = Command(q)
  BY DEF Late
<1>2. answer'[q] = "error" /\ run'[q] = run[q] /\ at'[q] = at[q]
  BY <1>1, EndStays
<1> QED
  BY <1>1, <1>2 DEF Late, Command

(* A call gets inside before its first command, or was inside before.      *)
LEMMA InsideBefore ==
    ASSUME IInv, StageInv, WireInv, PlaceInv, [Next]_vars, NEW r \in Requests, Inside(r)'
    PROVE  /\ run'[r] = run[r] /\ answer[r] = "none"
           /\ Inside(r) \/ \A i \in DOMAIN applied : ~Current(r, applied[i])
<1>1. CASE Begin(r) \/ Proceed(r)
  <2>1. run'[r] = run[r] /\ answer[r] = "none"
    BY <1>1 DEF Begin, Proceed, Acquire, Issue, Advance, Finish, Fail, Inside, session,
                StageInv, IInv, TypeOK
  <2>2. CASE Acquire(r)
    <3>1. pc[r] = "queued" /\ at[r] = 0 /\ answer[r] = "none"
      BY <2>1, <2>2 DEF Acquire, StageInv
    <3>2. ~Executed(Command(r))
      BY <3>1 DEF PlaceInv, Sent
    <3>3. ASSUME NEW i \in DOMAIN applied, Current(r, applied[i]) PROVE FALSE
      <4>1. applied[i] \in Program(r) /\ applied[i][1] = r /\ applied[i][2] = run[r]
        BY <3>3, CommandShape DEF PlaceInv, Current
      <4>2. applied[i][3] \in Nat /\ applied[i][3] >= 1
        BY <4>1, ProgramShape
      <4>3. ~Precedes(applied[i], Command(r))
        BY <3>1, <4>1, <4>2, PlaceShape DEF Precedes
      <4> QED
        BY <3>2, <4>1, <4>3 DEF PlaceInv, Executed
    <3> QED
      BY <2>1, <3>3
  <2>3. CASE ~Acquire(r)
    <3>1. Inside(r)
      BY <1>1, <2>3 DEF Begin, Proceed, Issue, Advance, Finish, Fail, Inside, IInv, TypeOK
    <3> QED
      BY <2>1, <3>1
  <2> QED
    BY <2>2, <2>3
<1>2. CASE UNCHANGED <<pc, run>>
  BY <1>2 DEF Inside, StageInv
<1>3. ASSUME NEW q \in Requests, q # r, Begin(q) \/ Proceed(q)
      PROVE  run'[r] = run[r] /\ pc'[r] = pc[r]
  BY <1>3, CallFrame
<1>4. \/ \E c \in wire : Execute(c) \/ Refuse(c)
      \/ Tick \/ ChromeEnds \/ ConnectionLost \/ Cancel \/ UNCHANGED vars
      => UNCHANGED <<pc, run>>
  BY OutsideFrame
<1> QED
  BY <1>1, <1>2, <1>3, <1>4 DEF Next, Inside, StageInv

(* Two requests are not inside at once.                                    *)
LEMMA OneInside ==
    ASSUME MuInv, NEW q \in Requests, NEW r \in Requests, Inside(q), Inside(r)
    PROVE  q = r
BY DEF MuInv

LEMMA UndisturbedStep ==
    ASSUME IInv, StageInv, WireInv, PlaceInv, UndisturbedInv, [Next]_vars
    PROVE  UndisturbedInv'
<1> SUFFICES ASSUME NEW r \in Requests, Inside(r)',
                    NEW i \in DOMAIN applied', NEW m \in DOMAIN applied', i < m,
                    Current(r, applied[i])', ~Current(r, applied[m])'
             PROVE  Late(applied[m])'
  BY DEF UndisturbedInv
<1>0. /\ run'[r] = run[r]
      /\ Inside(r) \/ \A n \in DOMAIN applied : ~Current(r, applied[n])
  BY InsideBefore
<1>1. Current(r, applied'[i]) /\ ~Current(r, applied'[m])
  BY <1>0 DEF Current
<1>2. ASSUME i \in DOMAIN applied, m \in DOMAIN applied,
             applied'[i] = applied[i], applied'[m] = applied[m]
      PROVE  Late(applied[m])'
  <2>1. Late(applied[m]) /\ applied[m][1] \in Requests
    BY <1>0, <1>1, <1>2, CommandShape DEF UndisturbedInv, PlaceInv
  <2> QED
    BY <1>2, <2>1, LateStays
<1>3. ASSUME NEW q \in Requests, Sent(q), UNCHANGED <<pc, run, at, answer>>,
             Command(q) \in Commands, applied' = Append(applied, Command(q))
      PROVE  Late(applied[m])'
  <2>1. /\ Len(applied) \in Nat /\ DOMAIN applied = 1..Len(applied)
        /\ \A n \in DOMAIN applied : applied'[n] = applied[n]
        /\ applied'[Len(applied) + 1] = Command(q)
        /\ \A n \in DOMAIN applied' : n \in DOMAIN applied \/ n = Len(applied) + 1
    BY <1>3, AppendShape DEF PlaceInv
  <2>2. i \in DOMAIN applied
    BY <2>1
  <2>3. CASE m \in DOMAIN applied
    BY <1>2, <2>1, <2>2, <2>3
  <2>4. CASE m = Len(applied) + 1
    <3>1. Inside(r)
      BY <1>0, <1>1, <2>1, <2>2
    <3>2. q # r
      BY <1>1, <2>1, <2>4, PlaceShape DEF Current
    <3>3. pc[q] # "waiting"
      BY <3>1, <3>2, OneInside DEF Inside, IInv
    <3>4. answer[q] = "error"
      BY <1>3, <3>3 DEF Sent
    <3> QED
      BY <1>3, <2>1, <2>4, <3>4 DEF Late, Command
  <2> QED
    BY <2>1, <2>3, <2>4
<1>4. CASE UNCHANGED applied
  BY <1>2, <1>4
<1> QED
  BY <1>3, <1>4, ExecutesOne

LEMMA ForeignStep ==
    ASSUME IInv, StageInv, WireInv, PlaceInv, UndisturbedInv, ForeignOnlyLate, WireInv',
           [Next]_vars
    PROVE  ForeignOnlyLate'
<1>1. ASSUME NEW c \in wire', NEW d \in wire', c[1] = d[1] PROVE c = d
  <2>1. (c = Command(c[1]) /\ d = Command(d[1]))'
    BY <1>1 DEF WireInv
  <2> QED
    BY <1>1, <2>1
<1>2. ASSUME NEW i \in DOMAIN applied', NEW j \in DOMAIN applied', NEW m \in DOMAIN applied',
             i < m, m < j,
             applied'[j][1] = applied'[i][1], applied'[j][2] = applied'[i][2],
             ~Failed(applied[i][1], applied[i][2])',
             <<applied'[m][1], applied'[m][2]>> # <<applied'[i][1], applied'[i][2]>>
      PROVE  Late(applied[m])'
  <2>0. \A q \in Requests : \A k : Failed(q, k) => Failed(q, k)'
    BY EndStays
  <2>1. ASSUME i \in DOMAIN applied, m \in DOMAIN applied,
               applied'[i] = applied[i], applied'[m] = applied[m]
        PROVE  /\ ~Failed(applied[i][1], applied[i][2])
               /\ Late(applied[m]) => Late(applied[m])'
    <3>1. applied[i][1] \in Requests /\ applied[m][1] \in Requests
      BY <2>1, CommandShape DEF PlaceInv
    <3>2. ASSUME NEW q, NEW k PROVE Failed(q, k)' <=> (k = run'[q] /\ answer'[q] = "error")
      BY DEF Failed
    <3>3. ~(applied[i][2] = run'[applied[i][1]] /\ answer'[applied[i][1]] = "error")
      BY <1>2, <2>1 DEF Failed
    <3>4. ~Failed(applied[i][1], applied[i][2])
      BY <2>0, <3>1, <3>2, <3>3
    <3>5. Late(applied[m]) => Late(applied[m])'
      BY <2>1, <3>1, LateStays
    <3> QED
      BY <3>4, <3>5
  <2>2. CASE UNCHANGED applied
    BY <1>2, <2>1, <2>2 DEF ForeignOnlyLate
  <2>3. ASSUME NEW q \in Requests, Sent(q), UNCHANGED <<pc, run, at, answer>>,
               Command(q) \in Commands, applied' = Append(applied, Command(q))
        PROVE  Late(applied[m])'
    <3>1. /\ Len(applied) \in Nat /\ DOMAIN applied = 1..Len(applied)
          /\ \A n \in DOMAIN applied : applied'[n] = applied[n]
          /\ applied'[Len(applied) + 1] = Command(q)
          /\ \A n \in DOMAIN applied' : n \in DOMAIN applied \/ n = Len(applied) + 1
      BY <2>3, AppendShape DEF PlaceInv
    <3>2. /\ i \in DOMAIN applied /\ m \in DOMAIN applied
          /\ applied'[i] = applied[i] /\ applied'[m] = applied[m]
      BY <1>2, <3>1
    <3>3. ~Failed(applied[i][1], applied[i][2])
      BY <2>1, <3>2
    <3>4. Late(applied[m])
      <4>1. CASE j \in DOMAIN applied
        BY <1>2, <3>1, <3>2, <3>3, <4>1 DEF ForeignOnlyLate
      <4>2. CASE j = Len(applied) + 1
        <5>1. applied[i][1] = q /\ applied[i][2] = run[q]
          BY <1>2, <3>1, <3>2, <4>2, PlaceShape
        <5>2. Inside(q)
          BY <2>3, <3>3, <5>1 DEF Sent, Failed, Inside
        <5>3. Current(q, applied[i]) /\ ~Current(q, applied[m])
          BY <1>2, <3>2, <5>1 DEF Current
        <5> QED
          BY <1>2, <3>2, <5>2, <5>3 DEF UndisturbedInv
      <4> QED
        BY <3>1, <4>1, <4>2
    <3> QED
      BY <2>1, <3>2, <3>4
  <2> QED
    BY <2>2, <2>3, ExecutesOne
<1> QED
  BY <1>1, <1>2 DEF ForeignOnlyLate

-----------------------------------------------------------------------------
(* The success lines.                                                      *)

(* The log is given a line by the call that finishes, which is inside.     *)
LEMMA JournalGrows ==
    ASSUME IInv, StageInv, [Next]_vars
    PROVE  \/ UNCHANGED journal
           \/ \E r \in Requests :
                 /\ Inside(r) /\ UNCHANGED applied
                 /\ journal' = Append(journal, <<r, run[r]>>)
                 /\ run[r] < run'[r] \/ (answer'[r] = "ok" /\ run'[r] = run[r])
                 /\ \A q \in Requests : ~Inside(q)'
<1>1. ASSUME NEW r \in Requests, Finish(r)
      PROVE  /\ Inside(r) /\ UNCHANGED applied
             /\ journal' = Append(journal, <<r, run[r]>>)
             /\ run[r] < run'[r] \/ (answer'[r] = "ok" /\ run'[r] = run[r])
             /\ \A q \in Requests : ~Inside(q)'
  <2>1. Inside(r) /\ UNCHANGED applied /\ journal' = Append(journal, <<r, run[r]>>)
    BY <1>1 DEF Finish, Inside, devtools
  <2>2. run[r] < run'[r] \/ (answer'[r] = "ok" /\ run'[r] = run[r])
    BY <1>1 DEF Finish, IInv, TypeOK
  <2>3. ~Inside(r)'
    BY <1>1 DEF Finish, Inside, IInv, TypeOK
  <2>4. \A q \in Requests \ {r} : pc'[q] = pc[q]
    BY <1>1, CallFrame DEF Proceed
  <2> QED
    BY <2>1, <2>2, <2>3, <2>4, OneInside DEF Inside, IInv
<1>2. ASSUME NEW r \in Requests, Begin(r) \/ Acquire(r) \/ Issue(r) \/ Advance(r) \/ Fail(r)
      PROVE  UNCHANGED journal
  BY <1>2 DEF Begin, Acquire, Issue, Advance, Fail
<1> QED
  BY <1>1, <1>2, OutsideFrame DEF Next, Proceed

(* The lines so far and the lines to come.                                 *)
LEMMA JournalShape ==
    ASSUME IInv, journal \in Seq(Requests \X Nat), NEW r \in Requests,
           journal' = Append(journal, <<r, run[r]>>)
    PROVE  /\ journal' \in Seq(Requests \X Nat)
           /\ Len(journal) \in Nat /\ DOMAIN journal = 1..Len(journal)
           /\ \A i \in DOMAIN journal : i \in DOMAIN journal' /\ journal'[i] = journal[i]
           /\ journal'[Len(journal) + 1] = <<r, run[r]>>
           /\ \A i \in DOMAIN journal' : i \in DOMAIN journal \/ i = Len(journal) + 1
BY PlaceShape

LEMMA JournalStep ==
    ASSUME IInv, StageInv, WireInv, PlaceInv, JournalInv, [Next]_vars
    PROVE  JournalInv'
<1>1. /\ journal' \in Seq(Requests \X Nat)
      /\ \A i \in DOMAIN journal' : Succeeded(journal[i][1], journal[i][2])'
  <2>0. \A q \in Requests : \A k \in Nat : Succeeded(q, k) => Succeeded(q, k)'
    BY EndStays
  <2>1. ASSUME NEW i \in DOMAIN journal, journal'[i] = journal[i]
        PROVE  Succeeded(journal[i][1], journal[i][2])'
    <3>1. journal[i][1] \in Requests /\ journal[i][2] \in Nat
      BY DEF JournalInv
    <3>2. Succeeded(journal[i][1], journal[i][2])
      BY DEF JournalInv
    <3> QED
      BY <2>0, <2>1, <3>1, <3>2 DEF Succeeded
  <2>2. CASE UNCHANGED journal
    BY <2>1, <2>2 DEF JournalInv
  <2>3. ASSUME NEW r \in Requests, journal' = Append(journal, <<r, run[r]>>),
               run[r] < run'[r] \/ (answer'[r] = "ok" /\ run'[r] = run[r])
        PROVE  /\ journal' \in Seq(Requests \X Nat)
               /\ \A i \in DOMAIN journal' : Succeeded(journal[i][1], journal[i][2])'
    <3>1. /\ journal' \in Seq(Requests \X Nat)
          /\ \A i \in DOMAIN journal : journal'[i] = journal[i]
          /\ journal'[Len(journal) + 1] = <<r, run[r]>>
          /\ \A i \in DOMAIN journal' : i \in DOMAIN journal \/ i = Len(journal) + 1
      BY <2>3, JournalShape DEF JournalInv
    <3> QED
      BY <2>1, <2>3, <3>1 DEF Succeeded
  <2> QED
    BY <2>2, <2>3, JournalGrows
<1>2. ASSUME NEW i \in DOMAIN journal', NEW r \in Requests,
             NEW m \in DOMAIN applied', NEW n \in DOMAIN applied', Inside(r)',
             applied'[m][1] = journal'[i][1], applied'[m][2] = journal'[i][2],
             Current(r, applied[n])'
      PROVE  m < n
  <2>1. UNCHANGED journal
    BY <1>2, JournalGrows
  <2>2. /\ run'[r] = run[r] /\ Current(r, applied'[n])
        /\ Inside(r) \/ \A a \in DOMAIN applied : ~Current(r, applied[a])
    BY <1>2, InsideBefore DEF Current
  <2>3. ASSUME m \in DOMAIN applied, n \in DOMAIN applied,
               applied'[m] = applied[m], applied'[n] = applied[n]
        PROVE  m < n
    BY <1>2, <2>1, <2>2, <2>3 DEF JournalInv
  <2>4. ASSUME NEW q \in Requests, Sent(q), Command(q) \in Commands,
               applied' = Append(applied, Command(q))
        PROVE  m < n
    <3>1. /\ Len(applied) \in Nat /\ DOMAIN applied = 1..Len(applied)
          /\ \A a \in DOMAIN applied : applied'[a] = applied[a]
          /\ applied'[Len(applied) + 1] = Command(q)
          /\ \A a \in DOMAIN applied' : a \in DOMAIN applied \/ a = Len(applied) + 1
      BY <2>4, AppendShape DEF PlaceInv
    <3>2. m # Len(applied) + 1
      <4>1. ASSUME m = Len(applied) + 1 PROVE Succeeded(q, run[q])
        BY <1>2, <2>1, <3>1, <4>1, PlaceShape DEF JournalInv
      <4>2. ~Succeeded(q, run[q])
        BY <2>4, PlaceShape DEF Succeeded, Sent, StageInv
      <4> QED
        BY <4>1, <4>2
    <3>3. m \in DOMAIN applied
      BY <3>1, <3>2
    <3> QED
      BY <2>3, <3>1, <3>3
  <2> QED
    BY <2>3, <2>4, ExecutesOne
<1> QED
  BY <1>1, <1>2 DEF JournalInv

(* A new line stands for the run that is under way, whose commands come    *)
(* after those of all runs with a line.                                    *)
LEMMA LinesStep ==
    ASSUME IInv, StageInv, WireInv, PlaceInv, JournalInv, SuccessLinesInOrder, JournalInv',
           [Next]_vars
    PROVE  SuccessLinesInOrder'
<1> SUFFICES ASSUME NEW i \in DOMAIN journal', NEW j \in DOMAIN journal',
                    NEW m \in DOMAIN applied', NEW n \in DOMAIN applied', i < j,
                    applied'[m][1] = journal'[i][1], applied'[m][2] = journal'[i][2],
                    applied'[n][1] = journal'[j][1], applied'[n][2] = journal'[j][2]
             PROVE  m < n
  BY DEF SuccessLinesInOrder
<1>1. ASSUME NEW r \in Requests, Inside(r), UNCHANGED applied,
             journal' = Append(journal, <<r, run[r]>>)
      PROVE  m < n
  <2>1. /\ Len(journal) \in Nat /\ DOMAIN journal = 1..Len(journal)
        /\ \A a \in DOMAIN journal : journal'[a] = journal[a]
        /\ journal'[Len(journal) + 1] = <<r, run[r]>>
        /\ \A a \in DOMAIN journal' : a \in DOMAIN journal \/ a = Len(journal) + 1
    BY <1>1, JournalShape DEF JournalInv
  <2>2. i \in DOMAIN journal
    BY <2>1
  <2>3. CASE j \in DOMAIN journal
    BY <1>1, <2>1, <2>2, <2>3 DEF SuccessLinesInOrder
  <2>4. CASE j = Len(journal) + 1
    <3>1. Current(r, applied[n])
      BY <1>1, <2>1, <2>4 DEF Current
    <3> QED
      BY <1>1, <2>1, <2>2, <3>1 DEF JournalInv
  <2> QED
    BY <2>1, <2>3, <2>4
<1>2. CASE UNCHANGED journal
  <2>1. CASE UNCHANGED applied
    BY <1>2, <2>1 DEF SuccessLinesInOrder
  <2>2. ASSUME NEW q \in Requests, Sent(q), Command(q) \in Commands,
               applied' = Append(applied, Command(q))
        PROVE  m < n
    <3>1. /\ Len(applied) \in Nat /\ DOMAIN applied = 1..Len(applied)
          /\ \A a \in DOMAIN applied : applied'[a] = applied[a]
          /\ applied'[Len(applied) + 1] = Command(q)
          /\ \A a \in DOMAIN applied' : a \in DOMAIN applied \/ a = Len(applied) + 1
      BY <2>2, AppendShape DEF PlaceInv
    <3>2. ~Succeeded(q, run[q])
      BY <2>2, PlaceShape DEF Succeeded, Sent, StageInv
    <3>3. m # Len(applied) + 1 /\ n # Len(applied) + 1
      <4>0. /\ Command(q)[1] = q /\ Command(q)[2] = run[q]
            /\ i \in DOMAIN journal /\ j \in DOMAIN journal
            /\ journal'[i] = journal[i] /\ journal'[j] = journal[j]
        BY <1>2, PlaceShape
      <4>1. ASSUME m = Len(applied) + 1 PROVE Succeeded(q, run[q])
        BY <3>1, <4>0, <4>1 DEF JournalInv
      <4>2. ASSUME n = Len(applied) + 1 PROVE Succeeded(q, run[q])
        BY <3>1, <4>0, <4>2 DEF JournalInv
      <4> QED
        BY <3>2, <4>1, <4>2
    <3> QED
      BY <1>2, <3>1, <3>3 DEF SuccessLinesInOrder
  <2> QED
    BY <2>1, <2>2, ExecutesOne
<1> QED
  BY <1>1, <1>2, JournalGrows

-----------------------------------------------------------------------------
(* The theorems.                                                           *)

LEMMA OrderInit == Init => OrderInv
<1> SUFFICES ASSUME Init PROVE OrderInv
  OBVIOUS
<1>0. /\ wire = {} /\ applied = <<>> /\ journal = <<>>
      /\ applied \in Seq(Commands) /\ journal \in Seq(Requests \X Nat)
      /\ DOMAIN applied = {} /\ DOMAIN journal = {}
  BY DEF Init
<1>1. StageInv
  BY DEF Init, StageInv
<1>2. WireInv /\ SequenceInv /\ UndisturbedInv /\ ForeignOnlyLate /\ JournalInv /\ SuccessLinesInOrder
  BY <1>0 DEF WireInv, SequenceInv, UndisturbedInv, ForeignOnlyLate, JournalInv, SuccessLinesInOrder
<1>3. PlaceInv
  <2>1. ASSUME NEW r \in Requests, NEW c \in Program(r) PROVE ~Precedes(c, Command(r))
    <3>1. Command(r)[2] = 1 /\ Command(r)[3] = 1
      BY DEF Command, Init
    <3>2. c[2] \in DOMAIN Runs[r] /\ c[3] \in Nat /\ c[3] >= 1
      BY ProgramShape
    <3>3. c[2] \in Nat /\ c[2] >= 1
      <4>1. Runs[r] \in Seq(Nat)
        BY BrowserAssumption DEF BrowserAssumption
      <4> QED
        BY <3>2, <4>1
    <3> QED
      BY <3>1, <3>2, <3>3 DEF Precedes
  <2>2. \A c : ~Executed(c)
    BY <1>0 DEF Executed
  <2>3. \A r \in Requests : pc[r] # "waiting"
    BY DEF Init
  <2> QED
    BY <1>0, <2>1, <2>2, <2>3 DEF PlaceInv
<1> QED
  BY <1>1, <1>2, <1>3 DEF OrderInv

LEMMA OrderInvariance == Spec => [](IInv /\ OrderInv)
<1>1. Init => IInv /\ OrderInv
  BY InitInv, OrderInit
<1>2. IInv /\ OrderInv /\ [Next]_vars /\ IInv' => OrderInv'
  <2> SUFFICES ASSUME IInv, OrderInv, [Next]_vars PROVE OrderInv'
    OBVIOUS
  <2>1. StageInv' /\ WireInv' /\ PlaceInv' /\ SequenceInv'
    BY StageStep, WireStep, PlaceStep, SequenceStep DEF OrderInv
  <2>2. UndisturbedInv' /\ ForeignOnlyLate'
    BY <2>1, UndisturbedStep, ForeignStep DEF OrderInv
  <2>3. JournalInv' /\ SuccessLinesInOrder'
    <3>1. JournalInv'
      BY JournalStep DEF OrderInv
    <3> QED
      BY <3>1, LinesStep DEF OrderInv
  <2> QED
    BY <2>1, <2>2, <2>3 DEF OrderInv
<1> QED
  BY <1>1, <1>2, Invariance, PTL DEF Spec

(* Chrome executes the commands of a request in program order, none twice  *)
(* and none of a later call after a failed one; all of them have been      *)
(* executed when a run returns nil (browser.go:809, handlers.go:325-379).  *)
THEOREM ProgramOrder == Spec => []AppliedInProgramOrder
<1>1. IInv /\ OrderInv => AppliedInProgramOrder
  <2> SUFFICES ASSUME IInv, StageInv, PlaceInv, SequenceInv PROVE AppliedInProgramOrder
    BY DEF OrderInv
  <2>1. \A j \in DOMAIN applied : applied[j] \in Program(applied[j][1])
    BY CommandShape DEF PlaceInv
  <2>2. ASSUME NEW r \in Requests, NEW c \in Program(r), Succeeded(r, c[2]) PROVE Executed(c)
    <3>1. /\ c[1] = r /\ c[2] \in DOMAIN Runs[r] /\ c[2] \in Nat /\ c[3] \in Nat
          /\ c[3] <= Runs[r][c[2]]
      <4>1. c = <<r, c[2], c[3]>>
        BY ProgramShape
      <4> QED
        BY <4>1, ProgramShape
    <3>2. Precedes(c, Command(r))
      <4>1. CASE c[2] < run[r]
        BY <3>1, <4>1, PlaceShape DEF Precedes
      <4>2. CASE answer[r] = "ok"
        <5>1. run[r] = Len(Runs[r]) /\ at[r] = Runs[r][run[r]]
          BY <4>2, PlaceShape DEF StageInv
        <5>2. c[2] <= run[r]
          <6>1. Runs[r] \in Seq(Nat)
            BY BrowserAssumption DEF BrowserAssumption
          <6> QED
            BY <3>1, <5>1, <6>1
        <5> QED
          BY <3>1, <5>1, <5>2, PlaceShape DEF Precedes
      <4> QED
        BY <2>2, <4>1, <4>2 DEF Succeeded
    <3> QED
      BY <3>2 DEF PlaceInv
  <2> QED
    BY <2>1, <2>2 DEF AppliedInProgramOrder, SequenceInv
<1> QED
  BY <1>1, OrderInvariance, PTL

(* Between two commands of a run that has not failed Chrome executes none  *)
(* but the late command of a caller that gave up, one for each such caller *)
(* (browser.go:816-822).                                                   *)
THEOREM RunsKeptApart == Spec => []ForeignOnlyLate
<1>1. OrderInv => ForeignOnlyLate
  BY DEF OrderInv
<1> QED
  BY <1>1, OrderInvariance, PTL

(* The success lines stand in the log in the order in which Chrome did the *)
(* work of their runs (browser.go:819-833).                                *)
THEOREM LinesInOrder == Spec => []SuccessLinesInOrder
<1>1. OrderInv => SuccessLinesInOrder
  BY DEF OrderInv
<1> QED
  BY <1>1, OrderInvariance, PTL
=============================================================================
