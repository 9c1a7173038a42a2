---------------------------- MODULE SimRigProofs ----------------------------
(***************************************************************************)
(* Theorems about SimRig, proved by TLAPS for every number of runs and     *)
(* actions and every set of faults.  The invariant follows an action on    *)
(* its way: from the loop into the adapter's mailbox, from there to the    *)
(* server's inbox, and from the inbox to the arm.                          *)
(***************************************************************************)
EXTENDS SimRig, TLAPS

\* What the arm has made of a run is what it was sent, up to the last action.
LogInOrder ==
  \A r \in Runs :
    /\ \A i \in 1..Len(log[r]) : log[r][i] = i
    /\ sent[r] - Len(log[r]) \in {0, 1}
    /\ r > run => sent[r] = 0

\* All of run r's actions have been made.
Settled(r) == Len(log[r]) = sent[r]

\* A run's last action, sent and not made.
Outstanding(j) ==
  /\ j \in Jobs
  /\ ~IsReset(j)
  /\ j[1] <= run
  /\ j[2] = sent[j[1]]
  /\ Len(log[j[1]]) = sent[j[1]] - 1

AtServer(j) == j \in inbox \/ busy = j

\* The calls of a mailbox, each of an action that is nowhere else.
Waiting(calls) ==
  \A i \in 1..Len(calls) :
    calls[i] # Observe =>
      /\ Outstanding(calls[i])
      /\ ~AtServer(calls[i])
      /\ job # calls[i]
      /\ \A k \in 1..Len(calls) : calls[k] = calls[i] => k = i

\* An action is in one place at a time until it is made.
OnePlace ==
  /\ Waiting(mailbox)
  /\ \A j \in Jobs : AtServer(j) /\ ~IsReset(j) => Outstanding(j)
  /\ \A j \in Jobs : AtServer(j) => j[1] <= run
  /\ busy \notin inbox

\* The processes of the sim node, seen from each other.
Together ==
  /\ loop = "off" <=> driver \in {"off", "starting"}
  /\ loop = "free" <=> driver = "between"
  /\ adapter = "busy" <=> job # NoJob
  /\ driver = "starting" => linked /\ job = <<run, 0>> /\ sent[run] = 0 /\ mailbox = <<>>
  /\ linked /\ driver = "off" => adapter = "off" /\ mailbox = <<>>

\* A loop sends its next action when the last one has been made.
LoopWaits == loop \in {"free", "observing"} => Settled(run)

\* The adapter's job is the last action of a run, and the one its loop awaits
\* if that run still lives; its reply comes after the arm has made it.
JobIsLast ==
  job # NoJob =>
    /\ IsReset(job) => driver = "starting"
    /\ ~IsReset(job) =>
         /\ job[1] <= run
         /\ job[2] = sent[job[1]]
         /\ job[1] = run => loop \in {"acting", "off"}
    /\ reply.to = job => ~AtServer(job)
    /\ reply.to = job /\ reply.ok /\ ~IsReset(job) => Settled(job[1])

\* What a good reply shows is the arm right after the request it answers.
ReplyShows ==
  job # NoJob /\ reply.to = job /\ reply.ok =>
    IF IsReset(job)
      THEN reply.shows = [origin |-> job, steps |-> <<>>]
      ELSE reply.shows.steps # <<>> /\ Last(reply.shows.steps) = job

\* An adapter that its run started serves no other.
OwnAdapter ==
  linked =>
    /\ \A i \in 1..Len(mailbox) : mailbox[i] # Observe => mailbox[i][1] = run
    /\ job # NoJob /\ driver # "starting" => job[1] = run /\ loop = "acting"

\* Its cached frame is the arm right after its loop's last action.
LastShows ==
  linked /\ loop \in {"free", "observing"} =>
    IF sent[run] = 0
      THEN last = [origin |-> <<run, 0>>, steps |-> <<>>]
      ELSE last.steps # <<>> /\ Last(last.steps) = <<run, sent[run]>>

DownHoldsNothing == ~up => inbox = {} /\ busy = NoJob

\* Unless a reset was left unread, a live run finds nothing but its own action
\* at the server, and no timer passes while that one is unread.
NothingLeftBehind ==
  linked /\ ~abandoned =>
    /\ inbox \subseteq {job} \ {NoJob}
    /\ job \in inbox => busy # job
    /\ job # NoJob /\ reply.to = job => inbox = {} /\ busy = NoJob
    /\ loop # "off" => busy \in {job, NoJob} /\ (inbox # {} => busy = NoJob)

RigInv ==
  /\ TypeOK
  /\ LogInOrder
  /\ OnePlace
  /\ Together
  /\ LoopWaits
  /\ JobIsLast
  /\ ReplyShows
  /\ OwnAdapter
  /\ LastShows
  /\ DownHoldsNothing
  /\ NothingLeftBehind

----------------------------------------------------------------------------
(* Requests, and the data they are stored in.                              *)

\* A request is told by its run and its number, and is neither of the marks.
LEMMA JobFacts ==
  /\ \A r \in Runs, n \in 0..MaxSteps :
       <<r, n>> \in Jobs /\ <<r, n>>[1] = r /\ <<r, n>>[2] = n
  /\ \A j \in Jobs : j[1] \in Runs /\ j[2] \in 0..MaxSteps /\ j = <<j[1], j[2]>>
  /\ NoJob \notin Jobs /\ Observe \notin Jobs /\ NoJob # Observe
BY RigAssumption DEF Jobs, Runs, NoJob, Observe

LEMMA RunFacts == 0 \in Runs /\ \A r \in Runs : r \in Int /\ r >= 0 /\ r <= MaxRuns
BY RigAssumption DEF Runs

\* A started arm is a state of the arm, and stays one with every move.
LEMMA ArmFacts ==
  /\ Unreset \in ArmStates
  /\ \A j \in Jobs : [origin |-> j, steps |-> <<>>] \in ArmStates
  /\ \A a \in ArmStates, j \in Jobs :
       /\ [a EXCEPT !.steps = Append(@, j)] \in ArmStates
       /\ Append(a.steps, j) # <<>>
       /\ Last(Append(a.steps, j)) = j
<1>1. Unreset \in ArmStates /\ \A j \in Jobs : [origin |-> j, steps |-> <<>>] \in ArmStates
  BY DEF Unreset, ArmStates
<1>2. ASSUME NEW a \in ArmStates, NEW j \in Jobs
      PROVE  /\ [a EXCEPT !.steps = Append(@, j)] \in ArmStates
             /\ Append(a.steps, j) # <<>>
             /\ Last(Append(a.steps, j)) = j
  <2>1. a.steps \in Seq(Jobs) /\ a \in [origin : Jobs \cup {NoJob}, steps : Seq(Jobs)]
    BY <1>2 DEF ArmStates
  <2>2. Append(a.steps, j) \in Seq(Jobs) /\ Len(Append(a.steps, j)) = Len(a.steps) + 1
        /\ Append(a.steps, j)[Len(a.steps) + 1] = j
    BY <2>1
  <2>3. [a EXCEPT !.steps = Append(@, j)] \in ArmStates
    BY <2>1, <2>2 DEF ArmStates
  <2> QED BY <2>1, <2>2, <2>3 DEF Last
<1> QED BY <1>1, <1>2

ReplyType == [ok : BOOLEAN, shows : ArmStates, to : Jobs \cup {NoJob}]

LEMMA ReplyFacts ==
  /\ NoReply \in ReplyType /\ NoReply.to = NoJob
  /\ \A ok \in BOOLEAN, a \in ArmStates, j \in Jobs : [ok |-> ok, shows |-> a, to |-> j] \in ReplyType
BY ArmFacts DEF NoReply, ReplyType

----------------------------------------------------------------------------
(* The initial states.                                                     *)

LEMMA InitInv == Init => RigInv
<1> SUFFICES ASSUME Init PROVE RigInv
  OBVIOUS
<1> USE DEF Init
<1>1. TypeOK
  <2>1. sent \in [Runs -> 0..MaxSteps] /\ log \in [Runs -> Seq(1..MaxSteps)]
    BY RigAssumption
  <2>2. run \in Runs
    BY RunFacts
  <2>3. <<0, 0>> \in Jobs
    BY JobFacts, RunFacts, RigAssumption
  <2>4. arm \in ArmStates /\ last \in ArmStates
    BY <2>3, ArmFacts
  <2>5. reply \in [ok : BOOLEAN, shows : ArmStates, to : Jobs \cup {NoJob}]
    BY ReplyFacts DEF ReplyType
  <2>6. mailbox \in Seq(Jobs \cup {Observe})
    OBVIOUS
  <2>7. linked \in BOOLEAN /\ up \in BOOLEAN /\ abandoned \in BOOLEAN
    OBVIOUS
  <2>8. /\ adapter \in {"off", "free", "busy"} /\ driver \in {"off", "starting", "between", "ticking"}
        /\ loop \in {"off", "free", "observing", "acting"}
        /\ job \in Jobs \cup {NoJob} /\ inbox \subseteq Jobs /\ busy \in Jobs \cup {NoJob}
    OBVIOUS
  <2> QED BY <2>1, <2>2, <2>4, <2>5, <2>6, <2>7, <2>8 DEF TypeOK
<1>2. LogInOrder
  BY RunFacts DEF LogInOrder
<1>3. OnePlace
  BY JobFacts DEF OnePlace, AtServer, Waiting
<1>4. Together /\ LoopWaits /\ JobIsLast /\ ReplyShows /\ DownHoldsNothing /\ NothingLeftBehind
  BY DEF Together, LoopWaits, JobIsLast, ReplyShows, DownHoldsNothing, NothingLeftBehind
<1>5. OwnAdapter /\ LastShows
  BY DEF OwnAdapter, LastShows
<1> QED BY <1>1, <1>2, <1>3, <1>4, <1>5 DEF RigInv

----------------------------------------------------------------------------
(* Each part of the invariant, over every step.                            *)

\* What an adapter's request or death does to its own variables.
LEMMA AskType ==
  ASSUME TypeOK, NEW j \in Jobs, Ask(j)
  PROVE  /\ adapter' \in {"off", "free", "busy"}
         /\ job' \in Jobs \cup {NoJob}
         /\ reply' \in ReplyType
         /\ inbox' \subseteq Jobs
BY ReplyFacts DEF TypeOK, Ask, ReplyType

LEMMA RunDiesType ==
  ASSUME TypeOK, RunDies
  PROVE  /\ adapter' \in {"off", "free", "busy"}
         /\ job' \in Jobs \cup {NoJob}
         /\ reply' \in ReplyType
         /\ mailbox' \in Seq(Jobs \cup {Observe})
         /\ driver' \in {"off", "starting", "between", "ticking"}
         /\ loop' \in {"off", "free", "observing", "acting"}
<1>1. mailbox' \in Seq(Jobs \cup {Observe})
  <2>1. mailbox' = <<>> \/ mailbox' = mailbox
    BY DEF RunDies
  <2>2. mailbox \in Seq(Jobs \cup {Observe})
    BY DEF TypeOK
  <2>3. CASE mailbox' = <<>>
    BY <2>3
  <2>4. CASE mailbox' = mailbox
    BY <2>2, <2>4
  <2> QED BY <2>1, <2>3, <2>4
<1>2. reply' \in ReplyType
  BY ReplyFacts DEF TypeOK, RunDies, ReplyType
<1> QED BY <1>1, <1>2 DEF TypeOK, RunDies

\* The next action of a run's loop is a request.
LEMMA NextAction ==
  ASSUME TypeOK, sent[run] < MaxSteps
  PROVE  /\ <<run, sent[run] + 1>> \in Jobs
         /\ [sent EXCEPT ![run] = @ + 1] \in [Runs -> 0..MaxSteps]
         /\ <<run, sent[run] + 1>>[1] = run
         /\ <<run, sent[run] + 1>>[2] = sent[run] + 1
<1>1. sent[run] + 1 \in 0..MaxSteps
  BY RigAssumption DEF TypeOK
<1> QED BY <1>1, JobFacts DEF TypeOK

LEMMA TypeStep == TypeOK /\ Next => TypeOK'
<1> SUFFICES ASSUME TypeOK, Next PROVE TypeOK'
  OBVIOUS
<1>a. linked' \in BOOLEAN /\ abandoned' \in BOOLEAN
  <2>1. linked' = linked /\ abandoned' \in BOOLEAN
    BY DEF Next, Beside
  <2> QED BY <2>1 DEF TypeOK
<1> DEFINE Rest == /\ run' \in Runs
                   /\ sent' \in [Runs -> 0..MaxSteps]
                   /\ driver' \in {"off", "starting", "between", "ticking"}
                   /\ loop' \in {"off", "free", "observing", "acting"}
                   /\ adapter' \in {"off", "free", "busy"}
                   /\ job' \in Jobs \cup {NoJob}
                   /\ mailbox' \in Seq(Jobs \cup {Observe})
                   /\ last' \in ArmStates
                   /\ up' \in BOOLEAN
                   /\ inbox' \subseteq Jobs
                   /\ busy' \in Jobs \cup {NoJob}
                   /\ reply' \in ReplyType
                   /\ arm' \in ArmStates
                   /\ log' \in [Runs -> Seq(1..MaxSteps)]
<1>b. reply \in ReplyType
  BY DEF TypeOK, ReplyType
<1> SUFFICES Rest
  BY <1>a DEF TypeOK, ReplyType
<1>1. CASE Start
  <2>1. run' \in Runs /\ <<run', 0>> \in Jobs
    <3>1. run' \in Runs
      BY <1>1, RigAssumption DEF Start, TypeOK, Runs
    <3> QED BY <3>1, JobFacts, RigAssumption
  <2>2. CASE linked
    BY <1>1, <2>1, <2>2, AskType DEF Start, TypeOK
  <2>3. CASE ~linked
    BY <1>1, <1>b, <2>1, <2>3 DEF Start, TypeOK
  <2> QED BY <2>2, <2>3
<1>2. CASE Started
  BY <1>2, <1>b, ReplyFacts DEF Started, TypeOK, ReplyType
<1>3. CASE StartFails \/ WaiterTimesOut
  BY <1>3, RunDiesType DEF StartFails, WaiterTimesOut, TypeOK
<1>4. CASE TickObserving
  BY <1>4, <1>b DEF TickObserving, TypeOK, simVars
<1>5. CASE TickActing
  BY <1>5, <1>b, NextAction DEF TickActing, Actuate, TypeOK, simVars
<1>6. CASE AdapterObserves
  <2>1. Tail(mailbox) \in Seq(Jobs \cup {Observe})
    BY <1>6 DEF AdapterObserves, TypeOK
  <2>2. /\ sent' \in [Runs -> 0..MaxSteps] /\ mailbox' \in Seq(Jobs \cup {Observe})
        /\ driver' \in {"off", "starting", "between", "ticking"}
        /\ loop' \in {"off", "free", "observing", "acting"}
    <3>1. CASE sent[run] < MaxSteps
      <4>1. Append(Tail(mailbox), <<run, sent[run] + 1>>) \in Seq(Jobs \cup {Observe})
        BY <2>1, <3>1, NextAction
      <4> QED BY <1>6, <2>1, <3>1, <4>1, NextAction DEF AdapterObserves, TickEnds, TypeOK
    <3>2. CASE ~(sent[run] < MaxSteps)
      BY <1>6, <2>1, <3>2 DEF AdapterObserves, TickEnds, TypeOK
    <3> QED BY <3>1, <3>2
  <2> QED BY <1>6, <1>b, <2>2 DEF AdapterObserves, TypeOK, simVars
<1>7. CASE AdapterActs
  <2>1. Tail(mailbox) \in Seq(Jobs \cup {Observe}) /\ Head(mailbox) \in Jobs
    BY <1>7 DEF AdapterActs, TypeOK
  <2> QED BY <1>7, <2>1, AskType DEF AdapterActs, TypeOK
<1>8. CASE AdapterGetsReply
  BY <1>8, <1>b, ReplyFacts DEF AdapterGetsReply, TickEnds, TypeOK, ReplyType
<1>9. CASE AdapterGivesUp
  BY <1>9, RunDiesType, ReplyFacts DEF AdapterGivesUp, TypeOK
<1>10. CASE \E j \in Jobs : Take(j)
  BY <1>10, <1>b DEF Take, procVars, TypeOK
<1>11. CASE \E ok \in BOOLEAN : CarryOut(ok)
  <2> PICK ok \in BOOLEAN : CarryOut(ok)
    BY <1>11
  <2>1. busy \in Jobs /\ Moved \in ArmStates
    BY ArmFacts DEF CarryOut, TypeOK, Moved
  <2>2. reply' \in ReplyType
    BY <1>b, <2>1, ReplyFacts DEF CarryOut, Answer
  <2>3. log' \in [Runs -> Seq(1..MaxSteps)]
    <3>1. ~IsReset(busy) => busy[1] \in Runs /\ busy[2] \in 1..MaxSteps
      BY <2>1, JobFacts, RigAssumption DEF IsReset
    <3>2. ~IsReset(busy) => Append(log[busy[1]], busy[2]) \in Seq(1..MaxSteps)
      BY <3>1 DEF TypeOK
    <3> QED BY <3>1, <3>2 DEF CarryOut, TypeOK
  <2> QED BY <2>1, <2>2, <2>3 DEF CarryOut, procVars, TypeOK
<1>12. CASE Reject
  <2>1. reply' \in ReplyType
    BY <1>12, <1>b, ReplyFacts DEF Reject, Answer, TypeOK
  <2> QED BY <1>12, <2>1 DEF Reject, procVars, TypeOK
<1>13. CASE Crash \/ Restart
  <2>1. reply' \in ReplyType
    BY <1>13, <1>b, ReplyFacts DEF Crash, Restart
  <2> QED BY <1>13, <2>1, ArmFacts DEF Crash, Restart, procVars, TypeOK
<1> HIDE DEF Rest
<1> QED
  BY <1>1, <1>2, <1>3, <1>4, <1>5, <1>6, <1>7, <1>8, <1>9, <1>10, <1>11, <1>12, <1>13 DEF Next, Step

\* The new last action of the current run, one more than those made.
LEMMA OrderStep == RigInv /\ Next => LogInOrder'
<1> SUFFICES ASSUME RigInv, Next PROVE LogInOrder'
  OBVIOUS
<1> USE DEF RigInv
<1>1. CASE UNCHANGED <<run, sent, log>>
  BY <1>1 DEF LogInOrder
<1>2. CASE Start
  <2>1. \A r \in Runs : r > run' => r > run
    BY <1>2, RunFacts DEF Start, TypeOK, Runs
  <2> QED BY <1>2, <2>1 DEF Start, LogInOrder
<1>3. CASE /\ LoopWaits /\ loop \in {"free", "observing"}
           /\ sent[run] < MaxSteps
           /\ sent' = [sent EXCEPT ![run] = @ + 1]
           /\ UNCHANGED <<run, log>>
  <2>1. run \in Runs /\ sent[run] \in Int /\ Len(log[run]) = sent[run]
    BY <1>3 DEF TypeOK, LoopWaits, Settled
  <2>2. ASSUME NEW r \in Runs
        PROVE  /\ \A i \in 1..Len(log'[r]) : log'[r][i] = i
               /\ sent'[r] - Len(log'[r]) \in {0, 1}
               /\ r > run' => sent'[r] = 0
    BY <1>3, <2>1, <2>2, RunFacts DEF LogInOrder, TypeOK
  <2> QED BY <2>2 DEF LogInOrder
<1>4. CASE \E ok \in BOOLEAN : CarryOut(ok)
  <2>1. UNCHANGED <<run, sent>> /\ busy \in Jobs
    BY <1>4 DEF CarryOut, TypeOK
  <2>2. CASE IsReset(busy)
    BY <1>4, <2>1, <2>2 DEF CarryOut, LogInOrder
  <2>3. CASE ~IsReset(busy)
    <3> DEFINE r == busy[1]
    <3>1. Outstanding(busy)
      BY <2>1, <2>3 DEF OnePlace, AtServer
    <3>2. /\ r \in Runs /\ busy[2] \in Int /\ log[r] \in Seq(1..MaxSteps)
          /\ busy[2] = Len(log[r]) + 1 /\ busy[2] = sent[r] /\ busy[2] \in 1..MaxSteps
      BY <2>1, <2>3, <3>1, JobFacts, RigAssumption DEF Outstanding, TypeOK, IsReset
    <3>3. log' = [log EXCEPT ![r] = Append(@, busy[2])]
      BY <1>4, <2>3 DEF CarryOut
    <3>4. ASSUME NEW q \in Runs
          PROVE  /\ \A i \in 1..Len(log'[q]) : log'[q][i] = i
                 /\ sent'[q] - Len(log'[q]) \in {0, 1}
                 /\ q > run' => sent'[q] = 0
      <4>1. CASE q = r
        <5>1. log'[q] = Append(log[q], busy[2])
          BY <3>2, <3>3, <4>1 DEF TypeOK
        <5>2. /\ Len(log'[q]) = Len(log[q]) + 1
              /\ \A i \in 1..Len(log'[q]) : log'[q][i] = IF i = Len(log[q]) + 1 THEN busy[2] ELSE log[q][i]
          BY <3>2, <4>1, <5>1
        <5>3. \A i \in 1..Len(log'[q]) : log'[q][i] = i
          <6> SUFFICES ASSUME NEW i \in 1..Len(log'[q]) PROVE log'[q][i] = i
            OBVIOUS
          <6>1. CASE i = Len(log[q]) + 1
            BY <3>2, <4>1, <5>2, <6>1
          <6>2. CASE i # Len(log[q]) + 1
            <7>1. i \in 1..Len(log[q])
              BY <3>2, <4>1, <5>2, <6>2
            <7> QED BY <5>2, <6>2, <7>1 DEF LogInOrder
          <6> QED BY <6>1, <6>2
        <5>4. sent'[q] - Len(log'[q]) \in {0, 1} /\ (q > run' => sent'[q] = 0)
          BY <2>1, <3>2, <4>1, <5>2 DEF LogInOrder
        <5> QED BY <5>3, <5>4
      <4>2. CASE q # r
        BY <2>1, <3>3, <4>2 DEF LogInOrder, TypeOK
      <4> QED BY <4>1, <4>2
    <3> QED BY <3>4 DEF LogInOrder
  <2> QED BY <2>2, <2>3
<1>5. CASE TickActing
  <2>1. loop = "free"
    BY <1>5 DEF TickActing, Together
  <2> QED BY <1>3, <1>5, <2>1 DEF TickActing, Actuate, simVars
<1>6. CASE AdapterObserves
  BY <1>1, <1>3, <1>6 DEF AdapterObserves, simVars
<1> QED
  BY <1>1, <1>2, <1>4, <1>5, <1>6
     DEF Next, Step, Started, StartFails, TickObserving, AdapterActs, AdapterGetsReply,
         AdapterGivesUp, WaiterTimesOut, Take, Reject, Crash, Restart, simVars

\* A mailbox whose first call is taken, or to which an observe call is added.
LEMMA WaitingTail ==
  ASSUME NEW calls \in Seq(Jobs \cup {Observe}), calls # <<>>, Waiting(calls)
  PROVE  /\ Waiting(Tail(calls))
         /\ Head(calls) # Observe =>
              /\ Outstanding(Head(calls)) /\ ~AtServer(Head(calls)) /\ job # Head(calls)
              /\ \A i \in 1..Len(Tail(calls)) : Tail(calls)[i] # Head(calls)
<1>1. /\ Len(Tail(calls)) = Len(calls) - 1 /\ Len(calls) \in Nat /\ Len(calls) > 0
      /\ \A i \in 1..Len(Tail(calls)) : i + 1 \in 1..Len(calls) /\ Tail(calls)[i] = calls[i + 1]
      /\ Head(calls) = calls[1] /\ 1 \in 1..Len(calls)
  OBVIOUS
<1>2. Waiting(Tail(calls))
  BY <1>1 DEF Waiting
<1>3. Head(calls) # Observe =>
        /\ Outstanding(Head(calls)) /\ ~AtServer(Head(calls)) /\ job # Head(calls)
        /\ \A i \in 1..Len(Tail(calls)) : Tail(calls)[i] # Head(calls)
  BY <1>1 DEF Waiting
<1> QED BY <1>2, <1>3

\* Requests that stay where they are, or are dropped, are where they were.
LEMMA PlaceKept ==
  ASSUME TypeOK, OnePlace, UNCHANGED <<run, sent, log>>,
         mailbox' \in {mailbox, <<>>}, inbox' \subseteq inbox, job' \in {job, NoJob},
         busy' \in {busy, NoJob} \cup (inbox \ inbox')
  PROVE  OnePlace'
<1>1. \A j \in Jobs : AtServer(j)' => AtServer(j)
  BY JobFacts DEF AtServer, TypeOK
<1>2. \A j : Outstanding(j)' <=> Outstanding(j)
  BY DEF Outstanding
<1>3. Waiting(mailbox)'
  <2>1. CASE mailbox' = <<>>
    BY <2>1 DEF Waiting
  <2>2. CASE mailbox' = mailbox
    <3>1. \A i \in 1..Len(mailbox) : mailbox[i] # Observe => mailbox[i] \in Jobs /\ mailbox[i] # NoJob
      BY JobFacts DEF OnePlace, Waiting, Outstanding
    <3> QED BY <1>1, <1>2, <2>2, <3>1 DEF OnePlace, Waiting
  <2> QED BY <2>1, <2>2
<1>4. busy' \notin inbox'
  BY JobFacts DEF OnePlace, TypeOK
<1> QED BY <1>1, <1>2, <1>3, <1>4 DEF OnePlace

\* A loop that has nothing outstanding puts its next action in the mailbox.
LEMMA PlaceSent ==
  ASSUME TypeOK, TypeOK', LogInOrder, OnePlace, JobIsLast, Settled(run),
         NEW calls \in Seq(Jobs \cup {Observe}), Waiting(calls),
         sent[run] < MaxSteps,
         sent' = [sent EXCEPT ![run] = @ + 1],
         mailbox' = Append(calls, <<run, sent[run] + 1>>),
         UNCHANGED <<run, log, job, inbox, busy>>
  PROVE  OnePlace'
<1> DEFINE new == <<run, sent[run] + 1>>
<1>0. run \in Runs /\ sent[run] \in 0..MaxSteps /\ sent[run] \in Nat /\ Len(log[run]) = sent[run]
  BY RigAssumption DEF TypeOK, Settled
<1>1. new \in Jobs /\ new[1] = run /\ new[2] = sent[run] + 1 /\ new # Observe
  BY NextAction, JobFacts
<1>2. ~IsReset(new)
  BY <1>0, <1>1 DEF IsReset
<1>3. \A j : Outstanding(j) => j[1] # run /\ j # new
  BY <1>0, <1>1 DEF Outstanding
<1>4. \A j : Outstanding(j) => Outstanding(j)'
  BY <1>0, <1>3, JobFacts DEF Outstanding, TypeOK
<1>5. \A j : j = new => Outstanding(j)'
  <2>1. sent'[run] = sent[run] + 1 /\ run' = run /\ log' = log /\ run <= run
    BY <1>0, RunFacts DEF TypeOK
  <2> QED BY <1>0, <1>1, <1>2, <2>1 DEF Outstanding
<1>6. ~AtServer(new) /\ job # new
  <2>1. ~AtServer(new)
    BY <1>1, <1>2, <1>3 DEF OnePlace
  <2>2. job # new
    <3> SUFFICES ASSUME job = new PROVE FALSE
      OBVIOUS
    <3>1. job # NoJob /\ ~IsReset(job) /\ job[1] = run
      BY <1>1, <1>2, JobFacts
    <3>2. job[2] = sent[run]
      BY <3>1 DEF JobIsLast
    <3> QED BY <1>0, <1>1, <3>2
  <2> QED BY <2>1, <2>2
<1>7. /\ Len(mailbox') = Len(calls) + 1 /\ Len(calls) \in Nat
      /\ \A i \in 1..Len(calls) : mailbox'[i] = calls[i]
      /\ mailbox'[Len(calls) + 1] = new
      /\ \A i \in 1..Len(mailbox') : i \in 1..Len(calls) \/ i = Len(calls) + 1
  BY <1>1
<1>8. \A i \in 1..Len(calls) : calls[i] # new
  BY <1>1, <1>3 DEF Waiting
<1> HIDE DEF new
<1>9. Waiting(mailbox)'
  <2> SUFFICES ASSUME NEW i \in 1..Len(mailbox'), NEW j, j = mailbox'[i], j # Observe
               PROVE  /\ Outstanding(j)'
                      /\ ~AtServer(j)
                      /\ job # j
                      /\ \A k \in 1..Len(mailbox') : mailbox'[k] = j => k = i
    BY DEF Waiting, AtServer, Outstanding
  <2>1. CASE i = Len(calls) + 1
    <3>1. j = new
      BY <1>7, <2>1
    <3>2. \A k \in 1..Len(mailbox') : mailbox'[k] = j => k = i
      BY <1>7, <1>8, <2>1, <3>1
    <3> QED BY <1>5, <1>6, <3>1, <3>2
  <2>2. CASE i \in 1..Len(calls)
    <3>1. j = calls[i] /\ j # new
      BY <1>7, <1>8, <2>2
    <3>2. \A k \in 1..Len(mailbox') : mailbox'[k] = j => k = i
      BY <1>7, <2>2, <3>1 DEF Waiting
    <3> QED BY <1>4, <2>2, <3>1, <3>2 DEF Waiting
  <2> QED BY <1>7, <2>1, <2>2
<1> QED BY <1>4, <1>9 DEF OnePlace, AtServer

\* A call to observe, added to a mailbox.
LEMMA WaitingObserve ==
  ASSUME NEW calls \in Seq(Jobs \cup {Observe}), Waiting(calls)
  PROVE  Waiting(Append(calls, Observe))
<1>1. /\ Len(Append(calls, Observe)) = Len(calls) + 1 /\ Len(calls) \in Nat
      /\ \A i \in 1..Len(Append(calls, Observe)) :
           IF i = Len(calls) + 1
             THEN Append(calls, Observe)[i] = Observe
             ELSE i \in 1..Len(calls) /\ Append(calls, Observe)[i] = calls[i]
  OBVIOUS
<1> QED BY <1>1 DEF Waiting

LEMMA PlaceStep == RigInv /\ Next => OnePlace'
<1> SUFFICES ASSUME RigInv, Next PROVE OnePlace'
  OBVIOUS
<1>a. TypeOK /\ TypeOK' /\ OnePlace /\ LogInOrder /\ JobIsLast /\ Together
  BY TypeStep DEF RigInv
<1>b. mailbox \in Seq(Jobs \cup {Observe})
  BY <1>a DEF TypeOK
<1>1. CASE Start
  <2>1. /\ run' = run + 1 /\ run \in Int /\ run' \in Int /\ run < run'
        /\ UNCHANGED <<sent, log, mailbox, busy>> /\ <<run', 0>> \in Jobs
    BY <1>1, <1>a, RunFacts, JobFacts, RigAssumption DEF Start, TypeOK
  <2>2. \A j : Outstanding(j) => Outstanding(j)'
    BY <2>1, JobFacts, RunFacts DEF Outstanding
  <2>3. /\ IsReset(<<run', 0>>) /\ <<run', 0>>[1] = run'
        /\ \A j \in Jobs : AtServer(j) => j # <<run', 0>>
    BY <2>1, <1>a, JobFacts DEF OnePlace, IsReset
  <2>4. CASE linked
    <3>1. mailbox = <<>> /\ inbox' \subseteq inbox \cup {<<run', 0>>}
      BY <1>1, <1>a, <2>4 DEF Start, Together, Ask
    <3>2. Waiting(mailbox)'
      BY <2>1, <3>1 DEF Waiting
    <3>3. \A j \in Jobs : AtServer(j)' => AtServer(j) \/ j = <<run', 0>>
      BY <2>1, <3>1 DEF AtServer
    <3>4. busy' \notin inbox'
      BY <1>a, <2>1, <2>3, <3>1, JobFacts DEF OnePlace, TypeOK, AtServer
    <3>5. \A j \in Jobs : AtServer(j)' /\ ~IsReset(j) => Outstanding(j)'
      BY <1>a, <2>2, <2>3, <3>3 DEF OnePlace
    <3>6. \A j \in Jobs : AtServer(j)' => j[1] <= run'
      BY <1>a, <2>1, <2>3, <3>3, JobFacts, RunFacts DEF OnePlace
    <3> QED BY <3>2, <3>4, <3>5, <3>6 DEF OnePlace
  <2>5. CASE ~linked
    <3>1. UNCHANGED <<inbox, job>>
      BY <1>1, <2>5 DEF Start
    <3>2. Waiting(mailbox)'
      BY <1>a, <2>1, <2>2, <3>1 DEF Waiting, OnePlace, AtServer
    <3>3. \A j \in Jobs : AtServer(j)' => AtServer(j) /\ j[1] <= run'
      BY <1>a, <2>1, <3>1, JobFacts, RunFacts DEF AtServer, OnePlace
    <3> QED BY <1>a, <2>1, <2>2, <3>1, <3>2, <3>3 DEF OnePlace
  <2> QED BY <2>4, <2>5
<1>2. CASE TickObserving
  <2>1. UNCHANGED <<run, sent, log, inbox, busy, job>> /\ mailbox' = Append(mailbox, Observe)
    BY <1>2 DEF TickObserving, simVars
  <2>2. Waiting(mailbox')
    BY <1>a, <1>b, <2>1, WaitingObserve DEF OnePlace
  <2> QED BY <1>a, <2>1, <2>2 DEF OnePlace, Waiting, Outstanding, AtServer
<1>3. CASE TickActing
  <2>1. Settled(run)
    BY <1>3, <1>a DEF TickActing, Together, RigInv, LoopWaits
  <2> QED BY <1>3, <1>a, <1>b, <2>1, PlaceSent DEF TickActing, Actuate, OnePlace, simVars
<1>4. CASE AdapterObserves
  <2>1. Tail(mailbox) \in Seq(Jobs \cup {Observe}) /\ Waiting(Tail(mailbox))
    BY <1>4, <1>a, <1>b, WaitingTail DEF AdapterObserves, OnePlace
  <2>2. CASE mailbox' = Tail(mailbox) /\ sent' = sent
    BY <1>4, <1>a, <2>1, <2>2 DEF AdapterObserves, OnePlace, Waiting, Outstanding, AtServer, simVars
  <2>3. CASE /\ loop = "observing" /\ sent[run] < MaxSteps
             /\ sent' = [sent EXCEPT ![run] = @ + 1]
             /\ mailbox' = Append(Tail(mailbox), <<run, sent[run] + 1>>)
    <3>1. Settled(run)
      BY <2>3 DEF RigInv, LoopWaits
    <3> QED BY <1>4, <1>a, <2>1, <2>3, <3>1, PlaceSent DEF AdapterObserves, simVars
  <2> QED BY <1>4, <2>2, <2>3 DEF AdapterObserves
<1>5. CASE AdapterActs
  <2> DEFINE j == Head(mailbox)
  <2>1. /\ mailbox # <<>> /\ j # Observe /\ mailbox' = Tail(mailbox) /\ Ask(j)
        /\ UNCHANGED <<run, sent, log, busy>>
    BY <1>5 DEF AdapterActs
  <2>2. /\ Waiting(Tail(mailbox))
        /\ Outstanding(j) /\ ~AtServer(j)
        /\ \A i \in 1..Len(Tail(mailbox)) : Tail(mailbox)[i] # j
    BY <1>a, <1>b, <2>1, WaitingTail DEF OnePlace
  <2>3. job' = j /\ inbox' \subseteq inbox \cup {j}
    BY <2>1 DEF Ask
  <2>4. j \in Jobs /\ ~IsReset(j) /\ j[1] <= run
    BY <2>2 DEF Outstanding
  <2> HIDE DEF j
  <2>5. Waiting(mailbox)'
    BY <2>1, <2>2, <2>3 DEF Waiting, Outstanding, AtServer
  <2>6. \A k \in Jobs : AtServer(k)' => AtServer(k) \/ k = j
    BY <2>1, <2>3 DEF AtServer
  <2>7. \A k : Outstanding(k) => Outstanding(k)'
    BY <2>1 DEF Outstanding
  <2>8. busy' \notin inbox'
    BY <1>a, <2>1, <2>2, <2>3 DEF OnePlace, AtServer
  <2>9. \A k \in Jobs : AtServer(k)' => k[1] <= run'
    BY <1>a, <2>1, <2>4, <2>6 DEF OnePlace
  <2>10. \A k \in Jobs : AtServer(k)' /\ ~IsReset(k) => Outstanding(k)'
    BY <1>a, <2>2, <2>6, <2>7 DEF OnePlace
  <2> QED BY <2>5, <2>8, <2>9, <2>10 DEF OnePlace
<1>6. CASE \E ok \in BOOLEAN : CarryOut(ok)
  <2>1. /\ UNCHANGED <<run, sent, mailbox, job, inbox>> /\ busy' = NoJob /\ busy \in Jobs
        /\ log' = IF IsReset(busy) THEN log ELSE [log EXCEPT ![busy[1]] = Append(@, busy[2])]
    BY <1>6, <1>a DEF CarryOut, procVars, TypeOK
  <2>2. CASE IsReset(busy)
    BY <1>a, <2>1, <2>2, PlaceKept
  <2>3. CASE ~IsReset(busy)
    <3>1. Outstanding(busy)
      BY <1>a, <2>1, <2>3 DEF OnePlace, AtServer
    <3>2. \A j : Outstanding(j) /\ j # busy => Outstanding(j)'
      <4> SUFFICES ASSUME NEW j, Outstanding(j), j # busy PROVE Outstanding(j)'
        OBVIOUS
      <4>1. j[1] # busy[1]
        BY <2>1, <3>1, JobFacts DEF Outstanding
      <4>2. log'[j[1]] = log[j[1]]
        BY <1>a, <2>1, <2>3, <4>1, JobFacts DEF Outstanding, TypeOK
      <4> QED BY <2>1, <4>2 DEF Outstanding
    <3>3. Waiting(mailbox)'
      <4> SUFFICES ASSUME NEW i \in 1..Len(mailbox), NEW j, j = mailbox[i], j # Observe
                   PROVE  /\ Outstanding(j)' /\ ~AtServer(j)' /\ job' # j
                          /\ \A k \in 1..Len(mailbox) : mailbox[k] = j => k = i
        BY <2>1 DEF Waiting, AtServer, Outstanding
      <4>1. Outstanding(j) /\ ~AtServer(j) /\ j \in Jobs
        BY <1>a DEF OnePlace, Waiting, Outstanding
      <4> QED BY <1>a, <2>1, <3>2, <4>1, JobFacts DEF OnePlace, Waiting, AtServer
    <3>4. \A j \in Jobs : AtServer(j)' => AtServer(j) /\ j # busy
      BY <1>a, <2>1, JobFacts DEF AtServer, OnePlace
    <3>5. busy' \notin inbox'
      BY <1>a, <2>1, JobFacts DEF TypeOK
    <3> QED BY <1>a, <2>1, <3>2, <3>3, <3>4, <3>5 DEF OnePlace
  <2> QED BY <2>2, <2>3
<1>7. CASE \E j \in Jobs : Take(j)
  <2> PICK j \in Jobs : Take(j)
    BY <1>7
  <2>1. /\ UNCHANGED <<run, sent, log>> /\ mailbox' = mailbox /\ job' = job
        /\ inbox' \subseteq inbox /\ busy' \in inbox \ inbox'
    BY DEF Take, procVars
  <2> QED BY <1>a, <2>1, PlaceKept
<1>8. CASE UNCHANGED <<run, sent, log, inbox, busy>> /\ mailbox' \in {mailbox, <<>>} /\ job' \in {job, NoJob}
  BY <1>8, <1>a, PlaceKept
<1>9. CASE Reject \/ Crash
  <2>1. /\ UNCHANGED <<run, sent, log, mailbox, job>> /\ inbox' \subseteq inbox /\ busy' = NoJob
    BY <1>9 DEF Reject, Crash, procVars
  <2> QED BY <1>a, <2>1, PlaceKept
<1>10. CASE Started \/ StartFails \/ AdapterGetsReply \/ AdapterGivesUp \/ WaiterTimesOut \/ Restart
  <2>1. mailbox' = mailbox \/ mailbox' = <<>>
    BY <1>10 DEF Started, StartFails, AdapterGetsReply, AdapterGivesUp, WaiterTimesOut, Restart,
                 RunDies, procVars
  <2>2. job' = job \/ job' = NoJob
    BY <1>10 DEF Started, StartFails, AdapterGetsReply, AdapterGivesUp, WaiterTimesOut, Restart,
                 RunDies, procVars
  <2> QED BY <1>8, <1>10, <2>1, <2>2
             DEF Started, StartFails, AdapterGetsReply, AdapterGivesUp, WaiterTimesOut, Restart
<1> QED BY <1>1, <1>2, <1>3, <1>4, <1>5, <1>6, <1>7, <1>9, <1>10 DEF Next, Step

\* The sim server's own steps.
ServerStep ==
  \/ \E j \in Jobs : Take(j)
  \/ \E ok \in BOOLEAN : CarryOut(ok)
  \/ Reject
  \/ Crash
  \/ Restart

LEMMA StepCases ==
  Next => \/ Start
          \/ Started
          \/ StartFails
          \/ TickObserving
          \/ TickActing
          \/ AdapterObserves
          \/ AdapterActs
          \/ AdapterGetsReply
          \/ AdapterGivesUp
          \/ WaiterTimesOut
          \/ ServerStep /\ UNCHANGED <<run, sent, procVars>>
BY DEF Next, Step, ServerStep, Take, CarryOut, Reject, Crash, Restart

LEMMA TogetherStep == RigInv /\ Next => Together'
<1> SUFFICES ASSUME RigInv, Next PROVE Together'
  OBVIOUS
<1>a. Together /\ TypeOK /\ linked' = linked
  BY DEF RigInv, Next, Beside
<1>1. CASE Start
  <2>1. run' = run + 1 /\ run' \in Runs /\ run' > run /\ <<run', 0>> \in Jobs
    BY <1>1, <1>a, TypeStep, RunFacts, JobFacts, RigAssumption DEF Start, TypeOK, RigInv
  <2>2. sent'[run'] = 0
    BY <1>1, <2>1 DEF Start, RigInv, LogInOrder
  <2> QED BY <1>1, <1>a, <2>1, <2>2, JobFacts DEF Start, Together, Ask
<1>2. CASE Started
  BY <1>2, <1>a DEF Started, Together
<1>3. CASE StartFails \/ WaiterTimesOut
  BY <1>3, <1>a DEF StartFails, WaiterTimesOut, RunDies, Together
<1>4. CASE TickObserving
  BY <1>4, <1>a DEF TickObserving, Together, simVars
<1>5. CASE TickActing
  BY <1>5, <1>a DEF TickActing, Actuate, Together, simVars
<1>6. CASE AdapterObserves
  BY <1>6, <1>a DEF AdapterObserves, TickEnds, Together, simVars
<1>7. CASE AdapterActs
  <2>1. Head(mailbox) # NoJob
    <3>1. Head(mailbox) \in Jobs \cup {Observe}
      BY <1>7, <1>a DEF AdapterActs, TypeOK
    <3> QED BY <3>1, JobFacts
  <2> QED BY <1>7, <1>a, <2>1 DEF AdapterActs, Ask, Together
<1>8. CASE AdapterGetsReply
  BY <1>8, <1>a DEF AdapterGetsReply, TickEnds, Awaited, Together
<1>9. CASE AdapterGivesUp
  BY <1>9, <1>a DEF AdapterGivesUp, RunDies, Awaited, Together
<1>10. CASE UNCHANGED <<run, sent, procVars>>
  BY <1>10, <1>a DEF procVars, Together
<1> QED BY <1>1, <1>2, <1>3, <1>4, <1>5, <1>6, <1>7, <1>8, <1>9, <1>10, StepCases

\* A run that has sent nothing has nothing outstanding.
LEMMA FreshRun ==
  ASSUME TypeOK, LogInOrder, NEW r \in Runs, sent[r] = 0
  PROVE  Len(log[r]) = 0
<1>1. Len(log[r]) \in Nat
  BY DEF TypeOK
<1>2. sent[r] - Len(log[r]) \in {0, 1}
  BY DEF LogInOrder
<1> QED BY <1>1, <1>2

LEMMA WaitsStep == RigInv /\ Next => LoopWaits'
<1> SUFFICES ASSUME RigInv, Next, loop' \in {"free", "observing"} PROVE Settled(run)'
  BY DEF LoopWaits
<1>a. Together /\ TypeOK /\ LogInOrder /\ LoopWaits /\ TypeOK'
  BY TypeStep DEF RigInv
<1>1. CASE Start
  <2>1. run' = run + 1 /\ run' \in Runs /\ run' > run /\ log' = log /\ sent' = sent
    BY <1>1, <1>a, RunFacts DEF Start, TypeOK
  <2>2. sent[run'] = 0
    BY <1>a, <2>1 DEF LogInOrder
  <2>3. Len(log[run']) = 0
    BY <1>a, <2>1, <2>2, FreshRun
  <2> QED BY <2>1, <2>2, <2>3 DEF Settled
<1>2. CASE Started
  <2>1. sent[run] = 0 /\ run \in Runs /\ UNCHANGED <<run, sent, log>>
    BY <1>2, <1>a DEF Started, Together, TypeOK
  <2>2. Len(log[run]) = 0
    BY <1>a, <2>1, FreshRun
  <2> QED BY <2>1, <2>2 DEF Settled
<1>3. CASE StartFails \/ WaiterTimesOut
  BY <1>3 DEF StartFails, WaiterTimesOut, RunDies
<1>4. CASE TickObserving
  BY <1>4, <1>a DEF TickObserving, Together, LoopWaits, Settled, simVars
<1>5. CASE TickActing
  BY <1>5 DEF TickActing, Actuate
<1>6. CASE AdapterObserves
  BY <1>6, <1>a DEF AdapterObserves, LoopWaits, Settled, simVars
<1>7. CASE AdapterActs
  BY <1>7, <1>a DEF AdapterActs, LoopWaits, Settled
<1>8. CASE AdapterGetsReply
  <2>1. CASE Awaited
    <3>1. job # NoJob /\ ~IsReset(job)
      BY <1>8, <1>a DEF AdapterGetsReply, Together, RigInv, JobIsLast
    <3>2. Settled(job[1])
      BY <1>8, <3>1 DEF AdapterGetsReply, RigInv, JobIsLast
    <3> QED BY <1>8, <2>1, <3>2 DEF AdapterGetsReply, Awaited, Settled
  <2>2. CASE ~Awaited
    BY <1>8, <1>a, <2>2 DEF AdapterGetsReply, LoopWaits, Settled
  <2> QED BY <2>1, <2>2
<1>9. CASE AdapterGivesUp
  BY <1>9, <1>a DEF AdapterGivesUp, RunDies, LoopWaits, Settled
<1>10. CASE ServerStep /\ UNCHANGED <<run, sent, procVars>>
  <2>1. Settled(run) /\ run \in Runs
    BY <1>10, <1>a DEF procVars, LoopWaits, TypeOK
  <2>2. log'[run] = log[run]
    <3>1. CASE \E ok \in BOOLEAN : CarryOut(ok)
      <4>1. busy \in Jobs /\ log' = IF IsReset(busy) THEN log ELSE [log EXCEPT ![busy[1]] = Append(@, busy[2])]
        BY <3>1, <1>a DEF CarryOut, TypeOK
      <4>2. ~IsReset(busy) => busy[1] # run
        <5>1. ~IsReset(busy) => Outstanding(busy)
          BY <4>1 DEF RigInv, OnePlace, AtServer
        <5>2. sent[run] \in Int /\ Len(log[run]) = sent[run]
          BY <1>a, <2>1, RigAssumption DEF TypeOK, Settled
        <5> QED BY <5>1, <5>2 DEF Outstanding
      <4> QED BY <1>a, <2>1, <4>1, <4>2 DEF TypeOK
    <3> QED BY <1>10, <3>1 DEF ServerStep, Take, Reject, Crash, Restart
  <2> QED BY <1>10, <2>1, <2>2 DEF Settled
<1> QED BY <1>1, <1>2, <1>3, <1>4, <1>5, <1>6, <1>7, <1>8, <1>9, <1>10, StepCases

\* A reply to the adapter's job, once there, stays until the adapter reads it;
\* a new one is made when the arm is done with that job.
LEMMA ServerReply ==
  ASSUME TypeOK, OnePlace, ServerStep, job' = job, job # NoJob, reply'.to = job
  PROVE  \/ reply' = reply
         \/ /\ busy = job /\ busy' = NoJob /\ inbox' = inbox
            /\ \/ Reject /\ ~reply'.ok
               \/ \E ok \in BOOLEAN : CarryOut(ok) /\ reply' = [ok |-> ok, shows |-> Moved, to |-> busy]
<1>1. CASE \E j \in Jobs : Take(j)
  BY <1>1 DEF Take
<1>2. CASE \E ok \in BOOLEAN : CarryOut(ok)
  BY <1>2 DEF CarryOut, Answer
<1>3. CASE Reject
  BY <1>3 DEF Reject, Answer
<1>4. CASE Crash \/ Restart
  BY <1>4 DEF Crash, Restart, NoReply
<1> QED BY <1>1, <1>2, <1>3, <1>4 DEF ServerStep

LEMMA JobStep == RigInv /\ Next => JobIsLast'
<1> SUFFICES ASSUME RigInv, Next, job' # NoJob
             PROVE  /\ IsReset(job') => driver' = "starting"
                    /\ ~IsReset(job') =>
                         /\ job'[1] <= run'
                         /\ job'[2] = sent'[job'[1]]
                         /\ job'[1] = run' => loop' \in {"acting", "off"}
                    /\ reply'.to = job' => ~AtServer(job)'
                    /\ reply'.to = job' /\ reply'.ok /\ ~IsReset(job') => Settled(job[1])'
  BY DEF JobIsLast, IsReset, Settled
<1>a. Together /\ TypeOK /\ OnePlace /\ JobIsLast /\ LoopWaits
  BY DEF RigInv
<1>b. NoReply.to = NoJob
  BY ReplyFacts
<1>1. CASE Start
  <2>1. CASE linked
    <3>1. job' = <<run', 0>> /\ driver' = "starting" /\ reply' = NoReply /\ IsReset(job')
      <4>1. job' = <<run', 0>> /\ driver' = "starting" /\ reply' = NoReply
        BY <1>1, <2>1 DEF Start, Ask
      <4> QED BY <4>1 DEF IsReset
    <3> QED BY <1>b, <3>1
  <2>2. CASE ~linked
    <3>1. UNCHANGED <<job, reply, sent, log, busy, inbox>> /\ run' = run + 1 /\ run \in Int
      BY <1>1, <1>a, <2>2, RunFacts DEF Start, TypeOK
    <3>2. ~IsReset(job)
      BY <1>a, <1>1, <2>2, <3>1 DEF JobIsLast, Start
    <3>3. job[1] <= run /\ job[1] \in Int
      BY <1>a, <3>1, <3>2, JobFacts, RunFacts DEF JobIsLast, TypeOK
    <3> QED BY <1>a, <3>1, <3>2, <3>3 DEF JobIsLast, AtServer, Settled, IsReset
  <2> QED BY <2>1, <2>2
<1>2. CASE Started
  BY <1>2 DEF Started
<1>3. CASE StartFails \/ WaiterTimesOut
  <2>1. ~linked /\ driver # "starting"
    BY <1>3, <1>a DEF StartFails, WaiterTimesOut, RunDies, Together
  <2> QED BY <1>3, <1>a, <2>1 DEF StartFails, WaiterTimesOut, RunDies, JobIsLast, AtServer, Settled, IsReset
<1>4. CASE TickObserving
  <2>1. driver = "between" /\ loop = "free" /\ UNCHANGED <<run, sent, job, reply, busy, inbox, log>>
    BY <1>4, <1>a DEF TickObserving, Together, simVars
  <2> QED BY <1>a, <2>1 DEF JobIsLast, AtServer, Settled, IsReset
<1>5. CASE \/ TickActing
           \/ AdapterObserves
  <2>1. /\ UNCHANGED <<run, job, reply, busy, inbox, log>> /\ driver # "starting"
        /\ \/ sent' = sent /\ (loop' = loop \/ loop = "observing")
           \/ /\ loop \in {"free", "observing"} /\ loop' = "acting"
              /\ sent' = [sent EXCEPT ![run] = @ + 1]
    BY <1>5, <1>a DEF TickActing, Actuate, AdapterObserves, TickEnds, Together, simVars
  <2>2. loop = "observing" => ~(job[1] = run)
    BY <1>a, <2>1 DEF JobIsLast
  <2>3. CASE sent' = sent /\ (loop' = loop \/ loop = "observing")
    BY <1>a, <2>1, <2>2, <2>3 DEF JobIsLast, AtServer, Settled, IsReset
  <2>4. CASE /\ loop \in {"free", "observing"} /\ loop' = "acting"
             /\ sent' = [sent EXCEPT ![run] = @ + 1]
    <3>1. job \in Jobs /\ job[1] \in Runs
      BY <1>a, <2>1, JobFacts DEF TypeOK
    <3>2. job[1] # run
      BY <1>a, <2>1, <2>4 DEF JobIsLast
    <3>3. sent'[job[1]] = sent[job[1]]
      BY <1>a, <2>4, <3>1, <3>2 DEF TypeOK
    <3> QED BY <1>a, <2>1, <3>2, <3>3 DEF JobIsLast, AtServer, Settled, IsReset
  <2> QED BY <2>1, <2>3, <2>4
<1>6. CASE AdapterActs
  <2> DEFINE j == Head(mailbox)
  <2>1. job' = j /\ reply' = NoReply /\ UNCHANGED <<run, sent, loop>>
    BY <1>6 DEF AdapterActs, Ask
  <2>2. Outstanding(j)
    BY <1>6, <1>a, WaitingTail DEF AdapterActs, OnePlace, TypeOK
  <2>3. j[1] = run => loop \in {"acting", "off"}
    <3>1. CASE loop \in {"free", "observing"}
      <4>1. Len(log[run]) = sent[run] /\ sent[run] \in Int
        BY <1>a, <3>1, RigAssumption DEF LoopWaits, Settled, TypeOK
      <4> QED BY <2>2, <4>1 DEF Outstanding
    <3> QED BY <1>a, <3>1 DEF TypeOK
  <2> HIDE DEF j
  <2> QED BY <1>b, <2>1, <2>2, <2>3 DEF Outstanding
<1>7. CASE AdapterGetsReply
  BY <1>7 DEF AdapterGetsReply
<1>8. CASE AdapterGivesUp
  BY <1>8 DEF AdapterGivesUp, RunDies, Awaited
<1>9. CASE ServerStep /\ UNCHANGED <<run, sent, procVars>>
  <2>1. /\ UNCHANGED <<run, sent, job, driver, loop>> /\ job \in Jobs /\ job # NoJob
        /\ job[1] \in Runs /\ job[2] \in 0..MaxSteps
    BY <1>9, <1>a, JobFacts DEF procVars, TypeOK
  <2>2. ASSUME reply' = reply, reply.to = job
        PROVE  ~AtServer(job)' /\ (reply.ok /\ ~IsReset(job) => Settled(job[1])')
    <3>1. ~AtServer(job) /\ (reply.ok /\ ~IsReset(job) => Settled(job[1]))
      BY <1>a, <2>1, <2>2 DEF JobIsLast
    <3>2. ~AtServer(job)'
      BY <1>9, <2>1, <3>1 DEF ServerStep, Take, CarryOut, Reject, Crash, Restart, AtServer
    <3>3. ASSUME reply.ok, ~IsReset(job) PROVE log'[job[1]] = log[job[1]]
      <4>1. CASE \E ok \in BOOLEAN : CarryOut(ok)
        <5>1. busy \in Jobs /\ log' = IF IsReset(busy) THEN log ELSE [log EXCEPT ![busy[1]] = Append(@, busy[2])]
          BY <4>1, <1>a DEF CarryOut, TypeOK
        <5>2. ~IsReset(busy) => busy[1] # job[1]
          <6>1. ~IsReset(busy) => Outstanding(busy)
            BY <1>a, <5>1 DEF OnePlace, AtServer
          <6>2. sent[job[1]] \in Int /\ Len(log[job[1]]) = sent[job[1]]
            BY <1>a, <2>1, <3>1, <3>3, RigAssumption DEF TypeOK, Settled
          <6> QED BY <6>1, <6>2 DEF Outstanding
        <5> QED BY <1>a, <2>1, <5>1, <5>2 DEF TypeOK
      <4> QED BY <1>9, <4>1 DEF ServerStep, Take, Reject, Crash, Restart
    <3> QED BY <2>1, <3>1, <3>2, <3>3 DEF Settled
  <2>3. ASSUME busy = job, busy' = NoJob, inbox' = inbox
        PROVE  ~AtServer(job)'
    BY <1>a, <2>1, <2>3 DEF AtServer, OnePlace
  <2>4. ASSUME busy = job, NEW ok \in BOOLEAN, CarryOut(ok), ~IsReset(job)
        PROVE  Settled(job[1])'
    <3>1. Outstanding(job)
      BY <1>a, <2>1, <2>4 DEF OnePlace, AtServer
    <3>2. log'[job[1]] = Append(log[job[1]], job[2])
      BY <1>a, <2>1, <2>4 DEF CarryOut, TypeOK
    <3>3. log[job[1]] \in Seq(1..MaxSteps) /\ job[2] \in 1..MaxSteps /\ sent[job[1]] \in Int
      BY <1>a, <2>1, <2>4, RigAssumption DEF TypeOK, IsReset
    <3>4. Len(log'[job[1]]) = Len(log[job[1]]) + 1
      BY <3>2, <3>3
    <3>5. Len(log[job[1]]) = sent[job[1]] - 1
      BY <3>1 DEF Outstanding
    <3> QED BY <2>1, <3>3, <3>4, <3>5 DEF Settled
  <2>5. reply'.to = job => ~AtServer(job)'
    BY <1>9, <1>a, <2>1, <2>2, <2>3, ServerReply
  <2>6. reply'.to = job /\ reply'.ok /\ ~IsReset(job) => Settled(job[1])'
    BY <1>9, <1>a, <2>1, <2>2, <2>4, ServerReply
  <2> QED BY <1>a, <2>1, <2>5, <2>6 DEF JobIsLast, IsReset, AtServer, Settled
<1> QED BY <1>1, <1>2, <1>3, <1>4, <1>5, <1>6, <1>7, <1>8, <1>9, StepCases

LEMMA ShowsStep == RigInv /\ Next => ReplyShows'
<1> SUFFICES ASSUME RigInv, Next, job' # NoJob, reply'.to = job', reply'.ok
             PROVE  IF IsReset(job')
                      THEN reply'.shows = [origin |-> job', steps |-> <<>>]
                      ELSE reply'.shows.steps # <<>> /\ Last(reply'.shows.steps) = job'
  BY DEF ReplyShows, IsReset
<1>a. TypeOK /\ OnePlace /\ ReplyShows
  BY DEF RigInv
<1>b. NoReply.to = NoJob
  BY ReplyFacts
<1>1. CASE UNCHANGED <<job, reply>>
  BY <1>1, <1>a DEF ReplyShows
<1>2. CASE reply' = NoReply \/ job' = NoJob
  BY <1>2, <1>b
<1>3. CASE ServerStep /\ job' = job
  <2>1. \/ reply' = reply
        \/ \E ok \in BOOLEAN : CarryOut(ok) /\ reply' = [ok |-> ok, shows |-> Moved, to |-> busy] /\ busy = job
    BY <1>3, <1>a, ServerReply
  <2>2. ASSUME NEW ok \in BOOLEAN, reply' = [ok |-> ok, shows |-> Moved, to |-> busy], busy = job
        PROVE  IF IsReset(job)
                 THEN reply'.shows = [origin |-> job, steps |-> <<>>]
                 ELSE reply'.shows.steps # <<>> /\ Last(reply'.shows.steps) = job
    <3>1. job \in Jobs /\ arm \in ArmStates /\ reply'.shows = Moved
      BY <1>3, <1>a, <2>2 DEF TypeOK
    <3>2. CASE IsReset(job)
      BY <2>2, <3>1, <3>2 DEF Moved
    <3>3. CASE ~IsReset(job)
      <4>1. reply'.shows.steps = Append(arm.steps, job)
        BY <2>2, <3>1, <3>3 DEF Moved, ArmStates
      <4> QED BY <3>1, <3>3, <4>1, ArmFacts
    <3> QED BY <3>2, <3>3
  <2> QED BY <1>1, <1>3, <2>1, <2>2
<1>4. CASE Start \/ AdapterActs
  BY <1>1, <1>2, <1>4 DEF Start, AdapterActs, Ask
<1>5. CASE StartFails \/ AdapterGivesUp \/ WaiterTimesOut
  BY <1>1, <1>2, <1>5 DEF StartFails, AdapterGivesUp, WaiterTimesOut, RunDies
<1>6. CASE Started \/ AdapterGetsReply
  BY <1>2, <1>6 DEF Started, AdapterGetsReply
<1>7. CASE TickObserving \/ TickActing \/ AdapterObserves
  BY <1>1, <1>7 DEF TickObserving, TickActing, Actuate, AdapterObserves, simVars
<1> QED BY <1>3, <1>4, <1>5, <1>6, <1>7, StepCases DEF procVars

LEMMA DownStep == RigInv /\ Next => DownHoldsNothing'
<1> SUFFICES ASSUME RigInv, Next PROVE DownHoldsNothing'
  OBVIOUS
<1>1. TypeOK /\ DownHoldsNothing
  BY DEF RigInv
<1>2. CASE ServerStep
  BY <1>1, <1>2 DEF ServerStep, Take, CarryOut, Reject, Crash, Restart, DownHoldsNothing
<1> QED
  BY <1>1, <1>2, StepCases
     DEF Start, Started, StartFails, TickObserving, TickActing, Actuate, AdapterObserves, AdapterActs,
         AdapterGetsReply, AdapterGivesUp, WaiterTimesOut, Ask, simVars, DownHoldsNothing

\* An adapter that a run started has a mailbox of its own: while the run waits
\* for nothing, no action is in it.
LEMMA OwnMailbox ==
  ASSUME RigInv, linked, NEW i \in 1..Len(mailbox), mailbox[i] # Observe
  PROVE  loop = "acting" /\ driver = "ticking"
<1>1. Outstanding(mailbox[i]) /\ mailbox[i][1] = run /\ TypeOK
  BY DEF RigInv, OnePlace, Waiting, OwnAdapter
<1>2. loop \notin {"free", "observing"}
  <2>1. run \in Runs /\ sent[run] \in Int
    BY <1>1, RigAssumption DEF TypeOK
  <2> QED BY <1>1, <2>1 DEF RigInv, LoopWaits, Settled, Outstanding
<1>3. loop # "off"
  <2>1. mailbox # <<>>
    BY <1>1 DEF TypeOK
  <2> QED BY <2>1 DEF RigInv, Together
<1> QED BY <1>1, <1>2, <1>3 DEF RigInv, Together, TypeOK

LEMMA OwnStep == RigInv /\ Next => OwnAdapter'
<1> SUFFICES ASSUME RigInv, Next, linked
             PROVE  /\ \A i \in 1..Len(mailbox') : mailbox'[i] # Observe => mailbox'[i][1] = run'
                    /\ job' # NoJob /\ driver' # "starting" => job'[1] = run' /\ loop' = "acting"
  BY DEF OwnAdapter, Next, Beside
<1>a. TypeOK /\ Together /\ OwnAdapter /\ mailbox \in Seq(Jobs \cup {Observe})
  BY DEF RigInv, TypeOK
<1>1. CASE Start
  BY <1>1, <1>a DEF Start, Ask, Together
<1>2. CASE Started
  BY <1>2, <1>a DEF Started, OwnAdapter
<1>3. CASE StartFails \/ WaiterTimesOut
  BY <1>3, <1>a DEF StartFails, WaiterTimesOut, RunDies
<1>4. CASE TickObserving
  <2>1. /\ mailbox' = Append(mailbox, Observe) /\ UNCHANGED <<run, job>>
        /\ driver = "between" /\ loop = "free"
    BY <1>4, <1>a DEF TickObserving, Together
  <2>2. \A i \in 1..Len(mailbox') :
          mailbox'[i] # Observe => i \in 1..Len(mailbox) /\ mailbox'[i] = mailbox[i]
    BY <1>a, <2>1
  <2> QED BY <1>a, <2>1, <2>2 DEF OwnAdapter
<1>5. ASSUME NEW calls \in Seq(Jobs \cup {Observe}),
             \A i \in 1..Len(calls) : calls[i] # Observe => calls[i][1] = run,
             sent[run] < MaxSteps, mailbox' = Append(calls, <<run, sent[run] + 1>>), run' = run
      PROVE  \A i \in 1..Len(mailbox') : mailbox'[i] # Observe => mailbox'[i][1] = run'
  <2> DEFINE new == <<run, sent[run] + 1>>
  <2>1. new \in Jobs /\ new[1] = run /\ calls \in Seq(Jobs \cup {Observe})
    BY <1>5, <1>a, NextAction
  <2> HIDE DEF new
  <2>2. mailbox' = Append(calls, new)
    BY <1>5 DEF new
  <2>3. \A i \in 1..Len(mailbox') :
          \/ i \in 1..Len(calls) /\ mailbox'[i] = calls[i]
          \/ mailbox'[i] = new
    <3>1. /\ Len(calls) \in Nat /\ Len(mailbox') = Len(calls) + 1
          /\ mailbox'[Len(calls) + 1] = new
          /\ \A i \in 1..Len(calls) : mailbox'[i] = calls[i]
      BY <2>1, <2>2
    <3>2. \A i \in 1..Len(mailbox') : i \in 1..Len(calls) \/ i = Len(calls) + 1
      BY <3>1
    <3> QED BY <3>1, <3>2
  <2> QED BY <1>5, <2>1, <2>3
<1>6. CASE TickActing
  <2>1. job' = job /\ driver = "between" /\ loop = "free" /\ run' = run
        /\ sent[run] < MaxSteps /\ mailbox' = Append(mailbox, <<run, sent[run] + 1>>)
    BY <1>6, <1>a DEF TickActing, Actuate, Together
  <2>2. job = NoJob
    BY <1>a, <2>1 DEF OwnAdapter
  <2> QED BY <1>5, <1>a, <2>1, <2>2 DEF OwnAdapter
<1>7. CASE AdapterObserves
  <2>1. /\ Tail(mailbox) \in Seq(Jobs \cup {Observe}) /\ run' = run
        /\ \A i \in 1..Len(Tail(mailbox)) : Tail(mailbox)[i] # Observe => Tail(mailbox)[i][1] = run
    <3>1. mailbox # <<>> /\ run' = run
      BY <1>7 DEF AdapterObserves
    <3>2. \A i \in 1..Len(Tail(mailbox)) : i + 1 \in 1..Len(mailbox) /\ Tail(mailbox)[i] = mailbox[i + 1]
      BY <1>a, <3>1
    <3> QED BY <1>a, <3>1, <3>2 DEF OwnAdapter
  <2>2. job' = NoJob
    BY <1>7, <1>a DEF AdapterObserves, Together
  <2>3. \/ mailbox' = Tail(mailbox)
        \/ sent[run] < MaxSteps /\ mailbox' = Append(Tail(mailbox), <<run, sent[run] + 1>>)
    BY <1>7 DEF AdapterObserves
  <2> QED BY <1>5, <2>1, <2>2, <2>3
<1>8. CASE AdapterActs
  <2>1. /\ mailbox # <<>> /\ Head(mailbox) # Observe /\ mailbox' = Tail(mailbox)
        /\ UNCHANGED <<run, loop>> /\ job' = Head(mailbox)
    BY <1>8 DEF AdapterActs, Ask
  <2>2. /\ \A i \in 1..Len(Tail(mailbox)) : i + 1 \in 1..Len(mailbox) /\ Tail(mailbox)[i] = mailbox[i + 1]
        /\ 1 \in 1..Len(mailbox) /\ Head(mailbox) = mailbox[1]
    BY <1>a, <2>1
  <2> QED BY <1>a, <2>1, <2>2, OwnMailbox DEF OwnAdapter
<1>9. CASE AdapterGetsReply
  BY <1>9, <1>a DEF AdapterGetsReply, OwnAdapter
<1>10. CASE AdapterGivesUp
  BY <1>10, <1>a DEF AdapterGivesUp, RunDies, OwnAdapter
<1>11. CASE UNCHANGED <<run, sent, procVars>>
  BY <1>11, <1>a DEF procVars, OwnAdapter
<1> QED BY <1>1, <1>2, <1>3, <1>4, <1>6, <1>7, <1>8, <1>9, <1>10, <1>11, StepCases

LEMMA LastStep == RigInv /\ Next => LastShows'
<1> SUFFICES ASSUME RigInv, Next, linked, loop' \in {"free", "observing"}
             PROVE  IF sent'[run'] = 0
                      THEN last' = [origin |-> <<run', 0>>, steps |-> <<>>]
                      ELSE last'.steps # <<>> /\ Last(last'.steps) = <<run', sent'[run']>>
  BY DEF LastShows, Next, Beside
<1>a. TypeOK /\ Together /\ OwnAdapter /\ LastShows /\ JobIsLast /\ ReplyShows
  BY DEF RigInv
<1>1. CASE Start
  BY <1>1, <1>a DEF Start, Together
<1>2. CASE Started
  BY <1>2, <1>a, JobFacts, RunFacts, RigAssumption DEF Started, Together, ReplyShows, IsReset, TypeOK
<1>3. CASE StartFails \/ WaiterTimesOut
  BY <1>3 DEF StartFails, WaiterTimesOut, RunDies
<1>4. CASE /\ UNCHANGED <<run, sent, last>>
           /\ loop' = loop \/ loop \in {"free", "observing"}
  BY <1>4, <1>a DEF LastShows
<1>5. CASE TickObserving \/ TickActing \/ AdapterObserves
  BY <1>4, <1>5, <1>a DEF TickObserving, TickActing, Actuate, AdapterObserves, TickEnds, Together, simVars
<1>6. CASE AdapterActs
  BY <1>4, <1>6 DEF AdapterActs
<1>7. CASE AdapterGetsReply
  <2>1. job \in Jobs /\ job[1] = run /\ loop = "acting" /\ ~IsReset(job)
    BY <1>7, <1>a DEF AdapterGetsReply, Together, OwnAdapter, JobIsLast, TypeOK
  <2>2. job[2] = sent[run] /\ sent[run] # 0 /\ job = <<run, sent[run]>>
    BY <1>a, <2>1, <1>7, JobFacts DEF AdapterGetsReply, Together, JobIsLast, IsReset
  <2>3. reply.shows.steps # <<>> /\ Last(reply.shows.steps) = job
    BY <1>7, <1>a, <2>1, JobFacts DEF AdapterGetsReply, ReplyShows
  <2> QED BY <1>7, <2>2, <2>3 DEF AdapterGetsReply
<1>8. CASE AdapterGivesUp
  BY <1>4, <1>8 DEF AdapterGivesUp, RunDies
<1>9. CASE UNCHANGED <<run, sent, procVars>>
  BY <1>4, <1>9 DEF procVars
<1> QED BY <1>1, <1>2, <1>3, <1>5, <1>6, <1>7, <1>8, <1>9, StepCases

\* What is at the server when an action of the driver's run is asked for, or
\* its reset: nothing but what the run before it left in the making.
LEMMA AskLeaves ==
  ASSUME TypeOK, NEW j, Ask(j), inbox = {}
  PROVE  inbox' \subseteq {job'} /\ job' = j /\ reply' = NoReply
BY DEF Ask

\* No timer takes a run away while its action is unread.
LEMMA NothingUnread ==
  ASSUME RigInv, linked, ~abandoned, loop # "off", TimersMayPass
  PROVE  inbox = {}
BY DEF RigInv, DownHoldsNothing, NothingLeftBehind, TimersMayPass

LEMMA BehindStep == RigInv /\ Next => NothingLeftBehind'
<1> SUFFICES ASSUME RigInv, Next, linked, ~abandoned'
             PROVE  /\ inbox' \subseteq {job'} \ {NoJob}
                    /\ job' \in inbox' => busy' # job'
                    /\ job' # NoJob /\ reply'.to = job' => inbox' = {} /\ busy' = NoJob
                    /\ loop' # "off" => busy' \in {job', NoJob} /\ (inbox' # {} => busy' = NoJob)
  BY DEF NothingLeftBehind, Next, Beside
<1>a. TypeOK /\ Together /\ OnePlace /\ JobIsLast /\ OwnAdapter /\ DownHoldsNothing
  BY DEF RigInv
<1>b. NoReply.to = NoJob /\ NoJob \notin inbox /\ (loop = "off" \/ driver # "starting")
  BY <1>a, ReplyFacts, JobFacts DEF TypeOK, Together
<1>1. CASE ~up'
  <2>1. inbox' = {} /\ busy' = NoJob
    BY <1>1, DownStep DEF DownHoldsNothing
  <2> QED BY <2>1
<1>2. CASE ~abandoned /\ ~(driver = "starting" /\ driver' = "off" /\ job \in inbox)
  <2>a. /\ inbox \subseteq {job} \ {NoJob}
        /\ job \in inbox => busy # job
        /\ job # NoJob /\ reply.to = job => inbox = {} /\ busy = NoJob
        /\ loop # "off" => busy \in {job, NoJob} /\ (inbox # {} => busy = NoJob)
    BY <1>2 DEF RigInv, NothingLeftBehind
  <2>1. CASE Start
    <3>1. job = NoJob /\ inbox = {}
      BY <1>a, <2>1, <2>a DEF Start, Together
    <3>2. loop' = "off" /\ busy' = busy /\ job' = <<run', 0>> /\ reply' = NoReply /\ inbox' \subseteq {job'}
      BY <1>a, <2>1, <3>1, AskLeaves DEF Start, Together
    <3>3. job' \in Jobs /\ job' # NoJob /\ busy' # job'
      <4>1. run' = run + 1 /\ run \in Int /\ run' \in Runs
        BY <1>a, <2>1, TypeStep, RunFacts DEF Start, TypeOK, RigInv
      <4>2. <<run', 0>> \in Jobs /\ <<run', 0>>[1] = run'
        BY <4>1, JobFacts, RigAssumption
      <4>3. busy = <<run', 0>> => run' <= run
        BY <1>a, <4>2 DEF OnePlace, AtServer
      <4> QED BY <3>2, <4>1, <4>2, <4>3, JobFacts
    <3> QED BY <1>b, <3>2, <3>3
  <2>2. CASE Started
    <3>1. job # NoJob /\ inbox = {} /\ busy = NoJob
      <4>1. job # NoJob
        BY <1>a, <2>2, JobFacts, RigAssumption DEF Started, Together, TypeOK
      <4> QED BY <2>2, <2>a, <4>1 DEF Started
    <3> QED BY <2>2, <3>1 DEF Started
  <2>3. CASE StartFails
    <3>1. inbox = {} /\ loop' = "off" /\ job' = NoJob /\ UNCHANGED <<inbox, busy>>
      BY <1>2, <2>3, <2>a DEF StartFails, RunDies
    <3> QED BY <3>1
  <2>4. CASE UNCHANGED <<job, inbox, busy, reply>> /\ loop # "off"
    BY <2>4, <2>a
  <2>5. CASE TickObserving \/ TickActing
    BY <1>a, <2>4, <2>5 DEF TickObserving, TickActing, Actuate, Together, simVars
  <2>6. CASE AdapterObserves
    BY <1>a, <2>6, <2>a DEF AdapterObserves, TickEnds, simVars
  <2>7. CASE AdapterActs
    <3>1. job = NoJob /\ inbox = {} /\ Ask(Head(mailbox)) /\ busy' = busy /\ loop' = loop
      BY <1>a, <2>7, <2>a DEF AdapterActs, Together
    <3>2. loop = "acting" /\ Head(mailbox) \in Jobs
      <4>1. /\ 1 \in 1..Len(mailbox) /\ Head(mailbox) = mailbox[1]
            /\ mailbox[1] # Observe /\ mailbox[1] \in Jobs \cup {Observe}
        BY <1>a, <2>7 DEF AdapterActs, TypeOK
      <4> QED BY <4>1, OwnMailbox
    <3>3. busy = NoJob
      BY <2>a, <3>1, <3>2
    <3>4. job' = Head(mailbox) /\ reply' = NoReply /\ inbox' \subseteq {job'}
      BY <1>a, <3>1, AskLeaves
    <3> QED BY <1>b, <3>1, <3>2, <3>3, <3>4, JobFacts
  <2>8. CASE AdapterGetsReply
    <3>1. job # NoJob /\ inbox = {} /\ busy = NoJob
      BY <1>a, <2>8, <2>a DEF AdapterGetsReply, Together
    <3> QED BY <2>8, <3>1 DEF AdapterGetsReply
  <2>9. CASE AdapterGivesUp
    <3>1. loop = "acting" /\ job[1] = run /\ job # NoJob
      BY <1>a, <2>9 DEF AdapterGivesUp, Together, OwnAdapter
    <3>2. inbox = {}
      BY <1>2, <2>9, <2>a, <3>1, NothingUnread DEF AdapterGivesUp
    <3> QED BY <2>9, <3>1, <3>2 DEF AdapterGivesUp, RunDies, Awaited
  <2>10. CASE WaiterTimesOut
    <3>1. loop # "off"
      BY <1>a, <2>10 DEF WaiterTimesOut, Together
    <3>2. inbox = {}
      BY <1>2, <2>10, <3>1, NothingUnread DEF WaiterTimesOut
    <3> QED BY <2>10, <3>2 DEF WaiterTimesOut, RunDies
  <2>11. CASE ServerStep /\ UNCHANGED <<run, sent, procVars>>
    <3>1. UNCHANGED <<job, loop>>
      BY <2>11 DEF procVars
    <3>2. CASE \E j \in Jobs : Take(j)
      <4>1. PICK j \in Jobs : Take(j)
        BY <3>2
      <4>2. /\ j = job /\ inbox' = {} /\ busy' = job /\ reply' = reply /\ job # NoJob
            /\ inbox # {}
        BY <2>a, <4>1 DEF Take
      <4> QED BY <2>a, <3>1, <4>2
    <3>3. CASE (\E ok \in BOOLEAN : CarryOut(ok)) \/ Reject
      <4>1. busy' = NoJob /\ inbox' = inbox /\ busy # NoJob
        BY <3>3 DEF CarryOut, Reject
      <4>2. busy = job => inbox = {}
        BY <2>a
      <4>3. reply' = reply \/ busy = job
        BY <3>3 DEF CarryOut, Reject, Answer
      <4> QED BY <2>a, <3>1, <4>1, <4>2, <4>3
    <3>4. CASE Crash
      BY <1>1, <3>4 DEF Crash
    <3>5. CASE Restart
      BY <2>a, <3>1, <3>5 DEF Restart
    <3> QED BY <2>11, <3>2, <3>3, <3>4, <3>5 DEF ServerStep
  <2> QED BY <2>1, <2>2, <2>3, <2>5, <2>6, <2>7, <2>8, <2>9, <2>10, <2>11, StepCases
<1>3. up' => ~abandoned /\ ~(driver = "starting" /\ driver' = "off" /\ job \in inbox)
  BY <1>a DEF Next, Beside, TypeOK
<1> QED BY <1>1, <1>2, <1>3

----------------------------------------------------------------------------
(* The theorems.                                                           *)

LEMMA InvStep == RigInv /\ [Next]_vars => RigInv'
<1>1. CASE Next
  BY <1>1, TypeStep, OrderStep, PlaceStep, TogetherStep, WaitsStep, JobStep, ShowsStep, OwnStep,
     LastStep, DownStep, BehindStep DEF RigInv
<1>2. CASE UNCHANGED vars
  <2> USE <1>2 DEF vars
  <2>1. RigInv => TypeOK' /\ LogInOrder'
    BY DEF RigInv, TypeOK, LogInOrder
  <2>2. RigInv => OnePlace'
    BY DEF RigInv, OnePlace, Waiting, Outstanding, AtServer
  <2>3. RigInv => Together' /\ LoopWaits' /\ JobIsLast' /\ ReplyShows'
    BY DEF RigInv, Together, LoopWaits, JobIsLast, ReplyShows, Settled, AtServer
  <2>4. RigInv => OwnAdapter' /\ LastShows' /\ DownHoldsNothing' /\ NothingLeftBehind'
    BY DEF RigInv, OwnAdapter, LastShows, DownHoldsNothing, NothingLeftBehind
  <2> QED BY <2>1, <2>2, <2>3, <2>4 DEF RigInv
<1> QED BY <1>1, <1>2

\* The invariant holds in every state of the rig.
THEOREM RigInvHolds == Spec => []RigInv
BY InitInv, InvStep, PTL DEF Spec

\* The rig's variables keep their types.
THEOREM RigTypeCorrect == Spec => []TypeOK
<1>1. RigInv => TypeOK
  BY DEF RigInv
<1> QED BY <1>1, RigInvHolds, PTL

\* The arm makes exactly the moves a run's loop sent, in order, each one once,
\* save perhaps the last: for any number of runs and actions, any timer first,
\* any server fault, an adapter of the run's own or one that outlives it.
THEOREM MovesAsSentHolds == Spec => []MovesAsSent
<1>1. RigInv => MovesAsSent
  <2> SUFFICES ASSUME RigInv PROVE MovesAsSent
    OBVIOUS
  <2>1. run \in Runs /\ LogInOrder
    BY DEF RigInv, TypeOK
  <2>2. \A r \in 1..run : r \in Runs
    BY <2>1, RigAssumption DEF Runs
  <2> QED BY <2>1, <2>2 DEF MovesAsSent, LogInOrder
<1> QED BY <1>1, RigInvHolds, PTL

\* Nothing but a live run's own loop steps the arm, if the run's adapter is its
\* own and no start was given up on before the server read its reset.
THEOREM NoGhostStepsHolds == Spec => NoGhostSteps
<1> DEFINE Live == linked /\ ~abandoned /\ loop # "off"
<1> DEFINE OwnStepOnly == \A r \in Runs : log'[r] # log[r] => r = run
<1>1. RigInv /\ [Next]_vars => [Live => OwnStepOnly]_vars
  <2> SUFFICES ASSUME RigInv, Next, Live, NEW r \in Runs, log'[r] # log[r] PROVE r = run
    BY DEF vars
  <2>1. PICK ok \in BOOLEAN : CarryOut(ok)
    BY DEF Next, Step, Start, Started, StartFails, TickObserving, TickActing, AdapterObserves,
           AdapterActs, AdapterGetsReply, AdapterGivesUp, WaiterTimesOut, Take, Reject, Crash,
           Restart, simVars
  <2>2. busy # NoJob /\ (r # busy[1] => log'[r] = log[r])
    BY <2>1 DEF CarryOut, RigInv, TypeOK
  <2>3. busy = job /\ driver # "starting"
    BY <2>2 DEF RigInv, NothingLeftBehind, Together
  <2> QED BY <2>2, <2>3 DEF RigInv, OwnAdapter
<1>2. Spec => [][Live => OwnStepOnly]_vars
  BY <1>1, RigInvHolds, PTL DEF Spec
<1> QED BY <1>2 DEF NoGhostSteps

\* The frame a loop observes is the arm right after its last action, or after
\* its run's own reset.
THEOREM ObservationFollowsLastActionHolds == Spec => ObservationFollowsLastAction
<1> DEFINE Observing == linked /\ AdapterObserves /\ loop = "observing"
<1> DEFINE Shown == IF sent[run] = 0
                      THEN last = [origin |-> <<run, 0>>, steps |-> <<>>]
                      ELSE last.steps # <<>> /\ Last(last.steps) = <<run, sent[run]>>
<1>1. RigInv /\ [Next]_vars => [Observing => Shown]_vars
  BY DEF RigInv, LastShows
<1>2. Spec => [][Observing => Shown]_vars
  BY <1>1, RigInvHolds, PTL DEF Spec
<1> QED BY <1>2 DEF ObservationFollowsLastAction

=============================================================================
