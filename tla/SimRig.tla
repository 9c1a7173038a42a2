------------------------------- MODULE SimRig -------------------------------
(***************************************************************************)
(* The demo's perception-action loop on the sim node: the driver that      *)
(* ticks (demo/sim_node.ex), the control loop seen from its two seams, the *)
(* SimEnvAdapter behind both (sim_env_adapter.ex), and the sim server with *)
(* its one arm (sim_server/server.py, env.py).                             *)
(*                                                                         *)
(* Three processes wait for one step at once: the driver on tick/1, the    *)
(* loop on actuate/2, the adapter on its request.  Each has a timeout of   *)
(* its own, all 5 s by default, so any of them may pass first.  A request  *)
(* given up on stays at the server; by ReqRepLink its late reply reaches   *)
(* nobody.  The server reads from its connections in no fixed order.       *)
(***************************************************************************)
EXTENDS Integers, Sequences, SequencesExt, FiniteSets

CONSTANTS
  MaxRuns,   \* bound: runs of the demo
  MaxSteps,  \* bound: actions sent in a run
  Faults     \* what the sim server may suffer

\* "reject": a request is refused before the arm moves.  "fail": env.step or
\* env.reset did its work and the payload then raised.  "crash": the server
\* process dies and is started again.
AllFaults == {"reject", "fail", "crash"}

ASSUME RigAssumption ==
  /\ MaxRuns \in Nat /\ MaxSteps \in Nat
  /\ Faults \subseteq AllFaults

VARIABLES
  linked,   \* the driver starts the adapter; else it is injected, and outlives runs
  run,      \* the current run, or the last one
  sent,     \* run -> how many actions its loop has handed to the sink
  driver,   \* "off", "starting", "between" ticks, "ticking"
  loop,     \* "off", "free", "observing", "acting"
  adapter,  \* "off", "free", "busy" with a request
  job,      \* the request the adapter waits for
  mailbox,  \* calls the adapter has not handled
  last,     \* last_observation: the state of the arm it shows
  up,       \* the sim server process is there
  inbox,    \* requests it has not read
  busy,     \* the request it is carrying out
  reply,    \* its reply to the adapter's job, not yet read
  arm,      \* the state of the arm: the reset it comes from, the steps since
  log,      \* run -> the numbers of the actions of it that the arm has made
  abandoned \* the server may hold a reset given up on before it was read

vars == <<linked, run, sent, driver, loop, adapter, job, mailbox, last,
          up, inbox, busy, reply, arm, log, abandoned>>

procVars == <<driver, loop, adapter, job, mailbox, last>>
simVars == <<up, inbox, busy, reply, arm, log>>

Runs == 0..MaxRuns

\* A request is a run and a number: 0 for the reset, n for its n-th action.
Jobs == Runs \X (0..MaxSteps)
NoJob == <<-1, -1>>
Observe == <<-2, -2>>  \* the call {:observe} in the adapter's mailbox
IsReset(j) == j[2] = 0

\* The arm of a server that has served no reset: gym refuses to step it.
Unreset == [origin |-> NoJob, steps |-> <<>>]
ArmStates == [origin : Jobs \cup {NoJob}, steps : Seq(Jobs)]

NoReply == [ok |-> FALSE, shows |-> Unreset, to |-> NoJob]

TypeOK ==
  /\ linked \in BOOLEAN
  /\ run \in Runs
  /\ sent \in [Runs -> 0..MaxSteps]
  /\ driver \in {"off", "starting", "between", "ticking"}
  /\ loop \in {"off", "free", "observing", "acting"}
  /\ adapter \in {"off", "free", "busy"}
  /\ job \in Jobs \cup {NoJob}
  /\ mailbox \in Seq(Jobs \cup {Observe})
  /\ last \in ArmStates
  /\ up \in BOOLEAN
  /\ inbox \subseteq Jobs
  /\ busy \in Jobs \cup {NoJob}
  /\ reply \in [ok : BOOLEAN, shows : ArmStates, to : Jobs \cup {NoJob}]
  /\ arm \in ArmStates
  /\ log \in [Runs -> Seq(1..MaxSteps)]
  /\ abandoned \in BOOLEAN

----------------------------------------------------------------------------

\* An injected adapter has been started, and its reset served, beforehand.
Init ==
  /\ linked \in BOOLEAN
  /\ run = 0
  /\ sent = [r \in Runs |-> 0]
  /\ driver = "off"
  /\ loop = "off"
  /\ adapter = IF linked THEN "off" ELSE "free"
  /\ job = NoJob
  /\ mailbox = <<>>
  /\ arm = IF linked THEN Unreset ELSE [origin |-> <<0, 0>>, steps |-> <<>>]
  /\ last = arm
  /\ up = TRUE
  /\ inbox = {}
  /\ busy = NoJob
  /\ reply = NoReply
  /\ log = [r \in Runs |-> <<>>]
  /\ abandoned = FALSE

\* SimEnvAdapter.Client.request: a server that is down never gets it.
Ask(j) ==
  /\ adapter' = "busy"
  /\ job' = j
  /\ reply' = NoReply
  /\ inbox' = IF up THEN inbox \cup {j} ELSE inbox

\* An idle server has read what is there long before 5 s are over, so a timer
\* passes while it is busy, down, or waiting for nothing.
TimersMayPass == up => inbox = {} \/ busy # NoJob

\* The loop raises, or a caller's GenServer.call exits: driver, loop and a
\* started adapter are linked, so one death takes all of them.
RunDies ==
  /\ driver' = "off"
  /\ loop' = "off"
  /\ IF linked
       THEN adapter' = "off" /\ job' = NoJob /\ mailbox' = <<>> /\ reply' = NoReply
       ELSE UNCHANGED <<adapter, job, mailbox, reply>>

----------------------------------------------------------------------------
(* Seeded defects, used only to show which property each one breaks.       *)

\* An actuate/2 that takes a failed request for a lost frame and goes on.
AdapterGivesUpSilently ==
  /\ adapter = "busy"
  /\ TimersMayPass
  /\ ~IsReset(job)
  /\ adapter' = "free"
  /\ job' = NoJob
  /\ reply' = NoReply
  /\ loop' = "free"
  /\ driver' = "between"
  /\ UNCHANGED <<run, sent, mailbox, last, up, inbox, busy, arm, log>>

\* A request without a timer of its own.
AdapterGivesUpOnErrorOnly ==
  /\ adapter = "busy"
  /\ driver # "starting"
  /\ reply.to = job /\ ~reply.ok
  /\ adapter' = "free"
  /\ job' = NoJob
  /\ reply' = NoReply
  /\ UNCHANGED <<driver, loop, mailbox>>
  /\ UNCHANGED <<run, sent, last, up, inbox, busy, arm, log>>

\* A start that does not wait for the reset to be served.
StartWithoutReset ==
  /\ driver = "off"
  /\ run < MaxRuns
  /\ run' = run + 1
  /\ driver' = "between"
  /\ loop' = "free"
  /\ adapter' = "free"
  /\ inbox' = IF up THEN inbox \cup {<<run', 0>>} ELSE inbox
  /\ last' = [origin |-> <<run', 0>>, steps |-> <<>>]
  /\ UNCHANGED <<sent, job, mailbox, up, busy, reply, arm, log>>

\* A clause for actuate calls that takes an observe call for one.
AdapterActsOnAnyCall ==
  /\ adapter = "free"
  /\ mailbox # <<>>
  /\ Ask(Head(mailbox))
  /\ mailbox' = Tail(mailbox)
  /\ UNCHANGED <<run, sent, driver, loop, last, up, busy, arm, log>>

----------------------------------------------------------------------------
(* The sim node.                                                           *)

\* Demo.SimNode.start/1.
Start ==
  /\ driver = "off"
  /\ run < MaxRuns
  /\ run' = run + 1
  /\ IF linked
       THEN driver' = "starting" /\ Ask(<<run', 0>>) /\ UNCHANGED loop
       ELSE driver' = "between" /\ loop' = "free" /\ UNCHANGED <<adapter, job, reply, inbox>>
  /\ UNCHANGED <<sent, mailbox, last, up, busy, arm, log>>

\* SimEnvAdapter.init/1 has its reset; the loop is started after it.
Started ==
  /\ driver = "starting"
  /\ reply.to = job
  /\ reply.ok
  /\ driver' = "between"
  /\ loop' = "free"
  /\ adapter' = "free"
  /\ last' = reply.shows
  /\ job' = NoJob
  /\ reply' = NoReply
  /\ UNCHANGED <<run, sent, mailbox, up, inbox, busy, arm, log>>

\* {:stop, {:sim_server_unreachable, reason}}: an error reply, no peer, or a
\* timeout, after which the reset may still be served.
StartFails ==
  /\ driver = "starting"
  /\ IF reply.to = job THEN ~reply.ok ELSE TimersMayPass
  /\ RunDies
  /\ UNCHANGED <<run, sent, last, up, inbox, busy, arm, log>>

\* run_loop/3 calls tick/1.  The loop observes if it is low, then sends the
\* action at the front of its queue, if any.
TickObserving ==
  /\ driver = "between"
  /\ driver' = "ticking"
  /\ loop' = "observing"
  /\ mailbox' = Append(mailbox, Observe)
  /\ UNCHANGED <<run, sent, adapter, job, last, simVars>>

\* actuate/2: the mapped action goes to the adapter.
Actuate ==
  /\ sent[run] < MaxSteps
  /\ sent' = [sent EXCEPT ![run] = @ + 1]
  /\ mailbox' = Append(mailbox, <<run, sent[run] + 1>>)
  /\ loop' = "acting"
  /\ driver' = "ticking"

TickActing ==
  /\ driver = "between"
  /\ Actuate
  /\ UNCHANGED <<run, adapter, job, last, simVars>>

TickEnds == loop' = "free" /\ driver' = "between"

\* handle_call(:observe): the cached observation, without asking the server;
\* the tick goes on with an action, or has none to send.
AdapterObserves ==
  /\ adapter = "free"
  /\ mailbox # <<>>
  /\ Head(mailbox) = Observe
  /\ IF loop = "observing"
       THEN \/ /\ sent[run] < MaxSteps
               /\ sent' = [sent EXCEPT ![run] = @ + 1]
               /\ mailbox' = Append(Tail(mailbox), <<run, sent[run] + 1>>)
               /\ loop' = "acting"
               /\ UNCHANGED driver
            \/ TickEnds /\ mailbox' = Tail(mailbox) /\ UNCHANGED sent
       ELSE mailbox' = Tail(mailbox) /\ UNCHANGED <<sent, loop, driver>>
  /\ UNCHANGED <<run, adapter, job, last, simVars>>

\* handle_call({:actuate, action}), also for a caller that is gone.
AdapterActs ==
  /\ adapter = "free"
  /\ mailbox # <<>>
  /\ Head(mailbox) # Observe
  /\ Ask(Head(mailbox))
  /\ mailbox' = Tail(mailbox)
  /\ UNCHANGED <<run, sent, driver, loop, last, up, busy, arm, log>>

\* The loop that is waiting for this step, if it still lives.
Awaited == loop = "acting" /\ job[1] = run

AdapterGetsReply ==
  /\ adapter = "busy"
  /\ driver # "starting"
  /\ reply.to = job
  /\ reply.ok
  /\ adapter' = "free"
  /\ last' = reply.shows
  /\ job' = NoJob
  /\ reply' = NoReply
  /\ IF Awaited THEN TickEnds ELSE UNCHANGED <<loop, driver>>
  /\ UNCHANGED <<run, sent, mailbox, up, inbox, busy, arm, log>>

\* An error reply, or the request times out: actuate/2 raises in the loop.
AdapterGivesUp ==
  /\ adapter = "busy"
  /\ driver # "starting"
  /\ IF reply.to = job THEN ~reply.ok ELSE TimersMayPass
  /\ IF Awaited /\ linked
       THEN RunDies
       ELSE /\ adapter' = "free"
            /\ job' = NoJob
            /\ reply' = NoReply
            /\ IF Awaited THEN driver' = "off" /\ loop' = "off" ELSE UNCHANGED <<driver, loop>>
            /\ UNCHANGED mailbox
  /\ UNCHANGED <<run, sent, last, up, inbox, busy, arm, log>>

\* tick/1 or actuate/2 or observe/1 exits after its 5 s.
WaiterTimesOut ==
  /\ driver = "ticking"
  /\ TimersMayPass
  /\ RunDies
  /\ UNCHANGED <<run, sent, last, up, inbox, busy, arm, log>>

----------------------------------------------------------------------------
(* The sim server.                                                         *)

Take(j) ==
  /\ up
  /\ busy = NoJob
  /\ j \in inbox
  /\ inbox' = inbox \ {j}
  /\ busy' = j
  /\ UNCHANGED <<run, sent, procVars, up, reply, arm, log>>

Answer(ok, state) ==
  reply' = IF job = busy THEN [ok |-> ok, shows |-> state, to |-> busy] ELSE reply

\* env.reset() or env.step(action), and the observation payload after it.
Moved ==
  IF IsReset(busy)
    THEN [origin |-> busy, steps |-> <<>>]
    ELSE [arm EXCEPT !.steps = Append(@, busy)]

CanMove == IsReset(busy) \/ arm # Unreset

CarryOut(ok) ==
  /\ busy # NoJob
  /\ CanMove
  /\ arm' = Moved
  /\ log' = IF IsReset(busy) THEN log ELSE [log EXCEPT ![busy[1]] = Append(@, busy[2])]
  /\ Answer(ok, Moved)
  /\ busy' = NoJob
  /\ UNCHANGED <<run, sent, procVars, up, inbox>>

\* A wrong-shape action, or a step of an environment that was never reset.
Reject ==
  /\ busy # NoJob
  /\ ~CanMove \/ "reject" \in Faults
  /\ Answer(FALSE, arm)
  /\ busy' = NoJob
  /\ UNCHANGED <<run, sent, procVars, up, inbox, arm, log>>

Crash ==
  /\ up
  /\ "crash" \in Faults
  /\ up' = FALSE
  /\ inbox' = {}
  /\ busy' = NoJob
  /\ arm' = Unreset
  /\ reply' \in {reply, NoReply}
  /\ UNCHANGED <<run, sent, procVars, log>>

Restart ==
  /\ ~up
  /\ up' = TRUE
  /\ UNCHANGED <<run, sent, procVars, inbox, busy, reply, arm, log>>

----------------------------------------------------------------------------

Step ==
  \/ Start
  \/ Started
  \/ StartFails
  \/ TickObserving
  \/ TickActing
  \/ AdapterObserves
  \/ AdapterActs
  \/ AdapterGetsReply
  \/ AdapterGivesUp
  \/ WaiterTimesOut
  \/ \E j \in Jobs : Take(j)
  \/ CarryOut(TRUE)
  \/ "fail" \in Faults /\ CarryOut(FALSE)
  \/ Reject
  \/ Crash
  \/ Restart

\* How the adapter is started never changes.  A start given up on before its
\* reset is read leaves that reset to a later run; a server that dies loses it.
Beside ==
  /\ UNCHANGED linked
  /\ abandoned' = (up' /\ (abandoned \/ (driver = "starting" /\ driver' = "off" /\ job \in inbox)))

Next == Step /\ Beside

Spec == Init /\ [][Next]_vars

AdapterStep ==
  \/ Started \/ StartFails
  \/ AdapterObserves \/ AdapterActs
  \/ AdapterGetsReply \/ AdapterGivesUp

(***************************************************************************)
(* The sim node's processes run and its timers fire; an idle server reads  *)
(* what is there.  Nothing else is asked of the sim server: a step may     *)
(* hang in the simulator, and a dead server may stay dead.                 *)
(***************************************************************************)
FairSpec ==
  /\ Spec
  /\ WF_vars(AdapterStep /\ Beside)
  /\ WF_vars(WaiterTimesOut /\ Beside)
  /\ WF_vars((\E j \in Jobs : Take(j)) /\ Beside)

----------------------------------------------------------------------------
(* Properties.                                                             *)

\* The arm makes exactly the moves a run's loop sent, in that order, each one
\* once, save perhaps the last, whose fate a timeout leaves unknown: whatever
\* timer passes first and however late the server is, no move is left out in
\* the middle, repeated, or overtaken.
MovesAsSent ==
  \A r \in 1..run :
    /\ \A i \in 1..Len(log[r]) : log[r][i] = i
    /\ sent[r] - Len(log[r]) \in {0, 1}

\* With an adapter of its own, nothing but a run's own loop steps the arm while
\* the run is live: the step a dead run left behind is over before the next
\* run's reset is served, or that run fails to start.  It takes a start given up
\* on before the server read its reset to break this: behind that reset an
\* action of the next run can stay unread until its timer passes, and the
\* server may then read the reset of the run after that one first.
NoGhostSteps ==
  [][ linked /\ ~abandoned /\ loop # "off"
        => \A r \in Runs : log'[r] # log[r] => r = run ]_vars

\* Nobody on the sim node waits for ever, although each of the three waits for
\* the next and the last of them for a server that may hang or be gone: a start
\* succeeds or fails, a tick ends or takes the run with it, and an adapter that
\* outlives the run is free for the next one.
EveryWaitEnds ==
  /\ driver = "starting" ~> driver # "starting"
  /\ driver = "ticking" ~> driver # "ticking"
  /\ adapter = "busy" ~> adapter # "busy"

\* What the loop then observes is the arm right after the last action it sent,
\* or after its run's own reset: never an earlier frame, however slow, failing
\* or restarted the server is, because a loop whose action failed is dead.
ObservationFollowsLastAction ==
  [][ linked /\ AdapterObserves /\ loop = "observing"
        => IF sent[run] = 0
             THEN last = [origin |-> <<run, 0>>, steps |-> <<>>]
             ELSE last.steps # <<>> /\ Last(last.steps) = <<run, sent[run]>> ]_vars

\* sim_env_adapter.ex:28-32: observe/1 never returns an observation divorced
\* from the arm's real state, it returns the arm's real, current state.
ObservationIsCurrent ==
  [][ AdapterObserves /\ loop = "observing" => last = arm ]_vars

=============================================================================
