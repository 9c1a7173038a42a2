---------------------------- MODULE ControlLoop ----------------------------
(***************************************************************************)
(* lib/control_loop.ex: the GenServer that pops one action per tick, hands *)
(* it to the actuator sink, and asks the inference adapter for another     *)
(* action chunk when the queue runs low.                                   *)
(*                                                                         *)
(* One GenServer callback is one action.  The tick timer's call and its    *)
(* handling are a single step: the mailbox below holds only the results    *)
(* that inference tasks send back, because the order of those among the    *)
(* ticks is the only interleaving the callbacks can observe.               *)
(***************************************************************************)
EXTENDS Integers, FiniteSets, SequencesExt, ActionQueue

CONSTANTS
  Actions,     \* what one element of an action chunk can be
  LowWater,    \* low_water_threshold
  ChunkMax,    \* bound: the longest chunk an adapter returns
  MaxInitial,  \* bound: the longest initial_queue
  Calls,       \* identities of inference tasks (their pids)
  Faults       \* what may go wrong outside the loop, a subset of AllFaults

(***************************************************************************)
(* "observe", "sink", "telemetry": the observation source, the actuator    *)
(* sink, the telemetry sink raises.  "malformed": the adapter returns      *)
(* {:ok, x} with x not a list (zero_mq_client.ex passes the decoded        *)
(* action_chunk on unchecked).  "killed": the inference task dies of an    *)
(* exit signal, which its rescue/catch cannot intercept, and so sends      *)
(* nothing.                                                                *)
(***************************************************************************)
AllFaults == {"observe", "sink", "telemetry", "malformed", "killed"}

ASSUME LowWaterAssumption == LowWater \in Nat \ {0}
ASSUME BoundsAssumption == ChunkMax \in Nat /\ MaxInitial \in Nat
ASSUME FaultsAssumption == Faults \subseteq AllFaults

VARIABLES
  up,        \* the GenServer process is alive
  queue,     \* state.queue
  inFlight,  \* state.infer_action_in_flight
  tasks,     \* inference tasks still running
  mailbox,   \* {:infer_action_result, _} messages not yet handled
  orphaned   \* history: a task of the live loop was killed

vars == <<up, queue, inFlight, tasks, mailbox, orphaned>>

Chunk == SeqOf(Actions, ChunkMax)

\* What a task reports; chunk is meaningful for "ok" only.
Result ==
  [call : Calls, kind : {"ok"}, chunk : Chunk]
    \cup [call : Calls, kind : {"error", "malformed"}, chunk : {<<>>}]

\* The calls that have been issued and whose result has not been handled.
Outstanding == tasks \cup {mailbox[i].call : i \in 1..Len(mailbox)}

----------------------------------------------------------------------------
(* Seeded defects, used only to show which property each one breaks.       *)

TriggersIgnoringInFlight == Depth(queue) < LowWater
TriggersAtThreshold == Depth(queue) <= LowWater /\ ~inFlight

HandleErrorKeepingFlag ==
  /\ mailbox # <<>>
  /\ Head(mailbox).kind = "error"
  /\ mailbox' = Tail(mailbox)
  /\ UNCHANGED <<up, queue, inFlight, tasks, orphaned>>

----------------------------------------------------------------------------

Init ==
  /\ up = TRUE
  /\ queue \in SeqOf(Actions, MaxInitial)
  /\ inFlight = FALSE
  /\ tasks = {}
  /\ mailbox = <<>>
  /\ orphaned = FALSE

\* The tick's depth check before the pop, and the first clause of
\* maybe_trigger_infer_action/1.
Triggers == Depth(queue) < LowWater /\ ~inFlight

\* Task.start/1: an unlinked process running the adapter's infer_action.
StartTask == \E c \in Calls \ Outstanding : tasks' = tasks \cup {c}

MaybeTrigger ==
  \/ Triggers /\ StartTask /\ inFlight' = TRUE
  \/ ~Triggers /\ UNCHANGED <<tasks, inFlight>>

\* The process dies: its state and its mailbox are gone, its tasks are not.
Crash ==
  /\ up' = FALSE
  /\ queue' = New
  /\ inFlight' = FALSE
  /\ mailbox' = <<>>
  /\ UNCHANGED orphaned

\* A tick that finds an action: top up first, then pop it and send it.
TickSends ==
  /\ up
  /\ Depth(queue) > 0
  /\ MaybeTrigger
  /\ queue' = Rest(queue)
  /\ UNCHANGED <<up, mailbox, orphaned>>

\* A tick that finds nothing to send: telemetry {:queue_exhausted, 0}.
TickExhausted ==
  /\ up
  /\ Depth(queue) = 0
  /\ MaybeTrigger
  /\ UNCHANGED <<up, queue, mailbox, orphaned>>

\* The observation source raises inside handle_call: nothing was started or
\* popped yet, and the loop dies.
TickObserveFails ==
  /\ up
  /\ "observe" \in Faults
  /\ Triggers
  /\ Crash
  /\ UNCHANGED tasks

\* The sink raises on the popped action: an inference task may already have
\* been started by this very tick, and survives.
TickSinkFails ==
  /\ up
  /\ "sink" \in Faults
  /\ Depth(queue) > 0
  /\ IF Triggers THEN StartTask ELSE UNCHANGED tasks
  /\ Crash

\* The telemetry sink raises on {:queue_exhausted, 0}, likewise.
TickTelemetryFails ==
  /\ up
  /\ "telemetry" \in Faults
  /\ Depth(queue) = 0
  /\ IF Triggers THEN StartTask ELSE UNCHANGED tasks
  /\ Crash

----------------------------------------------------------------------------

\* The task sends its result to the loop; a dead loop never reads it.
Send(r) == mailbox' = IF up THEN Append(mailbox, r) ELSE mailbox

TaskReturns(c, r) ==
  /\ c \in tasks
  /\ r.call = c
  /\ r.kind = "malformed" => "malformed" \in Faults
  /\ tasks' = tasks \ {c}
  /\ Send(r)
  /\ UNCHANGED <<up, queue, inFlight, orphaned>>

TaskKilled(c) ==
  /\ "killed" \in Faults
  /\ c \in tasks
  /\ tasks' = tasks \ {c}
  /\ orphaned' = (orphaned \/ up)
  /\ UNCHANGED <<up, queue, inFlight, mailbox>>

\* handle_info({:infer_action_result, {:ok, chunk}}).
HandleChunk ==
  /\ mailbox # <<>>
  /\ Head(mailbox).kind = "ok"
  /\ queue' = Enqueue(queue, Head(mailbox).chunk)
  /\ inFlight' = FALSE
  /\ mailbox' = Tail(mailbox)
  /\ UNCHANGED <<up, tasks, orphaned>>

\* handle_info({:infer_action_result, {:error, reason}}): what is queued
\* keeps draining, and the next low tick may ask again.
HandleError ==
  /\ mailbox # <<>>
  /\ Head(mailbox).kind = "error"
  /\ inFlight' = FALSE
  /\ mailbox' = Tail(mailbox)
  /\ UNCHANGED <<up, queue, tasks, orphaned>>

\* {:ok, not_a_list} fails enqueue/2's is_list guard and the loop dies.
HandleMalformed ==
  /\ mailbox # <<>>
  /\ Head(mailbox).kind = "malformed"
  /\ Crash
  /\ UNCHANGED tasks

HandleResult == HandleChunk \/ HandleError \/ HandleMalformed

Next ==
  \/ TickSends
  \/ TickExhausted
  \/ TickObserveFails
  \/ TickSinkFails
  \/ TickTelemetryFails
  \/ HandleChunk
  \/ HandleError
  \/ HandleMalformed
  \/ \E c \in Calls, r \in Result : TaskReturns(c, r)
  \/ \E c \in Calls : TaskKilled(c)

Spec == Init /\ [][Next]_vars

----------------------------------------------------------------------------
(* Properties.                                                             *)

\* The type of every variable of the loop.
TypeOK ==
  /\ up \in BOOLEAN
  /\ queue \in Seq(Actions)
  /\ inFlight \in BOOLEAN
  /\ tasks \subseteq Calls
  /\ mailbox \in Seq(Result)
  /\ orphaned \in BOOLEAN

\* At most one infer_action call is outstanding, counting the tasks that run
\* and the results that wait in the mailbox of a live loop
\* (maybe_trigger_infer_action/1's "in flight" flag is what prevents two).
SingleFlight ==
  up => /\ \A c, d \in Outstanding : c = d
        /\ Len(mailbox) <= 1
        /\ mailbox # <<>> => tasks = {}

\* The flag is up exactly while there is a call to wait for, or from the killing
\* of a task on: it is never cleared early (a second call could start), nothing
\* but a killed task leaves it set with nothing outstanding (the queue is never
\* refilled again), and nothing repairs that (control_loop.ex:246-270 neither
\* links nor monitors the task).
FlagTracksCall == up => (inFlight <=> Outstanding # {} \/ orphaned)

\* The queue never holds more than the initial queue, or one chunk on top of
\* what the tick that asked for it left behind: that tick saw less than
\* LowWater actions and popped one, however results and ticks interleave.
LeftByTrigger == IF LowWater = 1 THEN 0 ELSE LowWater - 2

DepthBound ==
  \/ Depth(queue) <= MaxInitial
  \/ Depth(queue) <= LeftByTrigger + ChunkMax

\* The inductive invariant behind the three above: while an answer is awaited
\* the queue stays at or below what the asking tick left, a killed task was the
\* only one and has no successor, and a dead loop holds nothing.
WaitingLeavesRoom == up /\ Outstanding # {} => Depth(queue) <= LeftByTrigger

KilledWasTheOne == up /\ orphaned => Outstanding = {}

DeadHoldsNothing == ~up => queue = <<>> /\ ~inFlight /\ mailbox = <<>>

LoopInv ==
  /\ TypeOK
  /\ SingleFlight
  /\ FlagTracksCall
  /\ DepthBound
  /\ WaitingLeavesRoom
  /\ KilledWasTheOne
  /\ DeadHoldsNothing

\* control_loop.ex:25-26 and design.md:50-52: the tick that takes the queue
\* below the low-water threshold has triggered the refill before it executes.
CrossingTickHasTriggered ==
  [][ TickSends /\ Depth(queue) >= LowWater /\ Depth(queue') < LowWater
        => inFlight' ]_vars

=============================================================================
