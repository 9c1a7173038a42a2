------------------------- MODULE ControlLoopHistory -------------------------
(***************************************************************************)
(* ControlLoop with auxiliary variables that remember what the loop did,   *)
(* for the properties that are about whole runs: which actions the sink    *)
(* was handed, in which order, and how old the observation behind each of  *)
(* them was.  The auxiliary variables never enable or disable a step,      *)
(* except for the bound MaxSent on the length of the run.                  *)
(***************************************************************************)
EXTENDS ControlLoop

CONSTANT MaxSent  \* bound: actions sent in a run

ASSUME MaxSentAssumption == MaxSent \in Nat

VARIABLES
  sent,      \* actions handed to the sink, oldest first
  produced,  \* initial queue and all enqueued chunks, in order of arrival
  asked,     \* call -> how many actions had been sent when its observation
             \*         was taken
  due        \* for each produced action, the place it would have had in
             \* `sent' if nothing had been executed after its observation

hvars == <<up, queue, inFlight, tasks, mailbox, orphaned, sent, produced, asked, due>>

HInit ==
  /\ Init
  /\ sent = <<>>
  /\ produced = queue
  /\ asked = [c \in Calls |-> 0]
  /\ due = [i \in 1..Len(queue) |-> i]

\* The observation source runs inside the tick, before the pop.
NoteAsked ==
  asked' = [c \in Calls |-> IF c \in tasks' \ tasks THEN Len(sent) ELSE asked[c]]

NoteSent ==
  /\ Len(sent) < MaxSent
  /\ sent' = Append(sent, NextAction(queue))

NoteProduced(r) ==
  /\ produced' = produced \o r.chunk
  /\ due' = due \o [i \in 1..Len(r.chunk) |-> asked[r.call] + i]

HTickSends == TickSends /\ NoteAsked /\ NoteSent /\ UNCHANGED <<produced, due>>

HTickExhausted ==
  TickExhausted /\ NoteAsked /\ UNCHANGED <<sent, produced, due>>

HTickObserveFails == TickObserveFails /\ UNCHANGED <<sent, produced, asked, due>>

\* The sink was handed the action: whether it acted on it before raising is
\* not known here, so it counts as sent.
HTickSinkFails ==
  TickSinkFails /\ NoteAsked /\ NoteSent /\ UNCHANGED <<produced, due>>

HTickTelemetryFails ==
  TickTelemetryFails /\ NoteAsked /\ UNCHANGED <<sent, produced, due>>

HHandleChunk ==
  HandleChunk /\ NoteProduced(Head(mailbox)) /\ UNCHANGED <<sent, asked>>

HHandleOther ==
  (HandleError \/ HandleMalformed) /\ UNCHANGED <<sent, produced, asked, due>>

HTaskReturns(c, r) == TaskReturns(c, r) /\ UNCHANGED <<sent, produced, asked, due>>

HTaskKilled(c) == TaskKilled(c) /\ UNCHANGED <<sent, produced, asked, due>>

HNext ==
  \/ HTickSends
  \/ HTickExhausted
  \/ HTickObserveFails
  \/ HTickSinkFails
  \/ HTickTelemetryFails
  \/ HHandleChunk
  \/ HHandleOther
  \/ \E c \in Calls, r \in Result : HTaskReturns(c, r)
  \/ \E c \in Calls : HTaskKilled(c)

HSpec == HInit /\ [][HNext]_hvars

----------------------------------------------------------------------------
(* Properties.                                                             *)

\* The auxiliary variables keep their types and `due' runs along `produced'.
HTypeOK ==
  /\ sent \in Seq(Actions)
  /\ produced \in Seq(Actions)
  /\ asked \in [Calls -> Nat]
  /\ due \in Seq(Nat)
  /\ Len(due) = Len(produced)

\* "An action is never executed twice" (control_loop.ex:29), and none is lost
\* or overtaken while the loop lives: what was produced is exactly what was
\* sent followed by what is still queued.
NothingLostOrRepeated == up => produced = sent \o queue

\* The observation behind an action is stale by fewer than LowWater executed
\* actions when the action's chunk starts to run: call it the price of asking
\* early.  It depends on the depth check before the pop, on single flight and
\* on the chunk going to the back of the queue, all at once.
BoundedStaleness ==
  \A k \in 1..Len(produced) : k - due[k] \in 0..(LowWater - 1)

\* The inductive invariant behind the two above.  What a waiting call's chunk
\* will have to queue behind was bounded when the call was issued, because
\* nothing else is produced meanwhile.
WaitingLagBounded ==
  up => \A c \in Outstanding : Len(produced) - asked[c] \in 0..(LowWater - 1)

SentIsPrefix == IsPrefix(sent, produced)

HistoryInv ==
  /\ HTypeOK
  /\ NothingLostOrRepeated
  /\ SentIsPrefix
  /\ BoundedStaleness
  /\ WaitingLagBounded

\* The loop implements the abstract action stream: a dead loop is a closed
\* stream, the live queue is the part of the stream not yet handed out.
Stream == INSTANCE ActionStream WITH stream <- produced, out <- sent, open <- up

ImplementsStream == Stream!StreamSpec

=============================================================================
