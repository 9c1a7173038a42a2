---------------------------- MODULE ActionStream ----------------------------
(***************************************************************************)
(* What the control loop promises whoever drives the robot, with no queue, *)
(* no tasks and no threshold: the policy produces one stream of actions,   *)
(* and the sink is handed that stream from its start, in order, each       *)
(* action once, until the loop stops.  The stream is never rewritten; all  *)
(* that moves is the end of it and the place reached in it.                *)
(***************************************************************************)
EXTENDS Naturals, SequencesExt

CONSTANT Actions  \* what one action can be

VARIABLES
  stream,  \* everything the policy has produced so far
  out,     \* everything handed to the sink so far
  open     \* the loop is running

streamVars == <<stream, out, open>>

StreamInit == stream \in Seq(Actions) /\ out = <<>> /\ open = TRUE

Produce ==
  /\ open
  /\ stream' \in Seq(Actions)
  /\ IsPrefix(stream, stream')
  /\ UNCHANGED <<out, open>>

Deliver ==
  /\ Len(out) < Len(stream)
  /\ out' = Append(out, stream[Len(out) + 1])
  /\ UNCHANGED stream

DeliverOne == open /\ Deliver /\ UNCHANGED open

\* The loop stops, at rest or while the sink holds its next action.
Stop ==
  /\ open
  /\ open' = FALSE
  /\ Deliver \/ UNCHANGED <<stream, out>>

StreamNext == Produce \/ DeliverOne \/ Stop

StreamSpec == StreamInit /\ [][StreamNext]_streamVars

=============================================================================
