---------------------------- MODULE EpisodeSplit ----------------------------
(***************************************************************************)
(* split.py's split_episodes: the loop that picks the held-out episodes.   *)
(* The list `holdout' and the set `seen' of the code always have the same  *)
(* members, so one sequence stands for both.                               *)
(***************************************************************************)
EXTENDS Integers, Sequences, Functions

CONSTANTS
  Totals,   \* values of total_episodes it is called with
  Holdouts  \* values of n_holdout it is called with

ASSUME SplitAssumption == Totals \subseteq Int /\ Holdouts \subseteq Int

VARIABLES
  total,     \* total_episodes
  nHoldout,  \* n_holdout
  holdout,   \* the episodes picked so far, in order
  idx,       \* where the next candidate is looked for
  split      \* "idle", "picking", "returned" or "raised"

splitVars == <<total, nHoldout, holdout, idx, split>>

----------------------------------------------------------------------------
(* Seeded defects, used only to show which property each one breaks.       *)

StepRoundedUp == -((-total) \div nHoldout)

CallWholeDataset(t, n) ==
  /\ split # "picking"
  /\ total' = t /\ nHoldout' = n
  /\ holdout' = <<>> /\ idx' = 0
  /\ split' = IF t > 0 /\ n > 0 /\ n <= t THEN "picking" ELSE "raised"

----------------------------------------------------------------------------

SplitInit ==
  /\ total = 0 /\ nHoldout = 0
  /\ holdout = <<>> /\ idx = 0
  /\ split = "idle"

Call(t, n) ==
  /\ split # "picking"
  /\ total' = t /\ nHoldout' = n
  /\ holdout' = <<>> /\ idx' = 0
  /\ split' = IF t > 0 /\ n > 0 /\ n < t THEN "picking" ELSE "raised"

Step == total \div nHoldout

\* One turn of the loop.  Beyond the end only min(idx, total - 1) is read, so
\* idx is kept at most total.
Pick ==
  /\ split = "picking"
  /\ Len(holdout) < nHoldout
  /\ LET candidate == IF idx < total THEN idx ELSE total - 1
     IN  holdout' = IF candidate \in Range(holdout)
                      THEN holdout ELSE Append(holdout, candidate)
  /\ idx' = IF idx + Step < total THEN idx + Step ELSE total
  /\ UNCHANGED <<total, nHoldout, split>>

Return ==
  /\ split = "picking"
  /\ Len(holdout) >= nHoldout
  /\ split' = "returned"
  /\ UNCHANGED <<total, nHoldout, holdout, idx>>

SplitNext ==
  \/ \E t \in Totals, n \in Holdouts : Call(t, n)
  \/ Pick
  \/ Return

SplitSpec == SplitInit /\ [][SplitNext]_splitVars

\* split.train_episodes, as a set.
Train == (0..(total - 1)) \ Range(holdout)

----------------------------------------------------------------------------
(* Properties.                                                             *)

\* The loop takes every Nth episode by original index, counted from the first:
\* neither the clamp to the last episode nor the skipping of an episode that
\* was picked before ever comes into play, whatever the two numbers are.
EveryNth ==
  split \in {"picking", "returned"} =>
    \A i \in 1..Len(holdout) : holdout[i] = (i - 1) * (total \div nHoldout)

\* A split that is returned has exactly the number of held-out episodes asked
\* for, all different and all existing, and leaves something to train on.
SplitIsPartition ==
  split = "returned" =>
    /\ Len(holdout) = nHoldout /\ IsInjective(holdout)
    /\ Range(holdout) \subseteq 0..(total - 1)
    /\ Train # {}

=============================================================================
