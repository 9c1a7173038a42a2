----------------------------- MODULE FineTuneJob -----------------------------
(***************************************************************************)
(* lib/finetune_job.ex: a fine-tuning run that writes step checkpoints     *)
(* under one output_path, the process being killed at any point, and what  *)
(* resume/1 makes of the files it finds.                                   *)
(*                                                                         *)
(* File.write! truncates the file and then fills it, so each write is two  *)
(* steps with a torn file between them.  The content of a weights or an    *)
(* optimizer file is named by the run and the step that produced it; its   *)
(* SHA-256 is that name.  config.json, copied unchanged and never          *)
(* validated, is left out.                                                 *)
(***************************************************************************)
EXTENDS Integers, Sequences, FiniteSets

CONSTANTS
  MaxRuns,     \* bound: calls of run/4 on this output_path
  MaxSteps,    \* bound: steps of a run
  StepCounts,  \* values of the :steps option
  Intervals,   \* values of the :save_every option
  Absent,      \* there is no such file
  Torn         \* a file truncated and not filled: it does not parse

ASSUME JobAssumption ==
  /\ MaxRuns \in Nat
  /\ MaxSteps \in Nat \ {0}
  /\ StepCounts \subseteq 0..MaxSteps
  /\ Intervals \subseteq Nat \ {0}

VARIABLES
  pc,        \* what the running process does next, "idle" if there is none
  half,      \* the file it writes is truncated and not yet filled
  job,       \* run id, mode, :steps and :save_every of the run
  todo,      \* steps of the run still to make
  step,      \* the step being made
  made,      \* how many steps the run has made
  meta,      \* finetune_job_meta.json
  dirs,      \* checkpoints/<step>/ -> its files
  last,      \* the symlink checkpoints/last
  finished,  \* steps whose write_checkpoint!/7 has returned, in any run
  runs       \* how many runs there have been

vars == <<pc, half, job, todo, step, made, meta, dirs, last, finished, runs>>

Missing == {Absent, Torn}
NoLink == -1

StepDirs == 0..MaxSteps
Files == {"weights", "optimizer", "state"}

Product == (1..MaxRuns) \X StepDirs  \* what a file holds: a run and its step
State == [step : StepDirs, run : 1..MaxRuns, full : BOOLEAN, sum : Product]
Meta == [run : 1..MaxRuns, full : BOOLEAN]

ASSUME MissingAssumption ==
  \A m \in Missing : m \notin Product /\ m \notin State /\ m \notin Meta

TypeOK ==
  /\ pc \in {"idle", "meta", "train", "weights", "optimizer", "state", "unlink", "link"}
  /\ half \in BOOLEAN
  /\ job \in [run : 0..MaxRuns, full : BOOLEAN,
             steps : StepCounts \cup {0}, every : Intervals \cup {1}]
  /\ todo \in Seq(StepDirs)
  /\ step \in StepDirs
  /\ made \in Nat
  /\ meta \in Meta \cup Missing
  /\ \A d \in StepDirs :
       /\ dirs[d]["weights"] \in Product \cup Missing
       /\ dirs[d]["optimizer"] \in Product \cup Missing
       /\ dirs[d]["state"] \in State \cup Missing
  /\ last \in StepDirs \cup {NoLink}
  /\ finished \subseteq StepDirs
  /\ runs \in 0..MaxRuns

----------------------------------------------------------------------------

Init ==
  /\ pc = "idle"
  /\ half = FALSE
  /\ job = [run |-> 0, full |-> FALSE, steps |-> 0, every |-> 1]
  /\ todo = <<>>
  /\ step = 0
  /\ made = 0
  /\ meta = Absent
  /\ dirs = [d \in StepDirs |-> [f \in Files |-> Absent]]
  /\ last = NoLink
  /\ finished = {}
  /\ runs = 0

\* Seeded defect: a range one step too long.
ScheduleOneMore(steps) == [i \in 1..(steps + 1) |-> i]

\* The Elixir range 1..steps, which counts down when steps is below one.
Schedule(steps) ==
  IF steps >= 1 THEN [i \in 1..steps |-> i] ELSE [i \in 1..(2 - steps) |-> 2 - i]

Launch(full, steps, every) ==
  /\ pc = "idle"
  /\ runs < MaxRuns
  /\ runs' = runs + 1
  /\ job' = [run |-> runs', full |-> full, steps |-> steps, every |-> every]
  /\ todo' = Schedule(steps)
  /\ made' = 0
  /\ step' = 0
  /\ UNCHANGED <<half, meta, dirs, last, finished>>

\* File.write! and Safetensors.write!.
TruncateThenFill(next) ==
  /\ half' = ~half
  /\ pc' = IF half THEN next ELSE pc

Put(file, content) ==
  dirs' = [dirs EXCEPT ![step][file] = IF half THEN content ELSE Torn]

Current == <<job.run, step>>

----------------------------------------------------------------------------
(* Seeded defects, used only to show which property each one breaks.       *)

\* The sidecar left for the end of the run.
RunNamedLater(full, steps, every) == Launch(full, steps, every) /\ pc' = "train"

SavesAtEndOnly(s) == s = job.steps

\* The link moved before the checkpoint is complete.
WriteOptimizerLinking ==
  /\ pc = "optimizer"
  /\ TruncateThenFill("state")
  /\ Put("optimizer", Current)
  /\ last' = step
  /\ UNCHANGED <<job, todo, step, made, meta, finished, runs>>

\* No checksum: the files are there and parse.
ValidUnchecked(d) ==
  dirs[d]["weights"] \notin Missing /\ dirs[d]["state"] \notin Missing

----------------------------------------------------------------------------

Saves(s) == s % job.every = 0 \/ s = job.steps

\* run/4: identity first, the sidecar before any training.
Run(full, steps, every) == Launch(full, steps, every) /\ pc' = "meta"

WriteRunMetadata ==
  /\ pc = "meta"
  /\ TruncateThenFill("train")
  /\ meta' = IF half THEN [run |-> job.run, full |-> job.full] ELSE Torn
  /\ UNCHANGED <<job, todo, step, made, dirs, last, finished, runs>>

\* One optimizer step, and the decision to save.
TrainStep ==
  /\ pc = "train"
  /\ todo # <<>>
  /\ step' = Head(todo)
  /\ todo' = Tail(todo)
  /\ made' = made + 1
  /\ pc' = IF Saves(step') THEN "weights" ELSE "train"
  /\ UNCHANGED <<half, job, meta, dirs, last, finished, runs>>

Finish ==
  /\ pc = "train"
  /\ todo = <<>>
  /\ pc' = "idle"
  /\ UNCHANGED <<half, job, todo, step, made, meta, dirs, last, finished, runs>>

\* write_checkpoint!/7, in its order.
WriteWeights ==
  /\ pc = "weights"
  /\ TruncateThenFill("optimizer")
  /\ Put("weights", Current)
  /\ UNCHANGED <<job, todo, step, made, meta, last, finished, runs>>

WriteOptimizer ==
  /\ pc = "optimizer"
  /\ TruncateThenFill("state")
  /\ Put("optimizer", Current)
  /\ UNCHANGED <<job, todo, step, made, meta, last, finished, runs>>

\* training_state.json, with the checksum read back from the weights file.
WriteTrainingState ==
  /\ pc = "state"
  /\ TruncateThenFill("unlink")
  /\ Put("state", [step |-> step, run |-> job.run, full |-> job.full,
                   sum |-> dirs[step]["weights"]])
  /\ UNCHANGED <<job, todo, step, made, meta, last, finished, runs>>

UnlinkLast ==
  /\ pc = "unlink"
  /\ last' = NoLink
  /\ pc' = "link"
  /\ UNCHANGED <<half, job, todo, step, made, meta, dirs, finished, runs>>

LinkLast ==
  /\ pc = "link"
  /\ last' = step
  /\ finished' = finished \cup {step}
  /\ pc' = "train"
  /\ UNCHANGED <<half, job, todo, step, made, meta, dirs, runs>>

\* The process is killed, or a write fails and raises.
Kill ==
  /\ pc # "idle"
  /\ pc' = "idle"
  /\ half' = FALSE
  /\ UNCHANGED <<job, todo, step, made, meta, dirs, last, finished, runs>>

Next ==
  \/ \E full \in BOOLEAN, steps \in StepCounts, every \in Intervals :
        Run(full, steps, every)
  \/ WriteRunMetadata
  \/ TrainStep
  \/ Finish
  \/ WriteWeights
  \/ WriteOptimizer
  \/ WriteTrainingState
  \/ UnlinkLast
  \/ LinkLast
  \/ Kill

Spec == Init /\ [][Next]_vars

----------------------------------------------------------------------------
(* resume/1, as a function of the files: it may be called in any state.    *)

\* validate_checkpoint!/1 returns :ok.
Valid(d) ==
  /\ dirs[d]["weights"] \notin Missing
  /\ dirs[d]["state"] \notin Missing
  /\ dirs[d]["weights"] = dirs[d]["state"].sum

\* The job resume/1 returns: the sidecar names it, the checkpoint its step.
\* Run 0 stands for a fresh random run_id.
Resumed(d) ==
  [run |-> IF meta \in Missing THEN 0 ELSE meta.run,
   full |-> IF meta \in Missing THEN FALSE ELSE meta.full,
   step |-> dirs[d]["state"].step]

----------------------------------------------------------------------------
(* Properties.                                                             *)

\* resume/1 never accepts a directory whose files come from different runs or
\* steps, wherever the writer was killed and whatever it was overwriting: the
\* weights are written first, their checksum last, the optimizer in between.
ResumeNeverMixes ==
  \A d \in StepDirs :
    Valid(d) => LET state == dirs[d]["state"]
                IN /\ state.step = d
                   /\ dirs[d]["weights"] = <<state.run, d>>
                   /\ dirs[d]["optimizer"] = <<state.run, d>>

\* Of the first run on an output_path, every checkpoint that resume/1 accepts
\* is returned under the identity and the mode that made it.
ResumeKeepsIdentity ==
  runs = 1 =>
    \A d \in StepDirs :
      Valid(d) => /\ Resumed(d).run = dirs[d]["state"].run
                  /\ Resumed(d).full = dirs[d]["state"].full

\* In the first run the link, when it is there, names a checkpoint that resume/1
\* accepts.
LastIsValid == runs = 1 /\ last # NoLink => Valid(last)

\* In the first run a kill costs fewer than :save_every steps besides the one
\* being saved: the checkpoint before it stays acceptable while the next one is
\* written.
LossBounded ==
  runs = 1 /\ step > job.every => Valid(((step - 1) \div job.every) * job.every)

\* finetune_job.ex:29-34: a run and its checkpoint are "never silently
\* inconsistent" about which mode produced it.
ModeNeverInconsistent ==
  \A d \in StepDirs : Valid(d) => Resumed(d).full = dirs[d]["state"].full

=============================================================================
