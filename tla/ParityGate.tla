----------------------------- MODULE ParityGate -----------------------------
(***************************************************************************)
(* run_gate.py's main: split the episodes, materialize the training part,  *)
(* train in Python and in Elixir, evaluate both policies on the held-out   *)
(* episodes, judge, report.  One work_dir is used run after run, with what *)
(* earlier runs left there, some of them having stopped half way.          *)
(***************************************************************************)
EXTENDS EpisodeSplit, TrainOnlyDataset

CONSTANTS
  Sources,   \* datasets at FINETUNE_DATASET_ROOT
  Configs,   \* the run's other settings: steps, frames per held-out episode
             \* and throughput calls, as records
  Errors,    \* trainer -> what its policy's errors over all frames add up to
  Speeds,    \* trainer -> actions per second of its policy, in some unit
  MaxRuns,   \* bound: runs of the gate
  None,      \* no such file, no such value
  Torn       \* a file or directory that is not completely written

Trainers == {"python", "elixir"}

\* An episode has at least one frame.
ASSUME GateAssumption ==
  /\ Sources \subseteq Seq([len : Nat \ {0}, file : Nat])
  /\ Configs \subseteq [steps : Nat, frames : Nat, calls : Int]
  /\ Errors \in [Trainers -> SUBSET Nat]
  /\ Speeds \in [Trainers -> SUBSET (Nat \ {0})]
  /\ MaxRuns \in Nat

VARIABLES
  source,    \* the full dataset, never changed
  run,       \* how many runs were started; names the current one
  config,    \* the settings of this run
  stage,     \* what main() does next
  dataset,   \* work_dir/train_only_dataset
  out,       \* trainer -> step checkpoints in its output directory
  evalJson,  \* work_dir/elixir_eval_result.json
  report,    \* work_dir/parity_gate_report.json
  chosen,    \* trainer -> checkpoint this run evaluates
  results    \* trainer -> accuracy and throughput of this run

disk == <<dataset, out, evalJson, report>>
memory == <<config, chosen, results>>
gateVars == <<source, run, stage, disk, memory>>
vars == <<splitVars, gateVars>>

(***************************************************************************)
(* The stages in the order of main().                                      *)
(***************************************************************************)
After == [split |-> "dataset", dataset |-> "building",
          building |-> "clear_python",
          clear_python |-> "train_python", train_python |-> "find_python",
          find_python |-> "clear_elixir",
          clear_elixir |-> "train_elixir", train_elixir |-> "find_elixir",
          find_elixir |-> "eval_python", eval_python |-> "eval_elixir",
          eval_elixir |-> "writing_eval", writing_eval |-> "read_eval",
          read_eval |-> "judge", judge |-> "writing_report",
          writing_report |-> "idle"]

\* Stages are left in order, and only by the action of the stage.
Advance(s) == stage = s /\ stage' = After[s]

Stage(kind, t) ==
  CASE kind = "clear" -> IF t = "python" THEN "clear_python" ELSE "clear_elixir"
    [] kind = "train" -> IF t = "python" THEN "train_python" ELSE "train_elixir"
    [] kind = "find"  -> IF t = "python" THEN "find_python" ELSE "find_elixir"

----------------------------------------------------------------------------
(* Seeded defects, used only to show which property each one breaks.       *)

PickIndicesFromStart(len, n) == {i \in 0..(len - 1) : i < n}

AfterScriptUnchecked(returncode) == "read_eval"

ClearNothing(t) ==
  /\ Advance(Stage("clear", t))
  /\ UNCHANGED <<splitVars, source, run, disk, memory>>

RemoveDatasetIfAbsent ==
  /\ stage = "dataset"
  /\ IF dataset \in {None, Torn}
       THEN dataset' = Torn /\ stage' = "building"
       ELSE UNCHANGED dataset /\ stage' = "clear_python"
  /\ UNCHANGED <<splitVars, source, run, out, evalJson, report, memory>>

----------------------------------------------------------------------------

GateInit ==
  /\ SplitInit
  /\ source \in Sources
  /\ run = 0
  /\ config = None
  /\ stage = "idle"
  /\ dataset = None /\ evalJson = None /\ report = None
  /\ out = [t \in Trainers |-> {}]
  /\ chosen = [t \in Trainers |-> None]
  /\ results = [t \in Trainers |-> None]

Starts(n, c) ==
  /\ stage = "idle" /\ run < MaxRuns
  /\ run' = run + 1
  /\ config' = c
  /\ Call(Len(source), n)
  /\ stage' = "split"
  /\ chosen' = [t \in Trainers |-> None]
  /\ results' = [t \in Trainers |-> None]
  /\ UNCHANGED <<source, disk>>

SplitPicks == stage = "split" /\ Pick /\ UNCHANGED gateVars

SplitReturns ==
  Advance("split") /\ Return /\ UNCHANGED <<source, run, disk, memory>>

\* rmtree, then the first files of build_train_only_dataset.
RemoveDataset ==
  /\ Advance("dataset")
  /\ dataset' = Torn
  /\ UNCHANGED <<splitVars, source, run, out, evalJson, report, memory>>

BuildDataset ==
  /\ Advance("building")
  /\ dataset' = TrainOnly(source, Train)
  /\ UNCHANGED <<splitVars, source, run, out, evalJson, report, memory>>

\* rmtree of the output directory, if it exists.
Clear(t) ==
  /\ Advance(Stage("clear", t))
  /\ out' = [out EXCEPT ![t] = {}]
  /\ UNCHANGED <<splitVars, source, run, dataset, evalJson, report, memory>>

Seen(t) ==
  IF t = "python" THEN SeenByPython(dataset) ELSE SeenByElixir(dataset)

\* The trainer, which saves every `steps' steps, writes one checkpoint, named
\* by its step.
TrainerSaves(t) ==
  /\ Advance(Stage("train", t))
  /\ Seen(t) # {}
  /\ out' = [out EXCEPT ![t] =
       {c \in @ : c.step # config.steps}
         \cup {[step |-> config.steps, run |-> run, seen |-> Seen(t)]}]
  /\ UNCHANGED <<splitVars, source, run, dataset, evalJson, report, memory>>

RunPythonTraining == TrainerSaves("python")
RunElixirTraining == TrainerSaves("elixir")

\* The step's duration is printed (steps divides), then _find_last_step_dir.
FindLastStepDir(t) ==
  /\ Advance(Stage("find", t))
  /\ config.steps > 0
  /\ \E c \in out[t] :
       /\ \A d \in out[t] : d.step <= c.step
       /\ chosen' = [chosen EXCEPT ![t] = c]
  /\ UNCHANGED <<splitVars, source, run, disk, config, results>>

----------------------------------------------------------------------------
(* Evaluation.  Both choices of frames are by position within an episode.  *)

\* sorted({min(total - 1, int(i * step)) for i in range(n)}), step = total / n.
ChosenFrames(len, frames) ==
  LET n == IF frames < len THEN frames ELSE len
  IN  {(i * len) \div n : i \in 0..(n - 1)}

\* pick_indices of eval_elixir_policy.exs.
PickIndices(len, n) ==
  IF n >= len THEN 0..(len - 1) ELSE {(i * len) \div n : i \in 0..(n - 1)}

\* The held-out episodes' frames at the positions in indices[length].
OnEpisodes(indices) ==
  UNION {{<<e, f>> : f \in indices[source[e + 1].len]} : e \in Range(holdout)}

Lengths == {source[e + 1].len : e \in Range(holdout)}
FramesOfPython == OnEpisodes([len \in Lengths |-> ChosenFrames(len, config.frames)])
FramesOfElixir == OnEpisodes([len \in Lengths |-> PickIndices(len, config.frames)])

\* compute_accuracy_proxy: the mean over all frames is error / |frames|.
Accuracy(frames, error) == [frames |-> frames, error |-> error]

\* measure_throughput refuses to time nothing.
Measurable(calls) == calls > 0

Result(t, accuracy, speed) ==
  [run |-> run, policy |-> chosen[t], frames |-> accuracy.frames,
   error |-> accuracy.error, speed |-> speed]

EvaluatePython ==
  /\ Advance("eval_python")
  /\ config.frames > 0 /\ Measurable(config.calls)
  /\ \E e \in Errors["python"], s \in Speeds["python"] :
       results' = [results EXCEPT !["python"] =
                     Result("python", Accuracy(FramesOfPython, e), s)]
  /\ UNCHANGED <<splitVars, source, run, disk, config, chosen>>

\* The script's File.write! truncates the file and then fills it.
ScriptTruncates ==
  /\ Advance("eval_elixir")
  /\ evalJson' = Torn
  /\ UNCHANGED <<splitVars, source, run, dataset, out, report, memory>>

AfterScript(returncode) == IF returncode = 0 THEN "read_eval" ELSE "idle"

ScriptWrites ==
  /\ stage = "writing_eval"
  /\ \E e \in Errors["elixir"], s \in Speeds["elixir"] :
       evalJson' = Result("elixir", Accuracy(FramesOfElixir, e), s)
  /\ stage' = AfterScript(0)
  /\ UNCHANGED <<splitVars, source, run, dataset, out, report, memory>>

\* The script fails, before its write or within it.
ScriptDies ==
  /\ stage \in {"eval_elixir", "writing_eval"}
  /\ stage' = AfterScript(1)
  /\ UNCHANGED <<splitVars, source, run, disk, memory>>

ReadEval ==
  /\ Advance("read_eval")
  /\ evalJson \notin {None, Torn}
  /\ results' = [results EXCEPT !["elixir"] = evalJson]
  /\ UNCHANGED <<splitVars, source, run, disk, config, chosen>>

----------------------------------------------------------------------------
(* judge_cutover, with the means as fractions error / |frames|.            *)

Python == results["python"]
Elixir == results["elixir"]

PythonMean == Python.error * Cardinality(Elixir.frames)
ElixirMean == Elixir.error * Cardinality(Python.frames)

AccuracyPasses == 5 * (ElixirMean - PythonMean) <= PythonMean
ThroughputPasses == 10 * Elixir.speed >= Python.speed

\* The regression is a fraction of Python's error: there must be one.  The
\* report of an earlier run is truncated, and then written anew.
Judge ==
  /\ Advance("judge")
  /\ Python.error > 0
  /\ report' = Torn
  /\ UNCHANGED <<splitVars, source, run, dataset, out, evalJson, memory>>

WriteReport ==
  /\ Advance("writing_report")
  /\ report' = [run |-> run, train |-> Train, holdout |-> Range(holdout),
                config |-> config, results |-> results,
                passes |-> AccuracyPasses /\ ThroughputPasses]
  /\ UNCHANGED <<splitVars, source, run, dataset, out, evalJson, memory>>

\* What main() itself raises on: n_holdout, nothing readable in the copy, no
\* steps, frames or calls, a flawless Python policy, an unreadable JSON file.
Raises ==
  /\ \/ stage = "split" /\ split = "raised"
     \/ \E t \in Trainers : stage = Stage("train", t) /\ Seen(t) = {}
     \/ \E t \in Trainers :
          stage = Stage("find", t) /\ (config.steps = 0 \/ out[t] = {})
     \/ stage = "eval_python" /\ (config.frames = 0 \/ ~Measurable(config.calls))
     \/ stage = "read_eval" /\ evalJson \in {None, Torn}
     \/ stage = "judge" /\ Python.error = 0
  /\ stage' = "idle"
  /\ UNCHANGED <<splitVars, source, run, disk, memory>>

\* Anything else that ends a run early, a trainer's failure or a kill; what is
\* on disk stays as it is.  Its subprocesses end with it.
Stops ==
  /\ stage # "idle"
  /\ stage' = "idle"
  /\ split' = IF split = "picking" THEN "raised" ELSE split
  /\ UNCHANGED <<total, nHoldout, holdout, idx, source, run, disk, memory>>

Progress ==
  \/ SplitPicks \/ SplitReturns
  \/ RemoveDataset \/ BuildDataset
  \/ RunPythonTraining \/ RunElixirTraining
  \/ \E t \in Trainers : Clear(t) \/ FindLastStepDir(t)
  \/ EvaluatePython
  \/ ScriptTruncates \/ ScriptWrites \/ ReadEval
  \/ Judge \/ WriteReport
  \/ Raises

GateNext ==
  \/ \E n \in Holdouts, c \in Configs : Starts(n, c)
  \/ Progress
  \/ ScriptDies
  \/ Stops

\* Nothing in a run waits for anybody: its trainers and evaluations end.
GateSpec == GateInit /\ [][GateNext]_vars /\ WF_vars(Progress)

----------------------------------------------------------------------------
(* Properties.                                                             *)

\* Whatever the episodes and the split, the renumbered copy (split.py:160-218)
\* gives each trainer's reader the frames, rows and windows of ReadsExactly: a
\* wrong one never, and an exception only for what the source keeps outside its
\* first data file.
ReadsAreExact ==
  stage = "clear_python" => ReadsExactly(source, Train, dataset)

\* "Episodes used for evaluation must NOT be used by either trainer's
\* fine-tuning run" (split.py:22): the policies a run evaluates saw no frame
\* of the episodes it evaluates them on.
HoldoutUnseen ==
  \A t \in Trainers :
    chosen[t] # None => \A r \in chosen[t].seen : r[1] \notin Range(holdout)

Reported == report \notin {None, Torn}

\* A report is of one run: both policies were trained and evaluated by it, on
\* its split, whatever earlier runs have left behind.
ReportOfOneRun ==
  Reported =>
    \A t \in Trainers :
      LET r == report.results[t]
      IN  /\ r.run = report.run
          /\ r.policy.run = report.run
          /\ {f[1] : f \in r.frames} = report.holdout
          /\ {f[1] : f \in r.policy.seen} \subseteq report.train

\* The two policies are compared on the same frames of each episode, and the
\* verdict is the documented one (metrics.py:177, 194): at most 20% more error
\* in total, at least a tenth of the speed.
VerdictIsFair ==
  Reported =>
    LET p == report.results["python"]
        e == report.results["elixir"]
    IN  /\ p.frames = e.frames
        /\ report.passes <=> /\ 5 * e.error <= 6 * p.error
                             /\ 10 * e.speed >= p.speed

\* Every run ends, by a report, an exception or a kill; the picking of the
\* held-out episodes in particular.
GateEnds == stage # "idle" ~> stage = "idle"

=============================================================================
