---------------------------- MODULE PyFineTuneJob ----------------------------
(***************************************************************************)
(* finetune_job/job.py: one fine-tuning run whose training is done by a    *)
(* lerobot-train subprocess (external), and the resumes of it.  The job's  *)
(* identity and mode are in a sidecar file that is written when the        *)
(* subprocess has ended well; every checkpoint also has LeRobot's own      *)
(* train_config.json, which records the mode.                              *)
(*                                                                         *)
(* Nobody reads while a file is written, so a write is one step, and a     *)
(* kill may leave the file it meets torn.                                  *)
(***************************************************************************)
EXTENDS Integers

CONSTANTS
  Steps,       \* the last step of the training; a checkpoint at each one
  MaxResumes,  \* bound: calls of resume
  Absent,      \* there is no such file
  Torn         \* a file that does not parse

ASSUME PyJobAssumption == Steps \in Nat /\ MaxResumes \in Nat

VARIABLES
  pc,       \* "idle", "training", "recording" the metadata
  job,      \* the FineTuneJob: run_id, full_finetune, output_path
  mode,     \* whether the subprocess trains every parameter
  step,     \* the checkpoint it writes next
  file,     \* which of its files
  dirs,     \* checkpoints/<step>/
  last,     \* the symlink checkpoints/last, 0 if there is none
  sidecar,  \* place -> finetune_job_meta.json there
  ids,      \* run ids drawn so far
  broken    \* some process was killed, or a training failed

vars == <<pc, job, mode, step, file, dirs, last, sidecar, ids, broken>>

Missing == {Absent, Torn}
StepDirs == 1..Steps

\* The output_path of run(), and the two names of a checkpoint.
Root == 0
Link == -1
Places == {Root} \cup StepDirs

RunIds == 1..(MaxResumes + 1)
Job == [run : RunIds, full : BOOLEAN, out : Places \cup {Link}]

ASSUME PyMissingAssumption == \A m \in Missing : m \notin Job /\ m \notin BOOLEAN

\* The files of a checkpoint, in LeRobot's order, and what each one holds.
FileOrder == <<"weights", "config", "step">>
Content(f) == IF f = "config" THEN mode ELSE TRUE

TypeOK ==
  /\ pc \in {"idle", "training", "recording"}
  /\ job \in Job
  /\ mode \in BOOLEAN
  /\ step \in 1..(Steps + 1)
  /\ file \in 1..4
  /\ \A d \in StepDirs, f \in {"weights", "config", "step"} :
       dirs[d][f] \in BOOLEAN \cup Missing
  /\ last \in {0} \cup StepDirs
  /\ \A p \in Places : sidecar[p] \in Job \cup Missing
  /\ ids \in 0..(MaxResumes + 1)
  /\ broken \in BOOLEAN

----------------------------------------------------------------------------

Init ==
  /\ pc = "idle"
  /\ job = [run |-> 1, full |-> FALSE, out |-> Root]
  /\ mode = FALSE
  /\ step = 1
  /\ file = 1
  /\ dirs = [d \in StepDirs |-> [f \in {"weights", "config", "step"} |-> Absent]]
  /\ last = 0
  /\ sidecar = [p \in Places |-> Absent]
  /\ ids = 0
  /\ broken = FALSE

\* validate_checkpoint: every file is there and parses.
Valid(d) == d \in StepDirs /\ \A f \in DOMAIN dirs[d] : dirs[d][f] \notin Missing

Resolve(place) == IF place = Link THEN last ELSE place

----------------------------------------------------------------------------
(* Seeded defects, used only to show which property each one breaks.       *)

\* A search that stops below the output_path.
ReadMetadataNearby(d) == sidecar[d]

\* A default where the checkpoint's own record should be read.
ModeOfDefault(d) == FALSE

----------------------------------------------------------------------------

\* _read_metadata: the first sidecar upwards of the checkpoint.
ReadMetadata(d) == IF sidecar[d] # Absent THEN sidecar[d] ELSE sidecar[Root]

\* policy.train_expert_only of the checkpoint's train_config.json, negated.
ModeOf(d) == dirs[d]["config"]

Launch(id, full, out, trained, first) ==
  /\ pc' = "training"
  /\ job' = [run |-> id, full |-> full, out |-> out]
  /\ mode' = trained
  /\ step' = first
  /\ file' = 1
  /\ UNCHANGED <<dirs, last, sidecar, broken>>

\* run(): LeRobot refuses an output_dir that exists, so there is one run.
Run(full) ==
  /\ ids = 0
  /\ ids' = 1
  /\ Launch(1, full, Root, full, 1)

\* resume() of a checkpoint, by its own name or by the link.
Resume(place) ==
  /\ pc = "idle"
  /\ ids \in 1..MaxResumes
  /\ LET d    == Resolve(place)
         meta == ReadMetadata(d)
     IN /\ Valid(d)
        /\ ids' = ids + 1
        /\ IF meta \in Missing
             THEN Launch(ids', ModeOf(d), place, dirs[d]["config"], d + 1)
             ELSE Launch(meta.run, meta.full, meta.out, dirs[d]["config"], d + 1)

\* The subprocess writes a checkpoint file by file, then moves the link.
Save ==
  /\ pc = "training"
  /\ step <= Steps
  /\ file <= 3
  /\ dirs' = [dirs EXCEPT ![step][FileOrder[file]] = Content(FileOrder[file])]
  /\ file' = file + 1
  /\ UNCHANGED <<pc, job, mode, step, last, sidecar, ids, broken>>

MoveLink ==
  /\ pc = "training"
  /\ file = 4
  /\ last' = step
  /\ step' = step + 1
  /\ file' = 1
  /\ UNCHANGED <<pc, job, mode, dirs, sidecar, ids, broken>>

\* _invoke returns.
TrainingEnds ==
  /\ pc = "training"
  /\ step > Steps
  /\ pc' = "recording"
  /\ UNCHANGED <<job, mode, step, file, dirs, last, sidecar, ids, broken>>

\* _write_metadata.
WriteMetadata ==
  /\ pc = "recording"
  /\ pc' = "idle"
  /\ sidecar' = [sidecar EXCEPT ![Resolve(job.out)] = job]
  /\ UNCHANGED <<job, mode, step, file, dirs, last, ids, broken>>

\* Non-zero exit of the subprocess (FineTuneRunError), or both are killed.
TrainingBreaks ==
  /\ pc = "training"
  /\ pc' = "idle"
  /\ broken' = TRUE
  /\ \/ UNCHANGED dirs
     \/ /\ step <= Steps
        /\ file <= 3
        /\ dirs' = [dirs EXCEPT ![step][FileOrder[file]] = Torn]
  /\ UNCHANGED <<job, mode, step, file, last, sidecar, ids>>

RecordingBreaks ==
  /\ pc = "recording"
  /\ pc' = "idle"
  /\ broken' = TRUE
  /\ \/ UNCHANGED sidecar
     \/ sidecar' = [sidecar EXCEPT ![Resolve(job.out)] = Torn]
  /\ UNCHANGED <<job, mode, step, file, dirs, last, ids>>

Next ==
  \/ \E full \in BOOLEAN : Run(full)
  \/ \E place \in StepDirs \cup {Link} : Resume(place)
  \/ Save
  \/ MoveLink
  \/ TrainingEnds
  \/ WriteMetadata
  \/ TrainingBreaks
  \/ RecordingBreaks

Spec == Init /\ [][Next]_vars

----------------------------------------------------------------------------
(* Properties.                                                             *)

\* A resumed job says of its mode what LeRobot goes on to train, whatever
\* became of the sidecar ("never silently inconsistent", job.py:255-266).
ModeMatchesTraining == pc # "idle" => job.full = mode

\* Until something is killed or fails, every resume has the identity of run().
IdentityKeptUnbroken == pc # "idle" /\ ~broken => job.run = 1

=============================================================================
