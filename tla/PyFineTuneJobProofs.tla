------------------------ MODULE PyFineTuneJobProofs ------------------------
(***************************************************************************)
(* Theorems about PyFineTuneJob, for every number of steps and of resumes. *)
(***************************************************************************)
EXTENDS PyFineTuneJob, TLAPS

Files == {"weights", "config", "step"}

\* As much of the types as the proofs need.
PyTypeOK ==
  /\ pc \in {"idle", "training", "recording"}
  /\ job \in Job
  /\ mode \in BOOLEAN
  /\ step \in Nat \ {0} /\ file \in 1..4
  /\ pc = "training" /\ file # 1 => step \in StepDirs
  /\ dirs \in [StepDirs -> [Files -> BOOLEAN \cup Missing]]
  /\ last \in {0} \cup StepDirs
  /\ sidecar \in [Places -> Job \cup Missing]
  /\ ids \in Nat

\* Before run() there is nothing on disk.
NothingYet ==
  ids = 0 => /\ pc = "idle" /\ ~broken
             /\ \A d \in StepDirs : dirs[d]["config"] = Absent
             /\ \A p \in Places : sidecar[p] = Absent

\* Every record of the mode, in a checkpoint or beside one, is of the one mode
\* the training was started in.
OneMode ==
  /\ \A d \in StepDirs : dirs[d]["config"] \in {mode} \cup Missing
  /\ \A p \in Places : sidecar[p] \notin Missing => sidecar[p].full = mode

PyInv == PyTypeOK /\ NothingYet /\ OneMode /\ ModeMatchesTraining

----------------------------------------------------------------------------

\* What a name leads to is a place.
LEMMA ResolveType ==
  ASSUME PyTypeOK, NEW p \in Places \cup {Link}
  PROVE  Resolve(p) \in Places
  BY DEF PyTypeOK, Resolve, Places, StepDirs, Link, Root

\* Neither reading nor the absence of a sidecar gives another mode than the one
\* of the checkpoint that is resumed.
LEMMA ResumeKeepsPyInv ==
  ASSUME PyInv, NEW place \in StepDirs \cup {Link}, Resume(place)
  PROVE  PyInv'
<1> DEFINE d == Resolve(place)
           meta == ReadMetadata(d)
<1>1. d \in StepDirs /\ dirs[d]["config"] \notin Missing
  BY DEF Resume, Valid, PyInv, PyTypeOK, Files
<1>2. dirs[d]["config"] = mode
  BY <1>1 DEF PyInv, OneMode
<1>3. meta \in Job \cup Missing /\ (meta \notin Missing => meta.full = mode)
  BY <1>1 DEF ReadMetadata, PyInv, PyTypeOK, OneMode, Places, Root
<1>4. /\ pc' = "training" /\ mode' = mode /\ step' = d + 1 /\ file' = 1
      /\ ids' = ids + 1
      /\ UNCHANGED <<dirs, last, sidecar, broken>>
  BY <1>2 DEF Resume, Launch
<1>5. job' \in Job /\ job'.full = mode
  <2>1. CASE meta \in Missing
    <3>1. job' = [run |-> ids + 1, full |-> mode, out |-> place]
      BY <2>1, <1>2 DEF Resume, Launch, ModeOf
    <3>2. ids + 1 \in RunIds
      BY PyJobAssumption DEF Resume, RunIds, PyInv, PyTypeOK
    <3> QED BY <3>1, <3>2 DEF Job, Places, PyInv, PyTypeOK
  <2>2. CASE meta \notin Missing
    <3>1. job' = [run |-> meta.run, full |-> meta.full, out |-> meta.out]
      BY <2>2 DEF Resume, Launch
    <3> QED BY <3>1, <2>2, <1>3 DEF Job
  <2> QED BY <2>1, <2>2
<1>6. PyTypeOK'
  BY <1>1, <1>4, <1>5 DEF PyInv, PyTypeOK, StepDirs
<1>7. NothingYet'
  BY <1>4 DEF PyInv, PyTypeOK, NothingYet
<1>8. OneMode' /\ ModeMatchesTraining'
  BY <1>4, <1>5 DEF PyInv, OneMode, ModeMatchesTraining
<1> QED BY <1>6, <1>7, <1>8 DEF PyInv

\* A file that is written records the mode of the training, and a torn one
\* records nothing.
LEMMA WriteKeepsPyInv ==
  ASSUME PyInv, Save \/ TrainingBreaks
  PROVE  PyInv'
<1> DEFINE At(x) == [dirs EXCEPT ![step][FileOrder[file]] = x]
<1>1. /\ ids # 0 /\ mode' = mode /\ pc' \in {"idle", "training"}
      /\ UNCHANGED <<job, step, last, sidecar, ids>>
      /\ file' \in 1..4
      /\ pc = "training"
      /\ pc' = "training" => step \in StepDirs
  BY PyJobAssumption DEF Save, TrainingBreaks, PyInv, PyTypeOK, NothingYet, StepDirs
<1>2. \/ dirs' = dirs
      \/ /\ step \in StepDirs /\ file \in 1..3
         /\ dirs' = At(Content(FileOrder[file])) \/ dirs' = At(Torn)
  BY PyJobAssumption DEF Save, TrainingBreaks, PyInv, PyTypeOK, StepDirs
<1>3. \A f \in 1..3 : FileOrder[f] \in Files
  BY DEF FileOrder, Files
<1>4. \A f \in Files : Content(f) \in BOOLEAN
  BY DEF Content, PyInv, PyTypeOK
<1>5. ASSUME step \in StepDirs, file \in 1..3, NEW x \in BOOLEAN \cup Missing,
             FileOrder[file] = "config" => x \in {mode} \cup Missing,
             dirs' = At(x)
      PROVE  /\ dirs' \in [StepDirs -> [Files -> BOOLEAN \cup Missing]]
             /\ \A d \in StepDirs : dirs'[d]["config"] \in {mode} \cup Missing
  <2>1. FileOrder[file] \in Files
    BY <1>3, <1>5
  <2>2. \A d \in StepDirs : dirs[d] \in [Files -> BOOLEAN \cup Missing]
    BY DEF PyInv, PyTypeOK
  <2>3. dirs' \in [StepDirs -> [Files -> BOOLEAN \cup Missing]]
    BY <2>1, <2>2, <1>5 DEF PyInv, PyTypeOK
  <2>4. \A d \in StepDirs : dirs'[d]["config"] \in {mode} \cup Missing
    <3> TAKE d \in StepDirs
    <3>1. dirs[d]["config"] \in {mode} \cup Missing
      BY DEF PyInv, OneMode
    <3>2. \/ dirs'[d]["config"] = dirs[d]["config"]
          \/ FileOrder[file] = "config" /\ dirs'[d]["config"] = x
      BY <2>1, <2>2, <1>5 DEF PyInv, PyTypeOK, Files
    <3> QED BY <3>1, <3>2, <1>5
  <2> QED BY <2>3, <2>4
<1>6. /\ dirs' \in [StepDirs -> [Files -> BOOLEAN \cup Missing]]
      /\ \A d \in StepDirs : dirs'[d]["config"] \in {mode} \cup Missing
  <2>1. CASE dirs' = dirs
    BY <2>1 DEF PyInv, PyTypeOK, OneMode
  <2>2. CASE step \in StepDirs /\ file \in 1..3 /\ dirs' = At(Content(FileOrder[file]))
    <3>1. FileOrder[file] = "config" => Content(FileOrder[file]) = mode
      BY DEF Content
    <3> QED BY <2>2, <3>1, <1>3, <1>4, <1>5
  <2>3. CASE step \in StepDirs /\ file \in 1..3 /\ dirs' = At(Torn)
    BY <2>3, <1>5 DEF Missing
  <2> QED BY <1>2, <2>1, <2>2, <2>3
<1>7. PyTypeOK'
  BY <1>1, <1>6 DEF PyInv, PyTypeOK
<1>8. NothingYet' /\ OneMode' /\ ModeMatchesTraining'
  BY <1>1, <1>6 DEF PyInv, NothingYet, OneMode, ModeMatchesTraining
<1> QED BY <1>7, <1>8 DEF PyInv

\* Recording the job records its mode, at a place that exists.
LEMMA RecordKeepsPyInv ==
  ASSUME PyInv, WriteMetadata \/ RecordingBreaks
  PROVE  PyInv'
<1> DEFINE p == Resolve(job.out)
<1>1. p \in Places
  BY ResolveType DEF PyInv, PyTypeOK, Job
<1>2. /\ pc = "recording" /\ pc' = "idle"
      /\ UNCHANGED <<job, mode, step, file, dirs, last, ids>>
  BY DEF WriteMetadata, RecordingBreaks
<1>3. /\ job \in Job /\ job.full = mode /\ ids # 0
  BY <1>2 DEF PyInv, PyTypeOK, NothingYet, ModeMatchesTraining
<1>4. \/ sidecar' = sidecar
      \/ sidecar' = [sidecar EXCEPT ![p] = job]
      \/ sidecar' = [sidecar EXCEPT ![p] = Torn]
  BY DEF WriteMetadata, RecordingBreaks
<1>5. sidecar' \in [Places -> Job \cup Missing]
  BY <1>1, <1>3, <1>4 DEF PyInv, PyTypeOK, Missing
<1>6. \A q \in Places : sidecar'[q] \notin Missing => sidecar'[q].full = mode
  <2> TAKE q \in Places
  <2>1. sidecar'[q] \in {sidecar[q], job, Torn}
    BY <1>1, <1>4 DEF PyInv, PyTypeOK
  <2> QED BY <2>1, <1>3 DEF PyInv, OneMode, Missing
<1>7. PyTypeOK'
  BY <1>2, <1>5 DEF PyInv, PyTypeOK
<1>8. NothingYet' /\ OneMode' /\ ModeMatchesTraining'
  BY <1>2, <1>3, <1>6 DEF PyInv, NothingYet, OneMode, ModeMatchesTraining
<1> QED BY <1>7, <1>8 DEF PyInv

\* The invariant behind the theorem below.
THEOREM PyInvHolds == Spec => []PyInv
<1>1. Init => PyInv
  <2> SUFFICES ASSUME Init PROVE PyInv
    OBVIOUS
  <2>1. PyTypeOK
    <3>1. job \in Job
      BY PyJobAssumption DEF Init, Job, RunIds, Places, Root
    <3>2. dirs \in [StepDirs -> [Files -> BOOLEAN \cup Missing]]
      BY DEF Init, Missing, Files
    <3>3. sidecar \in [Places -> Job \cup Missing]
      BY DEF Init, Missing
    <3>4. mode \in BOOLEAN
      BY DEF Init
    <3>5. /\ pc = "idle" /\ step \in Nat \ {0} /\ file \in 1..4
          /\ last \in {0} \cup StepDirs /\ ids \in Nat
      BY DEF Init
    <3> QED BY <3>1, <3>2, <3>3, <3>4, <3>5 DEF PyTypeOK
  <2>2. NothingYet /\ OneMode /\ ModeMatchesTraining
    BY DEF Init, NothingYet, OneMode, ModeMatchesTraining, Missing
  <2> QED BY <2>1, <2>2 DEF PyInv
<1>2. PyInv /\ [Next]_vars => PyInv'
  <2> SUFFICES ASSUME PyInv, [Next]_vars PROVE PyInv'
    OBVIOUS
  <2>1. ASSUME NEW full \in BOOLEAN, Run(full) PROVE PyInv'
    <3>1. /\ ids = 0 /\ ids' = 1 /\ pc' = "training" /\ mode' = full
          /\ job' = [run |-> 1, full |-> full, out |-> Root]
          /\ step' = 1 /\ file' = 1
          /\ UNCHANGED <<dirs, last, sidecar, broken>>
      BY <2>1 DEF Run, Launch
    <3>2. PyTypeOK'
      BY <3>1, PyJobAssumption DEF PyInv, PyTypeOK, Job, RunIds, Places, Root
    <3>3. NothingYet' /\ OneMode' /\ ModeMatchesTraining'
      BY <3>1 DEF PyInv, NothingYet, OneMode, ModeMatchesTraining, Missing
    <3> QED BY <3>2, <3>3 DEF PyInv
  <2>2. ASSUME NEW place \in StepDirs \cup {Link}, Resume(place) PROVE PyInv'
    BY <2>2, ResumeKeepsPyInv
  <2>3. CASE Save \/ TrainingBreaks
    BY <2>3, WriteKeepsPyInv
  <2>4. CASE MoveLink
    <3>1. /\ pc = "training" /\ file' = 1 /\ step' = step + 1 /\ last' = step
          /\ UNCHANGED <<pc, job, mode, dirs, sidecar, ids, broken>>
      BY <2>4 DEF MoveLink
    <3>2. step \in StepDirs
      BY <2>4 DEF MoveLink, PyInv, PyTypeOK
    <3>3. PyTypeOK'
      BY <3>1, <3>2 DEF PyInv, PyTypeOK, StepDirs
    <3>4. NothingYet' /\ OneMode' /\ ModeMatchesTraining'
      BY <3>1 DEF PyInv, NothingYet, OneMode, ModeMatchesTraining
    <3> QED BY <3>3, <3>4 DEF PyInv
  <2>5. CASE TrainingEnds
    BY <2>5 DEF TrainingEnds, PyInv, PyTypeOK, NothingYet, OneMode, ModeMatchesTraining
  <2>6. CASE WriteMetadata \/ RecordingBreaks
    BY <2>6, RecordKeepsPyInv
  <2>7. CASE UNCHANGED vars
    BY <2>7 DEF vars, PyInv, PyTypeOK, NothingYet, OneMode, ModeMatchesTraining
  <2> QED BY <2>1, <2>2, <2>3, <2>4, <2>5, <2>6, <2>7 DEF Next
<1> QED BY <1>1, <1>2, PTL DEF Spec

\* "never silently inconsistent" (job.py:255-266): what a job says of its mode is
\* what lerobot-train does, over any number of resumes, by any name of any
\* checkpoint, and whatever was killed or torn in between.
THEOREM ModeMatchesTrainingHolds == Spec => []ModeMatchesTraining
BY PyInvHolds, PTL DEF PyInv

----------------------------------------------------------------------------
(* The identity, as long as nothing breaks.                                *)

\* While nothing is killed and nothing fails, every sidecar is whole and names
\* run(), and the output_path has one from the end of the first training on: so
\* the search upwards always finds one.
Unbroken ==
  ~broken =>
    /\ \A p \in Places : sidecar[p] # Absent => sidecar[p] \in Job /\ sidecar[p].run = 1
    /\ pc # "idle" => job.run = 1 /\ (job.out = Root \/ sidecar[Root] # Absent)
    /\ pc = "idle" /\ ids # 0 => sidecar[Root] # Absent

\* A resumed job is the one its sidecar names.
LEMMA ResumeKeepsUnbroken ==
  ASSUME PyInv, Unbroken, NEW place \in StepDirs \cup {Link}, Resume(place)
  PROVE  Unbroken'
<1> SUFFICES ASSUME ~broken PROVE Unbroken'
  BY DEF Unbroken, Resume, Launch
<1> DEFINE d == Resolve(place)
           meta == ReadMetadata(d)
<1>1. d \in Places /\ Root \in Places
  BY DEF Resume, Valid, Places
<1>2. sidecar[Root] # Absent
  BY DEF Resume, Unbroken
<1>3. meta \in Job /\ meta.run = 1
  BY <1>1, <1>2 DEF ReadMetadata, Unbroken
<1>4. meta \notin Missing
  BY <1>3, PyMissingAssumption
<1>5. /\ job' = [run |-> meta.run, full |-> meta.full, out |-> meta.out]
      /\ pc' = "training" /\ UNCHANGED <<sidecar, broken>>
  BY <1>4 DEF Resume, Launch
<1> QED BY <1>2, <1>3, <1>5 DEF Unbroken

\* Recording the job leaves a sidecar in the output_path.
LEMMA RecordKeepsUnbroken ==
  ASSUME PyInv, Unbroken, WriteMetadata
  PROVE  Unbroken'
<1> SUFFICES ASSUME ~broken PROVE Unbroken'
  BY DEF Unbroken, WriteMetadata
<1> DEFINE p == Resolve(job.out)
<1>1. p \in Places /\ job \in Job
  BY ResolveType DEF PyInv, PyTypeOK, Job
<1>2. /\ job.run = 1 /\ (job.out = Root \/ sidecar[Root] # Absent)
      /\ pc' = "idle" /\ broken' = broken /\ sidecar' = [sidecar EXCEPT ![p] = job]
  BY DEF WriteMetadata, Unbroken
<1>3. job # Absent
  BY <1>1, PyMissingAssumption DEF Missing
<1>4. \A q \in Places : sidecar'[q] = IF q = p THEN job ELSE sidecar[q]
  BY <1>1, <1>2 DEF PyInv, PyTypeOK
<1>5. \A q \in Places : sidecar'[q] # Absent => sidecar'[q] \in Job /\ sidecar'[q].run = 1
  BY <1>1, <1>2, <1>4 DEF Unbroken
<1>6. sidecar'[Root] # Absent
  <2>1. job.out = Root => p = Root
    BY DEF Resolve, Root, Link
  <2> QED BY <1>2, <1>3, <1>4, <2>1 DEF Places
<1> QED BY <1>2, <1>5, <1>6 DEF Unbroken

\* The sidecar is found by every resume until something breaks.
LEMMA UnbrokenHolds == Spec => []Unbroken
<1>1. Init => Unbroken
  BY DEF Init, Unbroken
<1>2. PyInv /\ Unbroken /\ [Next]_vars => Unbroken'
  <2> SUFFICES ASSUME PyInv, Unbroken, [Next]_vars PROVE Unbroken'
    OBVIOUS
  <2>1. ASSUME NEW full \in BOOLEAN, Run(full) PROVE Unbroken'
    BY <2>1 DEF Run, Launch, Unbroken, PyInv, NothingYet
  <2>2. ASSUME NEW place \in StepDirs \cup {Link}, Resume(place) PROVE Unbroken'
    BY <2>2, ResumeKeepsUnbroken
  <2>3. CASE Save \/ MoveLink \/ TrainingEnds
    BY <2>3 DEF Save, MoveLink, TrainingEnds, Unbroken
  <2>4. CASE TrainingBreaks \/ RecordingBreaks
    BY <2>4 DEF TrainingBreaks, RecordingBreaks, Unbroken
  <2>5. CASE WriteMetadata
    BY <2>5, RecordKeepsUnbroken
  <2>6. CASE UNCHANGED vars
    BY <2>6 DEF vars, Unbroken
  <2> QED BY <2>1, <2>2, <2>3, <2>4, <2>5, <2>6 DEF Next
<1> QED BY <1>1, <1>2, PyInvHolds, PTL DEF Spec

\* Until something is killed or fails, every resume goes on as the run that
\* run() started, by any name of any checkpoint (job.py, resume).
THEOREM IdentityKeptUnbrokenHolds == Spec => []IdentityKeptUnbroken
<1>1. Unbroken => IdentityKeptUnbroken
  BY DEF Unbroken, IdentityKeptUnbroken
<1> QED BY <1>1, UnbrokenHolds, PTL

=============================================================================
