-------------------------- MODULE FineTuneJobProofs --------------------------
(***************************************************************************)
(* Theorems about FineTuneJob, proved by TLAPS for every number of runs    *)
(* and steps and every interval: what resume/1 accepts, with the writer    *)
(* killed anywhere and earlier runs' files in the way.                     *)
(***************************************************************************)
EXTENDS FineTuneJob, TLAPS

Saving == {"weights", "optimizer", "state", "unlink", "link"}

\* TypeOK says what is in the files, this what files there are.
FilesTyped ==
  /\ dirs = [d \in StepDirs |-> dirs[d]]
  /\ \A d \in StepDirs : dirs[d] = [f \in Files |-> dirs[d][f]]

\* The steps to come are those after the one at hand; a run of no steps counts
\* down instead, from one to zero.
Ahead ==
  \/ \A i \in 1..Len(todo) : todo[i] = step + i
  \/ Len(todo) = 2 /\ todo[1] = 1 /\ todo[2] = 0 /\ step = 0 /\ pc \notin Saving
  \/ Len(todo) = 1 /\ todo[1] = 0 /\ step = 1

\* The run has yet to make step d.
Coming(d) == \E i \in 1..Len(todo) : todo[i] = d

\* The training state of d is not this run's.
StateBefore(d) == dirs[d]["state"] \in State => dirs[d]["state"].sum[1] < job.run

\* No file is of a run to come, and this one's training states are of the steps
\* behind it.
WrittenInOrder ==
  /\ job.run = runs
  /\ runs = 0 => pc = "idle"
  /\ \A d \in StepDirs : dirs[d]["state"] \in State => dirs[d]["state"].sum[1] <= job.run
  /\ pc # "idle" => \A d \in StepDirs : Coming(d) => StateBefore(d)

\* What the checkpoint being written holds so far.
PartWritten ==
  /\ pc \in {"weights", "optimizer"} => StateBefore(step)
  /\ pc \in {"optimizer", "state"} => dirs[step]["weights"] = Current
  /\ pc = "state" => dirs[step]["optimizer"] = Current

\* The first run's sidecar is there before any checkpoint of it.
Named ==
  runs <= 1 =>
    /\ runs = 0 \/ pc = "meta" => \A d \in StepDirs : dirs[d]["state"] \notin State
    /\ pc \notin {"idle", "meta"} => meta = [run |-> job.run, full |-> job.full]
    /\ \A d \in StepDirs :
         dirs[d]["state"] \in State =>
           /\ meta = [run |-> job.run, full |-> job.full]
           /\ dirs[d]["state"].run = job.run
           /\ dirs[d]["state"].full = job.full

\* In the first run a checkpoint once written is left alone, and the link is
\* only ever to one of those.
LeftAlone ==
  runs <= 1 =>
    /\ \A d \in finished : Valid(d)
    /\ last # NoLink => last \in finished
    /\ pc \in {"unlink", "link"} => Valid(step)
    /\ pc \in Saving => step \notin finished
    /\ pc # "idle" => \A d \in finished : ~Coming(d)

\* In the first run every multiple of :save_every that has been passed is written.
EveryMultiple ==
  runs = 1 =>
    /\ \A k \in Nat : k * job.every \in 1..(step - 1) => k * job.every \in finished
    /\ pc = "train" /\ step > 0 /\ Saves(step) => step \in finished
    /\ pc = "meta" => step = 0

JobInv ==
  /\ TypeOK
  /\ FilesTyped
  /\ Ahead
  /\ WrittenInOrder
  /\ PartWritten
  /\ ResumeNeverMixes
  /\ Named
  /\ LeftAlone
  /\ EveryMultiple

----------------------------------------------------------------------------
(* Files, and what they hold.                                              *)

\* The checkpoints when one file of the one at hand is x.
With(f, x) == [dirs EXCEPT ![step][f] = x]

\* A write changes one file of one checkpoint.
LEMMA PutChanges ==
  ASSUME TypeOK, FilesTyped, NEW f \in Files, NEW x, dirs' = With(f, x)
  PROVE  /\ FilesTyped'
         /\ \A d \in StepDirs, g \in Files :
              dirs'[d][g] = IF d = step /\ g = f THEN x ELSE dirs[d][g]
<1>1. step \in StepDirs
  BY DEF TypeOK
<1>2. dirs[step] = [g \in Files |-> dirs[step][g]]
  BY <1>1 DEF FilesTyped
<1>3. dirs' = [d \in StepDirs |-> IF d = step THEN [dirs[step] EXCEPT ![f] = x] ELSE dirs[d]]
  BY <1>1 DEF FilesTyped, With
<1>4. [dirs[step] EXCEPT ![f] = x] = [g \in Files |-> IF g = f THEN x ELSE dirs[step][g]]
  BY <1>2
<1>5. ASSUME NEW d \in StepDirs
      PROVE  /\ dirs'[d] = [g \in Files |-> dirs'[d][g]]
             /\ \A g \in Files : dirs'[d][g] = IF d = step /\ g = f THEN x ELSE dirs[d][g]
  <2>1. CASE d = step
    <3>1. dirs'[d] = [g \in Files |-> IF g = f THEN x ELSE dirs[step][g]]
      BY <1>3, <1>4, <2>1
    <3>2. \A g \in Files : dirs'[d][g] = IF g = f THEN x ELSE dirs[step][g]
      BY <3>1
    <3> QED BY <2>1, <3>1, <3>2
  <2>2. CASE d # step
    <3>1. dirs'[d] = dirs[d]
      BY <1>3, <1>5, <2>2
    <3>2. dirs[d] = [g \in Files |-> dirs[d][g]]
      BY <1>5 DEF FilesTyped
    <3> QED BY <2>2, <3>1, <3>2
  <2> QED BY <2>1, <2>2
<1>6. dirs' = [d \in StepDirs |-> dirs'[d]]
  BY <1>3
<1> QED BY <1>5, <1>6 DEF FilesTyped

\* The names of the parts of a checkpoint.
LEMMA FileNames ==
  /\ "weights" \in Files /\ "optimizer" \in Files /\ "state" \in Files
  /\ \A f \in Files : f \in {"weights", "optimizer", "state"}
BY DEF Files

\* What a writing step of the current run may put down.
LEMMA CurrentIsProduct ==
  ASSUME TypeOK, WrittenInOrder, pc # "idle"
  PROVE  /\ Current \in Product /\ Current \notin Missing /\ Current[1] = job.run
         /\ job.run \in 1..MaxRuns /\ runs >= 1
         /\ step \in StepDirs /\ job.full \in BOOLEAN
<1>1. job.run \in 0..MaxRuns /\ runs \in 0..MaxRuns /\ step \in StepDirs /\ job.full \in BOOLEAN
  BY DEF TypeOK
<1>2. job.run \in 1..MaxRuns /\ runs >= 1
  BY <1>1, JobAssumption DEF WrittenInOrder
<1> QED BY <1>1, <1>2, MissingAssumption DEF Current, Product

LEMMA MissingFacts == Absent \in Missing /\ Torn \in Missing /\ Torn \notin State /\ Absent \notin State
BY MissingAssumption DEF Missing

\* The first step of what is left is a step; the rest is what is left after it.
LEMMA NextStep ==
  ASSUME TypeOK, todo # <<>>
  PROVE  /\ Head(todo) \in StepDirs /\ Tail(todo) \in Seq(StepDirs)
         /\ Len(todo) \in Nat /\ 1 \in 1..Len(todo) /\ Head(todo) = todo[1]
         /\ Len(Tail(todo)) = Len(todo) - 1
         /\ \A i \in 1..Len(Tail(todo)) : i + 1 \in 1..Len(todo) /\ Tail(todo)[i] = todo[i + 1]
<1>1. todo \in Seq(StepDirs)
  BY DEF TypeOK
<1> QED BY <1>1

\* What a run is to do, counting from the step it stands at.
LEMMA ScheduleIsAhead ==
  ASSUME NEW steps \in StepCounts
  PROVE  /\ Schedule(steps) \in Seq(StepDirs)
         /\ \/ \A i \in 1..Len(Schedule(steps)) : Schedule(steps)[i] = 0 + i
            \/ Len(Schedule(steps)) = 2 /\ Schedule(steps)[1] = 1 /\ Schedule(steps)[2] = 0
<1>1. steps \in 0..MaxSteps /\ MaxSteps \in Nat /\ MaxSteps >= 1
  BY JobAssumption
<1>2. CASE steps >= 1
  <2>1. Schedule(steps) = [i \in 1..steps |-> i] /\ steps \in Nat
    BY <1>1, <1>2 DEF Schedule
  <2>2. [i \in 1..steps |-> i] \in [1..steps -> StepDirs]
    BY <1>1 DEF StepDirs
  <2>3. [i \in 1..steps |-> i] \in Seq(StepDirs) /\ Len([i \in 1..steps |-> i]) = steps
    BY <2>1, <2>2
  <2> QED BY <2>1, <2>3
<1>3. CASE ~(steps >= 1)
  <2>1. steps = 0
    BY <1>1, <1>3
  <2>2. Schedule(steps) = [i \in 1..2 |-> 2 - i]
    BY <2>1 DEF Schedule
  <2>3. [i \in 1..2 |-> 2 - i] \in [1..2 -> StepDirs]
    BY <1>1 DEF StepDirs
  <2>4. [i \in 1..2 |-> 2 - i] \in Seq(StepDirs) /\ Len([i \in 1..2 |-> 2 - i]) = 2
    BY <2>3
  <2> QED BY <2>2, <2>4
<1> QED BY <1>2, <1>3

\* The largest multiple of n below m, and multiples in general.
LEMMA MultipleBelow ==
  ASSUME NEW m \in Nat, NEW n \in Nat \ {0}, m >= n
  PROVE  /\ m \div n \in Nat
         /\ (m \div n) * n \in 1..m
BY SMTT(30)

LEMMA MultiplesDivide ==
  ASSUME NEW k \in Nat, NEW n \in Nat \ {0}
  PROVE  (k * n) % n = 0
BY SMTT(30)

----------------------------------------------------------------------------
(* The initial state, and each step.                                       *)

LEMMA InitInv == Init => JobInv
<1> SUFFICES ASSUME Init PROVE JobInv
  OBVIOUS
<1> USE DEF Init
<1>1. \A d \in StepDirs, f \in Files : dirs[d][f] = Absent
  OBVIOUS
<1>2. \A d \in StepDirs : dirs[d]["state"] \notin State
  BY <1>1, FileNames, MissingFacts
<1>3. TypeOK
  <2>1. todo \in Seq(StepDirs) /\ step \in StepDirs /\ runs \in 0..MaxRuns /\ made \in Nat
    BY JobAssumption DEF StepDirs
  <2>2. job \in [run : 0..MaxRuns, full : BOOLEAN, steps : StepCounts \cup {0}, every : Intervals \cup {1}]
    BY JobAssumption
  <2>3. \A d \in StepDirs, f \in Files : dirs[d][f] \in Missing
    BY <1>1, MissingFacts
  <2>4. pc = "idle" /\ half = FALSE /\ half \in BOOLEAN /\ meta \in Missing /\ last = NoLink /\ finished = {}
    BY MissingFacts
  <2> QED BY <2>1, <2>2, <2>3, <2>4, FileNames DEF TypeOK
<1>4. FilesTyped
  BY DEF FilesTyped
<1>5. Ahead /\ WrittenInOrder /\ PartWritten /\ EveryMultiple
  BY <1>2 DEF Ahead, WrittenInOrder, PartWritten, EveryMultiple
<1>6. \A d \in StepDirs : ~Valid(d)
  BY <1>1, FileNames, MissingFacts DEF Valid
<1>7. ResumeNeverMixes
  BY <1>6 DEF ResumeNeverMixes
<1>8. Named /\ LeftAlone
  BY <1>2 DEF Named, LeftAlone, Saving
<1> QED BY <1>3, <1>4, <1>5, <1>7, <1>8 DEF JobInv

\* The invariant without what only the files decide.
LEMMA FilesKept ==
  ASSUME JobInv, dirs' = dirs
  PROVE  FilesTyped' /\ ResumeNeverMixes' /\ \A d : Valid(d)' <=> Valid(d)
<1>1. FilesTyped'
  BY DEF JobInv, FilesTyped
<1>2. \A d : Valid(d)' <=> Valid(d)
  BY DEF Valid
<1> QED BY <1>1, <1>2 DEF JobInv, ResumeNeverMixes

LEMMA RunStep ==
  ASSUME JobInv, NEW full \in BOOLEAN, NEW steps \in StepCounts, NEW every \in Intervals,
         Run(full, steps, every)
  PROVE  JobInv'
<1>a. TypeOK /\ Ahead /\ WrittenInOrder /\ Named /\ LeftAlone
  BY DEF JobInv
<1>b. /\ runs < MaxRuns /\ runs' = runs + 1 /\ runs \in 0..MaxRuns /\ runs' \in 1..MaxRuns
      /\ job' = [run |-> runs', full |-> full, steps |-> steps, every |-> every]
      /\ todo' = Schedule(steps) /\ made' = 0 /\ step' = 0 /\ pc' = "meta"
      /\ UNCHANGED <<half, meta, dirs, last, finished>>
  BY <1>a, JobAssumption DEF Run, Launch, TypeOK
<1>1. TypeOK'
  <2>1. todo' \in Seq(StepDirs) /\ step' \in StepDirs /\ made' \in Nat
    BY <1>b, ScheduleIsAhead, JobAssumption DEF StepDirs
  <2>2. job' \in [run : 0..MaxRuns, full : BOOLEAN, steps : StepCounts \cup {0}, every : Intervals \cup {1}]
    BY <1>b
  <2> QED BY <1>a, <1>b, <2>1, <2>2 DEF TypeOK
<1>2. Ahead'
  BY <1>b, ScheduleIsAhead DEF Ahead, Saving
<1>3. \A d \in StepDirs : StateBefore(d)'
  <2> SUFFICES ASSUME NEW d \in StepDirs, dirs[d]["state"] \in State
               PROVE  dirs[d]["state"].sum[1] < runs'
    BY <1>b DEF StateBefore
  <2>1. dirs[d]["state"].sum[1] \in 1..MaxRuns
    BY DEF State, Product
  <2>2. dirs[d]["state"].sum[1] <= runs
    BY <1>a DEF WrittenInOrder
  <2> QED BY <1>b, <2>1, <2>2, JobAssumption
<1>4. WrittenInOrder'
  <2>1. \A d \in StepDirs : dirs'[d]["state"] \in State => dirs'[d]["state"].sum[1] <= job'.run
    BY <1>b, <1>3, JobAssumption DEF StateBefore, State, Product
  <2> QED BY <1>b, <1>3, <2>1, JobAssumption DEF WrittenInOrder
<1>5. PartWritten' /\ EveryMultiple'
  BY <1>b, JobAssumption DEF PartWritten, EveryMultiple
<1>6. runs' = 1 => /\ \A d \in StepDirs : dirs[d]["state"] \notin State
                   /\ finished = {} /\ last = NoLink
  <2> SUFFICES ASSUME runs' = 1
               PROVE  /\ \A d \in StepDirs : dirs[d]["state"] \notin State
                      /\ finished = {} /\ last = NoLink
    OBVIOUS
  <2>1. runs = 0
    BY <1>b, JobAssumption
  <2>2. \A d \in StepDirs : dirs[d]["state"] \notin State
    BY <1>a, <2>1 DEF Named
  <2>3. \A d \in finished : d \in StepDirs /\ Valid(d)
    BY <1>a, <2>1 DEF LeftAlone, TypeOK
  <2>4. \A d \in StepDirs : ~Valid(d)
    BY <1>a, <2>2 DEF Valid, TypeOK
  <2>5. finished = {}
    BY <2>3, <2>4
  <2> QED BY <1>a, <2>1, <2>2, <2>5 DEF LeftAlone
<1>7. Named' /\ LeftAlone'
  <2>1. runs' <= 1 => runs' = 1
    BY <1>b, JobAssumption
  <2> QED BY <1>b, <1>6, <2>1 DEF Named, LeftAlone, Saving
<1> QED BY <1>1, <1>2, <1>4, <1>5, <1>7, <1>b, FilesKept DEF JobInv

LEMMA MetadataStep == JobInv /\ WriteRunMetadata => JobInv'
<1> SUFFICES ASSUME JobInv, WriteRunMetadata PROVE JobInv'
  OBVIOUS
<1>a. TypeOK /\ Ahead /\ WrittenInOrder /\ Named /\ LeftAlone /\ EveryMultiple
  BY DEF JobInv
<1>b. /\ pc = "meta" /\ half' = ~half /\ pc' = IF half THEN "train" ELSE "meta"
      /\ meta' = IF half THEN [run |-> job.run, full |-> job.full] ELSE Torn
      /\ UNCHANGED <<job, todo, step, made, dirs, last, finished, runs>>
  BY DEF WriteRunMetadata, TruncateThenFill
<1>1. TypeOK'
  <2>1. job.run \in 1..MaxRuns /\ job.full \in BOOLEAN
    BY <1>a, <1>b, CurrentIsProduct
  <2>2. meta' \in Meta \cup Missing
    BY <1>b, <2>1, MissingFacts DEF Meta
  <2> QED BY <1>a, <1>b, <2>2 DEF TypeOK
<1>2. Ahead'
  BY <1>a, <1>b DEF Ahead, Saving
<1>3. WrittenInOrder' /\ PartWritten'
  BY <1>a, <1>b DEF WrittenInOrder, PartWritten, StateBefore, Coming
<1>4. Named' /\ LeftAlone'
  BY <1>a, <1>b, FilesKept DEF Named, LeftAlone, Saving, Coming
<1>5. EveryMultiple'
  BY <1>a, <1>b DEF EveryMultiple
<1> QED BY <1>1, <1>2, <1>3, <1>4, <1>5, <1>b, FilesKept DEF JobInv

LEMMA TrainStepStep == JobInv /\ TrainStep => JobInv'
<1> SUFFICES ASSUME JobInv, TrainStep PROVE JobInv'
  OBVIOUS
<1>a. TypeOK /\ Ahead /\ WrittenInOrder /\ Named /\ LeftAlone /\ EveryMultiple
  BY DEF JobInv
<1>b. /\ pc = "train" /\ todo # <<>> /\ step' = Head(todo) /\ todo' = Tail(todo) /\ made' = made + 1
      /\ pc' \in {"weights", "train"} /\ (pc' = "weights" <=> Saves(step)')
      /\ UNCHANGED <<half, job, meta, dirs, last, finished, runs>>
  BY DEF TrainStep, Saves
<1>c. /\ step' \in StepDirs /\ todo' \in Seq(StepDirs) /\ Len(todo) \in Nat /\ 1 \in 1..Len(todo)
      /\ step' = todo[1] /\ Len(todo') = Len(todo) - 1
      /\ \A i \in 1..Len(todo') : i + 1 \in 1..Len(todo) /\ todo'[i] = todo[i + 1]
  BY <1>a, <1>b, NextStep
<1>d. step \in Int /\ step' \in Int /\ step >= 0
  BY <1>a, <1>c, JobAssumption DEF TypeOK, StepDirs
<1>1. TypeOK'
  BY <1>a, <1>b, <1>c DEF TypeOK
<1>2. Ahead'
  <2>1. CASE \A i \in 1..Len(todo) : todo[i] = step + i
    BY <1>b, <1>c, <1>d, <2>1 DEF Ahead
  <2>2. CASE Len(todo) = 2 /\ todo[1] = 1 /\ todo[2] = 0 /\ step = 0
    BY <1>b, <1>c, <1>d, <2>2 DEF Ahead
  <2>3. CASE Len(todo) = 1 /\ todo[1] = 0 /\ step = 1
    BY <1>b, <1>c, <1>d, <2>3 DEF Ahead
  <2> QED BY <1>a, <2>1, <2>2, <2>3 DEF Ahead
<1>3. \A d : d = step' \/ Coming(d)' => Coming(d)
  BY <1>c DEF Coming
<1>4. WrittenInOrder'
  BY <1>a, <1>b, <1>3 DEF WrittenInOrder, StateBefore
<1>5. PartWritten'
  BY <1>a, <1>b, <1>c, <1>3 DEF PartWritten, WrittenInOrder, StateBefore
<1>6. Named'
  BY <1>a, <1>b DEF Named
<1>7. LeftAlone'
  BY <1>a, <1>b, <1>3, FilesKept DEF LeftAlone, Saving
<1>8. EveryMultiple'
  <2> SUFFICES ASSUME runs = 1
               PROVE  /\ \A k \in Nat : k * job.every \in 1..(step' - 1) => k * job.every \in finished
                      /\ pc' = "train" /\ step' > 0 /\ Saves(step)' => step' \in finished
                      /\ pc' = "meta" => step' = 0
    BY <1>b DEF EveryMultiple
  <2>1. ASSUME NEW k \in Nat, k * job.every \in 1..(step' - 1)
        PROVE  k * job.every \in finished
    <3>1. step' = step + 1
      <4>1. step' # 0 /\ step' # 1
        BY <1>d, <2>1
      <4> QED BY <1>a, <1>c, <4>1 DEF Ahead
    <3>2. CASE k * job.every \in 1..(step - 1)
      BY <1>a, <2>1, <3>2 DEF EveryMultiple
    <3>3. CASE k * job.every \notin 1..(step - 1)
      <4>1. k * job.every = step /\ step > 0
        BY <1>d, <2>1, <3>1, <3>3
      <4>2. job.every \in Nat \ {0}
        <5>1. job.every \in Intervals \cup {1}
          BY <1>a DEF TypeOK
        <5>2. job.every \in Intervals => job.every \in Nat \ {0}
          BY JobAssumption
        <5>3. job.every = 1 => job.every \in Nat \ {0}
          OBVIOUS
        <5> QED BY <5>1, <5>2, <5>3
      <4>3. Saves(step)
        BY <2>1, <4>1, <4>2, MultiplesDivide DEF Saves
      <4> QED BY <1>a, <1>b, <4>1, <4>3 DEF EveryMultiple
    <3> QED BY <3>2, <3>3
  <2> QED BY <1>b, <2>1
<1> QED BY <1>1, <1>2, <1>4, <1>5, <1>6, <1>7, <1>8, <1>b, FilesKept DEF JobInv

LEMMA UnlinkStep == JobInv /\ UnlinkLast => JobInv'
<1> SUFFICES ASSUME JobInv, UnlinkLast PROVE JobInv'
  OBVIOUS
<1> USE DEF UnlinkLast
<1>1. TypeOK' /\ Ahead' /\ WrittenInOrder' /\ PartWritten'
  BY DEF JobInv, TypeOK, Ahead, WrittenInOrder, PartWritten, StateBefore, Coming, Saving
<1>2. Named' /\ EveryMultiple'
  BY DEF JobInv, Named, EveryMultiple
<1>3. LeftAlone'
  BY FilesKept DEF JobInv, LeftAlone, Saving, Coming
<1> QED BY <1>1, <1>2, <1>3, FilesKept DEF JobInv

LEMMA LinkStep == JobInv /\ LinkLast => JobInv'
<1> SUFFICES ASSUME JobInv, LinkLast PROVE JobInv'
  OBVIOUS
<1> USE DEF LinkLast
<1>a. step \in StepDirs /\ step \in Int
  BY JobAssumption DEF JobInv, TypeOK, StepDirs
<1>1. TypeOK' /\ Ahead' /\ WrittenInOrder' /\ PartWritten'
  BY DEF JobInv, TypeOK, Ahead, WrittenInOrder, PartWritten, StateBefore, Coming, Saving
<1>2. Named' /\ EveryMultiple'
  BY <1>a DEF JobInv, Named, EveryMultiple
<1>3. ~Coming(step)
  BY <1>a DEF JobInv, Ahead, Saving, Coming
<1>4. LeftAlone'
  <2>1. runs <= 1 => Valid(step)
    BY DEF JobInv, LeftAlone
  <2> QED BY <1>3, <2>1, FilesKept DEF JobInv, LeftAlone, Saving, Coming
<1> QED BY <1>1, <1>2, <1>4, FilesKept DEF JobInv

LEMMA EndStep == JobInv /\ (Finish \/ Kill) => JobInv'
<1> SUFFICES ASSUME JobInv, Finish \/ Kill PROVE JobInv'
  OBVIOUS
<1>a. pc' = "idle" /\ half' \in BOOLEAN /\ UNCHANGED <<job, todo, step, made, meta, dirs, last, finished, runs>>
  BY DEF Finish, Kill, JobInv, TypeOK
<1>1. TypeOK' /\ Ahead' /\ WrittenInOrder' /\ PartWritten'
  BY <1>a DEF JobInv, TypeOK, Ahead, WrittenInOrder, PartWritten, Saving
<1>2. Named' /\ EveryMultiple'
  BY <1>a DEF JobInv, Named, EveryMultiple
<1>3. LeftAlone'
  BY <1>a, FilesKept DEF JobInv, LeftAlone, Saving
<1> QED BY <1>1, <1>2, <1>3, <1>a, FilesKept DEF JobInv

\* What every write of a checkpoint's file has in common: only the checkpoint
\* of the step at hand changes, which is not one of the finished ones.
LEMMA WriteKeeps ==
  ASSUME JobInv, pc \in {"weights", "optimizer", "state"}, pc' \in Saving, half' = ~half,
         NEW f \in Files, NEW x, dirs' = With(f, x),
         UNCHANGED <<job, todo, step, made, meta, last, finished, runs>>
  PROVE  /\ FilesTyped' /\ Ahead' /\ EveryMultiple'
         /\ \A d \in StepDirs : d # step =>
              /\ \A g \in Files : dirs'[d][g] = dirs[d][g]
              /\ Valid(d)' <=> Valid(d)
              /\ StateBefore(d)' <=> StateBefore(d)
         /\ \A g \in Files : g # f => dirs'[step][g] = dirs[step][g]
         /\ dirs'[step][f] = x
         /\ \A d \in StepDirs : Coming(d) => d # step
         /\ \A d \in StepDirs : Coming(d)' <=> Coming(d)
         /\ runs <= 1 => /\ \A d \in finished : Valid(d)'
                         /\ last # NoLink => last \in finished
                         /\ step \notin finished
                         /\ \A d \in finished : ~Coming(d)'
<1>a. TypeOK /\ FilesTyped /\ Ahead /\ EveryMultiple /\ LeftAlone /\ step \in StepDirs /\ step \in Int
  BY JobAssumption DEF JobInv, TypeOK, StepDirs
<1>b. pc # "idle" /\ pc # "train" /\ pc # "meta" /\ pc' # "train" /\ pc' # "meta" /\ pc \in Saving
  BY DEF Saving
<1>1. /\ FilesTyped'
      /\ \A d \in StepDirs, g \in Files : dirs'[d][g] = IF d = step /\ g = f THEN x ELSE dirs[d][g]
  BY <1>a, PutChanges
<1>2. \A d \in StepDirs : d # step =>
        /\ \A g \in Files : dirs'[d][g] = dirs[d][g]
        /\ Valid(d)' <=> Valid(d)
        /\ StateBefore(d)' <=> StateBefore(d)
  BY <1>1, FileNames DEF Valid, StateBefore
<1>3. Ahead' /\ EveryMultiple'
  BY <1>a, <1>b DEF Ahead, EveryMultiple
<1>4. \A d \in StepDirs : (Coming(d) => d # step) /\ (Coming(d)' <=> Coming(d))
  BY <1>a, <1>b DEF Ahead, Coming
<1>5. runs <= 1 => /\ \A d \in finished : Valid(d)'
                   /\ last # NoLink => last \in finished
                   /\ step \notin finished
                   /\ \A d \in finished : ~Coming(d)'
  BY <1>a, <1>b, <1>2 DEF LeftAlone, TypeOK, Coming
<1> QED BY <1>a, <1>1, <1>2, <1>3, <1>4, <1>5

LEMMA WeightsStep == JobInv /\ WriteWeights => JobInv'
<1> SUFFICES ASSUME JobInv, WriteWeights PROVE JobInv'
  OBVIOUS
<1> DEFINE x == IF half THEN Current ELSE Torn
<1>a. TypeOK /\ WrittenInOrder /\ PartWritten /\ ResumeNeverMixes /\ Named /\ LeftAlone
  BY DEF JobInv
<1>b. /\ pc = "weights" /\ half' = ~half /\ pc' = IF half THEN "optimizer" ELSE "weights"
      /\ UNCHANGED <<job, todo, step, made, meta, last, finished, runs>>
      /\ dirs' = With("weights", x)
  BY DEF WriteWeights, TruncateThenFill, Put, With
<1>c. pc' \in Saving /\ pc # "idle" /\ pc' # "idle" /\ pc' \notin {"meta", "state", "unlink", "link"}
  BY <1>b DEF Saving
<1>d. /\ Current \in Product /\ Current \notin Missing /\ Current[1] = job.run
      /\ step \in StepDirs /\ runs >= 1
  BY <1>a, <1>c, CurrentIsProduct
<1>e. x \in Product \cup Missing /\ (x = Current \/ x = Torn)
  BY <1>d, MissingFacts
<1> HIDE DEF x
<1>f. /\ FilesTyped' /\ Ahead' /\ EveryMultiple'
      /\ \A d \in StepDirs : d # step =>
           /\ \A g \in Files : dirs'[d][g] = dirs[d][g]
           /\ Valid(d)' <=> Valid(d)
           /\ StateBefore(d)' <=> StateBefore(d)
      /\ \A g \in Files : g # "weights" => dirs'[step][g] = dirs[step][g]
      /\ dirs'[step]["weights"] = x
      /\ \A d \in StepDirs : Coming(d) => d # step
      /\ \A d \in StepDirs : Coming(d)' <=> Coming(d)
      /\ runs <= 1 => /\ \A d \in finished : Valid(d)'
                      /\ last # NoLink => last \in finished
                      /\ step \notin finished
                      /\ \A d \in finished : ~Coming(d)'
  BY <1>b, <1>c, FileNames, WriteKeeps
<1>g. \A d \in StepDirs : dirs'[d]["state"] = dirs[d]["state"]
  BY <1>f, FileNames
<1>h. ~Valid(step)'
  <2>1. CASE x = Torn
    BY <1>b, <1>f, <2>1, MissingFacts DEF Valid
  <2>2. CASE x = Current
    <3>1. dirs[step]["state"] \in State \cup Missing
      BY <1>a, <1>d DEF TypeOK
    <3>2. dirs[step]["state"] \in State => dirs[step]["state"].sum[1] # job.run
      <4>1. StateBefore(step) /\ job.run \in Int
        BY <1>a, <1>b, JobAssumption DEF PartWritten, TypeOK
      <4>2. dirs[step]["state"] \in State => dirs[step]["state"].sum[1] \in Int
        BY DEF State, Product
      <4> QED BY <4>1, <4>2 DEF StateBefore
    <3> QED BY <1>b, <1>d, <1>f, <1>g, <2>2, <3>1, <3>2 DEF Valid
  <2> QED BY <1>e, <2>1, <2>2
<1>1. TypeOK'
  <2>1. \A d \in StepDirs : /\ dirs'[d]["weights"] \in Product \cup Missing
                            /\ dirs'[d]["optimizer"] \in Product \cup Missing
                            /\ dirs'[d]["state"] \in State \cup Missing
    BY <1>a, <1>e, <1>f, <1>g, FileNames DEF TypeOK
  <2> QED BY <1>a, <1>b, <2>1 DEF TypeOK
<1>2. WrittenInOrder'
  BY <1>a, <1>b, <1>c, <1>f, <1>g DEF WrittenInOrder, StateBefore
<1>3. PartWritten'
  BY <1>a, <1>b, <1>c, <1>d, <1>f, <1>g DEF PartWritten, StateBefore, Current, x
<1>4. ResumeNeverMixes'
  BY <1>a, <1>b, <1>f, <1>h, FileNames DEF ResumeNeverMixes
<1>5. Named'
  BY <1>a, <1>b, <1>c, <1>d, <1>g DEF Named
<1>6. LeftAlone'
  BY <1>b, <1>c, <1>f DEF LeftAlone
<1> QED BY <1>1, <1>2, <1>3, <1>4, <1>5, <1>6, <1>f DEF JobInv

LEMMA OptimizerStep == JobInv /\ WriteOptimizer => JobInv'
<1> SUFFICES ASSUME JobInv, WriteOptimizer PROVE JobInv'
  OBVIOUS
<1> DEFINE x == IF half THEN Current ELSE Torn
<1>a. TypeOK /\ WrittenInOrder /\ PartWritten /\ ResumeNeverMixes /\ Named /\ LeftAlone
  BY DEF JobInv
<1>b. /\ pc = "optimizer" /\ half' = ~half /\ pc' = IF half THEN "state" ELSE "optimizer"
      /\ UNCHANGED <<job, todo, step, made, meta, last, finished, runs>>
      /\ dirs' = With("optimizer", x)
  BY DEF WriteOptimizer, TruncateThenFill, Put, With
<1>c. pc' \in Saving /\ pc # "idle" /\ pc' # "idle" /\ pc' \notin {"meta", "weights", "unlink", "link"}
  BY <1>b DEF Saving
<1>d. /\ Current \in Product /\ Current \notin Missing /\ Current[1] = job.run
      /\ step \in StepDirs /\ runs >= 1
  BY <1>a, <1>c, CurrentIsProduct
<1>e. x \in Product \cup Missing /\ (x = Current \/ x = Torn)
  BY <1>d, MissingFacts
<1> HIDE DEF x
<1>f. /\ FilesTyped' /\ Ahead' /\ EveryMultiple'
      /\ \A d \in StepDirs : d # step =>
           /\ \A g \in Files : dirs'[d][g] = dirs[d][g]
           /\ Valid(d)' <=> Valid(d)
           /\ StateBefore(d)' <=> StateBefore(d)
      /\ \A g \in Files : g # "optimizer" => dirs'[step][g] = dirs[step][g]
      /\ dirs'[step]["optimizer"] = x
      /\ \A d \in StepDirs : Coming(d) => d # step
      /\ \A d \in StepDirs : Coming(d)' <=> Coming(d)
      /\ runs <= 1 => /\ \A d \in finished : Valid(d)'
                      /\ last # NoLink => last \in finished
                      /\ step \notin finished
                      /\ \A d \in finished : ~Coming(d)'
  BY <1>b, <1>c, FileNames, WriteKeeps
<1>g. \A d \in StepDirs : dirs'[d]["state"] = dirs[d]["state"]
  BY <1>f, FileNames
<1>h. /\ dirs'[step]["weights"] = Current /\ dirs[step]["weights"] = Current
      /\ StateBefore(step) /\ ~Valid(step)'
  <2>1. dirs'[step]["weights"] = Current /\ dirs[step]["weights"] = Current /\ StateBefore(step)
    BY <1>a, <1>b, <1>f, FileNames DEF PartWritten
  <2>2. dirs[step]["state"] \in State \cup Missing /\ job.run \in Int
    BY <1>a, <1>d, JobAssumption DEF TypeOK
  <2>3. dirs[step]["state"] \in State => dirs[step]["state"].sum[1] \in Int
    BY DEF State, Product
  <2> QED BY <1>b, <1>d, <1>g, <2>1, <2>2, <2>3 DEF Valid, StateBefore
<1>1. TypeOK'
  <2>1. \A d \in StepDirs : /\ dirs'[d]["weights"] \in Product \cup Missing
                            /\ dirs'[d]["optimizer"] \in Product \cup Missing
                            /\ dirs'[d]["state"] \in State \cup Missing
    BY <1>a, <1>e, <1>f, <1>g, FileNames DEF TypeOK
  <2> QED BY <1>a, <1>b, <2>1 DEF TypeOK
<1>2. WrittenInOrder'
  BY <1>a, <1>b, <1>c, <1>f, <1>g DEF WrittenInOrder, StateBefore
<1>3. PartWritten'
  BY <1>a, <1>b, <1>c, <1>d, <1>f, <1>g, <1>h DEF PartWritten, StateBefore, Current, x
<1>4. ResumeNeverMixes'
  BY <1>a, <1>b, <1>f, <1>h, FileNames DEF ResumeNeverMixes
<1>5. Named'
  BY <1>a, <1>b, <1>c, <1>d, <1>g DEF Named
<1>6. LeftAlone'
  BY <1>b, <1>c, <1>f DEF LeftAlone
<1> QED BY <1>1, <1>2, <1>3, <1>4, <1>5, <1>6, <1>f DEF JobInv

LEMMA StateStep == JobInv /\ WriteTrainingState => JobInv'
<1> SUFFICES ASSUME JobInv, WriteTrainingState PROVE JobInv'
  OBVIOUS
<1> DEFINE written == [step |-> step, run |-> job.run, full |-> job.full, sum |-> Current]
<1> DEFINE x == IF half THEN written ELSE Torn
<1>a. TypeOK /\ WrittenInOrder /\ PartWritten /\ ResumeNeverMixes /\ Named /\ LeftAlone
  BY DEF JobInv
<1>b. /\ pc = "state" /\ half' = ~half /\ pc' = IF half THEN "unlink" ELSE "state"
      /\ UNCHANGED <<job, todo, step, made, meta, last, finished, runs>>
      /\ dirs[step]["weights"] = Current /\ dirs[step]["optimizer"] = Current
      /\ dirs' = With("state", x)
  BY <1>a DEF WriteTrainingState, TruncateThenFill, Put, With, PartWritten
<1>c. pc' \in Saving /\ pc # "idle" /\ pc' # "idle" /\ pc' \notin {"meta", "weights", "optimizer", "link"}
  BY <1>b DEF Saving
<1>d. /\ Current \in Product /\ Current \notin Missing /\ Current[1] = job.run
      /\ step \in StepDirs /\ runs >= 1 /\ job.run \in 1..MaxRuns /\ job.full \in BOOLEAN
  BY <1>a, <1>c, CurrentIsProduct
<1>e. /\ written \in State /\ written \notin Missing
      /\ written.step = step /\ written.run = job.run /\ written.full = job.full /\ written.sum = Current
      /\ x = IF half THEN written ELSE Torn
  <2>1. written \in State
    BY <1>d DEF State
  <2> QED BY <2>1, MissingAssumption
<1>x. x \in State \cup Missing /\ Torn \notin State /\ Torn \in Missing
  BY <1>e, MissingFacts
<1> HIDE DEF x, written
<1>f. /\ FilesTyped' /\ Ahead' /\ EveryMultiple'
      /\ \A d \in StepDirs : d # step =>
           /\ \A g \in Files : dirs'[d][g] = dirs[d][g]
           /\ Valid(d)' <=> Valid(d)
           /\ StateBefore(d)' <=> StateBefore(d)
      /\ \A g \in Files : g # "state" => dirs'[step][g] = dirs[step][g]
      /\ dirs'[step]["state"] = x
      /\ \A d \in StepDirs : Coming(d) => d # step
      /\ \A d \in StepDirs : Coming(d)' <=> Coming(d)
      /\ runs <= 1 => /\ \A d \in finished : Valid(d)'
                      /\ last # NoLink => last \in finished
                      /\ step \notin finished
                      /\ \A d \in finished : ~Coming(d)'
  BY <1>b, <1>c, FileNames, WriteKeeps
<1>g. dirs'[step]["weights"] = Current /\ dirs'[step]["optimizer"] = Current
  BY <1>b, <1>f, FileNames
\* The checkpoint is complete with its training state, and not before.
<1>h. /\ Valid(step)' <=> half
      /\ dirs'[step]["state"] \in State <=> half
      /\ half => dirs'[step]["state"] = written
  BY <1>b, <1>d, <1>e, <1>x, <1>f, <1>g DEF Valid
<1>1. TypeOK'
  <2>1. \A d \in StepDirs : /\ dirs'[d]["weights"] \in Product \cup Missing
                            /\ dirs'[d]["optimizer"] \in Product \cup Missing
                            /\ dirs'[d]["state"] \in State \cup Missing
    BY <1>a, <1>x, <1>f, FileNames, <1>d, <1>g DEF TypeOK
  <2> QED BY <1>a, <1>b, <2>1 DEF TypeOK
<1>2. WrittenInOrder'
  <2>1. \A d \in StepDirs : dirs'[d]["state"] \in State => dirs'[d]["state"].sum[1] <= job.run
    <3> SUFFICES ASSUME NEW d \in StepDirs, dirs'[d]["state"] \in State
                 PROVE  dirs'[d]["state"].sum[1] <= job.run
      OBVIOUS
    <3>1. CASE d = step
      BY <1>d, <1>e, <1>h, <3>1
    <3>2. CASE d # step
      BY <1>a, <1>f, <3>2, FileNames DEF WrittenInOrder
    <3> QED BY <3>1, <3>2
  <2>2. \A d \in StepDirs : Coming(d)' => StateBefore(d)'
    BY <1>a, <1>c, <1>f DEF WrittenInOrder
  <2> QED BY <1>a, <1>b, <1>c, <2>1, <2>2 DEF WrittenInOrder
<1>3. PartWritten'
  BY <1>b, <1>c, <1>g DEF PartWritten, Current
<1>4. ResumeNeverMixes'
  <2> SUFFICES ASSUME NEW d \in StepDirs, Valid(d)'
               PROVE  /\ dirs'[d]["state"].step = d
                      /\ dirs'[d]["weights"] = <<dirs'[d]["state"].run, d>>
                      /\ dirs'[d]["optimizer"] = <<dirs'[d]["state"].run, d>>
    BY DEF ResumeNeverMixes
  <2>1. CASE d = step
    <3>1. half
      BY <1>e, <1>f, <1>x, <2>1 DEF Valid
    <3> QED BY <1>e, <1>g, <1>h, <2>1, <3>1 DEF Current
  <2>2. CASE d # step
    BY <1>a, <1>f, <2>2, FileNames DEF ResumeNeverMixes
  <2> QED BY <2>1, <2>2
<1>5. Named'
  <2> SUFFICES ASSUME runs <= 1
               PROVE  /\ meta = [run |-> job.run, full |-> job.full]
                      /\ \A d \in StepDirs :
                           dirs'[d]["state"] \in State =>
                             /\ dirs'[d]["state"].run = job.run
                             /\ dirs'[d]["state"].full = job.full
    BY <1>b, <1>c, <1>d DEF Named
  <2>1. meta = [run |-> job.run, full |-> job.full]
    BY <1>a, <1>b DEF Named
  <2>2. ASSUME NEW d \in StepDirs, dirs'[d]["state"] \in State
        PROVE  dirs'[d]["state"].run = job.run /\ dirs'[d]["state"].full = job.full
    <3>1. CASE d = step
      BY <1>e, <1>h, <2>2, <3>1
    <3>2. CASE d # step
      BY <1>a, <1>f, <2>2, <3>2, FileNames DEF Named
    <3> QED BY <3>1, <3>2
  <2> QED BY <2>1, <2>2
<1>6. LeftAlone'
  BY <1>b, <1>c, <1>f, <1>h DEF LeftAlone
<1> QED BY <1>1, <1>2, <1>3, <1>4, <1>5, <1>6, <1>f DEF JobInv

LEMMA StutterStep == JobInv /\ UNCHANGED vars => JobInv'
<1> SUFFICES ASSUME JobInv, UNCHANGED vars PROVE JobInv'
  OBVIOUS
<1> USE DEF vars
<1>1. TypeOK' /\ Ahead' /\ WrittenInOrder' /\ PartWritten'
  BY DEF JobInv, TypeOK, Ahead, WrittenInOrder, PartWritten, StateBefore, Coming, Current
<1>2. Named' /\ EveryMultiple'
  BY DEF JobInv, Named, EveryMultiple, Saves
<1>3. LeftAlone'
  BY FilesKept DEF JobInv, LeftAlone, Coming
<1> QED BY <1>1, <1>2, <1>3, FilesKept DEF JobInv

\* The invariant is inductive.
LEMMA NextInv == JobInv /\ [Next]_vars => JobInv'
BY RunStep, MetadataStep, TrainStepStep, EndStep, WeightsStep, OptimizerStep, StateStep,
   UnlinkStep, LinkStep, StutterStep DEF Next

----------------------------------------------------------------------------
(* The theorems.                                                           *)

\* The invariant holds of every run of the writer, killed anywhere.
THEOREM JobInvHolds == Spec => []JobInv
BY InitInv, NextInv, PTL DEF Spec

\* Types of the writer's state and of the files (finetune_job.ex).
THEOREM JobTypeCorrect == Spec => []TypeOK
<1>1. JobInv => TypeOK
  BY DEF JobInv
<1> QED BY <1>1, JobInvHolds, PTL

\* A checkpoint resume/1 accepts is of one run and of one step, whoever was
\* killed while writing or overwriting it.
THEOREM ResumeNeverMixesHolds == Spec => []ResumeNeverMixes
<1>1. JobInv => ResumeNeverMixes
  BY DEF JobInv
<1> QED BY <1>1, JobInvHolds, PTL

\* In the first run the sidecar agrees with every checkpoint resume/1 accepts:
\* it is written before the first of them and never again.
THEOREM ResumeKeepsIdentityHolds == Spec => []ResumeKeepsIdentity
<1>1. JobInv => ResumeKeepsIdentity
  <2> SUFFICES ASSUME JobInv, runs = 1, NEW d \in StepDirs, Valid(d)
               PROVE  /\ Resumed(d).run = dirs[d]["state"].run
                      /\ Resumed(d).full = dirs[d]["state"].full
    BY DEF ResumeKeepsIdentity
  <2>1. dirs[d]["state"] \in State
    BY DEF JobInv, TypeOK, Valid
  <2>2. /\ meta = [run |-> job.run, full |-> job.full]
        /\ dirs[d]["state"].run = job.run /\ dirs[d]["state"].full = job.full
    BY <2>1 DEF JobInv, Named
  <2>3. meta \notin Missing
    <3>1. dirs[d]["state"].run \in 1..MaxRuns /\ dirs[d]["state"].full \in BOOLEAN
      BY <2>1 DEF State
    <3>2. meta \in Meta
      BY <2>2, <3>1 DEF Meta
    <3> QED BY <3>2, MissingAssumption
  <2> QED BY <2>2, <2>3 DEF Resumed
<1> QED BY <1>1, JobInvHolds, PTL

\* In the first run the link names an acceptable checkpoint whenever it is there:
\* no step is saved twice.
THEOREM LastIsValidHolds == Spec => []LastIsValid
<1>1. JobInv => LastIsValid
  BY DEF JobInv, LeftAlone, LastIsValid
<1> QED BY <1>1, JobInvHolds, PTL

\* In the first run the checkpoint before the step at hand is acceptable.
THEOREM LossBoundedHolds == Spec => []LossBounded
<1>1. JobInv => LossBounded
  <2> SUFFICES ASSUME JobInv, runs = 1, step > job.every
               PROVE  Valid(((step - 1) \div job.every) * job.every)
    BY DEF LossBounded
  <2> DEFINE k == (step - 1) \div job.every
  <2>1. job.every \in Nat \ {0}
    <3>1. job.every \in Intervals \cup {1}
      BY DEF JobInv, TypeOK
    <3>2. job.every \in Intervals => job.every \in Nat \ {0}
      BY JobAssumption
    <3>3. job.every = 1 => job.every \in Nat \ {0}
      OBVIOUS
    <3> QED BY <3>1, <3>2, <3>3
  <2>2. step - 1 \in Nat /\ step - 1 >= job.every
    BY <2>1, JobAssumption DEF JobInv, TypeOK, StepDirs
  <2>3. k \in Nat /\ k * job.every \in 1..(step - 1)
    BY <2>1, <2>2, MultipleBelow
  <2> HIDE DEF k
  <2>4. k * job.every \in finished
    BY <2>3 DEF JobInv, EveryMultiple
  <2>5. Valid(k * job.every)
    BY <2>4 DEF JobInv, LeftAlone
  <2> QED BY <2>5 DEF k
<1> QED BY <1>1, JobInvHolds, PTL

=============================================================================
