# TLA+ models of smolVLA-mlx

The program runs a robot arm from a vision-language-action model. An Elixir
control loop executes queued actions and asks an inference adapter for more;
the adapter is a Python server behind ZeroMQ or an Elixir server on another BEAM
node; in the demo the arm is a simulated one behind a second ZeroMQ server. Two
trainers, one per language, fine-tune the model and a parity gate compares them.

This directory models the parts whose correctness depends on the order of
events, checks the models with TLC and proves the central invariants with TLAPS.
Line numbers below refer to files under `src/`.

## Inventory

| Component | Source | State | Operations | Talks to |
|---|---|---|---|---|
| Control loop | `lib/control_loop.ex`, `lib/control_loop/action_queue.ex` | action queue, in-flight flag | `tick/1`, result message, inference task | observation source, actuator sink, adapter |
| ZeroMQ clients | `lib/control_loop/zero_mq_client.ex`, `lib/sim_env_adapter/client.ex` | REQ socket handle in an Agent | `connect`, `infer_action`/`request`, `reopen` | a REP server |
| REP servers | `model_runtime_server/server.py`, `sim_server/server.py` | socket, stop flag | `serve_forever`, `stop`, request handling | a model, or the sim environment |
| Sim rig | `lib/sim_env_adapter.ex`, `lib/demo/sim_node.ex`, `sim_server/env.py` | cached observation, the arm | `observe`, `actuate`, `start`, `run_loop`, reset, step | loop on one side, sim server on the other |
| Sim viewer | `sim_server/viewer.py`, `env.py`, `__main__.py` | lock, stop flag, window | serve thread, sync loop, shutdown | MuJoCo |
| FineTuneJob (Elixir) | `lib/finetune_job.ex` | checkpoint files, sidecar, link | `run/4`, `resume/1`, `validate_checkpoint!/1` | dataset, model |
| FineTuneJob (Python) | `finetune_job/job.py` | sidecar | `run`, `resume` | `lerobot-train` subprocess |
| Inference server, cluster | `lib/inference_server.ex`, `lib/smol_vla/adapter.ex`, `lib/demo/` | held model | `infer_action` across nodes | loop, model |
| Parity gate | `finetune_job/parity_gate/` | `work_dir`: training copy, checkpoints, evaluation file, report | split, materialize, train both, evaluate, judge | both trainers, both dataset readers |
| SmolVLA model | `lib/smol_vla.ex`, `lib/smol_vla/*.ex` | weights | forward pass, loss, key remapping, preprocessing | - |
| Dataset reader | `lib/smol_vla/dataset.ex` | open files | episode and frame lookup | - |

What is hard about each, and what makes it correct:

- **Control loop.** Ticks, the task's answer and its death interleave. Correct
  means: one call at a time, no action lost, repeated or overtaken, a bounded
  queue, bounded staleness, and a queue that runs dry only because inference is
  slow.
- **ZeroMQ link.** A timer races a late reply over a socket that refuses to be
  used twice; servers stop, crash and restart. Correct means: an answer reaches
  only the call it belongs to, a call is carried out at most once, a socket in mid
  cycle is neither kept nor hidden by the recovery, and a call always comes to an end.
- **Sim rig.** Three processes wait for the same step with equal timeouts, and
  the server waits for none of them. Correct means: the arm makes the moves that
  were sent, in order, once each, and what is observed is what followed them.
- **Viewer.** Two threads share data that is not thread-safe, and a shutdown.
- **Trainers.** They can be killed between any two writes, and files of earlier
  runs may be in the way. Correct means: what is accepted on resume is whole, and
  is named by the run that made it.
- **Inference server.** Calls without a timeout to a node that may vanish, and
  requests that outlive their callers. Correct means: a call ends, in an answer of
  its own or an error, and the loop gets actions again after an outage.
- **Parity gate.** A dozen stages over one directory that is used again after runs
  that stopped half way, with the same work done in two languages. Correct means:
  no policy has seen what it is tested on, a report is of one run, and both policies
  are measured on the same frames.
- **Model, dataset.** Pure computations; errors are off-by-one indices and masks.

The hazards, each at its line and with the properties that would catch it, are
listed in `PROJECT.json`.

## Modules

### Control loop

- `ActionQueue` - `action_queue.ex` as operators on sequences.
- `ControlLoop` - the GenServer. One callback is one action: `TickSends` and
  `TickExhausted` are `handle_call(:tick)` with or without a queued action, both
  with `MaybeTrigger` inside (the depth is compared *before* the pop, line 185).
  `TickObserveFails`, `TickSinkFails` and `TickTelemetryFails` are ticks in which a
  function given to the loop raises and the process dies. `TaskReturns` and `TaskKilled` are the unlinked inference task;
  `HandleChunk`, `HandleError`, `HandleMalformed` the three ways its message is
  received. `up` is the life of the process, `mailbox` the result messages,
  `orphaned` the history that a task of the live loop was killed, which leaves its
  flag set for good; a `Faults` constant says which outside failures an instance
  allows.
- `ControlLoopHistory` - the same with auxiliary variables: everything sent,
  everything produced, when each call was asked. Needed because the important
  promises are about whole runs.
- `ActionStream` - the abstract specification: a stream produced by the policy
  and handed out from its start. `ControlLoopHistory!ImplementsStream` is the
  refinement.
- `ControlLoopProofs` - theorems about the loop, whole runs and the call to the
  inference node.

### ZeroMQ link

- `ReqRepWire` - the messages. A connection is named by the client's socket.
- `ReqClient` - both Elixir clients (same body). `cell` is the Agent's socket
  handle, `sock` chumak's state machine of each socket, `phase` where the caller
  is in `infer_action/2`. `Timeout` and `FindsWedge` lead to the recovery: `Reopen`, or
  `ReopenFails` (`:chumak.socket` fails) and `ReopenDrops` (`:chumak.connect` fails, and
  the socket just made stays alive with nothing referring to it). Before either,
  `safe_stop/1` leaves the old socket stopped or, its stop having timed out, "stopping":
  the order waits in the socket's mailbox ahead of any later send.
  `TaskDiesWithCaller` is the exit of a linked task. `told` is history: the last answer
  a caller got.
- `RepServer` - `serve_forever` of both servers (same loop).
- `ReqRepLink` - their composition, the fault model, fairness, properties.
- `RemoteCall` - the abstract specification: a call is carried out at most once,
  possibly after its caller gave up; a caller hears only its own answer.
  `ReqRepLink!ImplementsRemoteCall` is the refinement.
- `ReqRepLinkProofs` - theorems about the composition, the refinement among them.

Calls and sockets have identities that are used again once nothing refers to
them, so behaviours are unbounded in length while the state space is finite.

### Sim rig

`SimRig` joins the driver (`run_loop/3`), the loop seen from its two seams, the
adapter and the sim server with its arm. By the refinement above a request that
was given up on stays at the server and its late reply reaches nobody, so the
link is reduced to that here. `WaiterTimesOut` and `AdapterGivesUp` are the three
timeouts: any may pass first. `linked` chooses between an adapter the driver
starts (and dies with) and one that is injected and outlives runs
(`sim_node.ex:86-87`). The arm's state is the reset it comes from and the steps
since, so "which frame is this" can be asked of every observation. `abandoned` is
history: a start was given up on while its reset was unread. `SimRigProofs` proves the
safety properties.

### Viewer

`SimViewer` has the main thread and the serve thread as two program counters, the
`RLock`, a write to `MjData` in two halves, the shutdown of `run_with_viewer` and
of `main()`, and Ctrl-C. An exception leaves the `with` block with `MjData` as it is
(`OpRaises`), half written or not; `torn` is the history of the steps broken off that
way, since the window may well show those. `SimViewerProofs` proves the two safety
properties.

### Trainers

- `FineTuneJob` - `run/4` write by write; `File.write!` truncates and then fills,
  so each write is two steps with a torn file between them, and `Kill` may come
  anywhere. `resume/1` and `validate_checkpoint!/1` only read, so they are
  operators (`Resumed`, `Valid`) evaluated in every state.
- `PyFineTuneJob` - `run` and `resume` around a subprocess. Here nobody reads
  during a write, so a write is one step and a kill may leave it torn.
- `FineTuneJobProofs`, `PyFineTuneJobProofs` - theorems about them for all numbers.

### Inference node

`ClusterLoop` extends `ControlLoop`, whose inference task here is inside a
`GenServer.call` to another node. `ClientCalls`, `ClientReturns` and `ClientExits` are
`Demo.InferenceClient.infer_action/2`, the last its `catch :exit`, reached because
nobody is there (`ClientFindsNobody`; a failed `connect_cluster/2` is only logged), the monitor fires (`ClientSeesDown`), the timer
does (`ClientTimesOut`) or the connection goes (`ConnectionLost`). `server` is the life
of the `InferenceServer`, which is registered, and so can be called, while `init/1` is
loading. A request whose caller is gone is still carried out, before those behind it;
all of these are the one flag `stale`, since nobody hears of them again, so there may be
any number. `bounded` chooses `:infer_timeout`. `ImplementsPort` maps this onto the same
`RemoteCall` that the ZeroMQ link implements: the port is one, the transports are two.
Its theorems are in `ControlLoopProofs`.

### Parity gate

- `EpisodeSplit` - the picking loop of `split_episodes`, turn by turn. `idx` is capped
  at the total, beyond which the code only reads `total - 1`.
- `TrainOnlyDataset` - `build_train_only_dataset` as an operator from a dataset and a
  split to the materialized copy, and the two readers: LeRobot finds an episode's row
  by position, `dataset.ex` by value. A frame is named by where it was recorded, so
  "which frame does this index lead to" can be asked after renumbering.
- `ParityGate` - `main()` stage by stage on a `work_dir` that earlier runs have used.
  `Stops` ends a run at any stage with the directory as it is, `ScriptDies` is a
  failing evaluation script, `Raises` what `main()` itself raises. Every checkpoint
  carries, as history, the run and the frames it was trained on.
- `TrainOnlyDatasetProofs`, `ParityGateProofs` - theorems about the copy, and about the
  picking loop and the gate.

The choice of frames is by floating-point `int(i * total / n)` in both languages, from
the same operations on the same IEEE doubles, so both round alike; the models use the
exact quotient. Errors of actions and timings are inputs (`Errors`, `Speeds`); what is
modelled is what is averaged and compared.

## Runs

| Run | Shows | Bounds, and why they are enough |
|---|---|---|
| `loop_history` | one call at a time, a flag that follows it, a bounded queue; one stream, in order, once; bounded staleness; refinement of `ActionStream` | every fault; two call identities (a second call is visible), threshold and initial queue 3, chunks up to 2, five sent actions: the queue overshoots, drains and runs dry over several chunks |
| `loop_crossing` (violation) | the tick that crosses the threshold has not triggered | chunks up to 3 |
| `cluster` | every call settles unless an unbounded one hangs for good; an empty queue is filled again after outages; refinement of `RemoteCall` | every outage, any number of times; two call identities, threshold, chunk and initial queue 3; bounded and unbounded timeout; any number of abandoned requests |
| `link` | refinement of `RemoteCall`; a wedged socket refuses only the call right after the failed recv; no socket left behind in mid cycle; every call ends; calls succeed again after the last fault | every fault, a stop that times out and both ways of failing to reopen included; two calls, three sockets: one request abandoned at the server, one call on a fresh socket, one socket to reopen with |
| `link_raises` (violation) | a failed reopen makes the next call take its caller down | as above |
| `rig` | every wait on the sim node ends; the arm makes the moves sent; no step of a dead run; observations follow the last action | every fault; four runs of two actions: it takes three dead runs behind a live one for a left-over action to be overtaken by a reset, the case `NoGhostSteps` has to exclude |
| `rig_stale` (violation) | `observe/1` is a cache | two runs, no fault at all: slowness is enough |
| `viewer` | no sync within a step, half a step shown only where an exception broke it off; one more request after stop; closing ends the process | three writes: a sync falls before, within and after one, and one follows `stop()` |
| `job` | nothing mixed over several runs on one path; identity, link and bounded loss of the first | three runs of 0, 1 or 3 steps, saved at every one or every second: unsaved steps, saved steps, a last step out of turn (`MaxSteps` = 3) |
| `job_mode` (violation) | a second run renames the first one's checkpoints | two runs |
| `gate` | the split is even and proper; both readers get from the copy exactly what they should, or by value an exception outside the first data file; no policy saw its test episodes; a report is of one run; the comparison is of the same frames by the documented thresholds; every run ends | two runs, either stopped at any stage: one leaves what the next finds. Datasets of five episodes in one data file and of four in two, of 1 to 4 frames; 1, 2 or 4 held out (4 of 4 raises); two step counts, so that an old checkpoint can have the higher number; settings that raise; errors and speeds on both sides of the thresholds |
| `pyjob` | mode never misstated; identity kept until something breaks | two checkpoints, three resumes: one resume can lose what the one before it wrote |

`CHECK_DEADLOCK FALSE` appears where the system may stop: a dead loop with no
task left, a bounded number of runs, a process that has exited. `cluster` checks it:
there is always a tick.

`LinkTypeOK` and `TypeOK` are in the runs where a slip in the code could break
them; the type invariant of `PyFineTuneJob` only documents, that of `SimViewer` is
part of a proof. Operators named as seeded defects (`TimeoutReusingSocket`,
`SavesAtEndOnly`, ...) are wrong versions of the definitions they resemble. No
specification uses them; they exist to show that each property can fail.

### Fairness

- Cluster: the tick timer fires, both BEAMs run their processes and deliver their
  signals, an inference that does not hang ends, somebody starts an absent server
  again. Strong fairness on an answer that brings actions: an adapter asked again and
  again does not fail or come back empty every time; and on reading the last abandoned
  request: a mailbox is finite. `SettlesUnlessHung` excludes what the default
  `:infinity` allows, an inference that never ends; `ClusterRecovers` supposes that from
  some time on there is no outage and answers beat the timer. The loop's own liveness,
  with a task killed from outside, is not claimed: nothing would clear its flag.
- Rig: the sim node's processes run and its timers fire; an idle server reads what is
  there. No fairness for carrying out a step or for a restart: `EveryWaitEnds` holds
  with a server that hangs or stays dead.
- Gate: nothing in a run waits for anybody, and trainers and evaluations end.
- Link: the client's task and timer run, the server's loop runs, a server that is
  down is started again, somebody goes on calling. `Recovers` additionally supposes
  that the faults come to an end and that from then on answers beat the timer.
- Viewer: both threads run and MuJoCo's calls return. The lock is not fair; strong
  fairness for the main thread holds because the serve thread drops the lock for a
  whole network round trip between any two requests. If `env.step` hangs inside
  the lock, closing the window does nothing: the main thread is waiting for it.

## Findings

Each is a statement of the documentation the code does not keep, shown by a run
that TLC violates; `PROJECT.json` has the quotations.

1. A tick that takes the queue below the threshold has not asked for a refill;
   the next one does (`control_loop.ex:185`, run `loop_crossing`).
2. The clients do raise: after a failed reopen the next call exits, with its
   caller (`zero_mq_client.ex:155`, run `link_raises`).
3. After a timed-out step that is carried out late, a reused adapter shows an old
   frame (`sim_env_adapter.ex:209`, run `rig_stale`).
4. A second run on an output path renames the first one's checkpoints
   (`finetune_job.ex:263`, run `job_mode`).

The models contain further behaviour that the documentation would not lead one to
expect, listed among the hazards and not the subject of a run: `observe/1` is answered
from a cache and cannot notice a dead sim server (`sim_env_adapter.ex:199`); a failed
`:chumak.connect` leaves a live socket behind that nothing refers to, one each time, and
`safe_stop/1` takes a stop that timed out for done (`zero_mq_client.ex:135`, `160`); an
exception in the middle of a step leaves it half made in `MjData`, and the window shows
it (`env.py:124`); a killed inference task ends the refills (`control_loop.ex:258`);
`env.close()` takes no lock (`env.py:147`), `checkpoints/last` is missing between `rm` and `ln_s`
(`finetune_job.ex:476`), `steps: 0` makes two steps (`finetune_job.ex:180`), and an
interrupted Python run has no sidecar yet, so that resuming it draws a new identity
(`job.py:151`). At the gate: the copy of a source with several data files
cannot be read by the Elixir trainer, as all rows go to one file and the episodes keep the
source's `data/file_index` (`split.py:211`); a flawless Python policy makes the verdict divide by zero after
everything else is done (`metrics.py:284`); the report of an earlier run stays when a
later one fails (`run_gate.py:521`); held-out episodes are every `total // n`-th from
the first, so that 6 of 11 are the first six, not "spread evenly across the full index
range" (`split.py:84`).

## Proofs

**Control loop** (`ControlLoopProofs`), for every threshold above zero, every chunk
and queue length, every set of calls and faults. The inductive invariant is
`LoopInv`. Single flight alone is not inductive: that a tick with the flag down may
start a call needs `FlagTracksCall` (flag down means nothing outstanding), and that
needs the shape of the mailbox and, where the flag is up for a killed task,
`KilledWasTheOne`: that task was the only one, and none comes after it. `DepthBound` needs `WaitingLeavesRoom`: while an
answer is awaited the queue is at most what the asking tick left, because nothing
else enqueues; so a chunk lands on at most `LowWater - 2` actions. `DeadHoldsNothing`
covers the crashed loop. Theorems: `TypeCorrect`, `SingleFlightHolds`,
`FlagTracksCallHolds`, `DepthBoundHolds`.

**Whole runs** (also there). `HistoryInv` on top of `LoopInv`:
staleness of a chunk is fixed when it is enqueued, so it is bounded by a bound on
what is outstanding (`WaitingLagBounded`), which is set at the ask and kept because
nothing is produced meanwhile. Theorems: `NothingLostOrRepeatedHolds`,
`BoundedStalenessHolds`, and the refinement `ImplementsStreamHolds`.

**Cluster** (also there), for every outage and any number of abandoned requests. Every
step of `ClusterLoop` is a step of the loop or leaves it alone, so `LoopInv` carries
over (`LoopStepIs`); `up` is added, since no outage reaches the loop. `RequestsInv` is
what the refinement needs: a request, or a reply, that is still somebody's is the
waiting caller's, in one place at a time, and once a caller's monitor has fired its
request is gone. An identity is used again while older requests, of nobody, may still
be at the server; those are `stale`, whose being carried out is a stutter of
`RemoteCall`. `TokenAssumption` only says that the marks are no calls. Theorems:
`ClusterInvHolds` and the refinement `ImplementsPortHolds`.

**Link** (`ReqRepLinkProofs`), for every set of calls, sockets, requests and faults. A
late reply is harmless because a cycle of a socket, once given up on, is never waited
for again: the timeout stops the socket, or leaves it an order to stop that precedes
any later send, and its name is used again only when neither the wire nor the server
holds a message of it. `LinkInv` says this (`OwnCycle`, `CyclesApart`, `FreshInv`), and
`AnswersTrue` follows a computed answer from the server to its caller. A waiting socket
in the Agent's cell with no call under way is left by nothing but a recv that failed,
whose error is the last thing `told`; hence `RefusedOnlyAfterClosed`. It does not follow
that a wedge costs one call: after a failed reopening the next call meets a stopped
socket, and dies (`link_raises`). Nor that one socket is alive: those of failed connects
are, but fresh (`NoneLeftInMidCycle`). `NoRequestAssumption` only says that the mark for
"no request" is not a request. Theorems: `LinkTypeCorrect`,
`RefusedOnlyAfterClosedHolds`, `NoneLeftInMidCycleHolds`, and the refinement
`ImplementsRemoteCallHolds`.

**Sim rig** (`SimRigProofs`), for any number of runs and actions and all faults.
`MovesAsSent` speaks of what the arm has done, so `RigInv` follows an action on its way:
a request in the mailbox, at the server or in the server's hands is its run's last
action and exactly one more than the arm has made (`Outstanding`), in one place at a
time (`OnePlace`); a loop that is not waiting has none (`LoopWaits`); a good reply comes
after the move (`JobIsLast`, `ReplyShows`). `NoGhostSteps` needs `NothingLeftBehind`: an
idle server reads what is there before any timer passes, so a run that dies leaves
nothing unread - unless a start was given up on and its reset keeps the server busy.
The property did not hold without that condition, and three runs were too few for TLC to
show it; the attempt to prove it did. Theorems: `RigTypeCorrect`, `MovesAsSentHolds`,
`NoGhostStepsHolds`, `ObservationFollowsLastActionHolds`.

**Viewer** (`SimViewerProofs`). Each thread is inside `MjData` exactly while it owns
the lock, and the two halves differ only inside a write or where an exception broke
one off; a serve loop that took a request after `stop()` does not poll again
(`LeavesAfterLate`). Theorems `NoSyncInsideWriteHolds`, `StopTakesOneMoreHolds`.

**Elixir trainer** (`FineTuneJobProofs`), for every number of runs and steps and every
`:save_every`. That no accepted checkpoint mixes runs or steps is not inductive: a
writer may be killed between two files of a directory that an earlier run filled.
`resume/1` accepts nothing without an intact training state, which is written last; so
`WrittenInOrder` says that a directory this run has yet to come to holds an earlier
run's, and `PartWritten` that until the training state is rewritten it stays an earlier
one's, which the weights, renewed first, do not match. `Ahead` is the shape of the step
list, with the odd one of `steps: 0`. For the first run, `Named` (the sidecar is there
before the first training state), `LeftAlone` (a checkpoint once written is not touched
again, and the link is only to those) and `EveryMultiple`. Theorems: `JobTypeCorrect`,
`ResumeNeverMixesHolds`, `ResumeKeepsIdentityHolds`, `LastIsValidHolds`,
`LossBoundedHolds`.

**Python trainer** (`PyFineTuneJobProofs`), for every number of steps and of resumes.
That a job's mode is the subprocess's says nothing of the disk, which the next resume
reads; so `PyInv` adds `OneMode` - every record of the mode, in any checkpoint or
sidecar, intact among torn ones, is of the one mode - and `NothingYet`, by which `run()`
can still choose it. For the identity, `Unbroken`: while nothing is killed and nothing
fails, every sidecar is whole and names `run()`, and one is in the output path from the
end of the first training on, so that the search upwards always finds one. Theorems
`ModeMatchesTrainingHolds`, `IdentityKeptUnbrokenHolds`.

**Episode split** (in `ParityGateProofs`), for every number of episodes and of held-out
ones. `PickInv`: with `k` episodes picked they are `0, s, ..., (k-1)s` and `idx` is `ks`;
there is room for those to come because `n * (total \div n) <= total` (`StepFits`,
`RoomForPick`). So the clamp and the test for repeats never act, which is also why the
loop ends. Theorems: `EveryNthHolds`, `SplitIsPartitionHolds`.

**Materialized dataset** (`TrainOnlyDatasetProofs`), for every source dataset and every
training set of it. `IsCopy` and `Materialized` say what the copy's tables hold, and
`CopyReadsExactly` what each reader gets by them: by position exactly the training
frames, by value those of the episodes the source keeps in its first data file, in
order, and an exception for each other episode. The rows of
all files are sorted by (episode, frame), so a renumbered index counts the frames before
it, and the range a row gives for its episode, between two such counts, is where its
frames are. Nothing of this is unfolded from a recursion: where a sequence is concerned
the step is from the least counterexample (`WFMin`, from well-foundedness of `<` on the
naturals), which needs no induction theorem.

**Gate** (in `ParityGateProofs`), for every list of sources, settings and errors, any
number of runs. What a run finds is arbitrary, so `GateInv` says stage by stage what
*this* run has established, in terms of its own number and split: `RunInv` (source,
split, copy), `PolicyInv` (the policy it evaluates is the one it trained, on frames of
its training set), `ResultInv` (what each evaluation measured). The two evaluations
choose frames by different expressions; that these agree (`ChoicesAgree`) rests on
`(i * n) \div n = i` (`DivExact`) where an episode is shorter than the setting, so the
means the verdict compares are over the same frames and compare as the errors do
(`MeansAreSums`). An episode has one frame or more (`GateAssumption`): of none LeRobot records no row. Theorems:
`ReadsAreExactHolds`, `HoldoutUnseenHolds`, `ReportOfOneRunHolds`,
`VerdictIsFairHolds`, `GateSplits`.

Assumptions are the named `ASSUME`s of the modules; TLC evaluates each. Every safety
property of a passing run is proved, and so are the three refinements. Model-checked
only are the liveness properties - `CallReturns`, `Recovers` (link), `EveryWaitEnds`
(rig), `ClosingEnds` (viewer), `SettlesUnlessHung`, `ClusterRecovers` (cluster),
`GateEnds` (gate) - because fairness and `ENABLED` are beyond the prover.

## Not modelled

Tensor arithmetic (`lib/smol_vla/*`), video and parquet decoding, the wire
encodings byte by byte, benchmarks, scripts, vendored code. Two trainers at work
on one output path at the same time. A Python parent that is killed while its
subprocess goes on, the gate's `mix` subprocess included: its models end with it.
Videos, which are copied unchanged and only reached by way of an episode's row. The
float arithmetic of the verdict beyond exact fractions. In the rig, an error that the
client returns at once and a timeout are one step of the adapter, and a payload that
`to_observation/2` does not accept, which kills the adapter, does not occur. Arguments
in `extra_args` that contradict the mode (`job.py:223`, `252`): `PyFineTuneJob` takes
them to be about something else.

## Plan

Done, in this order: control loop; link; sim rig; viewer; trainers; episode split and
parity gate; cluster.

1. `DemoLoop`: `ClusterLoop` composed with `SimRig`'s seams, so that staleness can be
   stated in steps of the arm.
2. Pure parts of the model: attention masks and prefix cache of `expert.ex`, against
   the mask's definition; key remapping of `weights.ex` as a bijection.
3. Abstract specifications of the trainers (a run is a list of saved steps, of which a
   crash keeps all but the last) and of the gate, with the refinements.
4. Proofs: the safety half of the liveness properties, i.e. that a waiting party is
   always in a state from which some named action releases it.
