------------------------- MODULE ControlLoopProofs -------------------------
(***************************************************************************)
(* Proofs about the control loop, for every threshold, chunk length,       *)
(* initial queue, set of tasks and set of faults; then about its whole     *)
(* runs: nothing is lost, repeated or overtaken, observations are stale by *)
(* less than the threshold, and the loop implements the abstract stream;   *)
(* and last about its distributed call, for every kind of outage.          *)
(***************************************************************************)
EXTENDS ControlLoopHistory, ClusterLoop, SequenceTheorems, TLAPS

LEMMA BoundedSeqType ==
  ASSUME NEW S, NEW n \in Nat, NEW s \in SeqOf(S, n)
  PROVE  s \in Seq(S) /\ Len(s) \in 0..n
  <1>1. PICK m \in 0..n : s \in [1..m -> S]
    BY DEF SeqOf
  <1>2. s \in Seq(S)
    BY <1>1, SeqDef
  <1>3. Len(s) = m
    BY <1>1, <1>2
  <1> QED BY <1>2, <1>3

\* A mailbox of one message: what it waits for and what is left once handled.
LEMMA OneMessage ==
  ASSUME NEW S, NEW m \in Seq(S), m # <<>>, Len(m) <= 1
  PROVE  /\ Len(m) = 1
         /\ m[1] = Head(m)
         /\ Head(m) \in S
         /\ Tail(m) = <<>>
  <1>0. Len(m) \in Nat \ {0}
    BY EmptySeq
  <1>1. Len(m) = 1
    BY <1>0
  <1>2. Tail(m) \in Seq(S) /\ Len(Tail(m)) = 0
    BY <1>1, HeadTailProperties
  <1>3. Tail(m) = <<>>
    BY <1>2, EmptySeq
  <1>4. Head(m) \in S
    BY HeadTailProperties
  <1>5. m[1] = Head(m)
    OBVIOUS
  <1> QED BY <1>1, <1>3, <1>4, <1>5

LEMMA ResultFields ==
  ASSUME NEW r \in Result
  PROVE  /\ r.call \in Calls
         /\ r.chunk \in Seq(Actions)
         /\ Len(r.chunk) \in 0..ChunkMax
  <1>1. CASE r \in [call : Calls, kind : {"ok"}, chunk : Chunk]
    <2>1. r.call \in Calls /\ r.chunk \in SeqOf(Actions, ChunkMax)
      BY <1>1 DEF Chunk
    <2> QED BY <2>1, BoundsAssumption, BoundedSeqType
  <1>2. CASE r \in [call : Calls, kind : {"error", "malformed"}, chunk : {<<>>}]
    <2>1. r.call \in Calls /\ r.chunk = <<>>
      BY <1>2
    <2>2. <<>> \in Seq(Actions) /\ Len(<<>>) = 0
      BY EmptySeq
    <2> QED BY <2>1, <2>2, BoundsAssumption
  <1> QED BY <1>1, <1>2 DEF Result

LEMMA InitInv == Init => LoopInv
  <1> SUFFICES ASSUME Init PROVE LoopInv
    OBVIOUS
  <1>1. queue \in Seq(Actions) /\ Len(queue) \in 0..MaxInitial
    BY BoundsAssumption, BoundedSeqType DEF Init
  <1>2. Outstanding = {}
    BY DEF Init, Outstanding
  <1>3. TypeOK
    BY <1>1, EmptySeq DEF Init, TypeOK
  <1>4. /\ SingleFlight /\ FlagTracksCall /\ WaitingLeavesRoom
        /\ KilledWasTheOne /\ DeadHoldsNothing
    BY <1>2, EmptySeq
    DEF Init, SingleFlight, FlagTracksCall, WaitingLeavesRoom, KilledWasTheOne,
        DeadHoldsNothing
  <1>5. DepthBound
    BY <1>1, BoundsAssumption DEF DepthBound, Depth
  <1> QED
    BY <1>3, <1>4, <1>5 DEF LoopInv

LEMMA NoCalls ==
  ASSUME NEW m, m = <<>>
  PROVE  {m[i].call : i \in 1..Len(m)} = {}
  BY EmptySeq

\* What Outstanding is for a mailbox of no message and of one.
LEMMA OutstandingEmptyMailbox ==
  ASSUME mailbox = <<>>
  PROVE  Outstanding = tasks
  BY EmptySeq DEF Outstanding

LEMMA OutstandingOneMessage ==
  ASSUME TypeOK, mailbox # <<>>, Len(mailbox) <= 1
  PROVE  Outstanding = tasks \cup {Head(mailbox).call}
  <1>1. Len(mailbox) = 1 /\ mailbox[1] = Head(mailbox)
    BY OneMessage DEF TypeOK
  <1> QED BY <1>1 DEF Outstanding

LEMMA OutstandingAreCalls ==
  ASSUME TypeOK PROVE Outstanding \subseteq Calls
  <1>1. ASSUME NEW i \in 1..Len(mailbox) PROVE mailbox[i].call \in Calls
    <2>1. mailbox[i] \in Result
      BY ElementOfSeq DEF TypeOK
    <2> QED BY <2>1, ResultFields
  <1> QED BY <1>1 DEF TypeOK, Outstanding

\* Topping up keeps a single call outstanding and the flag in step with it.
LEMMA MaybeTriggerKeeps ==
  ASSUME LoopInv, up, MaybeTrigger, UNCHANGED <<up, mailbox, orphaned>>
  PROVE  /\ tasks' \subseteq Calls
         /\ inFlight' \in BOOLEAN
         /\ SingleFlight'
         /\ FlagTracksCall' /\ KilledWasTheOne'
         /\ Outstanding' # {} => Outstanding # {} \/ Depth(queue) < LowWater
  <1> USE DEF LoopInv
  <1>1. CASE Triggers /\ StartTask /\ inFlight' = TRUE
    <2>1. Outstanding = {} /\ ~orphaned
      BY <1>1 DEF FlagTracksCall, Triggers
    <2>2. mailbox = <<>> /\ tasks = {}
      <3>1. tasks = {}
        BY <2>1 DEF Outstanding
      <3>2. ASSUME mailbox # <<>> PROVE FALSE
        BY <2>1, <3>2, OutstandingOneMessage DEF SingleFlight
      <3> QED BY <3>1, <3>2
    <2>3. PICK c \in Calls : tasks' = {c}
      BY <1>1, <2>1, <2>2 DEF StartTask
    <2>4. mailbox' = <<>>
      BY <2>2
    <2>5. Outstanding' = {c}
      BY <2>3, <2>4, EmptySeq DEF Outstanding
    <2>6. SingleFlight'
      BY <2>4, <2>5, EmptySeq DEF SingleFlight
    <2>7. FlagTracksCall' /\ KilledWasTheOne'
      BY <1>1, <2>1, <2>5 DEF FlagTracksCall, KilledWasTheOne
    <2> QED BY <1>1, <2>3, <2>6, <2>7 DEF Triggers
  <1>2. CASE ~Triggers /\ UNCHANGED <<tasks, inFlight>>
    <2>1. Outstanding' = Outstanding
      BY <1>2 DEF Outstanding
    <2> QED
      BY <1>2, <2>1 DEF TypeOK, SingleFlight, FlagTracksCall, KilledWasTheOne
  <1> QED BY <1>1, <1>2 DEF MaybeTrigger

\* A crash leaves a dead loop with nothing in it, whatever tasks survive.
LEMMA CrashKeeps ==
  ASSUME LoopInv, Crash, tasks' \subseteq Calls
  PROVE  LoopInv'
  <1>1. TypeOK'
    <2>1. orphaned' \in BOOLEAN
      BY Zenon DEF LoopInv, Crash, TypeOK
    <2>2. inFlight' \in BOOLEAN /\ up' \in BOOLEAN
      BY DEF Crash
    <2>3. queue' \in Seq(Actions) /\ mailbox' \in Seq(Result)
      BY EmptySeq DEF Crash, New
    <2> QED BY <2>1, <2>2, <2>3 DEF TypeOK
  <1>2. DepthBound'
    BY EmptySeq, BoundsAssumption DEF Crash, New, DepthBound, Depth
  <1> QED
    BY <1>1, <1>2
    DEF LoopInv, Crash, New, SingleFlight, FlagTracksCall, WaitingLeavesRoom,
        KilledWasTheOne, DeadHoldsNothing

LEMMA TickSendsKeeps ==
  ASSUME LoopInv, TickSends PROVE LoopInv'
  <1> USE DEF LoopInv
  <1>1. /\ tasks' \subseteq Calls
        /\ inFlight' \in BOOLEAN
        /\ SingleFlight'
        /\ FlagTracksCall' /\ KilledWasTheOne'
        /\ Outstanding' # {} => Outstanding # {} \/ Depth(queue) < LowWater
    BY MaybeTriggerKeeps DEF TickSends
  <1>2. queue # <<>>
    BY EmptySeq DEF TickSends, Depth
  <1>3. /\ queue' \in Seq(Actions)
        /\ Len(queue') = Len(queue) - 1
        /\ Len(queue) \in Nat
    BY <1>2, HeadTailProperties, LenProperties DEF TickSends, TypeOK, Rest
  <1>4. TypeOK'
    BY <1>1, <1>3 DEF TickSends, TypeOK
  <1>5. DepthBound'
    BY <1>3, BoundsAssumption, LowWaterAssumption DEF DepthBound, Depth, LeftByTrigger
  <1>6. WaitingLeavesRoom'
    BY <1>1, <1>3, LowWaterAssumption
    DEF WaitingLeavesRoom, Depth, LeftByTrigger, TickSends
  <1>7. DeadHoldsNothing'
    BY DEF DeadHoldsNothing, TickSends
  <1> QED BY <1>1, <1>4, <1>5, <1>6, <1>7

LEMMA TickExhaustedKeeps ==
  ASSUME LoopInv, TickExhausted PROVE LoopInv'
  <1> USE DEF LoopInv
  <1>1. /\ tasks' \subseteq Calls
        /\ inFlight' \in BOOLEAN
        /\ SingleFlight'
        /\ FlagTracksCall' /\ KilledWasTheOne'
    BY MaybeTriggerKeeps DEF TickExhausted
  <1>2. TypeOK'
    BY <1>1 DEF TickExhausted, TypeOK
  <1>3. DepthBound'
    BY DEF TickExhausted, DepthBound, Depth
  <1>4. WaitingLeavesRoom'
    BY LowWaterAssumption
    DEF WaitingLeavesRoom, Depth, LeftByTrigger, TickExhausted
  <1>5. DeadHoldsNothing'
    BY DEF DeadHoldsNothing, TickExhausted
  <1> QED BY <1>1, <1>2, <1>3, <1>4, <1>5

LEMMA TickFailsKeeps ==
  ASSUME LoopInv, TickObserveFails \/ TickSinkFails \/ TickTelemetryFails PROVE LoopInv'
  <1>1. tasks' \subseteq Calls
    BY DEF TickObserveFails, TickSinkFails, TickTelemetryFails, StartTask, LoopInv, TypeOK
  <1> QED BY <1>1, CrashKeeps DEF TickObserveFails, TickSinkFails, TickTelemetryFails

\* A result on its way to a live loop: the call that was running is now the
\* call whose message waits, and it is still the only one.
LEMMA TaskReturnsMoves ==
  ASSUME LoopInv, up, NEW c \in Calls, NEW r \in Result, TaskReturns(c, r)
  PROVE  /\ mailbox' = <<r>> /\ tasks' = {}
         /\ Outstanding = {c} /\ Outstanding' = {c}
  <1> USE DEF LoopInv
  <1>1. mailbox = <<>>
    BY DEF SingleFlight, TaskReturns
  <1>2. Outstanding = tasks
    BY <1>1, OutstandingEmptyMailbox
  <1>3. Outstanding = {c} /\ tasks' = {}
    BY <1>2 DEF SingleFlight, TaskReturns
  <1>4. mailbox' = <<r>>
    BY <1>1 DEF TaskReturns, Send
  <1>5. Outstanding' = {c}
    BY <1>3, <1>4 DEF Outstanding, TaskReturns
  <1> QED BY <1>3, <1>4, <1>5

LEMMA TaskReturnsKeeps ==
  ASSUME LoopInv, NEW c \in Calls, NEW r \in Result, TaskReturns(c, r)
  PROVE  LoopInv'
  <1> USE DEF LoopInv
  <1>1. CASE up
    <2>1. /\ mailbox' = <<r>> /\ tasks' = {}
          /\ Outstanding = {c} /\ Outstanding' = {c}
      BY <1>1, TaskReturnsMoves
    <2>2. TypeOK'
      BY <2>1 DEF TypeOK, TaskReturns
    <2>3. SingleFlight'
      BY <2>1 DEF SingleFlight
    <2>4. /\ FlagTracksCall' /\ KilledWasTheOne' /\ WaitingLeavesRoom' /\ DepthBound'
          /\ DeadHoldsNothing'
      BY <1>1, <2>1
      DEF FlagTracksCall, KilledWasTheOne, WaitingLeavesRoom, DepthBound,
          DeadHoldsNothing, Depth, TaskReturns
    <2> QED BY <2>2, <2>3, <2>4
  <1>2. CASE ~up
    BY <1>2
    DEF TaskReturns, Send, TypeOK, SingleFlight, FlagTracksCall, DepthBound,
        Depth, WaitingLeavesRoom, KilledWasTheOne, DeadHoldsNothing
  <1> QED BY <1>1, <1>2

LEMMA TaskKilledKeeps ==
  ASSUME LoopInv, NEW c \in Calls, TaskKilled(c) PROVE LoopInv'
  <1> USE DEF LoopInv
  <1>1. Outstanding' \subseteq Outstanding
    BY DEF Outstanding, TaskKilled
  <1>2. TypeOK' /\ DepthBound' /\ DeadHoldsNothing'
    BY DEF TypeOK, DepthBound, Depth, DeadHoldsNothing, TaskKilled
  <1>3. up => Outstanding' = {}
    <2>1. ASSUME up PROVE mailbox = <<>> /\ tasks' = {}
      BY <2>1 DEF SingleFlight, Outstanding, TaskKilled
    <2>2. ASSUME up PROVE mailbox' = <<>>
      BY <2>1, <2>2 DEF TaskKilled
    <2> QED BY <2>1, <2>2, EmptySeq DEF Outstanding
  <1>4. SingleFlight' /\ WaitingLeavesRoom'
    BY <1>1 DEF SingleFlight, WaitingLeavesRoom, Depth, TaskKilled
  <1>5. FlagTracksCall' /\ KilledWasTheOne'
    <2>1. up => inFlight
      BY DEF FlagTracksCall, Outstanding, TaskKilled
    <2> QED BY <1>3, <2>1 DEF FlagTracksCall, KilledWasTheOne, TaskKilled
  <1> QED BY <1>2, <1>4, <1>5

\* A message to handle is the only one, and no task runs besides it.
LEMMA AloneInMailbox ==
  ASSUME LoopInv, mailbox # <<>>
  PROVE  /\ up /\ tasks = {} /\ Tail(mailbox) = <<>>
         /\ Head(mailbox) \in Result /\ Outstanding # {}
  <1>1. up
    BY DEF LoopInv, DeadHoldsNothing
  <1>2. tasks = {} /\ Len(mailbox) <= 1
    BY <1>1 DEF LoopInv, SingleFlight
  <1>3. mailbox \in Seq(Result)
    BY DEF LoopInv, TypeOK
  <1>4. Tail(mailbox) = <<>> /\ Head(mailbox) \in Result
    BY <1>2, <1>3, OneMessage
  <1>5. Outstanding # {}
    BY <1>2, OutstandingOneMessage DEF LoopInv
  <1> QED BY <1>1, <1>2, <1>4, <1>5

\* Once handled, nothing is outstanding any more.
LEMMA HandledLeavesNone ==
  ASSUME LoopInv, mailbox # <<>>, mailbox' = Tail(mailbox), tasks' = tasks
  PROVE  mailbox' = <<>> /\ tasks' = {} /\ Outstanding' = {}
  <1>1. mailbox' = <<>> /\ tasks' = {}
    BY AloneInMailbox
  <1>2. {mailbox'[i].call : i \in 1..Len(mailbox')} = {}
    BY <1>1, NoCalls, Zenon
  <1> QED BY <1>1, <1>2 DEF Outstanding

LEMMA HandleSettles ==
  ASSUME LoopInv, mailbox # <<>>, inFlight' = FALSE, mailbox' = Tail(mailbox),
         UNCHANGED <<up, tasks, orphaned>>, queue' \in Seq(Actions), DepthBound'
  PROVE  LoopInv'
  <1>1. up /\ ~orphaned
    BY AloneInMailbox DEF LoopInv, KilledWasTheOne
  <1>2. mailbox' = <<>> /\ tasks' = {} /\ Outstanding' = {}
    BY HandledLeavesNone
  <1>3. TypeOK'
    <2>1. orphaned' \in BOOLEAN
      BY Zenon DEF LoopInv, TypeOK
    <2>2. inFlight' \in BOOLEAN /\ up' \in BOOLEAN
      BY DEF LoopInv, TypeOK
    <2>3. mailbox' \in Seq(Result)
      BY <1>2, EmptySeq
    <2> QED BY <1>2, <2>1, <2>2, <2>3 DEF TypeOK
  <1>4. SingleFlight'
    <2>1. Len(<<>>) = 0
      BY EmptySeq
    <2>2. Len(mailbox') <= 1
      BY <1>2, <2>1
    <2>3. mailbox' = <<>> /\ \A c, d \in Outstanding' : c = d
      BY <1>2
    <2> QED BY <2>2, <2>3 DEF SingleFlight
  <1>5. FlagTracksCall' /\ KilledWasTheOne' /\ WaitingLeavesRoom' /\ DeadHoldsNothing'
    BY <1>1, <1>2 DEF FlagTracksCall, KilledWasTheOne, WaitingLeavesRoom, DeadHoldsNothing
  <1> QED BY <1>3, <1>4, <1>5 DEF LoopInv

LEMMA HandleKeeps ==
  ASSUME LoopInv, HandleResult PROVE LoopInv'
  <1>1. CASE HandleChunk
    <2>1. /\ Head(mailbox).chunk \in Seq(Actions)
          /\ Len(Head(mailbox).chunk) \in 0..ChunkMax
      BY <1>1, AloneInMailbox, ResultFields DEF HandleChunk
    <2>2. /\ queue' \in Seq(Actions)
          /\ Len(queue') = Len(queue) + Len(Head(mailbox).chunk)
      BY <1>1, <2>1, ConcatProperties DEF HandleChunk, Enqueue, LoopInv, TypeOK
    <2>3. Len(queue) \in Nat /\ Len(queue) <= LeftByTrigger
      BY <1>1, AloneInMailbox, LenProperties
      DEF HandleChunk, LoopInv, TypeOK, WaitingLeavesRoom, Depth
    <2>4. DepthBound'
      BY <2>1, <2>2, <2>3, BoundsAssumption, LowWaterAssumption
      DEF DepthBound, Depth, LeftByTrigger
    <2> QED BY <1>1, <2>2, <2>4, HandleSettles DEF HandleChunk
  <1>2. CASE HandleError
    <2>1. queue' \in Seq(Actions) /\ DepthBound'
      BY <1>2 DEF HandleError, LoopInv, TypeOK, DepthBound, Depth
    <2> QED BY <1>2, <2>1, HandleSettles DEF HandleError
  <1>3. CASE HandleMalformed
    BY <1>3, CrashKeeps DEF HandleMalformed, LoopInv, TypeOK
  <1> QED BY <1>1, <1>2, <1>3 DEF HandleResult

LEMMA StepInv == LoopInv /\ [Next]_vars => LoopInv'
  <1> SUFFICES ASSUME LoopInv, [Next]_vars PROVE LoopInv'
    OBVIOUS
  <1>1. CASE TickSends
    BY <1>1, TickSendsKeeps
  <1>2. CASE TickExhausted
    BY <1>2, TickExhaustedKeeps
  <1>3. CASE TickObserveFails \/ TickSinkFails \/ TickTelemetryFails
    BY <1>3, TickFailsKeeps
  <1>4. CASE HandleChunk \/ HandleError \/ HandleMalformed
    BY <1>4, HandleKeeps DEF HandleResult
  <1>5. ASSUME NEW c \in Calls, NEW r \in Result, TaskReturns(c, r)
        PROVE  LoopInv'
    BY <1>5, TaskReturnsKeeps
  <1>6. ASSUME NEW c \in Calls, TaskKilled(c)
        PROVE  LoopInv'
    BY <1>6, TaskKilledKeeps
  <1>7. CASE UNCHANGED vars
    <2>1. /\ UNCHANGED <<up, queue, inFlight, tasks, mailbox, orphaned>>
          /\ Outstanding' = Outstanding
      BY <1>7 DEF vars, Outstanding
    <2>2. TypeOK' /\ DepthBound' /\ DeadHoldsNothing'
      BY <2>1 DEF LoopInv, TypeOK, DepthBound, Depth, DeadHoldsNothing
    <2>3. SingleFlight' /\ FlagTracksCall' /\ WaitingLeavesRoom' /\ KilledWasTheOne'
      BY <2>1
      DEF LoopInv, SingleFlight, FlagTracksCall, WaitingLeavesRoom, KilledWasTheOne, Depth
    <2> QED BY <2>2, <2>3 DEF LoopInv
  <1> QED
    BY <1>1, <1>2, <1>3, <1>4, <1>5, <1>6, <1>7 DEF Next

\* The inductive invariant holds in every state of every loop.
THEOREM LoopInvariant == Spec => []LoopInv
  BY InitInv, StepInv, PTL DEF Spec

\* Every variable keeps its type.
THEOREM TypeCorrect == Spec => []TypeOK
  <1>1. LoopInv => TypeOK
    BY DEF LoopInv
  <1> QED BY <1>1, LoopInvariant, PTL

\* There is never more than one infer_action call to wait for.
THEOREM SingleFlightHolds == Spec => []SingleFlight
  <1>1. LoopInv => SingleFlight
    BY DEF LoopInv
  <1> QED BY <1>1, LoopInvariant, PTL

\* The in-flight flag says whether a call is outstanding, and stays up for good
\* once a task was killed.
THEOREM FlagTracksCallHolds == Spec => []FlagTracksCall
  <1>1. LoopInv => FlagTracksCall
    BY DEF LoopInv
  <1> QED BY <1>1, LoopInvariant, PTL

\* The queue's length is bounded for every order of ticks and results.
THEOREM DepthBoundHolds == Spec => []DepthBound
  <1>1. LoopInv => DepthBound
    BY DEF LoopInv
  <1> QED BY <1>1, LoopInvariant, PTL

----------------------------------------------------------------------------
(* Whole runs.                                                             *)

\* Forgetting the auxiliary variables leaves a behaviour of ControlLoop.
LEMMA HistoryRefinesLoop == HSpec => Spec
  <1>1. HInit => Init
    BY DEF HInit
  <1>2. [HNext]_hvars => [Next]_vars
    BY DEF HNext, hvars, Next, vars, HTickSends, HTickExhausted,
        HTickObserveFails, HTickSinkFails, HTickTelemetryFails, HHandleChunk,
        HHandleOther, HTaskReturns, HTaskKilled
  <1> QED BY <1>1, <1>2, PTL DEF HSpec, Spec

\* A prefix is what concatenation extends.
LEMMA PrefixOfConcat ==
  ASSUME NEW S, NEW s \in Seq(S), NEW t \in Seq(S), NEW u \in Seq(S),
         IsPrefix(s, t)
  PROVE  IsPrefix(s, t \o u)
  <1>1. Len(s) \in Nat /\ Len(t) \in Nat /\ Len(s) <= Len(t)
    BY LenProperties DEF IsPrefix
  <1>2. Len(s) <= Len(t \o u)
    BY <1>1, ConcatProperties, LenProperties
  <1>3. SubSeq(t \o u, 1, Len(s)) = SubSeq(t, 1, Len(s))
    <2>1. CASE Len(s) = 0
      BY <2>1, SubSeqEmpty
    <2>2. CASE Len(s) # 0
      BY <1>1, <2>2, SubSeqOfConcat1
    <2> QED BY <2>1, <2>2
  <1> QED BY <1>2, <1>3 DEF IsPrefix

LEMMA SelfPrefix ==
  ASSUME NEW S, NEW s \in Seq(S), NEW t \in Seq(S)
  PROVE  IsPrefix(s, s) /\ IsPrefix(s, s \o t) /\ IsPrefix(<<>>, s)
  <1>1. IsPrefix(s, s)
    BY LenProperties DEF IsPrefix
  <1>2. IsPrefix(<<>>, s)
    BY SubSeqEmpty, EmptySeq, LenProperties DEF IsPrefix
  <1> QED BY <1>1, <1>2, PrefixOfConcat

LEMMA HistoryInitInv == HInit => HistoryInv
  <1> SUFFICES ASSUME HInit PROVE HistoryInv
    OBVIOUS
  <1>1. LoopInv
    BY InitInv DEF HInit
  <1>2. queue \in Seq(Actions) /\ Len(queue) \in Nat
    BY <1>1, LenProperties DEF LoopInv, TypeOK
  <1>3. due \in Seq(Nat) /\ Len(due) = Len(queue)
    BY <1>2, IsASeq DEF HInit
  <1>4. HTypeOK
    BY <1>2, <1>3, EmptySeq DEF HInit, HTypeOK
  <1>5. NothingLostOrRepeated /\ SentIsPrefix
    BY <1>2, EmptySeq, ConcatEmptySeq, SelfPrefix
    DEF HInit, NothingLostOrRepeated, SentIsPrefix
  <1>6. BoundedStaleness
    BY <1>2, LowWaterAssumption DEF HInit, BoundedStaleness
  <1>7. WaitingLagBounded
    BY OutstandingEmptyMailbox DEF HInit, Init, WaitingLagBounded
  <1> QED BY <1>4, <1>5, <1>6, <1>7 DEF HistoryInv

\* Moving the head of a queue to the end of what came before it changes
\* nothing in their concatenation.
LEMMA MoveHead ==
  ASSUME NEW S, NEW s \in Seq(S), NEW q \in Seq(S), q # <<>>
  PROVE  /\ Append(s, Head(q)) \in Seq(S)
         /\ Append(s, Head(q)) \o Tail(q) = s \o q
         /\ IsPrefix(Append(s, Head(q)), s \o q)
  <1>1. Head(q) \in S /\ Tail(q) \in Seq(S)
    BY HeadTailProperties
  <1>2. Append(s, Head(q)) \in Seq(S)
    BY <1>1, AppendProperties
  <1>3. Append(s, Head(q)) \o Tail(q) = s \o q
    <2>1. Append(s, Head(q)) = s \o <<Head(q)>>
      BY <1>1, AppendIsConcat
    <2>2. <<Head(q)>> \in Seq(S)
      BY <1>1
    <2>3. Append(s, Head(q)) \o Tail(q) = s \o (<<Head(q)>> \o Tail(q))
      BY <1>1, <2>1, <2>2, ConcatAssociative
    <2>4. <<Head(q)>> \o Tail(q) = q
      BY <1>1
    <2> QED BY <2>3, <2>4
  <1>4. IsPrefix(Append(s, Head(q)), s \o q)
    BY <1>1, <1>2, <1>3, SelfPrefix
  <1> QED BY <1>2, <1>3, <1>4

\* What every tick that tops up leaves of the waiting calls' lag.
LEMMA TopUpLag ==
  ASSUME LoopInv, HistoryInv, up, MaybeTrigger, NoteAsked,
         UNCHANGED <<up, mailbox, orphaned, produced>>
  PROVE  /\ asked' \in [Calls -> Nat]
         /\ WaitingLagBounded'
  <1>1. /\ sent \in Seq(Actions) /\ queue \in Seq(Actions)
        /\ Len(sent) \in Nat /\ Len(queue) \in Nat
        /\ asked \in [Calls -> Nat] /\ tasks \subseteq Calls
    BY LenProperties DEF LoopInv, TypeOK, HistoryInv, HTypeOK
  <1>2. Len(produced) = Len(sent) + Len(queue)
    BY <1>1, ConcatProperties DEF HistoryInv, NothingLostOrRepeated
  <1>3. asked' \in [Calls -> Nat]
    BY <1>1 DEF NoteAsked
  <1>4. tasks' \subseteq Calls
    BY MaybeTriggerKeeps
  <1>5. ASSUME NEW c \in Outstanding'
        PROVE  Len(produced') - asked'[c] \in 0..(LowWater - 1)
    <2>1. CASE c \in tasks' \ tasks
      <3>1. Triggers
        BY <2>1 DEF MaybeTrigger
      <3>2. asked'[c] = Len(sent)
        BY <1>4, <2>1 DEF NoteAsked
      <3> QED BY <1>1, <1>2, <3>1, <3>2, LowWaterAssumption DEF Triggers, Depth
    <2>2. CASE c \notin tasks' \ tasks
      <3>1. c \in Outstanding /\ c \in Calls
        <4>1. c \in Outstanding
          BY <2>2, <1>5 DEF Outstanding
        <4>2. Outstanding \subseteq Calls
          BY OutstandingAreCalls DEF LoopInv
        <4> QED BY <4>1, <4>2
      <3>2. asked'[c] = asked[c]
        BY <2>2, <3>1 DEF NoteAsked
      <3> QED BY <3>1, <3>2 DEF HistoryInv, WaitingLagBounded
    <2> QED BY <2>1, <2>2
  <1> QED BY <1>3, <1>5 DEF WaitingLagBounded

LEMMA HTickSendsKeeps ==
  ASSUME LoopInv, HistoryInv, HTickSends PROVE HistoryInv'
  <1> USE DEF HistoryInv
  <1>1. /\ sent \in Seq(Actions) /\ queue \in Seq(Actions) /\ queue # <<>>
        /\ up /\ produced = sent \o queue
    BY EmptySeq
    DEF LoopInv, TypeOK, HTypeOK, HTickSends, TickSends, Depth, NothingLostOrRepeated
  <1>2. sent' = Append(sent, Head(queue)) /\ queue' = Tail(queue)
    BY DEF HTickSends, TickSends, NoteSent, NextAction, Rest
  <1>3. asked' \in [Calls -> Nat] /\ WaitingLagBounded'
    BY <1>1, TopUpLag DEF HTickSends, TickSends
  <1>4. HTypeOK'
    BY <1>1, <1>2, <1>3, MoveHead DEF HTypeOK, HTickSends
  <1>5. NothingLostOrRepeated' /\ SentIsPrefix'
    BY <1>1, <1>2, MoveHead DEF NothingLostOrRepeated, SentIsPrefix, HTickSends
  <1>6. BoundedStaleness'
    BY DEF BoundedStaleness, HTickSends
  <1> QED BY <1>3, <1>4, <1>5, <1>6

LEMMA HTickExhaustedKeeps ==
  ASSUME LoopInv, HistoryInv, HTickExhausted PROVE HistoryInv'
  <1> USE DEF HistoryInv
  <1>1. asked' \in [Calls -> Nat] /\ WaitingLagBounded'
    BY TopUpLag DEF HTickExhausted, TickExhausted
  <1>2. HTypeOK' /\ NothingLostOrRepeated' /\ SentIsPrefix' /\ BoundedStaleness'
    BY <1>1
    DEF HTypeOK, NothingLostOrRepeated, SentIsPrefix, BoundedStaleness,
        HTickExhausted, TickExhausted
  <1> QED BY <1>1, <1>2

\* The loop dies in the step; only what was already sent can matter.
LEMMA HCrashKeeps ==
  ASSUME LoopInv, HistoryInv,
         HTickObserveFails \/ HTickSinkFails \/ HTickTelemetryFails
           \/ (HandleMalformed /\ UNCHANGED <<sent, produced, asked, due>>)
  PROVE  HistoryInv'
  <1> USE DEF HistoryInv
  <1>1. ~up' /\ UNCHANGED <<produced, due>>
    BY DEF HTickObserveFails, HTickSinkFails, HTickTelemetryFails, TickObserveFails,
           TickSinkFails, TickTelemetryFails, HandleMalformed, Crash
  <1>2. asked' \in [Calls -> Nat]
    <2>1. sent \in Seq(Actions)
      BY DEF HTypeOK
    <2>2. Len(sent) \in Nat
      BY <2>1, LenProperties
    <2> QED
      BY <2>2 DEF HTypeOK, HTickObserveFails, HTickSinkFails, HTickTelemetryFails, NoteAsked
  <1>3. sent' \in Seq(Actions) /\ SentIsPrefix'
    <2>1. CASE sent' = sent
      BY <1>1, <2>1 DEF HTypeOK, SentIsPrefix
    <2>2. CASE HTickSinkFails
      <3>1. /\ sent \in Seq(Actions) /\ queue \in Seq(Actions)
            /\ queue # <<>> /\ produced = sent \o queue
        BY <2>2, EmptySeq
        DEF LoopInv, TypeOK, HTypeOK, HTickSinkFails, TickSinkFails, Depth,
            NothingLostOrRepeated
      <3>2. sent' = Append(sent, Head(queue))
        BY <2>2 DEF HTickSinkFails, NoteSent, NextAction
      <3> QED BY <1>1, <3>1, <3>2, MoveHead DEF SentIsPrefix
    <2> QED BY <2>1, <2>2 DEF HTickObserveFails, HTickTelemetryFails
  <1>4. HTypeOK' /\ BoundedStaleness'
    BY <1>1, <1>2, <1>3 DEF HTypeOK, BoundedStaleness
  <1> QED BY <1>1, <1>3, <1>4 DEF NothingLostOrRepeated, WaitingLagBounded

\* Staleness carries over to a chunk appended a bounded lag after its
\* observation was taken.
LEMMA StalenessExtends ==
  ASSUME NEW d \in Seq(Nat), NEW a \in Nat, NEW ideal \in Seq(Nat),
         \A i \in 1..Len(ideal) : ideal[i] = a + i,
         Len(d) - a \in 0..(LowWater - 1),
         \A k \in 1..Len(d) : k - d[k] \in 0..(LowWater - 1)
  PROVE  \A k \in 1..Len(d \o ideal) : k - (d \o ideal)[k] \in 0..(LowWater - 1)
  <1> TAKE k \in 1..Len(d \o ideal)
  <1>1. Len(d) \in Nat /\ Len(ideal) \in Nat
    BY LenProperties
  <1>2. /\ Len(d \o ideal) = Len(d) + Len(ideal)
        /\ (d \o ideal)[k] = IF k <= Len(d) THEN d[k] ELSE ideal[k - Len(d)]
    BY ConcatProperties
  <1>3. CASE k <= Len(d)
    BY <1>1, <1>2, <1>3
  <1>4. CASE ~(k <= Len(d))
    <2>1. k - Len(d) \in 1..Len(ideal)
      BY <1>1, <1>2, <1>4
    <2>2. (d \o ideal)[k] = a + (k - Len(d))
      BY <1>2, <1>4, <2>1
    <2> QED BY <1>1, <2>1, <2>2, LowWaterAssumption
  <1> QED BY <1>3, <1>4

LEMMA HHandleChunkKeeps ==
  ASSUME LoopInv, HistoryInv, HHandleChunk PROVE HistoryInv'
  <1> DEFINE r == Head(mailbox)
             ideal == [i \in 1..Len(r.chunk) |-> asked[r.call] + i]
  <1>1. /\ up /\ up' = up /\ r \in Result
        /\ Outstanding = {r.call} /\ Outstanding' = {}
    <2>1. /\ mailbox # <<>> /\ mailbox' = Tail(mailbox)
          /\ tasks' = tasks /\ up' = up
      BY DEF HHandleChunk, HandleChunk
    <2>2. up /\ tasks = {} /\ r \in Result
      BY <2>1, AloneInMailbox
    <2>3. Outstanding = tasks \cup {r.call}
      BY <2>1, <2>2, OutstandingOneMessage DEF LoopInv, SingleFlight
    <2> QED BY <2>1, <2>2, <2>3, HandledLeavesNone
  <1>2. r.call \in Calls /\ r.chunk \in Seq(Actions) /\ Len(r.chunk) \in Nat
    BY <1>1, ResultFields
  <1>3. /\ produced' = produced \o r.chunk /\ due' = due \o ideal
        /\ queue' = queue \o r.chunk /\ UNCHANGED <<sent, asked>>
    BY DEF HHandleChunk, NoteProduced, HandleChunk, Enqueue
  <1>4. /\ sent \in Seq(Actions) /\ queue \in Seq(Actions)
        /\ produced \in Seq(Actions) /\ due \in Seq(Nat)
        /\ asked \in [Calls -> Nat] /\ asked[r.call] \in Nat
        /\ Len(due) = Len(produced) /\ Len(produced) \in Nat
        /\ produced = sent \o queue /\ IsPrefix(sent, produced)
    BY <1>1, <1>2, LenProperties
    DEF LoopInv, TypeOK, HistoryInv, HTypeOK, NothingLostOrRepeated, SentIsPrefix
  <1>5. /\ ideal \in Seq(Nat) /\ Len(ideal) = Len(r.chunk)
        /\ \A i \in 1..Len(ideal) : ideal[i] = asked[r.call] + i
    <2>1. ideal \in [1..Len(r.chunk) -> Nat]
      BY <1>2, <1>4
    <2>2. ideal \in Seq(Nat)
      BY <1>2, <2>1, SeqDef
    <2> QED BY <1>2, <2>1, <2>2, LenProperties
  <1>6. Len(due) - asked[r.call] \in 0..(LowWater - 1)
    BY <1>1, <1>4 DEF HistoryInv, WaitingLagBounded
  <1>7. \A k \in 1..Len(due) : k - due[k] \in 0..(LowWater - 1)
    BY <1>4 DEF HistoryInv, BoundedStaleness
  <1> HIDE DEF r, ideal
  <1>8. HTypeOK'
    <2>1. produced' \in Seq(Actions) /\ Len(produced') = Len(produced) + Len(r.chunk)
      BY <1>2, <1>3, <1>4, ConcatProperties
    <2>2. due' \in Seq(Nat) /\ Len(due') = Len(due) + Len(ideal)
      BY <1>3, <1>4, <1>5, ConcatProperties
    <2> QED BY <1>3, <1>4, <1>5, <2>1, <2>2 DEF HTypeOK
  <1>9. NothingLostOrRepeated'
    <2>1. \A s, q, c \in Seq(Actions) : (s \o q) \o c = s \o (q \o c)
      BY ConcatAssociative
    <2>2. (sent \o queue) \o r.chunk = sent \o (queue \o r.chunk)
      BY <1>2, <1>4, <2>1
    <2> QED BY <1>3, <1>4, <2>2 DEF NothingLostOrRepeated
  <1>10. SentIsPrefix'
    BY <1>2, <1>3, <1>4, PrefixOfConcat DEF SentIsPrefix
  <1>11. BoundedStaleness'
    <2>1. Len(produced') = Len(due')
      BY <1>8 DEF HTypeOK
    <2>2. \A k \in 1..Len(due') : k - due'[k] \in 0..(LowWater - 1)
      BY <1>3, <1>4, <1>5, <1>6, <1>7, StalenessExtends
    <2> QED BY <2>1, <2>2 DEF BoundedStaleness
  <1>12. WaitingLagBounded'
    BY <1>1 DEF WaitingLagBounded
  <1> QED BY <1>8, <1>9, <1>10, <1>11, <1>12 DEF HistoryInv

\* Steps that only make the set of waiting calls smaller, or keep it.
LEMMA HQuietKeeps ==
  ASSUME HistoryInv, UNCHANGED <<sent, produced, asked, due>>,
         up' = up, queue' = queue, up => Outstanding' \subseteq Outstanding
  PROVE  HistoryInv'
  <1> USE DEF HistoryInv
  <1>1. HTypeOK' /\ NothingLostOrRepeated' /\ SentIsPrefix' /\ BoundedStaleness'
    BY DEF HTypeOK, NothingLostOrRepeated, SentIsPrefix, BoundedStaleness
  <1>2. WaitingLagBounded'
    BY DEF WaitingLagBounded
  <1> QED BY <1>1, <1>2

LEMMA HistoryStepInv == LoopInv /\ HistoryInv /\ [HNext]_hvars => HistoryInv'
  <1> SUFFICES ASSUME LoopInv, HistoryInv, [HNext]_hvars PROVE HistoryInv'
    OBVIOUS
  <1>1. CASE HTickSends
    BY <1>1, HTickSendsKeeps
  <1>2. CASE HTickExhausted
    BY <1>2, HTickExhaustedKeeps
  <1>3. CASE HTickObserveFails \/ HTickSinkFails \/ HTickTelemetryFails
    BY <1>3, HCrashKeeps
  <1>4. CASE HHandleChunk
    BY <1>4, HHandleChunkKeeps
  <1>5. CASE HHandleOther
    <2>1. CASE HandleError
      <3>1. Outstanding' = {}
        BY <2>1, HandledLeavesNone DEF HandleError
      <3> QED BY <1>5, <2>1, <3>1, HQuietKeeps DEF HHandleOther, HandleError
    <2>2. CASE HandleMalformed
      BY <1>5, <2>2, HCrashKeeps DEF HHandleOther
    <2> QED BY <1>5, <2>1, <2>2 DEF HHandleOther
  <1>6. ASSUME NEW c \in Calls, NEW r \in Result, HTaskReturns(c, r)
        PROVE  HistoryInv'
    <2>1. up => Outstanding' \subseteq Outstanding
      BY <1>6, TaskReturnsMoves DEF HTaskReturns
    <2> QED BY <1>6, <2>1, HQuietKeeps DEF HTaskReturns, TaskReturns
  <1>7. ASSUME NEW c \in Calls, HTaskKilled(c)
        PROVE  HistoryInv'
    <2>1. Outstanding' \subseteq Outstanding
      BY <1>7 DEF Outstanding, HTaskKilled, TaskKilled
    <2> QED BY <1>7, <2>1, HQuietKeeps DEF HTaskKilled, TaskKilled
  <1>8. CASE UNCHANGED hvars
    <2>1. Outstanding' = Outstanding
      BY <1>8 DEF hvars, Outstanding
    <2> QED BY <1>8, <2>1, HQuietKeeps DEF hvars
  <1> QED
    BY <1>1, <1>2, <1>3, <1>4, <1>5, <1>6, <1>7, <1>8 DEF HNext

THEOREM HistoryInvariant == HSpec => [](LoopInv /\ HistoryInv)
  BY HistoryRefinesLoop, LoopInvariant, HistoryInitInv, HistoryStepInv, PTL DEF HSpec

\* "An action is never executed twice", and none is lost while the loop lives.
THEOREM NothingLostOrRepeatedHolds == HSpec => []NothingLostOrRepeated
  <1>1. HistoryInv => NothingLostOrRepeated
    BY DEF HistoryInv
  <1> QED BY <1>1, HistoryInvariant, PTL

\* Observations are stale by fewer than LowWater actions.
THEOREM BoundedStalenessHolds == HSpec => []BoundedStaleness
  <1>1. HistoryInv => BoundedStaleness
    BY DEF HistoryInv
  <1> QED BY <1>1, HistoryInvariant, PTL

\* The loop implements the abstract action stream: a chunk extends the
\* stream, a sent action is the next one of it, a crash closes it, and every
\* other step leaves it as it is.
THEOREM ImplementsStreamHolds == HSpec => ImplementsStream
  <1> USE DEF Stream!streamVars
  <1>1. HInit => Stream!StreamInit
    <2> SUFFICES ASSUME HInit PROVE Stream!StreamInit
      OBVIOUS
    <2>1. queue \in Seq(Actions)
      BY InitInv DEF HInit, LoopInv, TypeOK
    <2> QED BY <2>1 DEF HInit, Init, Stream!StreamInit
  <1>2. LoopInv /\ HistoryInv /\ HistoryInv' /\ [HNext]_hvars
          => [Stream!StreamNext]_Stream!streamVars
    <2> SUFFICES ASSUME LoopInv, HistoryInv, HistoryInv', [HNext]_hvars
                 PROVE  [Stream!StreamNext]_Stream!streamVars
      OBVIOUS
    <2>1. ASSUME up, sent' = Append(sent, Head(queue)), produced' = produced,
                 queue # <<>>
          PROVE  Stream!Deliver
      <3>1. /\ sent \in Seq(Actions) /\ queue \in Seq(Actions)
            /\ produced = sent \o queue
        BY <2>1
        DEF LoopInv, TypeOK, HistoryInv, HTypeOK, NothingLostOrRepeated
      <3>2. /\ Len(sent) \in Nat /\ Len(queue) \in Nat \ {0}
            /\ Len(produced) = Len(sent) + Len(queue)
        BY <2>1, <3>1, LenProperties, EmptySeq, ConcatProperties
      <3>3. produced[Len(sent) + 1] = queue[1]
        BY <3>1, <3>2, ConcatProperties
      <3>4. queue[1] = Head(queue)
        BY <3>1, <2>1
      <3> QED BY <2>1, <3>2, <3>3, <3>4 DEF Stream!Deliver
    <2>2. CASE HTickSends
      <3>1. queue # <<>>
        BY <2>2, EmptySeq DEF HTickSends, TickSends, Depth
      <3>2. Stream!Deliver
        BY <2>1, <2>2, <3>1 DEF HTickSends, TickSends, NoteSent, NextAction
      <3> QED
        BY <2>2, <3>2
        DEF HTickSends, TickSends, Stream!StreamNext, Stream!DeliverOne
    <2>3. CASE HTickSinkFails
      <3>1. queue # <<>>
        BY <2>3, EmptySeq DEF HTickSinkFails, TickSinkFails, Depth
      <3>2. Stream!Deliver
        BY <2>1, <2>3, <3>1 DEF HTickSinkFails, TickSinkFails, NoteSent, NextAction
      <3> QED
        BY <2>3, <3>2
        DEF HTickSinkFails, TickSinkFails, Crash, Stream!StreamNext, Stream!Stop
    <2>4. CASE HTickObserveFails \/ HTickTelemetryFails
                 \/ (HandleMalformed /\ UNCHANGED <<sent, produced>>)
      <3>1. up
        BY <2>4, AloneInMailbox
        DEF HTickObserveFails, TickObserveFails, HTickTelemetryFails, TickTelemetryFails,
            HandleMalformed
      <3> QED
        BY <2>4, <3>1
        DEF HTickObserveFails, TickObserveFails, HTickTelemetryFails, TickTelemetryFails,
            HandleMalformed, Crash, Stream!StreamNext, Stream!Stop
    <2>5. CASE HHandleChunk
      <3>1. /\ up /\ UNCHANGED <<sent, up>>
            /\ Head(mailbox).chunk \in Seq(Actions)
            /\ produced' = produced \o Head(mailbox).chunk
        BY <2>5, AloneInMailbox, ResultFields
        DEF HHandleChunk, HandleChunk, NoteProduced
      <3>2. produced \in Seq(Actions) /\ produced' \in Seq(Actions)
        BY DEF HistoryInv, HTypeOK
      <3>3. IsPrefix(produced, produced')
        BY <3>1, <3>2, SelfPrefix
      <3> QED BY <3>1, <3>2, <3>3 DEF Stream!StreamNext, Stream!Produce, IsPrefix, Stream!IsPrefix
    <2>6. CASE UNCHANGED <<produced, sent, up>>
      BY <2>6
    <2>7. ASSUME NEW c \in Calls, NEW r \in Result, HTaskReturns(c, r)
          PROVE  UNCHANGED <<produced, sent, up>>
      BY <2>7 DEF HTaskReturns, TaskReturns
    <2>8. ASSUME NEW c \in Calls, HTaskKilled(c)
          PROVE  UNCHANGED <<produced, sent, up>>
      BY <2>8 DEF HTaskKilled, TaskKilled
    <2>9. CASE HTickExhausted \/ UNCHANGED hvars
      BY <2>6, <2>9 DEF HTickExhausted, TickExhausted, hvars
    <2>10. CASE HHandleOther
      BY <2>4, <2>6, <2>10 DEF HHandleOther, HandleError
    <2> QED
      BY <2>2, <2>3, <2>4, <2>5, <2>6, <2>7, <2>8, <2>9, <2>10 DEF HNext
  <1> QED
    BY <1>1, <1>2, HistoryInvariant, PTL
    DEF HSpec, ImplementsStream, Stream!StreamSpec

----------------------------------------------------------------------------
(* The loop's call to an inference node.                                   *)

ClusterTypeOK ==
  /\ queued \in Calls \cup {NoCall} /\ serving \in Calls \cup {NoCall, Abandoned}
  /\ replied \in {NoCall} \cup {r \in Result : r.kind \in {"ok", "error"}}
  /\ done \in [Calls -> {"none", "ok", "error"}]
  /\ got \in [Calls -> {"none", "ok", "error", "failed"}]

\* A request or a reply that is still somebody's is its waiting caller's, in one
\* place at a time; once a caller's monitor has fired its request is gone.
RequestsInv ==
  /\ waiting \subseteq tasks /\ down \subseteq waiting
  /\ queued \in Calls => queued \in waiting \ down /\ serving \notin Calls
  /\ serving \in Calls => serving \in waiting \ down
  /\ replied # NoCall =>
       /\ replied.call \in waiting /\ done[replied.call] = replied.kind
       /\ queued \notin Calls /\ serving \notin Calls

ClusterInv == LoopInv /\ up /\ ClusterTypeOK /\ RequestsInv

\* What the invariant says with a single task.
LEMMA OneTask ==
  ASSUME ClusterInv
  PROVE  /\ \A c \in tasks, d \in tasks : c = d
         /\ tasks \subseteq Calls
         /\ ~inFlight => tasks = {}
         /\ tasks = {} => /\ waiting = {} /\ down = {} /\ queued = NoCall
                          /\ serving \notin Calls /\ replied = NoCall
<1>1. \A c \in Outstanding, d \in Outstanding : c = d
  BY DEF ClusterInv, LoopInv, SingleFlight
<1>2. tasks \subseteq Outstanding /\ tasks \subseteq Calls
  BY DEF Outstanding, ClusterInv, LoopInv, TypeOK
<1>3. ~inFlight => tasks = {}
  BY <1>2 DEF ClusterInv, LoopInv, FlagTracksCall
<1> QED BY <1>1, <1>2, <1>3 DEF ClusterInv, RequestsInv, ClusterTypeOK

LEMMA ClusterInitInv == ClusterInit => ClusterInv
<1> SUFFICES ASSUME ClusterInit PROVE ClusterInv
  OBVIOUS
<1>1. LoopInv /\ up
  BY InitInv DEF ClusterInit, Init
<1>2. ClusterTypeOK /\ RequestsInv
  BY TokenAssumption DEF ClusterInit, Init, ClusterTypeOK, RequestsInv
<1> QED BY <1>1, <1>2 DEF ClusterInv

\* A callback of the loop: either it starts the one task there is, which forgets
\* what its identity was used for, or no task starts.
LEMMA LoopStepIs ==
  ASSUME ClusterInv, LoopStep
  PROVE  /\ Next /\ up'
         /\ UNCHANGED <<queued, serving, replied, waiting, down>>
         /\ \/ UNCHANGED <<tasks, done, got>>
            \/ \E c \in Calls : /\ tasks = {} /\ tasks' = {c}
                                /\ done' = [done EXCEPT ![c] = "none"]
                                /\ got' = [got EXCEPT ![c] = "none"]
<1>1. /\ Next /\ up' /\ UNCHANGED <<queued, serving, replied, waiting, down>>
      /\ tasks' = tasks \/ (Triggers /\ StartTask)
      /\ done' = [c \in Calls |-> IF c \in tasks' \ tasks THEN "none" ELSE done[c]]
      /\ got' = [c \in Calls |-> IF c \in tasks' \ tasks THEN "none" ELSE got[c]]
  BY DEF LoopStep, Next, TickSends, TickExhausted, MaybeTrigger, HandleChunk, HandleError,
         requests, ClusterInv
<1>2. done \in [Calls -> {"none", "ok", "error"}]
      /\ got \in [Calls -> {"none", "ok", "error", "failed"}]
  BY DEF ClusterInv, ClusterTypeOK
<1>3. CASE tasks' = tasks
  <2>1. done' = done /\ got' = got
    BY <1>1, <1>2, <1>3
  <2> QED BY <1>1, <1>3, <2>1
<1>4. CASE Triggers /\ StartTask
  <2>1. tasks = {}
    BY <1>4, OneTask DEF Triggers
  <2>2. PICK c \in Calls : tasks' = {c}
    BY <1>4, <2>1 DEF StartTask
  <2>3. /\ done' = [done EXCEPT ![c] = "none"]
        /\ got' = [got EXCEPT ![c] = "none"]
    BY <1>1, <1>2, <2>1, <2>2
  <2> QED BY <1>1, <2>1, <2>2, <2>3
<1> QED BY <1>1, <1>3, <1>4

\* The pending call and the calls that may still be carried out.
Pending == IF tasks = {} THEN NoCall ELSE CHOOSE c \in tasks : TRUE
Open == (tasks \ waiting) \cup ({queued, serving} \cap Calls)

\* How a caller leaves: it is told something, and no trace of its call is left.
Leaves(c) ==
  /\ tasks = {c} /\ tasks' = {} /\ waiting' = {} /\ down' = {}
  /\ queued' = NoCall /\ serving' \in {NoCall, Abandoned} /\ replied' = NoCall
  /\ done' = done

LEMMA LeavesIs ==
  ASSUME ClusterInv, NEW c \in Calls, Leaves(c)
  PROVE  RequestsInv' /\ Pending = c /\ Pending' = NoCall /\ Open' = {} /\ Open \subseteq {c}
<1>1. RequestsInv'
  BY TokenAssumption DEF Leaves, RequestsInv
<1>2. Pending = c /\ Pending' = NoCall
  BY DEF Leaves, Pending
<1>3. Open' = {} /\ Open \subseteq {c}
  BY TokenAssumption DEF Leaves, Open, ClusterInv, RequestsInv
<1> QED BY <1>1, <1>2, <1>3

\* Without an answer, for whatever reason.
LEMMA GivesUp ==
  ASSUME ClusterInv, NEW c \in Calls,
         ClientFindsNobody(c) \/ ClientSeesDown(c) \/ ClientTimesOut(c) \/ ConnectionLost(c)
  PROVE  Next /\ up' /\ Leaves(c) /\ got' = [got EXCEPT ![c] = "failed"]
<1>1. /\ c \in tasks
      /\ c \in tasks \ waiting \/ c \in down \/ c \in waiting
  BY DEF ClientFindsNobody, ClientSeesDown, ClientTimesOut, ConnectionLost, ClusterInv,
         RequestsInv
<1>2. tasks = {c}
  BY <1>1, OneTask
<1>3. ClientExits(c)
  BY DEF ClientFindsNobody, ClientSeesDown, ClientTimesOut, ConnectionLost
<1>4. /\ Next /\ up' = up /\ tasks' = {} /\ waiting' = waiting \ {c} /\ down' = down \ {c}
      /\ got' = [got EXCEPT ![c] = "failed"]
  BY <1>2, <1>3 DEF ClientExits, TaskReturns, Next
<1>5. waiting \subseteq {c} /\ down \subseteq {c} /\ (queued \in Calls => queued = c)
      /\ (serving \in Calls => serving = c) /\ (replied # NoCall => replied.call = c)
  BY <1>2 DEF ClusterInv, RequestsInv
<1>6. done' = done
  BY DEF ClientFindsNobody, ClientSeesDown, ClientTimesOut, ConnectionLost
<1>7. queued' = NoCall /\ serving' \in {NoCall, Abandoned} /\ replied' = NoCall
  <2>1. CASE ClientFindsNobody(c) \/ ClientSeesDown(c)
    BY <1>5, <2>1 DEF ClientFindsNobody, ClientSeesDown, ClusterInv, RequestsInv, ClusterTypeOK
  <2>2. CASE ClientTimesOut(c) \/ ConnectionLost(c)
    BY <1>5, <2>2 DEF ClientTimesOut, ConnectionLost, Abandon, ClusterInv, ClusterTypeOK
  <2> QED BY <2>1, <2>2
<1> QED BY <1>2, <1>4, <1>5, <1>6, <1>7 DEF Leaves, ClusterInv

\* With the answer to its own call.
LEMMA Returns ==
  ASSUME ClusterInv, NEW c \in Calls, ClientReturns(c)
  PROVE  /\ Next /\ up' /\ Leaves(c)
         /\ done[c] \in {"ok", "error"} /\ got' = [got EXCEPT ![c] = done[c]]
<1>1. /\ replied # NoCall /\ replied.call = c /\ TaskReturns(c, replied)
      /\ replied' = NoCall /\ waiting' = waiting \ {c} /\ down' = down \ {c}
      /\ got' = [got EXCEPT ![c] = replied.kind]
      /\ UNCHANGED <<queued, serving, done>>
  BY DEF ClientReturns
<1>2. replied \in Result /\ replied.kind \in {"ok", "error"}
  BY <1>1 DEF ClusterInv, ClusterTypeOK
<1>3. tasks = {c} /\ tasks' = {} /\ up' = up
  BY <1>1, OneTask DEF TaskReturns
<1>4. Next
  BY <1>1, <1>2 DEF Next
<1>5. waiting \subseteq {c} /\ down \subseteq {c} /\ queued \notin Calls /\ serving \notin Calls
      /\ done[c] = replied.kind
  BY <1>1, <1>3 DEF ClusterInv, RequestsInv
<1> QED BY <1>1, <1>2, <1>3, <1>4, <1>5 DEF Leaves, ClusterInv, ClusterTypeOK

LEMMA Replied ==
  ASSUME NEW r \in Result, ServerReplies(r)
  PROVE  r.call \in Calls /\ r.kind \in {"ok", "error"} /\ r # NoCall
<1>1. r.kind # "malformed"
  BY DEF ServerReplies
<1>2. r.call \in Calls /\ r.kind \in {"ok", "error", "malformed"}
  BY DEF Result
<1>3. r # NoCall
  BY TokenAssumption
<1> QED BY <1>1, <1>2, <1>3

\* What the loop does not take part in.
Beside ==
  \/ \E c \in Calls : ClientCalls(c)
  \/ ServerStarts \/ ServerStep \/ ServerDies \/ LoadFails \/ ServerHangs

LEMMA BesideKeeps ==
  ASSUME ClusterInv, Beside
  PROVE  UNCHANGED vars /\ ClusterTypeOK' /\ RequestsInv'
<1> USE TokenAssumption DEF ClusterInv, ClusterTypeOK, RequestsInv, vars
<1>1. CASE \E c \in Calls : ClientCalls(c)
  <2>1. PICK c \in Calls : ClientCalls(c)
    BY <1>1
  <2>2. tasks = {c} /\ waiting = {} /\ down = {} /\ queued' = c /\ waiting' = {c}
    BY <2>1, OneTask DEF ClientCalls
  <2>3. UNCHANGED <<vars, serving, replied, down, done, got>>
    BY <2>1 DEF ClientCalls, history
  <2> QED BY <2>2, <2>3
<1>2. CASE ServerStarts \/ ServerLoads \/ ServerHangs
  BY <1>2 DEF ServerStarts, ServerLoads, ServerHangs, requests, history
<1>3. CASE ServerTakes
  BY <1>3 DEF ServerTakes, history
<1>4. CASE \E r \in Result : ServerReplies(r)
  <2>1. PICK r \in Result : ServerReplies(r)
    BY <1>4
  <2>2. /\ r.call \in Calls /\ r.kind \in {"ok", "error"} /\ r # NoCall
    BY <2>1, Replied
  <2> QED BY <2>1, <2>2 DEF ServerReplies
<1>5. CASE ServerRepliesToNobody
  BY <1>5 DEF ServerRepliesToNobody, history
<1>6. CASE ServerDies \/ LoadFails
  BY <1>6 DEF ServerDies, LoadFails, ServerGone, history
<1> QED BY <1>1, <1>2, <1>3, <1>4, <1>5, <1>6 DEF Beside, ServerStep

\* Every step of the composition is of one of four kinds.
LEMMA ClusterStepIs ==
  ASSUME ClusterNext
  PROVE  \/ LoopStep
         \/ Beside
         \/ \E c \in Calls : \/ ClientFindsNobody(c) \/ ClientSeesDown(c)
                             \/ ClientTimesOut(c) \/ ConnectionLost(c)
         \/ \E c \in Calls : ClientReturns(c)
  BY DEF ClusterNext, ClientStep, TimerFires, Outage, Beside

LEMMA ClusterStepInv == ClusterInv /\ [ClusterNext]_cvars => ClusterInv'
<1> SUFFICES ASSUME ClusterInv, [ClusterNext]_cvars PROVE ClusterInv'
  OBVIOUS
<1>1. LoopInv /\ up /\ ClusterTypeOK /\ RequestsInv
  BY DEF ClusterInv
<1>2. CASE LoopStep
  <2>1. /\ Next /\ up'
        /\ UNCHANGED <<queued, serving, replied, waiting, down>>
        /\ \/ UNCHANGED <<tasks, done, got>>
           \/ \E c \in Calls : /\ tasks = {} /\ tasks' = {c}
                               /\ done' = [done EXCEPT ![c] = "none"]
                               /\ got' = [got EXCEPT ![c] = "none"]
    BY <1>2, LoopStepIs
  <2>2. LoopInv'
    BY <1>1, <2>1, StepInv
  <2>3. ClusterTypeOK'
    BY <1>1, <2>1 DEF ClusterTypeOK
  <2>4. RequestsInv'
    <3>1. CASE UNCHANGED <<tasks, done, got>>
      BY <1>1, <2>1, <3>1 DEF RequestsInv
    <3>2. CASE tasks = {}
      <4>1. waiting = {} /\ down = {} /\ queued = NoCall /\ serving \notin Calls /\ replied = NoCall
        BY <3>2, OneTask
      <4> QED BY <2>1, <4>1, TokenAssumption DEF RequestsInv
    <3> QED BY <2>1, <3>1, <3>2
  <2> QED BY <2>1, <2>2, <2>3, <2>4 DEF ClusterInv
<1>3. CASE Beside
  <2>1. UNCHANGED vars /\ ClusterTypeOK' /\ RequestsInv'
    BY <1>3, BesideKeeps
  <2>2. LoopInv' /\ up'
    BY <1>1, <2>1, StepInv DEF vars
  <2> QED BY <2>1, <2>2 DEF ClusterInv
<1>4. ASSUME NEW c \in Calls, Next, up', Leaves(c),
             \E a \in {"ok", "error", "failed"} : got' = [got EXCEPT ![c] = a]
      PROVE  ClusterInv'
  <2>1. LoopInv'
    BY <1>1, <1>4, StepInv
  <2>2. ClusterTypeOK'
    BY <1>1, <1>4 DEF ClusterTypeOK, Leaves
  <2>3. RequestsInv'
    BY <1>4, LeavesIs
  <2> QED BY <1>4, <2>1, <2>2, <2>3 DEF ClusterInv
<1>5. ASSUME NEW c \in Calls,
             ClientFindsNobody(c) \/ ClientSeesDown(c) \/ ClientTimesOut(c) \/ ConnectionLost(c)
      PROVE  ClusterInv'
  BY <1>4, <1>5, GivesUp
<1>6. ASSUME NEW c \in Calls, ClientReturns(c) PROVE ClusterInv'
  BY <1>4, <1>6, Returns
<1>7. CASE UNCHANGED cvars
  <2>1. UNCHANGED <<vars, queued, serving, replied, waiting, down, done, got>>
    BY <1>7 DEF cvars, clusterVars, requests, history
  <2>2. LoopInv' /\ up'
    BY <1>1, <2>1, StepInv DEF vars
  <2> QED BY <1>1, <2>1, <2>2 DEF ClusterInv, ClusterTypeOK, RequestsInv, vars
<1> QED BY <1>2, <1>3, <1>5, <1>6, <1>7, ClusterStepIs

\* The loop's own invariants hold with the cluster behind it as well; it lives on
\* through every outage, and no request or reply outlasts its caller as anybody
\* else's.
THEOREM ClusterInvHolds == ClusterSpec => []ClusterInv
  BY ClusterInitInv, ClusterStepInv, PTL DEF ClusterSpec

\* While requests move, the caller that waits and the calls that may still be
\* carried out stay the same, but for the one that is carried out or lost.
LEMMA BesideImplements ==
  ASSUME ClusterInv, Beside
  PROVE  /\ UNCHANGED <<Pending, got>>
         /\ \/ Open' \in SUBSET Open /\ done' = done
            \/ \E c \in Calls : \E a \in {"ok", "error"} :
                 c \in Open /\ Open' = Open \ {c} /\ done' = [done EXCEPT ![c] = a]
<1> USE TokenAssumption DEF ClusterInv, ClusterTypeOK, RequestsInv, Open
<1>1. UNCHANGED vars
  BY BesideKeeps
<1>2. tasks' = tasks /\ UNCHANGED Pending
  BY <1>1 DEF vars, Pending
<1>3. CASE \E c \in Calls : ClientCalls(c)
  <2>1. PICK c \in Calls : ClientCalls(c)
    BY <1>3
  <2>2. tasks = {c} /\ waiting = {} /\ queued' = c /\ waiting' = {c} /\ UNCHANGED <<serving, done, got>>
    BY <2>1, OneTask DEF ClientCalls, history
  <2>3. Open = {c} /\ Open' = {c}
    BY <1>2, <2>2
  <2> QED BY <1>2, <2>2, <2>3
<1>4. CASE ServerStarts \/ ServerLoads \/ ServerHangs \/ ServerRepliesToNobody
  BY <1>2, <1>4 DEF ServerStarts, ServerLoads, ServerHangs, ServerRepliesToNobody, requests,
                    history
<1>5. CASE ServerTakes
  BY <1>2, <1>5 DEF ServerTakes, history
<1>6. CASE \E r \in Result : ServerReplies(r)
  <2>1. PICK r \in Result : ServerReplies(r)
    BY <1>6
  <2>2. r.call \in Calls /\ r.kind \in {"ok", "error"}
    BY <2>1, Replied
  <2>3. /\ serving = r.call /\ serving' = NoCall /\ UNCHANGED <<queued, waiting, got>>
        /\ done' = [done EXCEPT ![r.call] = r.kind]
    BY <2>1 DEF ServerReplies
  <2>4. serving \in waiting /\ queued \notin Calls
    BY <2>2, <2>3
  <2>5. r.call \in Open /\ Open' = Open \ {r.call}
    BY <1>2, <2>2, <2>3, <2>4
  <2> QED BY <1>2, <2>2, <2>3, <2>5
<1>7. CASE ServerDies \/ LoadFails
  BY <1>2, <1>7 DEF ServerDies, LoadFails, ServerGone, history
<1> QED BY <1>3, <1>4, <1>5, <1>6, <1>7 DEF Beside, ServerStep

\* The distributed call keeps the promise of the remote call under every outage
\* of the node, and with any number of abandoned requests before it: carried out
\* at most once, and answered with its own answer.
THEOREM ImplementsPortHolds == ClusterSpec => ImplementsPort
<1>1. ClusterInit => Port!CallInit
  BY TokenAssumption DEF ClusterInit, Init, Port!CallInit
<1>2. ClusterInv /\ [ClusterNext]_cvars => [Port!CallNext]_(Port!callVars)
  <2> SUFFICES ASSUME ClusterInv, [ClusterNext]_cvars PROVE [Port!CallNext]_(Port!callVars)
    OBVIOUS
  <2>1. CASE LoopStep
    <3>1. /\ UNCHANGED <<queued, serving, waiting>>
          /\ \/ UNCHANGED <<tasks, done, got>>
             \/ \E c \in Calls : /\ tasks = {} /\ tasks' = {c}
                                 /\ done' = [done EXCEPT ![c] = "none"]
                                 /\ got' = [got EXCEPT ![c] = "none"]
      BY <2>1, LoopStepIs
    <3>2. CASE UNCHANGED <<tasks, done, got>>
      BY <3>1, <3>2 DEF Port!callVars
    <3>3. ASSUME NEW c \in Calls, tasks = {}, tasks' = {c},
                 done' = [done EXCEPT ![c] = "none"], got' = [got EXCEPT ![c] = "none"]
          PROVE  Port!CallNext
      <4>1. waiting = {} /\ queued = NoCall /\ serving \notin Calls
        BY <3>3, OneTask
      <4>2. Port!Begin(c)
        BY <3>1, <3>3, <4>1, TokenAssumption DEF Port!Begin
      <4> QED BY <4>2 DEF Port!CallNext
    <3> QED BY <3>1, <3>2, <3>3
  <2>2. CASE Beside
    <3>1. /\ UNCHANGED <<Pending, got>>
          /\ \/ Open' \in SUBSET Open /\ done' = done
             \/ \E c \in Calls : \E a \in {"ok", "error"} :
                  c \in Open /\ Open' = Open \ {c} /\ done' = [done EXCEPT ![c] = a]
      BY <2>2, BesideImplements
    <3>2. CASE Open' \in SUBSET Open /\ done' = done
      BY <3>1, <3>2 DEF Pending, Open, Port!Lose, Port!CallNext
    <3>3. ASSUME NEW c \in Calls, NEW a \in {"ok", "error"},
                 c \in Open, Open' = Open \ {c}, done' = [done EXCEPT ![c] = a]
          PROVE  Port!CallNext
      <4>1. Port!CarryOut(c, a)
        BY <3>1, <3>3 DEF Pending, Open, Port!CarryOut
      <4> QED BY <4>1 DEF Port!CallNext, Port!Answers
    <3> QED BY <3>1, <3>2, <3>3
  <2>3. ASSUME NEW c \in Calls,
               ClientFindsNobody(c) \/ ClientSeesDown(c) \/ ClientTimesOut(c) \/ ConnectionLost(c)
        PROVE  Port!CallNext
    <3>1. Leaves(c) /\ got' = [got EXCEPT ![c] = "failed"]
      BY <2>3, GivesUp
    <3>2. Pending = c /\ Pending' = NoCall /\ Open' \in {Open, Open \ {c}}
      BY <3>1, LeavesIs
    <3>3. Port!GiveUp(c)
      BY <3>1, <3>2 DEF Leaves, Pending, Open, Port!GiveUp
    <3> QED BY <3>3 DEF Port!CallNext
  <2>4. ASSUME NEW c \in Calls, ClientReturns(c) PROVE Port!CallNext
    <3>1. /\ Leaves(c) /\ done[c] \in {"ok", "error"} /\ got' = [got EXCEPT ![c] = done[c]]
      BY <2>4, Returns
    <3>2. Pending = c /\ Pending' = NoCall
      BY <3>1, LeavesIs
    <3>3. Open = {} /\ Open' = {}
      BY <2>4, <3>1, LeavesIs DEF Leaves, Open, ClientReturns, ClusterInv, RequestsInv
    <3>4. Port!Return(c)
      BY <3>1, <3>2, <3>3 DEF Leaves, Pending, Open, Port!Return
    <3> QED BY <3>4 DEF Port!CallNext
  <2>5. CASE UNCHANGED cvars
    BY <2>5 DEF cvars, vars, clusterVars, requests, history, Port!callVars
  <2> QED BY <2>1, <2>2, <2>3, <2>4, <2>5, ClusterStepIs
<1> QED
  BY <1>1, <1>2, ClusterInvHolds, PTL DEF ClusterSpec, ImplementsPort, Port!CallSpec

=============================================================================
