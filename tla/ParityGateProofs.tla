-------------------------- MODULE ParityGateProofs --------------------------
(***************************************************************************)
(* The parity gate for every set of source datasets, every number of       *)
(* held-out episodes, all settings and any number of runs: first the loop  *)
(* that splits the episodes, then the gate around it.                      *)
(***************************************************************************)
EXTENDS ParityGate, TrainOnlyDatasetProofs

----------------------------------------------------------------------------
(* EpisodeSplit, for every number of episodes and every n_holdout.         *)

\* The types of the loop's variables; a call that is picking was accepted.
SplitTypeOK ==
  /\ total \in Int /\ nHoldout \in Int
  /\ holdout \in Seq(Nat)
  /\ idx \in Int
  /\ split \in {"idle", "picking", "returned", "raised"}

\* What the loop preserves: the picks are the multiples of the step, the next
\* candidate is one step further, and what is still to be picked has room.
PickInv ==
  split \in {"picking", "returned"} =>
    LET step == total \div nHoldout IN
    /\ 0 < nHoldout /\ nHoldout < total
    /\ Len(holdout) <= nHoldout
    /\ idx = Len(holdout) * step
    /\ \A i \in 1..Len(holdout) : holdout[i] = (i - 1) * step

ReturnInv == split = "returned" => Len(holdout) = nHoldout

SplitInv == SplitTypeOK /\ PickInv /\ ReturnInv

\* Rounding down: n steps fit into the total, and a step is at least one.
LEMMA StepFits ==
  ASSUME NEW t \in Int, NEW n \in Int, 0 < n, n < t
  PROVE  /\ t \div n \in Int /\ t \div n >= 1
         /\ n * (t \div n) <= t
  OBVIOUS

\* A product grows with its first factor.
LEMMA TimesMonotone ==
  ASSUME NEW a \in Int, NEW b \in Int, NEW s \in Nat, a <= b
  PROVE  a * s <= b * s
<1>1. (b - a) * s >= 0
  OBVIOUS
<1> QED BY <1>1

\* While an episode is still to be picked, the candidate is inside the dataset
\* with a whole step of room behind it.
LEMMA RoomForPick ==
  ASSUME SplitInv, split = "picking", Len(holdout) < nHoldout
  PROVE  /\ Step \in Nat /\ Step >= 1
         /\ idx >= 0 /\ idx + Step <= total
<1>0. /\ total \in Int /\ nHoldout \in Int /\ 0 < nHoldout /\ nHoldout < total
      /\ idx = Len(holdout) * Step /\ Len(holdout) \in Nat
  BY DEF SplitInv, SplitTypeOK, PickInv, Step
<1>1. Step \in Nat /\ Step >= 1 /\ nHoldout * Step <= total
  BY <1>0, StepFits DEF Step
<1>2. (Len(holdout) + 1) * Step <= nHoldout * Step
  BY <1>0, <1>1, TimesMonotone
<1>3. (Len(holdout) + 1) * Step = Len(holdout) * Step + Step
  BY <1>0, <1>1
<1>4. Len(holdout) * Step >= 0
  BY <1>0, <1>1
<1> QED BY <1>0, <1>1, <1>2, <1>3, <1>4

\* A candidate that is a multiple of the step past all picks is not among them.
LEMMA CandidateIsFresh ==
  ASSUME SplitInv, split = "picking", Len(holdout) < nHoldout
  PROVE  idx \notin Range(holdout)
<1>1. SUFFICES ASSUME NEW i \in 1..Len(holdout), holdout[i] = idx PROVE FALSE
  <2>1. DOMAIN holdout = 1..Len(holdout) BY DEF SplitInv, SplitTypeOK
  <2> QED BY <2>1 DEF Range
<1>2. Len(holdout) \in Nat /\ i \in Int /\ i - 1 + 1 <= Len(holdout)
  BY DEF SplitInv, SplitTypeOK
<1>3. Step \in Nat /\ Step >= 1
  BY RoomForPick
<1>4. (i - 1) * Step = Len(holdout) * Step
  BY <1>1 DEF SplitInv, PickInv, Step
<1>5. ((i - 1) + 1) * Step <= Len(holdout) * Step
  BY <1>2, <1>3, TimesMonotone
<1>6. ((i - 1) + 1) * Step = (i - 1) * Step + Step
  BY <1>2, <1>3
<1>7. (i - 1) * Step \in Int
  BY <1>2, <1>3
<1> QED BY <1>3, <1>4, <1>5, <1>6, <1>7

\* A new call starts with nothing picked, whatever the one before it left.
LEMMA CallKeepsSplitInv ==
  ASSUME SplitInv, NEW t \in Int, NEW n \in Int, Call(t, n)
  PROVE  SplitInv'
<1>2. /\ total' = t /\ nHoldout' = n /\ holdout' = <<>> /\ idx' = 0
      /\ split' = IF t > 0 /\ n > 0 /\ n < t THEN "picking" ELSE "raised"
  BY DEF Call
<1>3. SplitTypeOK'
  BY <1>2 DEF SplitTypeOK
<1>4. PickInv'
  <2>1. SUFFICES ASSUME split' = "picking"
                 PROVE  /\ 0 < nHoldout' /\ nHoldout' < total'
                        /\ Len(holdout') <= nHoldout'
                        /\ idx' = Len(holdout') * (total' \div nHoldout')
                        /\ \A i \in 1..Len(holdout') : FALSE
    BY <1>2 DEF PickInv
  <2>2. 0 < n /\ n < t /\ t \in Int /\ n \in Int
    BY <1>2, <2>1
  <2>3. Len(holdout') = 0
    BY <1>2
  <2>4. 0 = 0 * (t \div n)
    BY <2>2, StepFits
  <2> QED BY <1>2, <2>2, <2>3, <2>4
<1>5. ReturnInv'
  BY <1>2 DEF ReturnInv
<1> QED BY <1>3, <1>4, <1>5 DEF SplitInv

\* One turn of the loop appends the next multiple of the step.
LEMMA PickKeepsSplitInv ==
  ASSUME SplitInv, Pick
  PROVE  SplitInv'
<1>1. /\ split = "picking" /\ Len(holdout) < nHoldout
      /\ UNCHANGED <<total, nHoldout, split>>
  BY DEF Pick
<1>2. /\ Step \in Nat /\ Step >= 1 /\ idx >= 0 /\ idx + Step <= total
      /\ idx \in Int /\ total \in Int /\ holdout \in Seq(Nat)
  BY <1>1, RoomForPick DEF SplitInv, SplitTypeOK
<1>3. holdout' = Append(holdout, idx)
  <2>1. idx < total BY <1>2
  <2> QED BY <1>1, <2>1, CandidateIsFresh DEF Pick
<1>4. idx' = idx + Step
  BY <1>2 DEF Pick
<1>5. /\ Len(holdout') = Len(holdout) + 1 /\ Len(holdout) \in Nat
      /\ \A i \in 1..Len(holdout) : holdout'[i] = holdout[i]
      /\ holdout'[Len(holdout) + 1] = idx
      /\ holdout' \in Seq(Nat)
  BY <1>2, <1>3
<1>6. SplitTypeOK'
  BY <1>1, <1>2, <1>4, <1>5 DEF SplitInv, SplitTypeOK
<1>7. PickInv'
  <2>1. Step' = Step
    BY <1>1 DEF Step
  <2>2. /\ 0 < nHoldout /\ nHoldout < total /\ nHoldout \in Int
        /\ idx = Len(holdout) * Step
        /\ \A i \in 1..Len(holdout) : holdout[i] = (i - 1) * Step
    BY <1>1 DEF SplitInv, SplitTypeOK, PickInv, Step
  <2>3. idx' = Len(holdout') * Step
    BY <1>2, <1>4, <1>5, <2>2
  <2>4. \A i \in 1..Len(holdout') : holdout'[i] = (i - 1) * Step
    BY <1>5, <2>2
  <2>5. Len(holdout') <= nHoldout
    BY <1>1, <1>5, <2>2
  <2> QED BY <1>1, <2>1, <2>2, <2>3, <2>4, <2>5 DEF PickInv, Step
<1>8. ReturnInv'
  BY <1>1 DEF ReturnInv
<1> QED BY <1>6, <1>7, <1>8 DEF SplitInv

\* What is returned has as many episodes as were asked for.
LEMMA ReturnKeepsSplitInv ==
  ASSUME SplitInv, Return
  PROVE  SplitInv'
<1>1. Len(holdout) = nHoldout
  BY DEF Return, SplitInv, SplitTypeOK, PickInv
<1>2. /\ split = "picking" /\ split' = "returned"
      /\ UNCHANGED <<total, nHoldout, holdout, idx>>
  BY DEF Return
<1> QED BY <1>1, <1>2 DEF SplitInv, SplitTypeOK, PickInv, ReturnInv

\* The invariant of the loop holds of every call.
THEOREM SplitInvHolds == SplitSpec => []SplitInv
<1>1. SplitInit => SplitInv
  BY DEF SplitInit, SplitInv, SplitTypeOK, PickInv, ReturnInv
<1>2. SplitInv /\ [SplitNext]_splitVars => SplitInv'
  <2> SUFFICES ASSUME SplitInv, [SplitNext]_splitVars PROVE SplitInv'
    OBVIOUS
  <2>1. CASE \E t \in Totals, n \in Holdouts : Call(t, n)
    BY <2>1, CallKeepsSplitInv, SplitAssumption
  <2>2. CASE Pick
    BY <2>2, PickKeepsSplitInv
  <2>3. CASE Return
    BY <2>3, ReturnKeepsSplitInv
  <2>4. CASE UNCHANGED splitVars
    BY <2>4 DEF splitVars, SplitInv, SplitTypeOK, PickInv, ReturnInv
  <2> QED BY <2>1, <2>2, <2>3, <2>4 DEF SplitNext
<1> QED BY <1>1, <1>2, PTL DEF SplitSpec

\* split_episodes' docstring: "every `total_episodes // n_holdout`-th episode",
\* for every number of episodes and of held-out ones.
THEOREM EveryNthHolds == SplitSpec => []EveryNth
<1>1. SplitInv => EveryNth
  BY DEF SplitInv, PickInv, EveryNth
<1> QED BY <1>1, SplitInvHolds, PTL

\* What is returned is injective, inside the dataset, and never all of it: a
\* step of one leaves the end, a longer one the last episode.
LEMMA ReturnsPartition == SplitInv => SplitIsPartition
<1> SUFFICES ASSUME SplitInv, split = "returned" PROVE
      /\ Len(holdout) = nHoldout /\ IsInjective(holdout)
      /\ Range(holdout) \subseteq 0..(total - 1)
      /\ Train # {}
  BY DEF SplitIsPartition
<1> DEFINE s == total \div nHoldout
<1>1. /\ total \in Int /\ nHoldout \in Int /\ 0 < nHoldout /\ nHoldout < total
      /\ Len(holdout) = nHoldout /\ DOMAIN holdout = 1..nHoldout
      /\ \A i \in 1..nHoldout : holdout[i] = (i - 1) * s
  BY DEF SplitInv, SplitTypeOK, PickInv, ReturnInv
<1>2. s \in Nat /\ s >= 1 /\ nHoldout * s <= total
  BY <1>1, StepFits
<1> HIDE DEF s
<1>3. \A a \in Int, b \in Int : a < b => a * s + s <= b * s
  <2> SUFFICES ASSUME NEW a \in Int, NEW b \in Int, a < b
               PROVE  a * s + s <= b * s
    OBVIOUS
  <2>1. (a + 1) * s <= b * s
    BY <1>2, TimesMonotone
  <2>2. (a + 1) * s = a * s + s
    BY <1>2
  <2> QED BY <2>1, <2>2
<1>4. IsInjective(holdout)
  <2> SUFFICES ASSUME NEW i \in 1..nHoldout, NEW j \in 1..nHoldout,
                      holdout[i] = holdout[j], i # j
               PROVE  FALSE
    BY <1>1 DEF IsInjective
  <2>1. (i - 1) * s = (j - 1) * s /\ (i - 1) * s \in Int
    BY <1>1, <1>2
  <2>2. CASE i < j
    <3>1. (i - 1) * s + s <= (j - 1) * s BY <1>1, <1>3, <2>2
    <3> QED BY <3>1, <2>1, <1>2
  <2>3. CASE j < i
    <3>1. (j - 1) * s + s <= (i - 1) * s BY <1>1, <1>3, <2>3
    <3> QED BY <3>1, <2>1, <1>2
  <2> QED BY <2>2, <2>3, <1>1
<1>5. \A i \in 1..nHoldout : holdout[i] >= 0 /\ holdout[i] + s <= total
                             /\ holdout[i] \in Int
  <2> SUFFICES ASSUME NEW i \in 1..nHoldout
               PROVE  holdout[i] >= 0 /\ holdout[i] + s <= total
                      /\ holdout[i] \in Int
    OBVIOUS
  <2>1. (i - 1) * s + s <= nHoldout * s
    BY <1>1, <1>3
  <2>2. (i - 1) * s >= 0 /\ (i - 1) * s \in Int /\ nHoldout * s \in Int
    BY <1>1, <1>2
  <2> QED BY <1>1, <1>2, <2>1, <2>2
<1>6. Range(holdout) \subseteq 0..(total - 1)
  BY <1>1, <1>2, <1>5 DEF Range
<1>7. Train # {}
  <2>1. CASE s = 1
    <3>1. \A i \in 1..nHoldout : holdout[i] < nHoldout
      BY <1>1, <2>1
    <3>2. nHoldout \in Train
      BY <1>1, <3>1 DEF Train, Range
    <3> QED BY <3>2
  <2>2. CASE s >= 2
    <3>1. total - 1 \in Train
      BY <1>1, <1>2, <1>5, <2>2 DEF Train, Range
    <3> QED BY <3>1
  <2> QED BY <1>2, <2>1, <2>2
<1> QED BY <1>1, <1>4, <1>6, <1>7

\* What is returned is a partition with both parts as announced; in particular
\* no trainer is ever given an empty training set.
THEOREM SplitIsPartitionHolds == SplitSpec => []SplitIsPartition
  BY ReturnsPartition, SplitInvHolds, PTL

----------------------------------------------------------------------------
(* What the gate's operators give.                                         *)

\* Neither trainer sees a frame of an episode outside the training set.
LEMMA SeenOfTrain ==
  ASSUME NEW s, IsSource(s), NEW S, IsTrain(s, S)
  PROVE  /\ \A r \in SeenByPython(TrainOnly(s, S)) : r[1] \in S
         /\ \A r \in SeenByElixir(TrainOnly(s, S)) : r[1] \in S
<1>0. PICK d : d = TrainOnly(s, S)
  OBVIOUS
<1> DEFINE inFile0 == {x \in S : s[x + 1].file = 0}
<1>1. ReadsExactly(s, S, d)
  BY <1>0, CopyReadsExactly
<1>2. \A e \in S : Length(s, e) \in Nat \ {0}
  BY TrainIsOfSource
<1>3. \A r \in SeenByPython(d) : r[1] \in S
  <2>1. FramesAreNamed(SourceFrames(s, S), s, S)
    BY <1>2, FramesAre
  <2>2. SeenByPython(d) = SourceFrames(s, S)
    BY <1>1 DEF ReadsExactly
  <2> QED BY <2>1, <2>2 DEF FramesAreNamed
<1>4. \A r \in SeenByElixir(d) : r[1] \in S
  <2>1. FramesAreNamed(SourceFrames(s, inFile0), s, inFile0)
    BY <1>2, FramesAre
  <2>2. SeenByElixir(d) = SourceFrames(s, inFile0)
    BY <1>1 DEF ReadsExactly
  <2> QED BY <2>1, <2>2 DEF FramesAreNamed
<1> QED BY <1>0, <1>3, <1>4

\* What a function takes on a finite set is finite.
LEMMA ImageIsFinite ==
  ASSUME NEW A, IsFiniteSet(A), NEW f
  PROVE  IsFiniteSet({f[x] : x \in A})
<1> DEFINE B == {f[x] : x \in A}
           g == [x \in A |-> f[x]]
<1>1. g \in [A -> B] /\ \A y \in B : \E x \in A : g[x] = y
  OBVIOUS
<1> HIDE DEF B, g
<1>2. g \in Surjection(A, B)
  BY <1>1 DEF Surjection
<1>3. IsFiniteSet(B)
  BY <1>2, FS_Surjection
<1> QED BY <1>3 DEF B

\* The frames of episodes H of s, for each those that indices has for its length.
Positions(s, H, indices) == UNION {{<<e, f>> : f \in indices[s[e + 1].len]} : e \in H}

\* If every choice of positions is finite and not empty, so is what they name,
\* which is of all the episodes and no others.
LEMMA PositionsAre ==
  ASSUME NEW s, NEW H, IsFiniteSet(H), H # {}, NEW indices,
         \A e \in H : IsFiniteSet(indices[s[e + 1].len]) /\ indices[s[e + 1].len] # {}
  PROVE  /\ IsFiniteSet(Positions(s, H, indices)) /\ Positions(s, H, indices) # {}
         /\ {r[1] : r \in Positions(s, H, indices)} = H
<1> DEFINE named == [e \in H |-> {<<e, f>> : f \in indices[s[e + 1].len]}]
           all == {named[e] : e \in H}
<1>1. Positions(s, H, indices) = UNION all
  BY DEF Positions
<1>2. ASSUME NEW e \in H PROVE IsFiniteSet(named[e])
  <2> DEFINE I == indices[s[e + 1].len]
             name == [f \in I |-> <<e, f>>]
  <2>1. IsFiniteSet(I) /\ named[e] = {name[f] : f \in I}
    OBVIOUS
  <2> HIDE DEF I, name, named
  <2> QED BY <2>1, ImageIsFinite
<1>3. \A r : r \in UNION all <=> \E e \in H : \E f \in indices[s[e + 1].len] : r = <<e, f>>
  OBVIOUS
<1> HIDE DEF named
<1>4. IsFiniteSet(all)
  BY ImageIsFinite
<1>5. IsFiniteSet(UNION all)
  <2>1. \A T \in all : IsFiniteSet(T)
    BY <1>2
  <2> HIDE DEF all
  <2> QED BY <1>4, <2>1, FS_UNION
<1> HIDE DEF all
<1>6. UNION all # {} /\ {r[1] : r \in UNION all} = H
  <2>1. ASSUME NEW e \in H PROVE \E r \in UNION all : r[1] = e
    <3>1. PICK f : f \in indices[s[e + 1].len]
      OBVIOUS
    <3>2. <<e, f>> \in UNION all
      BY <1>3, <3>1
    <3> QED BY <3>2
  <2>2. \A r \in UNION all : r[1] \in H
    BY <1>3
  <2> QED BY <2>1, <2>2
<1> QED BY <1>1, <1>5, <1>6

\* Division of a multiple.
LEMMA DivExact ==
  ASSUME NEW i \in Int, NEW n \in Nat \ {0}
  PROVE  (i * n) \div n = i
<1>1. PICK a \in Int : a = i * n
  OBVIOUS
<1>2. PICK q \in Int : q = a \div n
  BY <1>1
<1>3. q * n <= a /\ a < q * n + n /\ q * n \in Int
  BY <1>1, <1>2
<1>4. \A b \in Int, c \in Int : b < c => b * n + n <= c * n
  <2> SUFFICES ASSUME NEW b \in Int, NEW c \in Int, b < c PROVE b * n + n <= c * n
    OBVIOUS
  <2>1. (b + 1) * n <= c * n
    BY TimesMonotone
  <2>2. (b + 1) * n = b * n + n
    OBVIOUS
  <2> QED BY <2>1, <2>2
<1>5. ~(q < i)
  <2> SUFFICES ASSUME q < i PROVE FALSE
    OBVIOUS
  <2>1. q * n + n <= i * n
    BY <1>4
  <2> QED BY <1>1, <1>3, <2>1
<1>6. ~(i < q)
  <2> SUFFICES ASSUME i < q PROVE FALSE
    OBVIOUS
  <2>1. i * n + n <= q * n
    BY <1>4
  <2> QED BY <1>1, <1>3, <2>1
<1> QED BY <1>1, <1>2, <1>5, <1>6

\* With a frame or more per episode, both evaluations choose the same positions
\* of an episode, and some.
LEMMA ChoicesAgree ==
  ASSUME NEW len \in Nat \ {0}, NEW n \in Nat \ {0}
  PROVE  /\ ChosenFrames(len, n) = PickIndices(len, n)
         /\ IsFiniteSet(ChosenFrames(len, n)) /\ ChosenFrames(len, n) # {}
<1> DEFINE m == IF n < len THEN n ELSE len
           places(d) == {(i * len) \div d : i \in 0..(d - 1)}
<1>1. m \in Nat \ {0} /\ (n < len => m = n) /\ (n >= len => m = len)
  OBVIOUS
<1>2. ChosenFrames(len, n) = places(m)
  BY DEF ChosenFrames
<1>3. PickIndices(len, n) = IF n >= len THEN 0..(len - 1) ELSE places(n)
  BY DEF PickIndices
<1>4. places(len) = 0..(len - 1)
  <2>1. \A i \in 0..(len - 1) : (i * len) \div len = i
    BY DivExact
  <2> QED BY <2>1
<1> HIDE DEF m
<1>5. IsFiniteSet(places(m)) /\ places(m) # {}
  <2> DEFINE A == 0..(m - 1)
             place == [i \in A |-> (i * len) \div m]
  <2>1. IsFiniteSet(A) /\ 0 \in A
    BY <1>1, FS_Interval
  <2>2. places(m) = {place[i] : i \in A}
    OBVIOUS
  <2> HIDE DEF A, place, places
  <2>3. IsFiniteSet({place[i] : i \in A})
    BY <2>1, ImageIsFinite
  <2>4. place[0] \in {place[i] : i \in A}
    BY <2>1
  <2> QED BY <2>2, <2>3, <2>4
<1> HIDE DEF places
<1> QED BY <1>1, <1>2, <1>3, <1>4, <1>5

\* The documented verdict on equally many frames N: judge_cutover compares means,
\* which is to compare sums.
LEMMA MeansAreSums ==
  ASSUME NEW p \in Nat, NEW e \in Nat, NEW N \in Nat \ {0}
  PROVE  5 * (e * N - p * N) <= p * N <=> 5 * e <= 6 * p
<1> DEFINE x == 6 * p - 5 * e
<1>1. x \in Int /\ (5 * (e * N - p * N) <= p * N <=> x * N >= 0)
  <2>1. x * N = 6 * (p * N) - 5 * (e * N)
    OBVIOUS
  <2>2. p * N \in Int /\ e * N \in Int /\ x \in Int
    OBVIOUS
  <2> QED BY <2>1, <2>2
<1>2. x >= 0 <=> 5 * e <= 6 * p
  OBVIOUS
<1> HIDE DEF x
<1>3. x * N >= 0 <=> x >= 0
  <2>1. CASE x >= 0
    BY <1>1, <2>1
  <2>2. CASE x < 0
    <3>1. (-x) * N > 0
      BY <1>1, <2>2
    <3>2. x * N = -((-x) * N)
      BY <1>1
    <3> QED BY <1>1, <2>2, <3>1, <3>2
  <2> QED BY <1>1, <2>1, <2>2
<1> QED BY <1>1, <1>2, <1>3

----------------------------------------------------------------------------
(* The gate's invariant: what a run has established by the time it is at a *)
(* stage, in terms of this run's number and split alone.                   *)

WithResults == {"judge", "writing_report"}
WithPythonResult == {"eval_elixir", "writing_eval", "read_eval"} \cup WithResults
WithPolicies == {"eval_python"} \cup WithPythonResult
WithPythonPolicy == {"clear_elixir", "train_elixir", "find_elixir"} \cup WithPolicies
WithCopy == {"clear_python", "train_python", "find_python"} \cup WithPythonPolicy
WithSplit == {"dataset", "building"} \cup WithCopy
Stages == {"idle", "split"} \cup WithSplit

GateTypeOK ==
  /\ source \in Sources /\ run \in Nat /\ stage \in Stages
  /\ DOMAIN out = Trainers /\ DOMAIN chosen = Trainers /\ DOMAIN results = Trainers

\* A checkpoint of run r, trained on episodes of S only.
TrainedBy(c, r, S) == c.run = r /\ \A x \in c.seen : x[1] \in S

\* The evaluation, by run r, of such a checkpoint on the frames.
EvaluatedBy(e, r, S, frames) ==
  /\ e.run = r /\ TrainedBy(e.policy, r, S)
  /\ e.frames = frames /\ e.error \in Nat /\ e.speed \in Nat \ {0}

\* The settings, the split and the copy are this run's.
RunInv ==
  /\ stage # "idle" => config \in Configs /\ total = Len(source)
  /\ stage \in WithSplit => split = "returned"
  /\ stage \in WithCopy => dataset = TrainOnly(source, Train)
  /\ stage \in WithPythonResult => config.frames # 0

\* A trainer writes into an empty directory; what is then found there, and what
\* was chosen, is this run's.  While the episodes are being split nothing is
\* chosen yet.
PolicyInv ==
  /\ stage = "train_python" => out["python"] = {}
  /\ stage = "train_elixir" => out["elixir"] = {}
  /\ stage = "find_python" => \A c \in out["python"] : TrainedBy(c, run, Train)
  /\ stage = "find_elixir" => \A c \in out["elixir"] : TrainedBy(c, run, Train)
  /\ stage = "split" => \A t \in Trainers : chosen[t] = None
  /\ \A t \in Trainers : chosen[t] = None \/ TrainedBy(chosen[t], run, Train)
  /\ stage \in WithPythonPolicy => TrainedBy(chosen["python"], run, Train)
  /\ stage \in WithPolicies => TrainedBy(chosen["elixir"], run, Train)

\* Both results are of this run's policies; the file that carries the second one
\* is only read where this run's script has written it.
ResultInv ==
  /\ stage \in WithPythonResult => EvaluatedBy(results["python"], run, Train, FramesOfPython)
  /\ stage = "read_eval" => EvaluatedBy(evalJson, run, Train, FramesOfElixir)
  /\ stage \in WithResults => EvaluatedBy(results["elixir"], run, Train, FramesOfElixir)

StageInv == GateTypeOK /\ SplitInv /\ RunInv /\ PolicyInv /\ ResultInv

GateInv == StageInv /\ ReportOfOneRun /\ VerdictIsFair

----------------------------------------------------------------------------
(* What is the same for many actions.                                      *)

\* Only Starts and the loop of split_episodes change what a run is about.
SameRun == UNCHANGED <<splitVars, source, run, config>>

LEMMA SameRunKeeps ==
  ASSUME SplitInv, SameRun
  PROVE  /\ SplitInv' /\ Train' = Train
         /\ FramesOfPython' = FramesOfPython /\ FramesOfElixir' = FramesOfElixir
<1>1. UNCHANGED <<total, nHoldout, holdout, idx, split, source, run, config>>
  BY DEF SameRun, splitVars
<1>2. SplitInv'
  BY <1>1 DEF SplitInv, SplitTypeOK, PickInv, ReturnInv
<1>3. Train' = Train
  BY <1>1 DEF Train
<1>4. Lengths' = Lengths
  BY <1>1 DEF Lengths
<1>5. \A indices : OnEpisodes(indices)' = OnEpisodes(indices)
  BY <1>1 DEF OnEpisodes
<1>6. FramesOfPython' = FramesOfPython /\ FramesOfElixir' = FramesOfElixir
  BY <1>1, <1>4 DEF FramesOfPython, FramesOfElixir, OnEpisodes
<1> QED BY <1>2, <1>3, <1>6

\* A run that ends, however it does, leaves the disk behind and no claims.
LEMMA EndKeeps ==
  ASSUME StageInv, stage' = "idle", split' \in {split, "raised"},
         UNCHANGED <<total, nHoldout, holdout, idx, source, run, out, chosen, results>>
  PROVE  StageInv'
<1>1. GateTypeOK'
  BY DEF StageInv, GateTypeOK, Stages
<1>2. SplitInv'
  BY DEF StageInv, SplitInv, SplitTypeOK, PickInv, ReturnInv
<1>3. RunInv' /\ ResultInv'
  BY DEF RunInv, ResultInv, WithSplit, WithCopy, WithPythonPolicy, WithPolicies,
         WithPythonResult, WithResults
<1>4. PolicyInv'
  <2>1. Train' = Train
    BY DEF Train
  <2> QED BY <2>1 DEF StageInv, PolicyInv, WithPythonPolicy, WithPolicies, WithPythonResult,
                      WithResults
<1> QED BY <1>1, <1>2, <1>3, <1>4 DEF StageInv

\* The report speaks of the run that wrote it: it can only be written wrongly.
LEMMA ReportKeeps ==
  ASSUME ReportOfOneRun, VerdictIsFair, report' = report \/ report' = Torn
  PROVE  ReportOfOneRun' /\ VerdictIsFair'
  BY DEF ReportOfOneRun, VerdictIsFair, Reported

\* The order of main().
LEMMA AfterIs ==
  /\ After["split"] = "dataset" /\ After["dataset"] = "building"
  /\ After["building"] = "clear_python"
  /\ After["clear_python"] = "train_python" /\ After["train_python"] = "find_python"
  /\ After["find_python"] = "clear_elixir"
  /\ After["clear_elixir"] = "train_elixir" /\ After["train_elixir"] = "find_elixir"
  /\ After["find_elixir"] = "eval_python" /\ After["eval_python"] = "eval_elixir"
  /\ After["eval_elixir"] = "writing_eval" /\ After["writing_eval"] = "read_eval"
  /\ After["read_eval"] = "judge" /\ After["judge"] = "writing_report"
  /\ After["writing_report"] = "idle"
  BY DEF After

\* The source is a dataset, and while a run is on, the split is of it.
LEMMA SplitOfSource ==
  ASSUME StageInv, stage \in WithSplit
  PROVE  /\ IsSource(source) /\ IsTrain(source, Train)
         /\ Range(holdout) \subseteq 0..(Len(source) - 1)
         /\ IsFiniteSet(Range(holdout)) /\ Range(holdout) # {}
         /\ Range(holdout) \cap Train = {}
<1>1. IsSource(source)
  BY GateAssumption DEF StageInv, GateTypeOK, IsSource, SourceEpisode
<1>2. Len(source) \in Nat
  BY <1>1 DEF IsSource
<1>3. total = Len(source) /\ split = "returned"
  BY DEF StageInv, RunInv, WithSplit, WithCopy, WithPythonPolicy, WithPolicies,
         WithPythonResult, WithResults
<1>4. Range(holdout) \subseteq 0..(Len(source) - 1)
  BY <1>3, ReturnsPartition DEF StageInv, SplitIsPartition
<1>5. IsFiniteSet(Range(holdout))
  <2>1. IsFiniteSet(0..(Len(source) - 1))
    BY <1>2, FS_Interval
  <2> QED BY <1>4, <2>1, FS_Subset
<1>6. Range(holdout) # {}
  <2>1. holdout \in Seq(Nat) /\ Len(holdout) = nHoldout /\ nHoldout > 0 /\ nHoldout \in Int
    BY <1>3 DEF StageInv, SplitInv, SplitTypeOK, PickInv, ReturnInv
  <2>2. 1 \in DOMAIN holdout
    BY <2>1
  <2> QED BY <2>2 DEF Range
<1> QED BY <1>1, <1>3, <1>4, <1>5, <1>6 DEF Train, IsTrain

\* Nobody sees a held-out frame while the copy is the current one.
LEMMA SeenIsTrain ==
  ASSUME StageInv, stage \in WithCopy, NEW t \in Trainers
  PROVE  \A x \in Seen(t) : x[1] \in Train
<1>1. stage \in WithSplit /\ dataset = TrainOnly(source, Train)
  BY DEF StageInv, RunInv, WithSplit
<1>2. IsSource(source) /\ IsTrain(source, Train)
  BY <1>1, SplitOfSource
<1>3. /\ \A x \in SeenByPython(dataset) : x[1] \in Train
      /\ \A x \in SeenByElixir(dataset) : x[1] \in Train
  BY <1>1, <1>2, SeenOfTrain
<1> QED BY <1>3 DEF Seen

\* The two evaluations use the same frames, of every held-out episode and of no
\* other.
LEMMA FramesOfBoth ==
  ASSUME StageInv, stage \in WithPythonResult
  PROVE  /\ FramesOfElixir = FramesOfPython
         /\ IsFiniteSet(FramesOfPython) /\ FramesOfPython # {}
         /\ {f[1] : f \in FramesOfPython} = Range(holdout)
<1> DEFINE n == config.frames
           H == Range(holdout)
           python == [len \in Lengths |-> ChosenFrames(len, n)]
           elixir == [len \in Lengths |-> PickIndices(len, n)]
<1>1. stage \in WithSplit /\ stage # "idle" /\ config.frames # 0 /\ config \in Configs
  BY DEF StageInv, RunInv, WithSplit, WithCopy, WithPythonPolicy, WithPolicies,
         WithPythonResult, WithResults
<1>2. n \in Nat \ {0}
  BY <1>1, GateAssumption
<1>3. /\ IsSource(source) /\ H \subseteq 0..(Len(source) - 1)
      /\ IsFiniteSet(H) /\ H # {}
  BY <1>1, SplitOfSource
<1>4. ASSUME NEW e \in H PROVE source[e + 1].len \in Nat \ {0} /\ source[e + 1].len \in Lengths
  <2>1. IsTrain(source, H)
    BY <1>3 DEF IsTrain
  <2>2. Length(source, e) \in Nat \ {0}
    BY <1>3, <2>1, TrainIsOfSource
  <2> QED BY <2>2 DEF Length, Lengths
<1>5. \A len \in Lengths : len \in Nat \ {0}
  BY <1>4 DEF Lengths
<1>6. \A len \in Lengths : /\ ChosenFrames(len, n) = PickIndices(len, n)
                           /\ IsFiniteSet(ChosenFrames(len, n)) /\ ChosenFrames(len, n) # {}
  BY <1>2, <1>5, ChoicesAgree
<1>7. elixir = python
  BY <1>6
<1>8. \A e \in H : /\ IsFiniteSet(python[source[e + 1].len])
                   /\ python[source[e + 1].len] # {}
  BY <1>4, <1>6
<1>9. /\ FramesOfPython = Positions(source, H, python)
      /\ FramesOfElixir = Positions(source, H, elixir)
  BY DEF FramesOfPython, FramesOfElixir, OnEpisodes, Positions
<1> HIDE DEF H, n, python, elixir
<1>10. /\ IsFiniteSet(Positions(source, H, python)) /\ Positions(source, H, python) # {}
       /\ {r[1] : r \in Positions(source, H, python)} = H
  BY <1>3, <1>8, PositionsAre
<1> QED BY <1>7, <1>9, <1>10 DEF H

----------------------------------------------------------------------------
(* The actions.                                                            *)

\* A run begins: a new split, nothing chosen, whatever the disk holds.
LEMMA StartsKeeps ==
  ASSUME StageInv, NEW n \in Holdouts, NEW c \in Configs, Starts(n, c)
  PROVE  StageInv' /\ report' = report
<1>1. /\ Call(Len(source), n) /\ total' = Len(source)
      /\ run' = run + 1 /\ config' = c /\ stage' = "split"
      /\ chosen' = [t \in Trainers |-> None] /\ results' = [t \in Trainers |-> None]
      /\ UNCHANGED <<source, dataset, out, evalJson, report>>
  BY DEF Starts, Call, disk
<1>2. Len(source) \in Int /\ n \in Int
  <2>1. source \in Seq(SourceEpisode)
    BY GateAssumption DEF StageInv, GateTypeOK, SourceEpisode
  <2> QED BY <2>1, SplitAssumption
<1>3. SplitInv'
  BY <1>1, <1>2, CallKeepsSplitInv DEF StageInv
<1>4. GateTypeOK'
  BY <1>1 DEF StageInv, GateTypeOK, Stages
<1>5. RunInv' /\ PolicyInv' /\ ResultInv'
  BY <1>1 DEF RunInv, PolicyInv, ResultInv, WithSplit, WithCopy, WithPythonPolicy,
              WithPolicies, WithPythonResult, WithResults
<1> QED BY <1>1, <1>3, <1>4, <1>5 DEF StageInv

\* The episodes are being split while nothing is chosen that the split could
\* contradict.
LEMMA SplitPicksKeeps ==
  ASSUME StageInv, SplitPicks
  PROVE  StageInv' /\ report' = report
<1>1. /\ stage = "split" /\ Pick /\ total' = total
      /\ UNCHANGED <<source, run, stage, dataset, out, evalJson, report, config, chosen, results>>
  BY DEF SplitPicks, Pick, gateVars, disk, memory
<1>2. SplitInv'
  BY <1>1, PickKeepsSplitInv DEF StageInv
<1>3. GateTypeOK'
  BY <1>1 DEF StageInv, GateTypeOK
<1>4. RunInv' /\ PolicyInv' /\ ResultInv'
  BY <1>1 DEF StageInv, RunInv, PolicyInv, ResultInv, WithSplit, WithCopy, WithPythonPolicy,
              WithPolicies, WithPythonResult, WithResults
<1> QED BY <1>1, <1>2, <1>3, <1>4 DEF StageInv

LEMMA SplitReturnsKeeps ==
  ASSUME StageInv, SplitReturns
  PROVE  StageInv' /\ report' = report
<1>1. /\ stage = "split" /\ stage' = "dataset" /\ Return
      /\ split' = "returned" /\ UNCHANGED <<total, holdout>>
      /\ UNCHANGED <<source, run, dataset, out, evalJson, report, config, chosen, results>>
  BY AfterIs DEF SplitReturns, Advance, Return, disk, memory
<1>2. SplitInv'
  BY <1>1, ReturnKeepsSplitInv DEF StageInv
<1>3. GateTypeOK'
  BY <1>1 DEF StageInv, GateTypeOK, Stages, WithSplit
<1>4. RunInv' /\ ResultInv'
  BY <1>1 DEF StageInv, RunInv, ResultInv, WithSplit, WithCopy, WithPythonPolicy,
              WithPolicies, WithPythonResult, WithResults
<1>5. PolicyInv'
  BY <1>1 DEF StageInv, PolicyInv, WithPythonPolicy, WithPolicies, WithPythonResult, WithResults
<1> QED BY <1>1, <1>2, <1>3, <1>4, <1>5 DEF StageInv

\* Between two stages of the same run with the same results.
LEMMA ResultsStay ==
  ASSUME StageInv, SameRun, UNCHANGED results, evalJson' = evalJson \/ stage' # "read_eval",
         stage' \in WithPythonResult => stage \in WithPythonResult,
         stage' = "read_eval" => stage = "read_eval",
         stage' \in WithResults => stage \in WithResults
  PROVE  ResultInv'
<1>1. /\ Train' = Train /\ run' = run
      /\ FramesOfPython' = FramesOfPython /\ FramesOfElixir' = FramesOfElixir
  BY SameRunKeeps DEF StageInv, SameRun
<1> QED BY <1>1 DEF StageInv, ResultInv

\* Removing the copy and building it anew.
LEMMA DatasetKeeps ==
  ASSUME StageInv, RemoveDataset \/ BuildDataset
  PROVE  StageInv' /\ report' = report
<1>1. /\ SameRun /\ UNCHANGED <<out, evalJson, report, chosen, results>>
      /\ \/ stage = "dataset" /\ stage' = "building"
         \/ /\ stage = "building" /\ stage' = "clear_python"
            /\ dataset' = TrainOnly(source, Train)
  BY AfterIs DEF RemoveDataset, BuildDataset, Advance, SameRun, memory
<1>2. UNCHANGED <<total, split, source, run, config>>
  BY <1>1 DEF SameRun, splitVars
<1>3. SplitInv' /\ Train' = Train
  BY <1>1, SameRunKeeps DEF StageInv
<1>4. GateTypeOK'
  BY <1>1, <1>2 DEF StageInv, GateTypeOK, Stages, WithSplit, WithCopy
<1>5. RunInv' /\ PolicyInv'
  BY <1>1, <1>2, <1>3 DEF StageInv, RunInv, PolicyInv, WithSplit, WithCopy, WithPythonPolicy,
                          WithPolicies, WithPythonResult, WithResults
<1>6. ResultInv'
  BY <1>1, ResultsStay DEF WithPythonResult, WithResults
<1> QED BY <1>1, <1>3, <1>4, <1>5, <1>6 DEF StageInv

\* What earlier runs left in an output directory is gone.
LEMMA ClearKeeps ==
  ASSUME StageInv, NEW t \in Trainers, Clear(t)
  PROVE  StageInv' /\ report' = report
<1>1. /\ SameRun /\ UNCHANGED <<dataset, evalJson, report, chosen, results>>
      /\ out' = [out EXCEPT ![t] = {}]
      /\ \/ t = "python" /\ stage = "clear_python" /\ stage' = "train_python"
         \/ t = "elixir" /\ stage = "clear_elixir" /\ stage' = "train_elixir"
  BY AfterIs DEF Clear, Stage, Advance, SameRun, memory, Trainers
<1>2. UNCHANGED <<total, split, source, run, config>>
  BY <1>1 DEF SameRun, splitVars
<1>3. SplitInv' /\ Train' = Train
  BY <1>1, SameRunKeeps DEF StageInv
<1>4. DOMAIN out = Trainers /\ out'[t] = {}
  BY <1>1 DEF StageInv, GateTypeOK
<1>5. GateTypeOK'
  BY <1>1, <1>2 DEF StageInv, GateTypeOK, Stages, WithSplit, WithCopy, WithPythonPolicy
<1>6. RunInv'
  BY <1>1, <1>2, <1>3 DEF StageInv, RunInv, WithSplit, WithCopy, WithPythonPolicy,
                          WithPolicies, WithPythonResult, WithResults
<1>7. PolicyInv'
  BY <1>1, <1>2, <1>3, <1>4 DEF StageInv, PolicyInv, WithPythonPolicy, WithPolicies,
                                WithPythonResult, WithResults
<1>8. ResultInv'
  BY <1>1, ResultsStay DEF WithPythonResult, WithResults
<1> QED BY <1>1, <1>3, <1>5, <1>6, <1>7, <1>8 DEF StageInv

\* The one checkpoint in the directory is of this run and of its training set.
LEMMA TrainerSavesKeeps ==
  ASSUME StageInv, NEW t \in Trainers, TrainerSaves(t)
  PROVE  StageInv' /\ report' = report
<1> DEFINE saved == [step |-> config.steps, run |-> run, seen |-> Seen(t)]
<1>1. /\ SameRun /\ UNCHANGED <<dataset, evalJson, report, chosen, results>>
      /\ out' = [out EXCEPT ![t] = {c \in @ : c.step # config.steps} \cup {saved}]
      /\ \/ t = "python" /\ stage = "train_python" /\ stage' = "find_python"
         \/ t = "elixir" /\ stage = "train_elixir" /\ stage' = "find_elixir"
  BY AfterIs DEF TrainerSaves, Stage, Advance, SameRun, memory, Trainers
<1>2. UNCHANGED <<total, split, source, run, config>>
  BY <1>1 DEF SameRun, splitVars
<1>3. SplitInv' /\ Train' = Train
  BY <1>1, SameRunKeeps DEF StageInv
<1>4. TrainedBy(saved, run, Train)
  <2>1. stage \in WithCopy
    BY <1>1 DEF WithCopy, WithPythonPolicy
  <2>2. \A x \in Seen(t) : x[1] \in Train
    BY <2>1, SeenIsTrain
  <2> QED BY <2>2 DEF TrainedBy
<1> HIDE DEF saved
<1>5. out'[t] = {saved}
  <2>1. DOMAIN out = Trainers /\ out[t] = {}
    BY <1>1 DEF StageInv, GateTypeOK, PolicyInv
  <2> QED BY <1>1, <2>1
<1>6. GateTypeOK'
  BY <1>1, <1>2 DEF StageInv, GateTypeOK, Stages, WithSplit, WithCopy, WithPythonPolicy
<1>7. RunInv'
  BY <1>1, <1>2, <1>3 DEF StageInv, RunInv, WithSplit, WithCopy, WithPythonPolicy,
                          WithPolicies, WithPythonResult, WithResults
<1>8. PolicyInv'
  BY <1>1, <1>2, <1>3, <1>4, <1>5 DEF StageInv, PolicyInv, WithPythonPolicy, WithPolicies,
                                      WithPythonResult, WithResults
<1>9. ResultInv'
  BY <1>1, ResultsStay DEF WithPythonResult, WithResults
<1> QED BY <1>1, <1>3, <1>6, <1>7, <1>8, <1>9 DEF StageInv

\* Whichever checkpoint is the last by its name, it is of this run.
LEMMA FindLastStepDirKeeps ==
  ASSUME StageInv, NEW t \in Trainers, FindLastStepDir(t)
  PROVE  StageInv' /\ report' = report
<1>1. /\ SameRun /\ UNCHANGED <<dataset, out, evalJson, report, results>>
      /\ \E c \in out[t] : chosen' = [chosen EXCEPT ![t] = c]
      /\ \/ t = "python" /\ stage = "find_python" /\ stage' = "clear_elixir"
         \/ t = "elixir" /\ stage = "find_elixir" /\ stage' = "eval_python"
  BY AfterIs DEF FindLastStepDir, Stage, Advance, SameRun, disk, Trainers
<1>2. UNCHANGED <<total, split, source, run, config>>
  BY <1>1 DEF SameRun, splitVars
<1>3. SplitInv' /\ Train' = Train
  BY <1>1, SameRunKeeps DEF StageInv
<1>4. PICK c \in out[t] : chosen' = [chosen EXCEPT ![t] = c]
  BY <1>1
<1>5. TrainedBy(c, run, Train)
  BY <1>1 DEF StageInv, PolicyInv
<1>6. /\ DOMAIN chosen = Trainers /\ DOMAIN chosen' = Trainers /\ chosen'[t] = c
      /\ \A u \in Trainers : u # t => chosen'[u] = chosen[u]
  BY <1>4 DEF StageInv, GateTypeOK
<1>7. GateTypeOK'
  BY <1>1, <1>2, <1>6 DEF StageInv, GateTypeOK, Stages, WithSplit, WithCopy, WithPythonPolicy,
                          WithPolicies
<1>8. RunInv'
  BY <1>1, <1>2, <1>3 DEF StageInv, RunInv, WithSplit, WithCopy, WithPythonPolicy,
                          WithPolicies, WithPythonResult, WithResults
<1>9. PolicyInv'
  BY <1>1, <1>2, <1>3, <1>5, <1>6 DEF StageInv, PolicyInv, WithPythonPolicy, WithPolicies,
                                      WithPythonResult, WithResults, Trainers
<1>10. ResultInv'
  BY <1>1, ResultsStay DEF WithPythonResult, WithResults
<1> QED BY <1>1, <1>3, <1>7, <1>8, <1>9, <1>10 DEF StageInv

\* A result of a policy of this run is an evaluation of this run.
LEMMA ResultIsEvaluation ==
  ASSUME NEW t \in Trainers, TrainedBy(chosen[t], run, Train), NEW frames,
         NEW error \in Nat, NEW speed \in Nat \ {0}
  PROVE  EvaluatedBy(Result(t, Accuracy(frames, error), speed), run, Train, frames)
  BY DEF EvaluatedBy, Result, Accuracy

\* Beyond the choice of the policies, only results change.
LEMMA PolicyStays ==
  ASSUME StageInv, SameRun, UNCHANGED <<dataset, chosen>>, stage \in WithPolicies,
         stage' \in WithPolicies
  PROVE  PolicyInv'
<1>1. Train' = Train /\ UNCHANGED <<run, chosen>>
  BY SameRunKeeps DEF StageInv, SameRun
<1>2. stage \in WithPythonPolicy
  BY DEF WithPythonPolicy
<1>3. stage' \notin {"train_python", "train_elixir", "find_python", "find_elixir", "split"}
  BY DEF WithPolicies, WithPythonResult, WithResults
<1> QED BY <1>1, <1>2, <1>3 DEF StageInv, PolicyInv

LEMMA EvaluatePythonKeeps ==
  ASSUME StageInv, EvaluatePython
  PROVE  StageInv' /\ report' = report
<1>1. /\ SameRun /\ UNCHANGED <<dataset, out, evalJson, report, chosen>>
      /\ stage = "eval_python" /\ stage' = "eval_elixir" /\ config.frames > 0
      /\ \E e \in Errors["python"], s \in Speeds["python"] :
           results' = [results EXCEPT !["python"] =
                         Result("python", Accuracy(FramesOfPython, e), s)]
  BY AfterIs DEF EvaluatePython, Advance, SameRun, disk
<1>2. UNCHANGED <<total, split, source, run, config>>
  BY <1>1 DEF SameRun, splitVars
<1>3. SplitInv' /\ Train' = Train /\ FramesOfPython' = FramesOfPython
  BY <1>1, SameRunKeeps DEF StageInv
<1>4. PICK e \in Errors["python"], s \in Speeds["python"] :
        results' = [results EXCEPT !["python"] = Result("python", Accuracy(FramesOfPython, e), s)]
  BY <1>1
<1>5. e \in Nat /\ s \in Nat \ {0}
  BY GateAssumption DEF Trainers
<1>6. stage \in WithPolicies /\ stage' \in WithPolicies /\ stage' \notin WithResults
  BY <1>1 DEF WithPolicies, WithPythonResult, WithResults
<1>7. EvaluatedBy(Result("python", Accuracy(FramesOfPython, e), s), run, Train, FramesOfPython)
  <2>1. TrainedBy(chosen["python"], run, Train)
    BY <1>6 DEF StageInv, PolicyInv, WithPythonPolicy
  <2> QED BY <1>5, <2>1, ResultIsEvaluation DEF Trainers
<1>8. /\ DOMAIN results' = Trainers
      /\ results'["python"] = Result("python", Accuracy(FramesOfPython, e), s)
  BY <1>4 DEF StageInv, GateTypeOK, Trainers
<1>9. GateTypeOK'
  BY <1>1, <1>2, <1>8 DEF StageInv, GateTypeOK, Stages, WithSplit, WithCopy, WithPythonPolicy,
                          WithPolicies, WithPythonResult
<1>10. RunInv'
  <2>1. config.frames # 0
    BY <1>1
  <2> QED BY <1>1, <1>2, <1>3, <2>1 DEF StageInv, RunInv, WithSplit, WithCopy,
             WithPythonPolicy, WithPolicies, WithPythonResult, WithResults
<1>11. PolicyInv'
  BY <1>1, <1>6, PolicyStays
<1>12. ResultInv'
  BY <1>1, <1>2, <1>3, <1>6, <1>7, <1>8 DEF ResultInv
<1> QED BY <1>1, <1>3, <1>9, <1>10, <1>11, <1>12 DEF StageInv

\* The script writes the evaluation of this run's policy over whatever was there.
LEMMA ScriptKeeps ==
  ASSUME StageInv, ScriptTruncates \/ ScriptWrites
  PROVE  StageInv' /\ report' = report
<1>1. /\ SameRun /\ UNCHANGED <<dataset, out, report, chosen, results>>
      /\ \/ stage = "eval_elixir" /\ stage' = "writing_eval"
         \/ /\ stage = "writing_eval" /\ stage' = "read_eval"
            /\ \E e \in Errors["elixir"], s \in Speeds["elixir"] :
                 evalJson' = Result("elixir", Accuracy(FramesOfElixir, e), s)
  BY AfterIs DEF ScriptTruncates, ScriptWrites, AfterScript, Advance, SameRun, memory
<1>2. UNCHANGED <<total, split, source, run, config>>
  BY <1>1 DEF SameRun, splitVars
<1>3. /\ SplitInv' /\ Train' = Train
      /\ FramesOfPython' = FramesOfPython /\ FramesOfElixir' = FramesOfElixir
  BY <1>1, SameRunKeeps DEF StageInv
<1>4. /\ stage \in WithPolicies /\ stage' \in WithPolicies
      /\ stage \in WithPythonResult /\ stage' \in WithPythonResult /\ stage' \notin WithResults
  BY <1>1 DEF WithPolicies, WithPythonResult, WithResults
<1>5. ASSUME stage' = "read_eval" PROVE EvaluatedBy(evalJson', run, Train, FramesOfElixir)
  <2>1. PICK e \in Errors["elixir"], s \in Speeds["elixir"] :
          evalJson' = Result("elixir", Accuracy(FramesOfElixir, e), s)
    BY <1>1, <1>5
  <2>2. e \in Nat /\ s \in Nat \ {0}
    BY GateAssumption DEF Trainers
  <2>3. TrainedBy(chosen["elixir"], run, Train)
    BY <1>4 DEF StageInv, PolicyInv
  <2> QED BY <2>1, <2>2, <2>3, ResultIsEvaluation DEF Trainers
<1>6. GateTypeOK'
  BY <1>1, <1>2 DEF StageInv, GateTypeOK, Stages, WithSplit, WithCopy, WithPythonPolicy,
                    WithPolicies, WithPythonResult
<1>7. RunInv'
  BY <1>1, <1>2, <1>3 DEF StageInv, RunInv, WithSplit, WithCopy, WithPythonPolicy,
                          WithPolicies, WithPythonResult, WithResults
<1>8. PolicyInv'
  BY <1>1, <1>4, PolicyStays
<1>9. ResultInv'
  BY <1>1, <1>2, <1>3, <1>4, <1>5 DEF StageInv, ResultInv
<1> QED BY <1>1, <1>3, <1>6, <1>7, <1>8, <1>9 DEF StageInv

LEMMA ReadEvalKeeps ==
  ASSUME StageInv, ReadEval
  PROVE  StageInv' /\ report' = report
<1>1. /\ SameRun /\ UNCHANGED <<dataset, out, evalJson, report, chosen>>
      /\ stage = "read_eval" /\ stage' = "judge"
      /\ results' = [results EXCEPT !["elixir"] = evalJson]
  BY AfterIs DEF ReadEval, Advance, SameRun, disk
<1>2. UNCHANGED <<total, split, source, run, config>>
  BY <1>1 DEF SameRun, splitVars
<1>3. /\ SplitInv' /\ Train' = Train
      /\ FramesOfPython' = FramesOfPython /\ FramesOfElixir' = FramesOfElixir
  BY <1>1, SameRunKeeps DEF StageInv
<1>4. stage \in WithPolicies /\ stage' \in WithPolicies /\ stage \in WithPythonResult
  BY <1>1 DEF WithPolicies, WithPythonResult, WithResults
<1>5. /\ DOMAIN results' = Trainers /\ results'["elixir"] = evalJson
      /\ results'["python"] = results["python"]
  BY <1>1 DEF StageInv, GateTypeOK, Trainers
<1>6. GateTypeOK'
  BY <1>1, <1>2, <1>5 DEF StageInv, GateTypeOK, Stages, WithSplit, WithCopy, WithPythonPolicy,
                          WithPolicies, WithPythonResult, WithResults
<1>7. RunInv'
  BY <1>1, <1>2, <1>3 DEF StageInv, RunInv, WithSplit, WithCopy, WithPythonPolicy,
                          WithPolicies, WithPythonResult, WithResults
<1>8. PolicyInv'
  BY <1>1, <1>4, PolicyStays
<1>9. ResultInv'
  BY <1>1, <1>2, <1>3, <1>4, <1>5 DEF StageInv, ResultInv
<1> QED BY <1>1, <1>3, <1>6, <1>7, <1>8, <1>9 DEF StageInv

LEMMA JudgeKeeps ==
  ASSUME StageInv, Judge
  PROVE  StageInv' /\ report' = Torn
<1>1. /\ SameRun /\ UNCHANGED <<dataset, out, evalJson, chosen, results>>
      /\ stage = "judge" /\ stage' = "writing_report" /\ report' = Torn
  BY AfterIs DEF Judge, Advance, SameRun, memory
<1>2. UNCHANGED <<total, split, source, run, config>>
  BY <1>1 DEF SameRun, splitVars
<1>3. SplitInv' /\ Train' = Train
  BY <1>1, SameRunKeeps DEF StageInv
<1>4. /\ stage \in WithPolicies /\ stage' \in WithPolicies
      /\ stage \in WithPythonResult /\ stage \in WithResults
  BY <1>1 DEF WithPolicies, WithPythonResult, WithResults
<1>5. GateTypeOK'
  BY <1>1, <1>2 DEF StageInv, GateTypeOK, Stages, WithSplit, WithCopy, WithPythonPolicy,
                    WithPolicies, WithPythonResult, WithResults
<1>6. RunInv'
  BY <1>1, <1>2, <1>3 DEF StageInv, RunInv, WithSplit, WithCopy, WithPythonPolicy,
                          WithPolicies, WithPythonResult, WithResults
<1>7. PolicyInv'
  BY <1>1, <1>4, PolicyStays
<1>8. ResultInv'
  BY <1>1, <1>4, ResultsStay
<1> QED BY <1>1, <1>3, <1>5, <1>6, <1>7, <1>8 DEF StageInv

\* What is reported is what the results of this run say.
LEMMA WriteReportIsFair ==
  ASSUME StageInv, WriteReport
  PROVE  StageInv' /\ ReportOfOneRun' /\ VerdictIsFair'
<1>1. /\ stage = "writing_report" /\ stage' = "idle"
      /\ report' = [run |-> run, train |-> Train, holdout |-> Range(holdout),
                    config |-> config, results |-> results,
                    passes |-> AccuracyPasses /\ ThroughputPasses]
      /\ UNCHANGED <<splitVars, source, run, dataset, out, evalJson, chosen, results>>
  BY AfterIs DEF WriteReport, Advance, memory
<1>2. StageInv'
  BY <1>1, EndKeeps DEF splitVars
<1>3. stage \in WithPythonResult /\ stage \in WithResults
  BY <1>1 DEF WithPythonResult, WithResults
<1>4. /\ EvaluatedBy(results["python"], run, Train, FramesOfPython)
      /\ EvaluatedBy(results["elixir"], run, Train, FramesOfPython)
      /\ IsFiniteSet(FramesOfPython) /\ FramesOfPython # {}
      /\ {f[1] : f \in FramesOfPython} = Range(holdout)
  BY <1>3, FramesOfBoth DEF StageInv, ResultInv
<1>5. ReportOfOneRun'
  <2>1. /\ report'.run = run /\ report'.train = Train /\ report'.holdout = Range(holdout)
        /\ report'.results = results
    BY <1>1
  <2>2. ASSUME NEW t \in Trainers
        PROVE  /\ results[t].run = run /\ results[t].policy.run = run
               /\ {f[1] : f \in results[t].frames} = Range(holdout)
               /\ {f[1] : f \in results[t].policy.seen} \subseteq Train
    <3>1. EvaluatedBy(results[t], run, Train, FramesOfPython)
      BY <1>4 DEF Trainers
    <3> QED BY <1>4, <3>1 DEF EvaluatedBy, TrainedBy
  <2> QED BY <2>1, <2>2 DEF ReportOfOneRun
<1>6. VerdictIsFair'
  <2> DEFINE p == results["python"]
             e == results["elixir"]
             N == Cardinality(FramesOfPython)
  <2>1. /\ p.frames = FramesOfPython /\ e.frames = FramesOfPython
        /\ p.error \in Nat /\ e.error \in Nat
    BY <1>4 DEF EvaluatedBy
  <2>2. N \in Nat \ {0}
    BY <1>4, FS_CardinalityType, FS_EmptySet
  <2>3. AccuracyPasses <=> 5 * (e.error * N - p.error * N) <= p.error * N
    BY <2>1 DEF AccuracyPasses, PythonMean, ElixirMean, Python, Elixir
  <2>4. AccuracyPasses <=> 5 * e.error <= 6 * p.error
    BY <2>1, <2>2, <2>3, MeansAreSums
  <2>5. ThroughputPasses <=> 10 * e.speed >= p.speed
    BY DEF ThroughputPasses, Python, Elixir
  <2>6. report'.results = results /\ report'.passes = (AccuracyPasses /\ ThroughputPasses)
    BY <1>1
  <2> HIDE DEF N
  <2> QED BY <2>1, <2>4, <2>5, <2>6 DEF VerdictIsFair
<1> QED BY <1>2, <1>5, <1>6

----------------------------------------------------------------------------
(* The theorems about the gate.                                            *)

LEMMA GateInitInv == GateInit => GateInv
<1> SUFFICES ASSUME GateInit PROVE GateInv
  OBVIOUS
<1>1. SplitInv
  BY DEF GateInit, SplitInit, SplitInv, SplitTypeOK, PickInv, ReturnInv
<1>2. GateTypeOK
  BY DEF GateInit, GateTypeOK, Stages
<1>3. RunInv /\ PolicyInv /\ ResultInv
  BY DEF GateInit, RunInv, PolicyInv, ResultInv, WithSplit, WithCopy, WithPythonPolicy,
         WithPolicies, WithPythonResult, WithResults
<1>4. ReportOfOneRun /\ VerdictIsFair
  BY DEF GateInit, ReportOfOneRun, VerdictIsFair, Reported
<1> QED BY <1>1, <1>2, <1>3, <1>4 DEF GateInv, StageInv

LEMMA GateStepInv == GateInv /\ [GateNext]_vars => GateInv'
<1> SUFFICES ASSUME GateInv, [GateNext]_vars PROVE GateInv'
  OBVIOUS
<1>1. StageInv /\ ReportOfOneRun /\ VerdictIsFair
  BY DEF GateInv
<1>2. ASSUME StageInv', report' = report \/ report' = Torn PROVE GateInv'
  BY <1>1, <1>2, ReportKeeps DEF GateInv
<1>3. CASE \E n \in Holdouts, c \in Configs : Starts(n, c)
  BY <1>1, <1>2, <1>3, StartsKeeps
<1>4. CASE SplitPicks
  BY <1>1, <1>2, <1>4, SplitPicksKeeps
<1>5. CASE SplitReturns
  BY <1>1, <1>2, <1>5, SplitReturnsKeeps
<1>6. CASE RemoveDataset \/ BuildDataset
  BY <1>1, <1>2, <1>6, DatasetKeeps
<1>7. CASE RunPythonTraining \/ RunElixirTraining
  BY <1>1, <1>2, <1>7, TrainerSavesKeeps DEF RunPythonTraining, RunElixirTraining, Trainers
<1>8. CASE \E t \in Trainers : Clear(t) \/ FindLastStepDir(t)
  BY <1>1, <1>2, <1>8, ClearKeeps, FindLastStepDirKeeps
<1>9. CASE EvaluatePython
  BY <1>1, <1>2, <1>9, EvaluatePythonKeeps
<1>10. CASE ScriptTruncates \/ ScriptWrites
  BY <1>1, <1>2, <1>10, ScriptKeeps
<1>11. CASE ReadEval
  BY <1>1, <1>2, <1>11, ReadEvalKeeps
<1>12. CASE Judge
  BY <1>1, <1>2, <1>12, JudgeKeeps
<1>13. CASE WriteReport
  BY <1>1, <1>13, WriteReportIsFair DEF GateInv
<1>14. CASE Raises \/ ScriptDies \/ Stops
  <2>1. /\ stage' = "idle" /\ split' \in {split, "raised"} /\ report' = report
        /\ UNCHANGED <<total, nHoldout, holdout, idx, source, run, out, chosen, results>>
    BY <1>14 DEF Raises, ScriptDies, AfterScript, Stops, splitVars, disk, memory
  <2> QED BY <1>1, <1>2, <2>1, EndKeeps
<1>15. CASE UNCHANGED vars
  <2>1. /\ SameRun
        /\ UNCHANGED <<stage, dataset, out, evalJson, report, chosen, results>>
    BY <1>15 DEF vars, gateVars, disk, memory, SameRun
  <2>2. UNCHANGED <<total, split, source, run, config>>
    BY <2>1 DEF SameRun, splitVars
  <2>3. SplitInv' /\ Train' = Train
    BY <1>1, <2>1, SameRunKeeps DEF StageInv
  <2>4. GateTypeOK' /\ RunInv' /\ PolicyInv'
    BY <1>1, <2>1, <2>2, <2>3 DEF StageInv, GateTypeOK, RunInv, PolicyInv
  <2>5. ResultInv'
    BY <1>1, <2>1, ResultsStay
  <2> QED BY <1>2, <2>1, <2>3, <2>4, <2>5 DEF StageInv
<1> QED BY <1>3, <1>4, <1>5, <1>6, <1>7, <1>8, <1>9, <1>10, <1>11, <1>12, <1>13, <1>14, <1>15
        DEF GateNext, Progress

\* What a run of the gate has established at each stage, from every directory
\* that earlier runs may have left behind.
THEOREM GateInvHolds == GateSpec => []GateInv
  BY GateInitInv, GateStepInv, PTL DEF GateSpec

\* What each trainer's reader gets from the copy of a run, exactly, for every
\* source dataset and every split of it: see CopyReadsExactly.
THEOREM ReadsAreExactHolds == GateSpec => []ReadsAreExact
<1>1. GateInv => ReadsAreExact
  <2> SUFFICES ASSUME GateInv, stage = "clear_python"
               PROVE  ReadsExactly(source, Train, dataset)
    BY DEF ReadsAreExact
  <2>1. stage \in WithSplit /\ stage \in WithCopy /\ StageInv
    BY DEF GateInv, WithSplit, WithCopy
  <2>2. IsSource(source) /\ IsTrain(source, Train) /\ dataset = TrainOnly(source, Train)
    BY <2>1, SplitOfSource DEF StageInv, RunInv
  <2> QED BY <2>2, CopyReadsExactly
<1> QED BY <1>1, GateInvHolds, PTL

\* split.py:22: no policy that a run evaluates has seen a held-out frame.
THEOREM HoldoutUnseenHolds == GateSpec => []HoldoutUnseen
<1>1. GateInv => HoldoutUnseen
  BY DEF GateInv, StageInv, PolicyInv, TrainedBy, HoldoutUnseen, Train
<1> QED BY <1>1, GateInvHolds, PTL

\* A report never mixes two runs, however many of them stopped half way.
THEOREM ReportOfOneRunHolds == GateSpec => []ReportOfOneRun
<1>1. GateInv => ReportOfOneRun
  BY DEF GateInv
<1> QED BY <1>1, GateInvHolds, PTL

\* metrics.py:177, 194: same frames, and the documented verdict on them.
THEOREM VerdictIsFairHolds == GateSpec => []VerdictIsFair
<1>1. GateInv => VerdictIsFair
  BY DEF GateInv
<1> QED BY <1>1, GateInvHolds, PTL

\* The split is a partition by every Nth episode in every run of the gate as well.
THEOREM GateSplits == GateSpec => [](EveryNth /\ SplitIsPartition)
<1>1. GateInv => EveryNth /\ SplitIsPartition
  BY ReturnsPartition DEF GateInv, StageInv, SplitInv, PickInv, EveryNth
<1> QED BY <1>1, GateInvHolds, PTL

=============================================================================
