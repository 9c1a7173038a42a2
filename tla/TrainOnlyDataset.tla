-------------------------- MODULE TrainOnlyDataset --------------------------
(***************************************************************************)
(* split.py's build_train_only_dataset as an operator on datasets, and the *)
(* two readers that the trainers use on its result.                        *)
(*                                                                         *)
(* A source dataset is a sequence of [len, file]: the frames of episode    *)
(* i - 1 and the data file that holds them.  A frame is named by where it  *)
(* was recorded, <<episode, frame>>, which no step below changes.          *)
(***************************************************************************)
EXTENDS Integers, SequencesExt

Recorded(source, e) == [f \in 1..source[e + 1].len |-> <<e, f - 1>>]

SourceFrames(source, episodes) ==
  UNION {{Recorded(source, e)[f] : f \in 1..source[e + 1].len} : e \in episodes}

----------------------------------------------------------------------------
(* A seeded defect: the numbering before it was found to break readers.    *)

OriginalIndex(train, e) == e

----------------------------------------------------------------------------

\* new_episode_index: renumbered from 0 in the original order.
NewEpisodeIndex(train, e) == Cardinality({x \in train : x < e})

\* The members of S by increasing key; no two have the same.
SortedBy(S, key) ==
  [k \in 1..Cardinality(S) |->
     CHOOSE x \in S : Cardinality({y \in S : key[y] < key[x]}) = k - 1]

\* train_episodes, in the original order.
TrainEpisodes(train) == SortedBy(train, [e \in train |-> e])

\* train_data_df: in order of episode and frame (a row's place is its index),
\* all of it in one file.
DataRows(source, train) ==
  FlattenSeq([i \in 1..Cardinality(train) |->
    LET e == TrainEpisodes(train)[i]
    IN  [f \in 1..source[e + 1].len |->
          [episode |-> NewEpisodeIndex(train, e), frame |-> f - 1,
           recorded |-> <<e, f - 1>>]]])

\* train_episodes_df: the index range is recomputed by cumulative row counts;
\* data/file_index is the source's.
EpisodeRows(source, train, data) ==
  LET RowsUpTo(n) == Cardinality({i \in DOMAIN data : data[i].episode <= n})
  IN  [i \in 1..Cardinality(train) |->
        LET e == TrainEpisodes(train)[i]
            n == NewEpisodeIndex(train, e)
        IN  [episode |-> n, from |-> RowsUpTo(n - 1), to |-> RowsUpTo(n),
             file |-> source[e + 1].file, of |-> e]]

\* The directory: info.json's counts, meta/episodes, data/chunk-000/file-000.
TrainOnly(source, train) ==
  LET data == DataRows(source, train)
  IN  [episodes |-> EpisodeRows(source, train, data), data |-> data,
       total_episodes |-> Cardinality(train), total_frames |-> Len(data)]

----------------------------------------------------------------------------

\* LeRobot: a frame by global index, its episode's row by position, the index
\* range of that row as the window for action chunks.
PositionalRead(d, index) ==
  LET row == d.data[index + 1]
  IN  IF row.episode + 1 \in DOMAIN d.episodes
        THEN LET meta == d.episodes[row.episode + 1]
             IN  {[recorded |-> row.recorded, of |-> meta.of,
                   window |-> {d.data[i].recorded : i \in (meta.from + 1)..meta.to}]}
        ELSE {}

\* dataset.ex's frames/2: the first row whose episode_index has the value, the
\* data file that row names, the rows of that file with the value, by
\* frame_index.  Empty where it raises: no such row, or no such file (only file 0
\* exists).
ValueRead(d, e) ==
  LET rows == {i \in DOMAIN d.episodes : d.episodes[i].episode = e}
      found == {i \in DOMAIN d.data : d.data[i].episode = e}
      frames == SortedBy(found, [i \in found |-> d.data[i].frame])
  IN  IF rows = {} \/ d.episodes[Min(rows)].file # 0 THEN <<>>
      ELSE [k \in DOMAIN frames |-> d.data[frames[k]].recorded]

\* What a trainer gets to see that samples all of the dataset.
SeenByPython(d) ==
  UNION {{r.recorded : r \in PositionalRead(d, i)} : i \in 0..(d.total_frames - 1)}

SeenByElixir(d) ==
  UNION {ToSet(ValueRead(d, e)) : e \in 0..(d.total_episodes - 1)}

----------------------------------------------------------------------------

\* What each reader gets, exactly.  By position: every frame of the training
\* episodes and no other, each with its own episode's row and window.  By value:
\* the k-th training episode's frames in order, where the source keeps them in
\* its first data file, and nothing but an exception where it does not.
ReadsExactly(source, train, d) ==
  LET inFile0 == {x \in train : source[x + 1].file = 0}
  IN  /\ SeenByPython(d) = SourceFrames(source, train)
      /\ \A i \in 0..(d.total_frames - 1) :
           \E r \in PositionalRead(d, i) :
             /\ r.of = r.recorded[1]
             /\ r.window = ToSet(Recorded(source, r.of))
      /\ \A k \in 1..Cardinality(train) :
           LET x == TrainEpisodes(train)[k]
           IN  ValueRead(d, k - 1) = IF x \in inFile0 THEN Recorded(source, x) ELSE <<>>
      /\ SeenByElixir(d) = SourceFrames(source, inFile0)

=============================================================================
