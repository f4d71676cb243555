---------------------------- MODULE TrajectoryData ----------------------------
(* From the states of tracks to the windows a predictor is trained with: the
   buffer of histories (src/edge/track/history.py), the feature rows of a history
   and the split into training and validation windows
   (src/edge/predict/trajectory_dataset.py), in the order in which
   src/training/trajectory/train_lstm_pinn.py needs them.

   A track is known by its device and number.  A state is [track, time, world,
   v]: whether it has a world coordinate, and its velocity. *)
EXTENDS Integers, Sequences, SequencesExt, FiniteSets

CONSTANTS
    Tracks,                 \* the tracks there are
    Batches,                \* the lists of states that are given to extend
    MaxLength,              \* max_length of the buffer
    HistoryLen, FutureLen, Stride,
    Ratios,                 \* train_ratio, in fifths
    MaxBatches              \* bound of the model

TrackStates == [track : Tracks, time : Int, world : BOOLEAN, v : Int]

ASSUME TrajectoryAssumption ==
    /\ Batches \subseteq Seq(TrackStates)
    /\ {MaxLength, HistoryLen, FutureLen, Stride} \subseteq Nat \ {0}
    /\ Ratios \subseteq 1 .. 4 /\ MaxBatches \in Nat

VARIABLES
    histories,    \* _states: the buffered states of each known track
    accepted,     \* what append has accepted of them since the last clear
    datasets,     \* the last split: [train, val], or why there is none
    batches

trajectoryVars == <<histories, accepted, datasets, batches>>

NoDatasets == [made |-> FALSE, train |-> {}, val |-> {}]

TrajectoryInit ==
    /\ histories = <<>> /\ accepted = <<>>
    /\ datasets = NoDatasets /\ batches = 0

Of(table, track) == IF track \in DOMAIN table THEN table[track] ELSE <<>>
With(table, track, list) ==
    [t \in DOMAIN table \cup {track} |-> IF t = track THEN list ELSE table[t]]
\* deque(maxlen): the newest states.
Bounded(list) ==
    IF Len(list) > MaxLength THEN SubSeq(list, Len(list) - MaxLength + 1, Len(list))
    ELSE list

-----------------------------------------------------------------------------
(* The buffer *)

\* append refuses a state that is not newer than the last of its track.  The
\* faulty variant lets equal times pass.
NotOlder(state, list) == list = <<>> \/ state.time >= list[Len(list)].time
Newer(state, list)    == list = <<>> \/ state.time > list[Len(list)].time

\* What append looks at after the first n states of a batch: a list that ends with
\* the last state of the track, from the batch or from before it.
Latest(batch, n, track) ==
    LET own == {k \in 1 .. n : batch[k].track = track}
    IN IF own = {} THEN Of(histories, track)
       ELSE <<batch[Max(own)]>>

\* extend: in the order given, until append refuses a state.
Before(batch) ==
    {n \in 0 .. Len(batch) :
       \A k \in 1 .. n : Newer(batch[k], Latest(batch, k - 1, batch[k].track))}

Added(table, state) ==
    With(table, state.track, Append(Of(table, state.track), state))
Kept(table, state) ==
    With(table, state.track, Bounded(Append(Of(table, state.track), state)))

Extend(batch) ==
    LET n == Max(Before(batch))
    IN /\ batches < MaxBatches
       /\ batches' = batches + 1
       /\ histories' = FoldLeft(Kept, histories, SubSeq(batch, 1, n))
       /\ accepted' = FoldLeft(Added, accepted, SubSeq(batch, 1, n))
       /\ UNCHANGED datasets

Clear ==
    /\ batches < MaxBatches
    /\ batches' = batches + 1
    /\ histories' = <<>> /\ accepted' = <<>>
    /\ UNCHANGED datasets

-----------------------------------------------------------------------------
(* Feature rows *)

\* track_history_to_feature_array: world coordinates when every state has one;
\* an acceleration is a difference of velocities over a time.
FeatureRows(states) ==
    LET world == \A k \in DOMAIN states : states[k].world
        row(k) == [world |-> world,
                   v     |-> states[k].v,
                   dv    |-> IF k = 1 THEN 0 ELSE states[k].v - states[k - 1].v,
                   dt    |-> IF k = 1 THEN 0 ELSE states[k].time - states[k - 1].time]
    IN [k \in DOMAIN states |-> row(k)]

\* It raises for a time that does not increase, or for no states.
Convertible(states) ==
    states # <<>> /\ \A k \in 2 .. Len(states) : FeatureRows(states)[k].dt > 0

-----------------------------------------------------------------------------
(* Windows *)

\* TrajectoryWindowDataset: the starts of the windows of a trajectory.
WindowLen == HistoryLen + FutureLen
Starts(rows)        == {s \in 0 .. Len(rows) - WindowLen : s % Stride = 0}

\* __getitem__: slices, which end where the trajectory does.
Slice(rows, first, last) ==
    SubSeq(rows, first, IF last < Len(rows) THEN last ELSE Len(rows))
WindowsOf(track, rows) ==
    {[track |-> track, start |-> s,
      history |-> Slice(rows, s + 1, s + HistoryLen),
      future  |-> Slice(rows, s + HistoryLen + 1, s + WindowLen)] : s \in Starts(rows)}

Windows(tracks) == UNION {WindowsOf(t, FeatureRows(histories[t])) : t \in tracks}

\* The number of trajectories to train with: not none of them and not all.
Trained(n, ratio) ==
    LET part == (n * ratio) \div 5
        low  == IF n - 1 < part THEN n - 1 ELSE part
    IN IF low < 1 THEN 1 ELSE low

\* split_by_trajectory, for whatever permutation the seed gives.  A side without
\* windows raises.  The faulty variant splits the windows of a trajectory.
SplitWindows(chosen) ==
    LET all == Windows(DOMAIN histories)
    IN [made |-> TRUE, train |-> {w \in all : w.start = 0 \/ w.track \in chosen},
        val |-> {w \in all : w.start # 0 /\ w.track \notin chosen}]
Datasets(chosen) ==
    LET train == Windows(chosen)
        val   == Windows(DOMAIN histories \ chosen)
    IN IF train = {} \/ val = {} THEN NoDatasets
       ELSE [made |-> TRUE, train |-> train, val |-> val]

SplitByTrajectory ==
    /\ Cardinality(DOMAIN histories) >= 2
    /\ \A t \in DOMAIN histories : Convertible(histories[t])
    /\ \E ratio \in Ratios, chosen \in SUBSET DOMAIN histories :
          /\ Cardinality(chosen) = Trained(Cardinality(DOMAIN histories), ratio)
          /\ datasets' = Datasets(chosen)
    /\ UNCHANGED <<histories, accepted, batches>>

TrajectoryNext ==
    \/ \E batch \in Batches : Extend(batch)
    \/ Clear
    \/ SplitByTrajectory

TrajectorySpec == TrajectoryInit /\ [][TrajectoryNext]_trajectoryVars

-----------------------------------------------------------------------------
\* Whatever batches were given, also some that extend gave up in the middle,
\* every history that all_histories lists converts to features, and is the
\* newest part of what its track had accepted, within the bound (append,
\* _to_history).
HistoriesStayUsable ==
    \A t \in DOMAIN histories :
       /\ Len(histories[t]) <= MaxLength
       /\ Convertible(histories[t])
       /\ IsSuffix(histories[t], accepted[t])
       /\ Len(histories[t]) < MaxLength => histories[t] = accepted[t]

\* No trajectory gives windows to both sides, so that nothing of the training
\* data is seen again in validation, and every window holds the history and the
\* future that the predictor is built for (__init__, __getitem__).
NoLeak ==
    /\ \A w \in datasets.train, x \in datasets.val : w.track # x.track
    /\ \A w \in datasets.train \cup datasets.val :
          Len(w.history) = HistoryLen /\ Len(w.future) = FutureLen

\* A split leaks nothing from one side to the other, and loses nothing: it fails
\* only where a trajectory is too short for a window, and when none is, every
\* window is on one side (split_by_trajectory).
LongEnough   == \A t \in DOMAIN histories : Len(histories[t]) >= WindowLen
SplitIsSound ==
    [][datasets' # datasets =>
          /\ NoLeak'
          /\ LongEnough => /\ datasets'.made
                           /\ datasets'.train \cup datasets'.val
                                = Windows(DOMAIN histories)
      ]_trajectoryVars
===============================================================================
