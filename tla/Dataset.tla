------------------------------- MODULE Dataset -------------------------------
(***************************************************************************)
(* lewm-data: from the shards on disk to the batches and the statistics.   *)
(* PushtDataset and So100Dataset check a shard's schema, cut its rows into *)
(* episodes, and index the windows of horizon rows of one split; collate   *)
(* packs windows into one buffer; compute_stats measures the actions of    *)
(* the training split and saves them with a hash of the data.              *)
(*                                                                         *)
(* A shard is what its HDF5 file says: the datasets' lengths and types,    *)
(* the episode and timestep columns and one action value per row.          *)
(***************************************************************************)
EXTENDS Integers, FiniteSets, SequencesExt

CONSTANTS
  Disks,         \* what root_path may hold: sequences of shards in name order
  EvalEpisodes,  \* per family, the ids in EVAL_BUCKET or SO100_HELD_OUT_EPISODES
  Horizons,      \* the horizons a configuration may ask for
  TargetSize,    \* target_size of the image preprocessor
  HighBits, LowBits, ExponentBits,  \* bits of an f32 that bf16 keeps, drops; its exponent
  MaxReplaced    \* bound on the replacements of the data

\* A shard: its columns of indices and actions, the lengths of all its columns,
\* the shape of a frame, and which of its types are the declared ones.
Shards ==
  {s \in [episode_index : Seq(Int), timestep : Seq(Int), actions : Seq(Int), lengths : SUBSET Nat,
          channels : Nat, actionDim : Nat, side : Nat, types : {"declared", "pixels", "index", "missing"}] :
     Len(s.actions) \in s.lengths}

ASSUME DataAssumption ==
  /\ Disks \subseteq Seq(Shards)
  /\ EvalEpisodes \in [{"pusht", "so100"} -> SUBSET Nat] /\ Horizons \subseteq Nat
  /\ TargetSize \in Nat \ {0} /\ ExponentBits \in Nat /\ HighBits \in Nat \ 0..ExponentBits /\ LowBits \in Nat \ {0}
  /\ MaxReplaced \in Nat

NotFiniteAction == -1   \* an action that is a NaN or an infinity
RgbChannels == 3

VARIABLES
  family,    \* the data set: pusht or so100
  disk,      \* the files under root_path now
  opened,    \* the data set: how it was opened, from what, and its windows
  batch,     \* the last batch that was collated
  stats,     \* a run of compute_stats: where it is, and what it has read
  statsFile, \* stats.safetensors
  replaced   \* how often the data was replaced

dataVars == <<family, disk, opened, batch, stats, statsFile, replaced>>

-----------------------------------------------------------------------------
\* One shard

ActionDim == IF family = "pusht" THEN 2 ELSE 6

\* Every column must have the length of timestep.
ColumnsAgree(s) ==
  /\ s.channels = RgbChannels /\ s.actionDim = ActionDim
  /\ \A column \in s.lengths : column = Len(s.timestep)

\* ShardSchema::read; the types of the index columns are checked when they are
\* read, those of the pixels and actions only if validate_schema asks for it.
PushtSchemaOk(s, validate) ==
  /\ s.types # "missing" /\ s.types # "index" /\ (validate => s.types = "declared")
  /\ ColumnsAgree(s)

\* HdfSchema::read
So100SchemaOk(s) == s.types = "declared" /\ ColumnsAgree(s)

SchemaOk(s, validate) == IF family = "pusht" THEN PushtSchemaOk(s, validate) ELSE So100SchemaOk(s)

PerRowIds(s) == Len(s.episode_index) = Len(s.timestep)

StartsAtZeroOnly(s) == {1} \cup {r \in 2..Len(s.timestep) : s.timestep[r] = 0}

\* An episode starts at the first row, at timestep zero, and where the id changes
\* in a column that has an id for every row.
EpisodeStarts(s) ==
  {1} \cup {r \in 2..Len(s.timestep) :
              s.timestep[r] = 0 \/ (PerRowIds(s) /\ s.episode_index[r] # s.episode_index[r - 1])}

\* The rank of a start among the starts, and the start of a rank.
Ordinal(s, start) == Cardinality({r \in EpisodeStarts(s) : r <= start})
StartOfEpisode(s, ordinal) == CHOOSE start \in EpisodeStarts(s) : Ordinal(s, start) = ordinal

\* push_episode, for the episode that starts at this row.
EpisodeAt(s, start) ==
  LET next == {r \in EpisodeStarts(s) : r > start}
      idRow == IF PerRowIds(s) THEN start ELSE Ordinal(s, start)
  IN  [id |-> IF idRow \in DOMAIN s.episode_index THEN s.episode_index[idRow] ELSE -1,
       row_start |-> start,
       len |-> (IF next = {} THEN Len(s.timestep) + 1 ELSE Min(next)) - start,
       first_timestep |-> s.timestep[start]]

\* build_episodes; an id that is missing or negative, or a negative timestep at
\* the start of an episode, refuses the shard.  Ids left over do not.
EpisodesOk(s) ==
  /\ s.timestep # << >> /\ s.episode_index # << >>
  /\ Len(s.episode_index) <= Len(s.timestep)
  /\ \A start \in EpisodeStarts(s) : EpisodeAt(s, start).id >= 0 /\ s.timestep[start] >= 0
BuildEpisodes(s) == [i \in 1..Cardinality(EpisodeStarts(s)) |-> EpisodeAt(s, StartOfEpisode(s, i))]

SplitContains(split, id) == (split = "eval") = (id \in EvalEpisodes[family])

\* The windows of one episode, one for every row that has horizon rows from it on.
WindowsOf(episode, shard, horizon) ==
  [offset \in 1..(episode.len - horizon + 1) |->
     [shard |-> shard, row_start |-> episode.row_start + offset - 1,
      episode_id |-> episode.id, start_frame |-> episode.first_timestep + offset - 1]]

\* build_windows
BuildWindows(s, shard, split, horizon) ==
  FlattenSeq([i \in DOMAIN BuildEpisodes(s) |->
    LET episode == BuildEpisodes(s)[i]
    IN  IF ~SplitContains(split, episode.id) \/ episode.len < horizon THEN << >>
        ELSE WindowsOf(episode, shard, horizon)])

-----------------------------------------------------------------------------
\* A data set.  PushT reads every shard of a directory; SO-100 has one file.

Refused(how) == [how |-> how, from |-> << >>, windows |-> << >>]

OpenPusht(shards, config) ==
  LET windows == FlattenSeq([i \in DOMAIN shards |->
                   BuildWindows(shards[i], i, config.split, config.horizon)])
  IN  IF config.horizon = 0 \/ config.history_size > config.horizon THEN Refused("config")
      ELSE IF shards = << >> THEN Refused("empty")
      ELSE IF \E i \in DOMAIN shards : ~SchemaOk(shards[i], config.validate_schema)
                                         \/ ~EpisodesOk(shards[i]) THEN Refused("schema")
      ELSE IF windows = << >> THEN Refused("empty")
      ELSE [how |-> "open", from |-> shards, config |-> config, windows |-> windows]

OpenSo100(shards, config) ==
  IF Len(shards) # 1 THEN Refused("config") ELSE OpenPusht(shards, config)

OpenDataset(shards, config) ==
  IF family = "pusht" THEN OpenPusht(shards, config) ELSE OpenSo100(shards, config)

\* get: the index is taken modulo the number of windows.
WindowAt(idx) == (idx % Len(opened.windows)) + 1

Row(w, frame) == opened.from[w.shard].actions[w.row_start + frame]
SideOf(w) == opened.from[w.shard].side

-----------------------------------------------------------------------------
\* A batch.  The value at a position of a buffer is where it comes from.

Plane == TargetSize * TargetSize

\* normalize_hwc_to_chw: the HWC position whose value goes to a CHW position.
HwcOf(position) == (position % Plane) * RgbChannels + (position \div Plane)

\* collate, validate_samples and append_sample_pixels: one shape for all, frame
\* after frame, an error for an action that is not finite.
Collate(samples) ==
  LET windows == [i \in DOMAIN samples |-> opened.windows[WindowAt(samples[i])]]
      horizon == opened.config.horizon
      frameLen == RgbChannels * Plane
      pixel(i) == [window |-> windows[(i \div (horizon * frameLen)) + 1],
                   frame |-> (i \div frameLen) % horizon,
                   source |-> HwcOf(i % frameLen)]
      action(i) == [window |-> windows[(i \div horizon) + 1], frame |-> i % horizon]
  IN  IF \E i, j \in DOMAIN samples : SideOf(windows[i]) # SideOf(windows[j])
      THEN [how |-> "shapes", meta |-> windows]
      ELSE IF \E i \in DOMAIN samples, t \in 0..(horizon - 1) : Row(windows[i], t) = NotFiniteAction
      THEN [how |-> "not finite", meta |-> windows]
      ELSE [how |-> "ok", meta |-> windows,
            pixels |-> [i \in 0..(Len(samples) * horizon * frameLen - 1) |-> pixel(i)],
            actions |-> [i \in 0..(Len(samples) * horizon - 1) |-> action(i)]]

\* How many values so many bits have.
Pow2(n) == LET pow[i \in 0..n] == IF i = 0 THEN 1 ELSE 2 * pow[i - 1] IN pow[n]

\* round_f32_to_bf16 on the bits of a value, in their width.
Truncated(bits) == (bits \div Pow2(LowBits)) * Pow2(LowBits)
RoundToBf16(bits) ==
  LET bias == Pow2(LowBits - 1) - 1 + ((bits \div Pow2(LowBits)) % 2)
  IN  Truncated((bits + bias) % Pow2(HighBits + LowBits))

-----------------------------------------------------------------------------
\* Statistics

SumOf(values) ==
  LET sum[i \in 0..Len(values)] == IF i = 0 THEN 0 ELSE sum[i - 1] + values[i] IN sum[Len(values)]

\* The actions of the windows, one after the other.
ActionsOf(data) ==
  LET horizon == data.config.horizon
  IN  [k \in 1..(Len(data.windows) * horizon) |->
         LET w == data.windows[((k - 1) \div horizon) + 1]
         IN  data.from[w.shard].actions[w.row_start + ((k - 1) % horizon)]]

\* ActionAccumulator over the windows in order, one push for each; the mean and
\* the variance are the quotients sum/count and (count*sum_sq - sum^2)/count^2.
Accumulate(data) ==
  LET actions == ActionsOf(data)
  IN  [finite |-> NotFiniteAction \notin Range(actions), count |-> Len(actions),
       sum |-> SumOf(actions), sum_sq |-> SumOf([k \in DOMAIN actions |-> actions[k] * actions[k]])]

\* ActionNormalizer::new: a dimension that never moves has the deviation one.
Deviation(s) ==
  LET square == s.count * s.sum_sq - s.sum * s.sum
  IN  IF square = 0 THEN [num |-> 1, den |-> 1] ELSE [num |-> square, den |-> s.count * s.count]

NoStats == [at |-> "idle"]
StatsOfEverything(horizon) ==
  [split |-> "eval", horizon |-> horizon, history_size |-> 0, validate_schema |-> TRUE]

StatsConfig(horizon) ==
  [split |-> "train", horizon |-> horizon, history_size |-> 0, validate_schema |-> TRUE]

-----------------------------------------------------------------------------
Configs ==
  [split : {"train", "eval"}, horizon : Horizons, history_size : {0, 2}, validate_schema : BOOLEAN]

DataInit ==
  /\ family \in DOMAIN EvalEpisodes /\ disk \in Disks /\ opened = Refused("never") /\ batch = [how |-> "none"]
  /\ stats = NoStats /\ statsFile = [how |-> "missing"] /\ replaced = 0

\* PushtDataset::new and So100Dataset::from_hdf5, by the trainer.
Open ==
  /\ opened.how = "never"
  /\ \E config \in Configs : opened' = OpenDataset(disk, config)
  /\ UNCHANGED <<family, disk, batch, stats, statsFile, replaced>>

\* Any two indices: virtual epochs are longer than the table of windows.
NextBatch ==
  /\ opened.how = "open"
  /\ \E i, j \in 0..Len(opened.windows) : batch' = Collate(<<i, j>>)
  /\ UNCHANGED <<family, disk, opened, stats, statsFile, replaced>>

\* Someone publishes other data under the same path.
Replace ==
  /\ replaced < MaxReplaced
  /\ disk' \in Disks \ {disk} /\ replaced' = replaced + 1
  /\ UNCHANGED <<family, opened, batch, stats, statsFile>>

\* compute_stats: hash_dataset_bytes reads the files, then the data set is opened
\* and read, then save_safetensors writes the file in place.
HashData ==
  /\ stats.at = "idle" /\ disk # << >>
  /\ \E horizon \in Horizons \ {0} : stats' = [at |-> "hashed", hash |-> disk, horizon |-> horizon]
  /\ UNCHANGED <<family, disk, opened, batch, statsFile, replaced>>

ReadData ==
  LET data == OpenDataset(disk, StatsConfig(stats.horizon))
      measured == Accumulate(data)
  IN  /\ stats.at = "hashed"
      /\ stats' = IF data.how # "open" \/ ~measured.finite THEN NoStats
                  ELSE [at |-> "read", hash |-> stats.hash, from |-> disk, horizon |-> stats.horizon,
                        measured |-> measured]
      /\ UNCHANGED <<family, disk, opened, batch, statsFile, replaced>>

TruncateStats ==
  /\ stats.at = "read"
  /\ stats' = [stats EXCEPT !.at = "saving"] /\ statsFile' = [how |-> "torn"]
  /\ UNCHANGED <<family, disk, opened, batch, replaced>>

SaveStats ==
  /\ stats.at = "saving"
  /\ statsFile' = [how |-> "whole", stats |-> stats] /\ stats' = NoStats
  /\ UNCHANGED <<family, disk, opened, batch, replaced>>

StatsCrash ==
  /\ stats.at # "idle" /\ stats' = NoStats
  /\ UNCHANGED <<family, disk, opened, batch, statsFile, replaced>>

\* TransformStats::load_safetensors
LoadStats == IF statsFile.how = "whole" THEN [ok |-> TRUE, stats |-> statsFile.stats] ELSE [ok |-> FALSE]

ComputeStats == HashData \/ ReadData \/ TruncateStats \/ SaveStats \/ StatsCrash

DataNext == Open \/ NextBatch \/ Replace \/ ComputeStats
DataSpec == DataInit /\ [][DataNext]_dataVars

-----------------------------------------------------------------------------
\* Properties

\* The rows from row on that belong together, read from the columns: one id, and
\* timesteps that count up by one.
OneEpisode(s, row, horizon) ==
  /\ row + horizon - 1 <= Len(s.timestep)
  /\ \A r \in (row + 1)..(row + horizon - 1) :
       /\ s.timestep[r] = s.timestep[r - 1] + 1
       /\ PerRowIds(s) => s.episode_index[r] = s.episode_index[r - 1]

\* The timesteps count up, from zero or a new id on.
CountsUp(s) ==
  \A r \in 2..Len(s.timestep) :
    \/ s.timestep[r] = 0 \/ s.timestep[r] = s.timestep[r - 1] + 1
    \/ PerRowIds(s) /\ s.episode_index[r] # s.episode_index[r - 1]

(* When the timesteps of a shard count up within its episodes, the windows are
   exactly the runs of horizon rows inside one episode, on both splits, and none
   crosses into the next recording; no window is there twice (pusht.rs, so100.rs). *)
WindowsStayInEpisodes ==
  opened.how = "open" =>
    /\ \A i \in DOMAIN opened.from :
         LET s == opened.from[i]
             horizon == opened.config.horizon
             starts == {opened.windows[w].row_start : w \in {v \in DOMAIN opened.windows :
                                                              opened.windows[v].shard = i}}
         IN  CountsUp(s) =>
               /\ \A r \in starts : OneEpisode(s, r, horizon)
               /\ \A r \in DOMAIN s.timestep :
                    OneEpisode(s, r, horizon) /\ PerRowIds(s) =>
                      (r \in starts <=> SplitContains(opened.config.split, s.episode_index[r]))
    /\ \A v, w \in DOMAIN opened.windows :
         opened.windows[v].shard = opened.windows[w].shard
         /\ opened.windows[v].row_start = opened.windows[w].row_start => v = w

(* A virtual epoch sees every window: as many indices in a row as there are
   windows read each of them once, wherever they start (pusht.rs, get). *)
EveryWindowIsRead ==
  opened.how = "open" =>
    \A first \in 0..Len(opened.windows) :
      {WindowAt(first + k) : k \in 0..(Len(opened.windows) - 1)} = DOMAIN opened.windows

(* A value of a batch is the one its position says: sample, frame, channel and
   pixel, in the order of the metadata, whatever the shards of the windows; and
   a batch of two frame sizes is refused (batch.rs, transform/image.rs). *)
BatchKeepsPlaces ==
  /\ batch.how = "ok" =>
       \A b \in DOMAIN batch.meta, t \in 0..(opened.config.horizon - 1) :
         /\ batch.actions[(b - 1) * opened.config.horizon + t] = [window |-> batch.meta[b], frame |-> t]
         /\ \A c \in 0..(RgbChannels - 1), p \in 0..(Plane - 1) :
              batch.pixels[(((b - 1) * opened.config.horizon + t) * RgbChannels + c) * Plane + p]
                = [window |-> batch.meta[b], frame |-> t, source |-> p * RgbChannels + c]
  /\ batch.how = "ok" => \A i, j \in DOMAIN batch.meta : SideOf(batch.meta[i]) = SideOf(batch.meta[j])

(* The cast to bf16 yields the nearest bf16 value, the even one of two, with the
   same sign, for every f32 that is finite, however the carry runs (batch.rs:366). *)
RoundingIsNearest ==
  batch.how = "ok" =>
    \A negative \in {0, 1}, m \in 0..((Pow2(ExponentBits) - 1) * Pow2(HighBits - 1 - ExponentBits + LowBits) - 1) :
      LET sign == Pow2(HighBits - 1 + LowBits)
          low == Pow2(LowBits)
          bits == negative * sign + m
          near == RoundToBf16(bits)
          off == IF near > bits THEN near - bits ELSE bits - near
      IN  /\ near % low = 0 /\ 2 * off <= low
          /\ 2 * off = low => (near \div low) % 2 = 0
          /\ near \div sign = negative

InEvaluation(s, row) ==
  \E start \in EpisodeStarts(s) :
    LET e == EpisodeAt(s, start)
    IN  e.id \in EvalEpisodes[family] /\ row \in start..(start + e.len - 1)

Masked(shards) ==
  [i \in DOMAIN shards |->
     [shards[i] EXCEPT !.actions = [r \in DOMAIN @ |-> IF InEvaluation(shards[i], r) THEN 0 ELSE @[r]]]]

(* The statistics never see an evaluation episode: the saved sums are those of
   the same data with every action of those episodes set to zero (stats.rs). *)
EvaluationNeverLeaks ==
  stats.at = "read" =>
    stats.measured = Accumulate(OpenDataset(Masked(stats.from), StatsConfig(stats.horizon)))

(* A statistics file that loads was saved entirely, of at least one action, with
   a deviation to divide by; and its hash is that of the data it was measured on
   unless the data was replaced, for the hash is taken before the files are
   opened (stats.rs:84, transform/action.rs). *)
LoadedStatsAreWhole ==
  LoadStats.ok =>
    /\ LoadStats.stats.measured.count > 0 /\ Deviation(LoadStats.stats.measured).num > 0
    /\ replaced = 0 => LoadStats.stats.hash = LoadStats.stats.from

(* From a row of a shard to its place in a batch: every window of the split is
   read, lies in one episode, and is packed where its index says, each value
   rounded to the nearest (pusht.rs, so100.rs, batch.rs). *)
SamplesReachTheBatch == WindowsStayInEpisodes /\ EveryWindowIsRead /\ BatchKeepsPlaces /\ RoundingIsNearest

(* The statistics a training job loads are whole, usable, and of the training
   split alone (stats.rs, transform/action.rs). *)
StatsAreOfTheTrainingSplit == EvaluationNeverLeaks /\ LoadedStatsAreWhole
=============================================================================
