------------------------- MODULE CheckpointProofs -------------------------
(***************************************************************************)
(* Proofs about Checkpoint: whatever is killed and resumed, the weights of *)
(* PPO have seen every epoch's batches in order, and there always is a     *)
(* checkpoint to start from, for any number of ranks, batches, epochs and  *)
(* crashes and any frequency and limit of checkpoints.                     *)
(***************************************************************************)
EXTENDS Checkpoint, SequenceTheorems, TLAPS

-----------------------------------------------------------------------------
(* Remainders                                                                *)

LEMMA Products ==
  ASSUME NEW S \in Nat, NEW a \in Nat, NEW b \in Nat, a < b
  PROVE  S * a \in Nat /\ S * b \in Nat /\ S * a + S <= S * b
<1>1. S * (a + 1) = S * a + S
  OBVIOUS
<1>2. a + 1 <= b
  OBVIOUS
<1>3. S * (a + 1) <= S * b
  BY <1>2
<1> QED
  BY <1>1, <1>3

LEMMA RemainderUnique ==
  ASSUME NEW S \in Nat \ {0}, NEW x \in Nat, NEW q \in Nat, NEW r \in 0 .. S - 1, x = S * q + r
  PROVE  x % S = r
<1> DEFINE p == x \div S
           t == x % S
<1>1. p \in Nat /\ t \in 0 .. S - 1 /\ x = S * p + t
  OBVIOUS
<1> HIDE DEF p, t
<1>2. CASE p < q
  BY <1>1, <1>2, Products
<1>3. CASE q < p
  BY <1>1, <1>3, Products
<1>4. ASSUME p = q PROVE t = r
  <2>1. S * p = S * q /\ S * p \in Nat
    BY <1>1, <1>4
  <2> QED
    BY <1>1, <2>1
<1>5. t = r
  BY <1>1, <1>2, <1>3, <1>4
<1> QED
  BY <1>5 DEF t

LEMMA RemainderNext ==
  ASSUME NEW S \in Nat \ {0}, NEW a \in Nat, NEW p \in 0 .. S - 1, p % S = a % S
  PROVE  p = a % S /\ (p + 1) % S = (a + 1) % S /\ p + 1 \in 0 .. S
<1> DEFINE q == a \div S
<1>1. p % S = p
  <2>1. p = S * 0 + p /\ p \in Nat /\ 0 \in Nat
    OBVIOUS
  <2> QED
    BY <2>1, RemainderUnique
<1>2. q \in Nat /\ a = S * q + p
  BY <1>1
<1> HIDE DEF q
<1>3. CASE p + 1 < S
  <2>1. p + 1 = S * 0 + (p + 1) /\ a + 1 = S * q + (p + 1) /\ p + 1 \in 0 .. S - 1 /\ p + 1 \in Nat /\ a + 1 \in Nat
    BY <1>2, <1>3
  <2>2. (p + 1) % S = p + 1
    BY <2>1, RemainderUnique
  <2>3. (a + 1) % S = p + 1
    BY <2>1, <1>2, RemainderUnique
  <2> QED
    BY <1>1, <2>2, <2>3
<1>4. CASE p + 1 = S
  <2>1. S = S * 1 + 0 /\ S * (q + 1) = S * q + S /\ 0 \in 0 .. S - 1
    BY <1>2
  <2>2. a + 1 = S * (q + 1) + 0 /\ a + 1 \in Nat /\ q + 1 \in Nat
    BY <1>2, <1>4, <2>1
  <2>3. S % S = 0
    BY <2>1, RemainderUnique
  <2>4. (a + 1) % S = 0
    BY <2>1, <2>2, RemainderUnique
  <2> QED
    BY <1>1, <1>4, <2>3, <2>4
<1> QED
  BY <1>3, <1>4

LEMMA RemainderEnds ==
  ASSUME NEW S \in Nat \ {0}
  PROVE  0 % S = 0 /\ S % S = 0
<1>1. 0 = S * 0 + 0 /\ S = S * 1 + 0 /\ 0 \in 0 .. S - 1 /\ 0 \in Nat /\ 1 \in Nat
  OBVIOUS
<1> QED
  BY <1>1, RemainderUnique

-----------------------------------------------------------------------------
(* The invariant.  Lineage speaks of the weights that train; they come back  *)
(* from a model file, and the place to go on from a data.pt, so both are     *)
(* right in every checkpoint, and a tracked one has a data.pt.               *)

Names == Range(Managers)
Batches == SUBSET Nat

Trained(w, s) ==
  /\ w \in Seq(Batches) /\ Len(w) = s
  /\ ~config.sft => \A i \in 1 .. s : w[i] = {((i - 1) % StepsPerEpoch) + 1}

Behind(p, s) == p \in 0 .. StepsPerEpoch /\ p % StepsPerEpoch = s % StepsPerEpoch

Files ==
  /\ shard \in [Steps -> [Names -> [Ranks -> Seq(Batches)]]]
  /\ \A s \in Steps, m \in Names, r \in Ranks : shard[s][m][r] # NoFile => Trained(shard[s][m][r], s)
  /\ data \in [Steps -> [Ranks -> Int]]

Loader ==
  /\ Behind(position[0], global_steps)
  /\ \A s \in Steps : data[s][0] # NoData => Behind(data[s][0], s)
  /\ tracker \in Steps => data[tracker][0] # NoData
  /\ at[0] \in {"saved", "tracked"} /\ global_steps \in Steps => data[global_steps][0] # NoData
  /\ phase \notin {"saving", "data"} => at[0] = "called"

Shape ==
  /\ config \in Configs /\ global_steps \in Nat
  /\ position \in [Ranks -> Nat]
  /\ \E S : at \in [Ranks -> S]

LineageInv == Shape /\ Files /\ Trained(weights, global_steps) /\ (~config.sft => Loader)

LEMMA Basics ==
  ASSUME ConstantsOK
  PROVE  /\ 0 \in Ranks /\ StepsPerEpoch \in Nat \ {0} /\ Steps \subseteq Nat \ {0}
         /\ NoData = -1 /\ NoFile = <<>> /\ NoFile \in Seq(Batches)
<1>1. total_training_steps \in Nat
  BY DEF ConstantsOK, total_training_steps
<1> QED
  BY <1>1 DEF ConstantsOK, Steps, NoData, NoFile

LEMMA FirstManager ==
  ASSUME ConstantsOK PROVE Managers[1] \in Names
<1>1. 1 \in DOMAIN Managers
  BY DEF Managers
<1> QED
  BY <1>1 DEF Names, Range

LEMMA FirstLoader == ASSUME ~config.sft PROVE Loaders = {0}
BY DEF Loaders

LEMMA AtStart ==
  ASSUME ConstantsOK
  PROVE  Trained(<<>>, 0) /\ Behind(0, 0)
BY Basics, RemainderEnds DEF Trained, Behind

LEMMA LineageInit == ASSUME ConstantsOK PROVE Init => LineageInv
<1> SUFFICES ASSUME Init PROVE LineageInv
  OBVIOUS
<1>1. Shape
  BY DEF Init, Shape
<1>2. Files
  BY Basics DEF Init, Files, Names
<1>3. Trained(weights, global_steps)
  BY AtStart DEF Init
<1>4. Loader
  <2>1. position[0] = 0 /\ at[0] = "called" /\ \A s \in Steps : data[s][0] = NoData
    BY Basics DEF Init
  <2>2. None \notin Steps
    BY Basics DEF None
  <2> QED
    BY <2>1, <2>2, AtStart DEF Init, Loader
<1> QED
  BY <1>1, <1>2, <1>3, <1>4 DEF LineageInv

\* config does not change, and with it the managers.
LEMMA FilesKept ==
  ASSUME Files, UNCHANGED <<config, shard, data>>
  PROVE  Files'
BY DEF Files, Names, Managers, Trained

LEMMA BlankStep ==
  ASSUME ConstantsOK, LineageInv, Blank, UNCHANGED <<config, disk>>
  PROVE  LineageInv'
<1>1. Shape'
  BY DEF LineageInv, Shape, Blank
<1>2. Files'
  BY FilesKept DEF LineageInv, disk
<1>3. Trained(weights, global_steps)'
  BY AtStart DEF Blank, Trained
<1>4. ASSUME ~config.sft PROVE Loader'
  <2>1. position'[0] = 0 /\ at'[0] = "called" /\ global_steps' = 0
    BY Basics DEF Blank
  <2> QED
    BY <1>4, <2>1, AtStart DEF LineageInv, Loader, Behind, disk
<1> QED
  BY <1>1, <1>2, <1>3, <1>4 DEF LineageInv

LEMMA ResumeStep ==
  ASSUME ConstantsOK, LineageInv, Resume, UNCHANGED <<config, disk>>
  PROVE  LineageInv'
<1>1. /\ tracker \in Steps /\ Loadable(tracker) /\ phase = "down" /\ phase' = "training"
      /\ global_steps' = tracker /\ weights' = shard[tracker][Managers[1]][0]
      /\ UNCHANGED at
  BY DEF Resume
<1>2. PICK p \in [Loaders -> 0 .. StepsPerEpoch] :
        /\ \A r \in Loaders : p[r] \in LoaderAt(tracker, r)
        /\ position' = [r \in Ranks |-> IF r \in Loaders THEN p[r] ELSE 0]
  BY DEF Resume
<1>3. Shape'
  <2>1. position' \in [Ranks -> Nat]
    BY <1>2, Basics
  <2>2. global_steps' \in Nat
    BY <1>1, Basics
  <2> QED
    BY <1>1, <2>1, <2>2 DEF LineageInv, Shape
<1>4. Files'
  BY FilesKept DEF LineageInv, disk
<1>5. Trained(weights, global_steps)'
  <2>1. shard[tracker][Managers[1]][0] # NoFile
    BY <1>1, Basics, FirstManager DEF Loadable, Names
  <2>2. Trained(shard[tracker][Managers[1]][0], tracker)
    BY <1>1, <2>1, Basics, FirstManager DEF LineageInv, Files
  <2> QED
    BY <1>1, <2>2 DEF Trained
<1>6. ASSUME ~config.sft PROVE Loader'
  <2>1. position'[0] = p[0] /\ p[0] \in LoaderAt(tracker, 0)
    BY <1>2, <1>6, FirstLoader, Basics
  <2>2. data[tracker][0] # NoData /\ Behind(data[tracker][0], tracker)
    BY <1>1, <1>6 DEF LineageInv, Loader
  <2>3. Behind(p[0], tracker)
    BY <2>1, <2>2, Basics, RemainderEnds DEF LoaderAt, Behind
  <2>4. at[0] = "called"
    BY <1>1, <1>6 DEF LineageInv, Loader
  <2> QED
    BY <1>1, <1>6, <2>1, <2>3, <2>4 DEF LineageInv, Loader, Behind, disk
<1> QED
  BY <1>3, <1>4, <1>5, <1>6 DEF LineageInv

LEMMA TrainStep ==
  ASSUME ConstantsOK, LineageInv, Train, UNCHANGED <<config, disk>>
  PROVE  LineageInv'
<1> DEFINE batch == {position[r] + 1 : r \in Loaders}
<1>1. /\ global_steps' = global_steps + 1 /\ weights' = Append(weights, batch)
      /\ position' = [r \in Ranks |-> IF r \in Loaders THEN position[r] + 1 ELSE 0]
      /\ \A r \in Loaders : position[r] < StepsPerEpoch
      /\ phase = "training" /\ at' = at
  BY DEF Train
<1>2. batch \in Batches
  <2>1. Loaders \subseteq Ranks
    BY Basics DEF Loaders
  <2> QED
    BY <2>1 DEF LineageInv, Shape, Batches
<1>3. Shape'
  <2>1. position' \in [Ranks -> Nat]
    <3>1. \A r \in Ranks : position[r] \in Nat
      BY DEF LineageInv, Shape
    <3> QED
      BY <1>1, <3>1
  <2>2. global_steps' \in Nat
    BY <1>1 DEF LineageInv, Shape
  <2> QED
    BY <1>1, <2>1, <2>2 DEF LineageInv, Shape
<1>4. Files'
  BY FilesKept DEF LineageInv, disk
<1>5. ASSUME ~config.sft
      PROVE  /\ batch = {(global_steps % StepsPerEpoch) + 1}
             /\ Behind(position'[0], global_steps')
  <2>1. Loaders = {0} /\ position'[0] = position[0] + 1 /\ batch = {position[0] + 1}
    BY <1>1, <1>5, FirstLoader, Basics
  <2>2. position[0] \in 0 .. StepsPerEpoch - 1
    BY <1>1, <1>5, <2>1, Basics DEF LineageInv, Loader, Behind
  <2>3. position[0] % StepsPerEpoch = global_steps % StepsPerEpoch /\ global_steps \in Nat
    BY <1>5 DEF LineageInv, Loader, Behind, Shape
  <2>4. /\ position[0] = global_steps % StepsPerEpoch
        /\ (position[0] + 1) % StepsPerEpoch = (global_steps + 1) % StepsPerEpoch
        /\ position[0] + 1 \in 0 .. StepsPerEpoch
    BY <2>2, <2>3, Basics, RemainderNext
  <2> QED
    BY <1>1, <2>1, <2>4 DEF Behind
<1>6. Trained(weights, global_steps)'
  <2> HIDE DEF batch
  <2>1. weights \in Seq(Batches) /\ Len(weights) = global_steps /\ global_steps \in Nat
    BY DEF LineageInv, Trained, Shape
  <2>2. weights' \in Seq(Batches) /\ Len(weights') = global_steps + 1
    BY <1>1, <1>2, <2>1
  <2>3. ASSUME ~config.sft, NEW i \in 1 .. global_steps + 1
        PROVE  weights'[i] = {((i - 1) % StepsPerEpoch) + 1}
    <3>1. CASE i = global_steps + 1
      <4>1. weights'[i] = batch
        BY <1>1, <2>1, <3>1
      <4>2. i - 1 = global_steps
        BY <2>1, <3>1
      <4> QED
        BY <4>1, <4>2, <1>5, <2>3
    <3>2. CASE i # global_steps + 1
      <4>1. i \in 1 .. global_steps /\ weights'[i] = weights[i]
        BY <1>1, <2>1, <3>2
      <4> QED
        BY <4>1, <2>3 DEF LineageInv, Trained
    <3> QED
      BY <3>1, <3>2
  <2> QED
    BY <1>1, <2>2, <2>3 DEF Trained
<1>7. ASSUME ~config.sft PROVE Loader'
  <2>1. at[0] = "called"
    BY <1>1, <1>7 DEF LineageInv, Loader
  <2> QED
    BY <1>1, <1>5, <1>7, <2>1 DEF LineageInv, Loader, Behind, disk
<1> QED
  BY <1>3, <1>4, <1>6, <1>7 DEF LineageInv

LEMMA EndEpochStep ==
  ASSUME ConstantsOK, LineageInv, EndEpoch, UNCHANGED <<config, disk>>
  PROVE  LineageInv'
<1>1. /\ position' = [r \in Ranks |-> 0] /\ \A r \in Loaders : position[r] = StepsPerEpoch
      /\ UNCHANGED <<phase, at, global_steps, weights>>
  BY DEF EndEpoch
<1>2. Shape' /\ Files' /\ Trained(weights, global_steps)'
  BY <1>1, FilesKept DEF LineageInv, Shape, Trained, disk
<1>3. ASSUME ~config.sft PROVE Loader'
  <2>1. position[0] = StepsPerEpoch /\ position'[0] = 0
    BY <1>1, <1>3, FirstLoader, Basics
  <2>2. Behind(0, global_steps)
    BY <1>3, <2>1, Basics, RemainderEnds DEF LineageInv, Loader, Behind
  <2> QED
    BY <1>1, <1>3, <2>1, <2>2 DEF LineageInv, Loader, Behind, disk
<1> QED
  BY <1>2, <1>3 DEF LineageInv

-----------------------------------------------------------------------------
(* Saving                                                                    *)

\* Model files go; with PPO's managers nothing else does.
LEMMA RemovedFiles ==
  ASSUME ConstantsOK, LineageInv, NEW m, NEW old, Removed(m, old), config' = config
  PROVE  Files' /\ (~config.sft => UNCHANGED <<folders, data>>)
<1>1. ASSUME NEW s \in Steps
      PROVE  /\ shard'[s] \in [Names -> [Ranks -> Seq(Batches)]]
             /\ \A n \in Names, r \in Ranks : shard'[s][n][r] \in {NoFile, shard[s][n][r]}
  <2>1. shard[s] \in [Names -> [Ranks -> Seq(Batches)]]
    BY DEF LineageInv, Files
  <2>2. shard'[s] = shard[s] \/ shard'[s] = [shard[s] EXCEPT ![m] = [r \in Ranks |-> NoFile]]
    BY DEF Removed
  <2>3. [r \in Ranks |-> NoFile] \in [Ranks -> Seq(Batches)]
    BY Basics
  <2> QED
    BY <2>1, <2>2, <2>3
<1>2. shard' \in [Steps -> [Names -> [Ranks -> Seq(Batches)]]]
  <2>1. DOMAIN shard' = Steps /\ shard' = [s \in Steps |-> shard'[s]]
    BY DEF Removed
  <2> QED
    BY <1>1, <2>1
<1>3. data' \in [Steps -> [Ranks -> Int]]
  <2>1. data \in [Steps -> [Ranks -> Int]] /\ [r \in Ranks |-> NoData] \in [Ranks -> Int]
    BY Basics DEF LineageInv, Files
  <2> QED
    BY <2>1 DEF Removed
<1>4. \A s \in Steps, n \in Names, r \in Ranks :
        shard'[s][n][r] # NoFile => Trained(shard'[s][n][r], s)
  BY <1>1 DEF LineageInv, Files
<1>5. Names' = Names /\ \A w, s : Trained(w, s)' <=> Trained(w, s)
  BY DEF Names, Managers, Trained
<1>6. Files'
  BY <1>2, <1>3, <1>4, <1>5 DEF Files, Trained
<1> QED
  BY <1>6 DEF Removed

\* A step of saving that moves ranks and removes or adds files.
LEMMA SavingKept ==
  ASSUME ConstantsOK, LineageInv, Files', (\E S : at' \in [Ranks -> S]),
         UNCHANGED <<config, global_steps, position, weights>>,
         ~config.sft => Loader'
  PROVE  LineageInv'
BY DEF LineageInv, Shape, Trained

\* Ranks that move on, and nothing that the loader is about.
LEMMA LoaderKept ==
  ASSUME Loader, UNCHANGED <<global_steps, data, tracker>>, position' = position,
         at'[0] \in {"saved", "tracked"} => at[0] \in {"saved", "tracked"},
         phase' \notin {"saving", "data"} => at'[0] = "called"
  PROVE  Loader'
BY DEF Loader, Behind

LEMMA CapacityStep == ASSUME ConstantsOK, LineageInv, Capacity PROVE LineageInv'
<1>1. /\ phase = "saving" /\ at' = [at EXCEPT ![0] = "ready"]
      /\ UNCHANGED <<config, phase, global_steps, position, weights, tracker>>
  BY DEF Capacity
<1>2. Files' /\ (~config.sft => UNCHANGED data)
  <2>1. CASE config.keep > 1
    BY <1>1, <2>1, RemovedFiles DEF Capacity, Trimmed
  <2>2. CASE ~(config.keep > 1)
    <3>1. UNCHANGED <<shard, data>>
      BY <2>2 DEF Capacity
    <3> QED
      BY <1>1, <3>1, FilesKept DEF LineageInv
  <2> QED
    BY <2>1, <2>2
<1>3. at'[0] = "ready" /\ \E S : at' \in [Ranks -> S]
  <2>1. PICK S : at \in [Ranks -> S]
    BY DEF LineageInv, Shape
  <2>2. at' \in [Ranks -> S \union {"ready"}] /\ at'[0] = "ready"
    BY <1>1, <2>1, Basics
  <2> QED
    BY <2>2
<1>4. ASSUME ~config.sft PROVE Loader'
  BY <1>1, <1>2, <1>3, <1>4, LoaderKept DEF LineageInv
<1> QED
  BY <1>1, <1>2, <1>3, <1>4, SavingKept

LEMMA RegisterStep == ASSUME ConstantsOK, LineageInv, Register PROVE LineageInv'
<1>1. /\ UNCHANGED <<config, global_steps, position, weights, tracker>>
      /\ phase' \in {"saving", "data"}
      /\ at' = [r \in Ranks |-> "called"] \/ at' = at
  BY DEF Register
<1>2. Files' /\ (~config.sft => UNCHANGED data)
  BY <1>1, RemovedFiles DEF Register, Trimmed
<1>3. (at'[0] = "called" \/ at' = at) /\ \E S : at' \in [Ranks -> S]
  BY <1>1, Basics DEF LineageInv, Shape
<1>4. ASSUME ~config.sft PROVE Loader'
  BY <1>1, <1>2, <1>3, <1>4, LoaderKept DEF LineageInv
<1> QED
  BY <1>1, <1>2, <1>3, <1>4, SavingKept

LEMMA DumpStep ==
  ASSUME ConstantsOK, LineageInv, NEW r \in Ranks, Dump(r)
  PROVE  LineageInv'
<1>1. /\ phase = "saving" /\ at' = [at EXCEPT ![r] = "dumped"]
      /\ shard' = [shard EXCEPT ![global_steps][Name][r] = weights]
      /\ UNCHANGED <<config, phase, global_steps, position, weights, data, tracker>>
  BY DEF Dump
<1>2. weights \in Seq(Batches) /\ Trained(weights, global_steps)
  BY DEF LineageInv, Trained
<1>3. ASSUME NEW s \in Steps
      PROVE  /\ shard'[s] \in [Names -> [Ranks -> Seq(Batches)]]
             /\ \A n \in Names, q \in Ranks :
                  shard'[s][n][q] = shard[s][n][q] \/ (s = global_steps /\ shard'[s][n][q] = weights)
  <2>1. shard[s] \in [Names -> [Ranks -> Seq(Batches)]] /\ DOMAIN shard = Steps
    BY DEF LineageInv, Files
  <2>2. CASE s = global_steps
    <3>1. shard'[s] = [shard[s] EXCEPT ![Name] = [shard[s][Name] EXCEPT ![r] = weights]]
      BY <1>1, <2>1, <2>2
    <3>2. CASE Name \in Names
      <4>1. [shard[s][Name] EXCEPT ![r] = weights] \in [Ranks -> Seq(Batches)]
        BY <1>2, <2>1, <3>2
      <4> QED
        BY <2>1, <2>2, <3>1, <3>2, <4>1
    <3>3. CASE Name \notin Names
      BY <2>1, <3>1, <3>3
    <3> QED
      BY <3>2, <3>3
  <2>3. CASE s # global_steps
    BY <1>1, <2>1, <2>3
  <2> QED
    BY <2>2, <2>3
<1>4. shard' \in [Steps -> [Names -> [Ranks -> Seq(Batches)]]]
  <2>1. DOMAIN shard' = Steps /\ shard' = [s \in Steps |-> shard'[s]]
    BY <1>1 DEF LineageInv, Files
  <2> QED
    BY <1>3, <2>1
<1>5. Names' = Names /\ \A w, s : Trained(w, s)' <=> Trained(w, s)
  BY <1>1 DEF Names, Managers, Trained
<1>6. \A s \in Steps, n \in Names, q \in Ranks :
        shard'[s][n][q] # NoFile => Trained(shard'[s][n][q], s)
  <2> SUFFICES ASSUME NEW s \in Steps, NEW n \in Names, NEW q \in Ranks, shard'[s][n][q] # NoFile
               PROVE  Trained(shard'[s][n][q], s)
    OBVIOUS
  <2>1. shard[s][n][q] # NoFile => Trained(shard[s][n][q], s)
    BY DEF LineageInv, Files
  <2> QED
    BY <1>2, <1>3, <2>1
<1>7. Files'
  <2>1. data' \in [Steps -> [Ranks -> Int]]
    BY <1>1 DEF LineageInv, Files
  <2>2. \A s \in Steps, n \in Names', q \in Ranks :
          shard'[s][n][q] # NoFile => Trained(shard[s][n][q], s)'
    <3>1. config' = config /\ Names' = Names
      BY <1>1, <1>5
    <3> QED
      BY <3>1, <1>6 DEF Trained
  <2>3. shard' \in [Steps -> [Names' -> [Ranks -> Seq(Batches)]]]
    BY <1>4, <1>5
  <2> QED
    BY <2>1, <2>2, <2>3 DEF Files
<1>8. (at'[0] = "dumped" \/ at'[0] = at[0]) /\ \E S : at' \in [Ranks -> S]
  <2>1. PICK S : at \in [Ranks -> S]
    BY DEF LineageInv, Shape
  <2>2. at' \in [Ranks -> S \union {"dumped"}] /\ (at'[0] = "dumped" \/ at'[0] = at[0])
    BY <1>1, <2>1, Basics
  <2> QED
    BY <2>2
<1>9. ASSUME ~config.sft PROVE Loader'
  BY <1>1, <1>8, <1>9, LoaderKept DEF LineageInv
<1> QED
  BY <1>1, <1>7, <1>8, <1>9, SavingKept

LEMMA ArriveStep ==
  ASSUME ConstantsOK, LineageInv, NEW r \in Ranks, Arrive(r)
  PROVE  LineageInv'
<1>1. /\ phase = "saving" /\ r # 0 /\ at' = [at EXCEPT ![r] = "ready"]
      /\ UNCHANGED <<config, phase, global_steps, position, weights, shard, data, tracker>>
  BY DEF Arrive, disk
<1>2. at'[0] = at[0] /\ \E S : at' \in [Ranks -> S]
  <2>1. PICK S : at \in [Ranks -> S]
    BY DEF LineageInv, Shape
  <2>2. at' \in [Ranks -> S \union {"ready"}] /\ at'[0] = at[0]
    BY <1>1, <2>1, Basics
  <2> QED
    BY <2>2
<1>3. ASSUME ~config.sft PROVE Loader'
  BY <1>1, <1>2, <1>3, LoaderKept DEF LineageInv
<1> QED
  BY <1>1, <1>2, <1>3, FilesKept, SavingKept DEF LineageInv

LEMMA SaveDataStep ==
  ASSUME ConstantsOK, LineageInv, NEW r \in Ranks, SaveData(r)
  PROVE  LineageInv'
<1>1. /\ r \in Loaders /\ at' = [at EXCEPT ![r] = "saved"]
      /\ data' = [data EXCEPT ![global_steps][r] = position[r]]
      /\ UNCHANGED <<config, phase, global_steps, position, weights, shard, tracker>>
      /\ ~config.sft => phase = "data"
  BY DEF SaveData
<1>2. data' \in [Steps -> [Ranks -> Int]]
  <2>1. data \in [Steps -> [Ranks -> Int]] /\ position[r] \in Int
    BY DEF LineageInv, Files, Shape
  <2>2. CASE global_steps \in Steps
    <3>1. [data[global_steps] EXCEPT ![r] = position[r]] \in [Ranks -> Int]
      BY <2>1, <2>2
    <3>2. data' = [data EXCEPT ![global_steps] = [data[global_steps] EXCEPT ![r] = position[r]]]
      BY <1>1
    <3> QED
      BY <2>1, <3>1, <3>2
  <2>3. CASE global_steps \notin Steps
    <3>1. data' = data
      BY <1>1, <2>1, <2>3
    <3> QED
      BY <2>1, <3>1
  <2> QED
    BY <2>2, <2>3
<1>3. Files'
  BY <1>1, <1>2 DEF LineageInv, Files, Names, Managers, Trained
<1>4. (r = 0 => at'[0] = "saved") /\ \E S : at' \in [Ranks -> S]
  <2>1. PICK S : at \in [Ranks -> S]
    BY DEF LineageInv, Shape
  <2>2. at' \in [Ranks -> S \union {"saved"}] /\ (r = 0 => at'[0] = "saved")
    BY <1>1, <2>1, Basics
  <2> QED
    BY <2>2
<1>5. ASSUME ~config.sft PROVE Loader'
  <2>1. r = 0 /\ phase' = "data"
    BY <1>1, <1>5, FirstLoader
  <2>2. Behind(position[0], global_steps) /\ position[0] # NoData
    BY <1>5, Basics DEF LineageInv, Loader, Behind
  <2>3. \A s \in Steps : data'[s][0] = IF s = global_steps THEN position[0] ELSE data[s][0]
    BY <1>1, <2>1, Basics DEF LineageInv, Files
  <2> QED
    BY <1>1, <1>5, <2>1, <2>2, <2>3 DEF LineageInv, Loader, Behind
<1> QED
  BY <1>1, <1>3, <1>4, <1>5, SavingKept

LEMMA TrackStep == ASSUME ConstantsOK, LineageInv, Track PROVE LineageInv'
<1>1. /\ phase = "data" /\ at[0] = "saved"
      /\ \/ tracker' = global_steps /\ at' = [at EXCEPT ![0] = "tracked"]
         \/ tracker' = Torn /\ at' = at
      /\ UNCHANGED <<config, phase, global_steps, position, weights, shard, data>>
  BY DEF Track
<1>2. at'[0] \in {"saved", "tracked"} /\ \E S : at' \in [Ranks -> S]
  <2>1. PICK S : at \in [Ranks -> S]
    BY DEF LineageInv, Shape
  <2>2. at' \in [Ranks -> S \union {"tracked"}] /\ at'[0] \in {"saved", "tracked"}
    BY <1>1, <2>1, Basics
  <2> QED
    BY <2>2
<1>3. ASSUME ~config.sft PROVE Loader'
  <2>1. Torn \notin Steps
    BY Basics DEF Torn
  <2> QED
    BY <1>1, <1>2, <1>3, <2>1 DEF LineageInv, Loader, Behind
<1> QED
  BY <1>1, <1>2, <1>3, FilesKept, SavingKept DEF LineageInv

LEMMA SavedStep == ASSUME ConstantsOK, LineageInv, Saved PROVE LineageInv'
<1>1. /\ at' = [r \in Ranks |-> "called"]
      /\ UNCHANGED <<config, global_steps, position, weights, shard, data, tracker>>
  BY DEF Saved, disk
<1>2. at'[0] = "called" /\ \E S : at' \in [Ranks -> S]
  BY <1>1, Basics
<1>3. ASSUME ~config.sft PROVE Loader'
  BY <1>1, <1>2, <1>3, LoaderKept DEF LineageInv
<1> QED
  BY <1>1, <1>2, <1>3, FilesKept, SavingKept DEF LineageInv

LEMMA LineageNext == ASSUME ConstantsOK PROVE LineageInv /\ [Next]_vars => LineageInv'
<1> SUFFICES ASSUME LineageInv, [Next]_vars PROVE LineageInv'
  OBVIOUS
<1>1. ASSUME UNCHANGED <<config, memory, disk>>,
             ~config.sft => (phase' \notin {"saving", "data"} => at[0] = "called")
      PROVE  LineageInv'
  <2>1. Files'
    BY <1>1, FilesKept DEF LineageInv, disk
  <2>2. ASSUME ~config.sft PROVE Loader'
    BY <1>1, <2>2, LoaderKept DEF LineageInv, memory, disk
  <2>3. \E S : at' \in [Ranks -> S]
    BY <1>1 DEF LineageInv, Shape, memory
  <2> QED
    BY <1>1, <2>1, <2>2, <2>3, SavingKept DEF memory
<1>2. CASE UNCHANGED vars
  BY <1>2, <1>1 DEF vars, LineageInv, Loader
<1>3. CASE Start
  <2>1. CASE FromScratch
    BY <1>3, <2>1, BlankStep DEF Start, FromScratch
  <2>2. CASE Resume
    BY <1>3, <2>2, ResumeStep DEF Start
  <2>3. CASE CannotLoad
    BY <1>3, <2>3, <1>1 DEF Start, CannotLoad, LineageInv, Loader
  <2> QED
    BY <1>3, <2>1, <2>2, <2>3 DEF Start
<1>4. CASE Training
  <2>1. CASE Train
    BY <1>4, <2>1, TrainStep DEF Training
  <2>2. CASE EndEpoch
    BY <1>4, <2>2, EndEpochStep DEF Training
  <2>3. CASE EndFit
    BY <1>4, <2>3, <1>1 DEF Training, EndFit, LineageInv, Loader
  <2> QED
    BY <1>4, <2>1, <2>2, <2>3 DEF Training
<1>5. CASE Saving
  BY <1>5, CapacityStep, RegisterStep, TrackStep, SavedStep, ArriveStep, DumpStep, SaveDataStep DEF Saving
<1>6. CASE Crash
  BY <1>6, BlankStep DEF Crash
<1> QED
  BY <1>2, <1>3, <1>4, <1>5, <1>6 DEF Next

\* Lineage: steps, weights and loader are lost and found together.
THEOREM LineageKept == Spec => []Lineage
<1> USE ConstantsOK
<1>1. LineageInv => Lineage
  <2> SUFFICES ASSUME LineageInv PROVE Lineage
    OBVIOUS
  <2>1. Len(weights) = global_steps /\ DOMAIN weights = 1 .. global_steps
    BY DEF LineageInv, Trained
  <2>2. ASSUME ~config.sft, NEW i \in DOMAIN weights
        PROVE  weights[i] = {((i - 1) % StepsPerEpoch) + 1}
    BY <2>1, <2>2 DEF LineageInv, Trained
  <2>3. ASSUME ~config.sft
        PROVE  position[0] \in {global_steps % StepsPerEpoch, StepsPerEpoch}
    <3>1. /\ position[0] \in 0 .. StepsPerEpoch /\ global_steps \in Nat
          /\ position[0] % StepsPerEpoch = global_steps % StepsPerEpoch
      BY <2>3 DEF LineageInv, Loader, Behind, Shape
    <3>2. position[0] = StepsPerEpoch \/ position[0] \in 0 .. StepsPerEpoch - 1
      BY <3>1, Basics
    <3> QED
      BY <3>1, <3>2, Basics, RemainderNext
  <2> QED
    BY <2>1, <2>2, <2>3 DEF Lineage
<1> QED
  BY <1>1, LineageInit, LineageNext, PTL DEF Spec

-----------------------------------------------------------------------------
(* That there always is something to start from.                             *)

\* Ranks move in step; behind the first barrier a rank's file holds the weights.
Written(r) == at[r] \in {"dumped", "saved"}
Complete(m) == phase = "data" \/ \E j \in 1 .. manager - 1 : m = Managers[j]

AtInv ==
  /\ at \in [Ranks -> {"called", "ready", "dumped", "saved", "tracked"}]
  /\ manager \in 1 .. Len(Managers)
  /\ phase \notin {"saving", "data"} => manager = 1 /\ \A r \in Ranks : at[r] = "called"
  /\ phase = "saving" => at[0] \in {"called", "ready", "dumped"}
  /\ phase = "data" => at[0] \in {"dumped", "saved", "tracked"}

\* Training ends with the last step, so that every step saved is one of Steps.
StepInv ==
  /\ phase = "training" => global_steps < total_training_steps \/ epoch = total_epochs
  /\ phase \in {"saving", "data"} => global_steps \in Steps
  /\ config.sft => /\ phase \in {"saving", "data"} => SaveHere(global_steps)
                   /\ tracker \in Steps => SaveHere(tracker)

\* What the save under way has written.
DumpInv ==
  /\ \A s \in Steps \ folders, m \in Names, r \in Ranks : shard[s][m][r] = NoFile
  /\ phase = "saving" =>
       /\ \A r \in Ranks : Written(r) => shard[global_steps][Name][r] = weights
                                         /\ global_steps \in folders
       /\ \A m \in Names : Complete(m) => ModelWhole(global_steps, m)
  /\ phase = "data" =>
       /\ \A m \in Names : ModelWhole(global_steps, m)
       /\ at[0] \in {"saved", "tracked"} => data[global_steps][0] # NoData
       /\ at[0] = "tracked" => tracker = global_steps

\* What this process has saved: each manager's list ends with the tracked step, or with the
\* one being saved.
ListInv ==
  /\ previous_saved_paths \in [Names -> Seq(Steps)]
  /\ phase = "down" => \A m \in Names : previous_saved_paths[m] = <<>>
  /\ phase \in {"training", "saving", "data"} =>
       \A m \in Names :
         LET list == previous_saved_paths[m]
         IN  /\ \A i, j \in DOMAIN list : list[i] = list[j] => i = j
             /\ \A i \in DOMAIN list : /\ list[i] <= global_steps
                                       /\ phase = "saving" /\ ~Complete(m) => list[i] < global_steps
             /\ list # <<>> => list[Len(list)] = IF phase # "training" /\ Complete(m)
                                                  THEN global_steps ELSE tracker

\* The tracked step lies behind, with its models; or a process of SFT that kept a single
\* checkpoint was killed between removing it and tracking the next, and all starts anew.
Models(s) == \A m \in Names : ModelWhole(s, m)
Later == \E s \in Steps : s > tracker /\ Models(s)
Onward == /\ tracker <= global_steps /\ (phase = "saving" => tracker < global_steps)
          /\ Models(tracker)
Anew == /\ config.sft /\ config.keep = 1 /\ Later
        /\ global_steps <= tracker /\ (phase = "training" => global_steps < tracker)
        /\ \A m \in Names : previous_saved_paths[m] = <<>>
        /\ \/ tracker \notin folders
           \/ /\ phase = "saving" /\ tracker = global_steps
              /\ \A m \in Names, r \in Ranks : ~Written(r) => shard[tracker][m][r] = NoFile

TrackInv ==
  /\ tracker \in Steps \cup {None, Torn}
  /\ config.sft => tracker # Torn
  /\ tracker \in Steps =>
       /\ config.keep # 1 => Whole(tracker)
       /\ config.sft => Models(tracker) \/ (Later /\ ~Loadable(tracker))
       /\ phase \in {"training", "saving"} /\ (config.sft \/ config.keep # 1) => Onward \/ Anew
  /\ tracker # None => \A m \in Names : \E s \in Steps : ModelWhole(s, m)

SomethingInv == AtInv /\ StepInv /\ DumpInv /\ ListInv /\ TrackInv

-----------------------------------------------------------------------------
(* Helpers                                                                   *)

LEMMA ManagerFacts ==
  /\ Len(Managers) \in 1 .. 2 /\ (config.sft => Len(Managers) = 1)
  /\ \A m \in Names : \E j \in 1 .. Len(Managers) : m = Managers[j]
  /\ \A j \in 1 .. Len(Managers) : Managers[j] \in Names
  /\ \A i, j \in 1 .. Len(Managers) : Managers[i] = Managers[j] => i = j
<1>1. CASE config.sft
  <2>1. Managers = <<"model">>
    BY <1>1 DEF Managers
  <2> QED
    BY <1>1, <2>1 DEF Names, Range
<1>2. CASE ~config.sft
  <2>1. Managers = <<"actor", "critic">>
    BY <1>2 DEF Managers
  <2> QED
    BY <1>2, <2>1 DEF Names, Range
<1> QED
  BY <1>1, <1>2

\* The manager that saves is one of them, and has not saved yet; SFT has no other.
LEMMA NameFacts ==
  ASSUME AtInv
  PROVE  /\ Name \in Names /\ (config.sft => \A m \in Names : m = Name)
         /\ phase # "data" => ~Complete(Name)
<1>1. manager \in 1 .. Len(Managers) /\ Len(Managers) \in Nat
  BY ManagerFacts DEF AtInv
<1>2. Name \in Names /\ (config.sft => \A m \in Names : m = Name)
  BY <1>1, ManagerFacts DEF Name
<1>3. ASSUME NEW j \in 1 .. manager - 1 PROVE Name # Managers[j]
  <2>1. j \in 1 .. Len(Managers) /\ j # manager
    BY <1>1, <1>3
  <2> QED
    BY <1>1, <2>1, ManagerFacts DEF Name
<1> QED
  BY <1>2, <1>3 DEF Complete

LEMMA NamesKept ==
  ASSUME config' = config
  PROVE  Managers' = Managers /\ Names' = Names /\ (manager' = manager => Name' = Name)
BY DEF Managers, Names, Name

\* What is on disk, where folders, model files and positions stay.
LEMMA ModelKept ==
  ASSUME NEW s, NEW m, ModelWhole(s, m), 0 \in Ranks, s \in folders',
         \A r \in Ranks : shard'[s][m][r] = shard[s][m][r]
  PROVE  ModelWhole(s, m)'
BY DEF ModelWhole

LEMMA DiskKept ==
  ASSUME UNCHANGED <<config, disk>>
  PROVE  /\ \A s, m : ModelWhole(s, m)' <=> ModelWhole(s, m)
         /\ \A s : (Whole(s)' <=> Whole(s)) /\ (Models(s)' <=> Models(s)) /\ (Loadable(s)' <=> Loadable(s))
         /\ Later' <=> Later
<1>1. Managers' = Managers /\ Names' = Names
  BY NamesKept
<1>2. \A s, m : ModelWhole(s, m)' <=> ModelWhole(s, m)
  BY DEF ModelWhole, disk
<1>3. \A s : Models(s)' <=> Models(s)
  BY <1>1, <1>2 DEF Models
<1>4. \A s : (Whole(s)' <=> Whole(s)) /\ (Loadable(s)' <=> Loadable(s))
  BY <1>1, <1>2 DEF Whole, Loadable, disk
<1> QED
  BY <1>2, <1>3, <1>4 DEF Later, disk

LEMMA WholeModels ==
  ASSUME NEW s
  PROVE  /\ Whole(s) <=> data[s][0] # NoData /\ Models(s)
         /\ Models(s) => s \in folders
<1>1. \E m : m \in Names
  BY ManagerFacts
<1> QED
  BY <1>1 DEF Whole, Models, ModelWhole, Names

\* A model of a step that was trained is a file.
LEMMA ModelIsFile ==
  ASSUME ConstantsOK, NEW s \in Steps, NEW m, ModelWhole(s, m)
  PROVE  \A r \in Ranks : shard[s][m][r] # NoFile
BY Basics DEF ModelWhole

\* PPO's weights are determined by the number of their steps.
LEMMA Determined ==
  ASSUME ~config.sft, NEW s \in Nat, NEW w, NEW v, Trained(w, s), Trained(v, s)
  PROVE  w = v
<1>1. w \in Seq(Batches) /\ v \in Seq(Batches) /\ Len(w) = Len(v)
  BY DEF Trained
<1>2. \A i \in 1 .. Len(w) : w[i] = v[i]
  BY DEF Trained
<1> QED
  BY <1>1, <1>2

\* Files of old steps go, of one manager.
LEMMA RemovedKeeps ==
  ASSUME ConstantsOK, LineageInv, NEW m \in Names, NEW old, Removed(m, old)
  PROVE  /\ \A s \in Steps, n \in Names, r \in Ranks :
              /\ s \notin old \/ n # m => shard'[s][n][r] = shard[s][n][r]
              /\ s \in old => shard'[s][m][r] = NoFile
         /\ folders' \subseteq folders /\ folders \subseteq folders' \union old
         /\ config.sft => folders' \cap old = {}
         /\ ~config.sft => folders' = folders
         /\ \A s \in Steps : s \notin old => data'[s] = data[s]
<1>1. ASSUME NEW s \in Steps, NEW n \in Names, NEW r \in Ranks
      PROVE  /\ s \notin old \/ n # m => shard'[s][n][r] = shard[s][n][r]
             /\ s \in old => shard'[s][m][r] = NoFile
  <2>1. shard[s] \in [Names -> [Ranks -> Seq(Batches)]]
    BY DEF LineageInv, Files
  <2>2. shard'[s] = IF s \in old THEN [shard[s] EXCEPT ![m] = [q \in Ranks |-> NoFile]] ELSE shard[s]
    BY DEF Removed
  <2> QED
    BY <2>1, <2>2
<1>2. /\ folders' \subseteq folders /\ folders \subseteq folders' \union old
      /\ config.sft => folders' \cap old = {}
      /\ ~config.sft => folders' = folders
  BY DEF Removed
<1>3. \A s \in Steps : s \notin old => data'[s] = data[s]
  BY DEF Removed
<1> QED
  BY <1>1, <1>2, <1>3

\* A list without its first entries.
LEMMA CutList ==
  ASSUME NEW S, NEW list \in Seq(S), NEW cut \in 0 .. Len(list),
         NEW kept, kept = SubSeq(list, cut + 1, Len(list)),
         NEW old, old = Range(SubSeq(list, 1, cut))
  PROVE  /\ kept \in Seq(S) /\ Len(kept) = Len(list) - cut
         /\ \A i \in 1 .. Len(kept) : kept[i] = list[i + cut]
         /\ \A s \in old : \E i \in 1 .. cut : s = list[i]
         /\ cut = 0 => old = {}
<1>1. Len(list) \in Nat
  OBVIOUS
<1>2. kept \in Seq(S) /\ Len(kept) = Len(list) - cut /\ \A i \in 1 .. Len(kept) : kept[i] = list[i + cut]
  <2>1. /\ cut + 1 \in 1 .. Len(list) + 1 /\ Len(list) \in cut .. Len(list)
    BY <1>1
  <2> QED
    BY <1>1, <2>1, SubSeqProperties
<1>3. Len(SubSeq(list, 1, cut)) = cut /\ \A i \in 1 .. cut : SubSeq(list, 1, cut)[i] = list[i]
  BY <1>1, SubSeqProperties
<1>4. old = {SubSeq(list, 1, cut)[i] : i \in 1 .. cut}
  <2>1. SubSeq(list, 1, cut) \in Seq(S)
    BY <1>1, SubSeqProperties
  <2>2. DOMAIN SubSeq(list, 1, cut) = 1 .. cut
    BY <1>3, <2>1
  <2> QED
    BY <2>2 DEF Range
<1>5. \A s \in old : \E i \in 1 .. cut : s = list[i]
  BY <1>3, <1>4
<1>6. cut = 0 => old = {}
  BY <1>5
<1> QED
  BY <1>2, <1>5, <1>6

\* Trimming leaves the end of the list, as many as may stay.
LEMMA TrimmedKeeps ==
  ASSUME ConstantsOK, ListInv, NEW m \in Names, NEW list \in Seq(Steps), NEW n \in Nat \ {0},
         Trimmed(m, list, n),
         \A i, j \in DOMAIN list : list[i] = list[j] => i = j
  PROVE  \E old, kept :
           /\ Removed(m, old)
           /\ previous_saved_paths' = [previous_saved_paths EXCEPT ![m] = kept]
           /\ kept \in Seq(Steps)
           /\ \A i, j \in DOMAIN kept : kept[i] = kept[j] => i = j
           /\ \A i \in DOMAIN kept : \E j \in DOMAIN list : kept[i] = list[j]
           /\ list # <<>> => kept # <<>> /\ kept[Len(kept)] = list[Len(list)]
           /\ list = <<>> => kept = <<>>
           /\ \A s \in old : \E j \in DOMAIN list : j <= Len(list) - n /\ s = list[j]
           /\ \A j \in DOMAIN list : j > Len(list) - n => list[j] \notin old
<1> DEFINE cut == IF Len(list) > n THEN Len(list) - n ELSE 0
           kept == SubSeq(list, cut + 1, Len(list))
           old == Range(SubSeq(list, 1, cut))
<1>1. Removed(m, old) /\ previous_saved_paths' = [previous_saved_paths EXCEPT ![m] = kept]
  BY DEF Trimmed
<1>2. /\ cut \in 0 .. Len(list) /\ Len(list) \in Nat /\ DOMAIN list = 1 .. Len(list)
      /\ \A j \in DOMAIN list : (j <= cut <=> j <= Len(list) - n)
      /\ list # <<>> => cut < Len(list) /\ Len(list) > 0
  OBVIOUS
<1>3. /\ kept \in Seq(Steps) /\ Len(kept) = Len(list) - cut
      /\ \A i \in 1 .. Len(kept) : kept[i] = list[i + cut]
      /\ \A s \in old : \E i \in 1 .. cut : s = list[i]
  <2>1. kept = SubSeq(list, cut + 1, Len(list)) /\ old = Range(SubSeq(list, 1, cut)) /\ cut \in 0 .. Len(list)
    BY <1>2
  <2> HIDE DEF cut, kept, old
  <2> QED
    BY <2>1, CutList
<1> HIDE DEF cut, kept, old
<1>4. DOMAIN kept = 1 .. Len(kept) /\ \A i \in DOMAIN kept : i + cut \in DOMAIN list
  BY <1>2, <1>3
<1>5. \A i, j \in DOMAIN kept : kept[i] = kept[j] => i = j
  <2> SUFFICES ASSUME NEW i \in DOMAIN kept, NEW j \in DOMAIN kept, kept[i] = kept[j] PROVE i = j
    OBVIOUS
  <2>1. i + cut = j + cut
    BY <1>3, <1>4
  <2> QED
    BY <1>2, <1>4, <2>1
<1>6. \A i \in DOMAIN kept : \E j \in DOMAIN list : kept[i] = list[j]
  BY <1>3, <1>4
<1>7. /\ list # <<>> => kept # <<>> /\ kept[Len(kept)] = list[Len(list)]
      /\ list = <<>> => kept = <<>>
  <2>1. ASSUME list # <<>> PROVE kept # <<>> /\ kept[Len(kept)] = list[Len(list)]
    <3>1. Len(kept) \in 1 .. Len(kept) /\ Len(kept) + cut = Len(list)
      BY <1>2, <1>3, <2>1
    <3> QED
      BY <1>3, <3>1
  <2>2. ASSUME list = <<>> PROVE kept = <<>>
    BY <1>2, <1>3, <2>2
  <2> QED
    BY <2>1, <2>2
<1>8. \A s \in old : \E j \in DOMAIN list : j <= Len(list) - n /\ s = list[j]
  <2> SUFFICES ASSUME NEW s \in old PROVE \E j \in DOMAIN list : j <= Len(list) - n /\ s = list[j]
    OBVIOUS
  <2>1. PICK i \in 1 .. cut : s = list[i]
    BY <1>3
  <2>2. i \in DOMAIN list /\ i <= cut
    BY <1>2, <2>1
  <2> QED
    BY <1>2, <2>1, <2>2
<1>9. \A j \in DOMAIN list : j > Len(list) - n => list[j] \notin old
  <2> SUFFICES ASSUME NEW j \in DOMAIN list, j > Len(list) - n, list[j] \in old PROVE FALSE
    OBVIOUS
  <2>1. PICK i \in 1 .. cut : list[j] = list[i]
    BY <1>3
  <2>2. i \in DOMAIN list
    BY <1>2, <2>1
  <2>3. i = j
    BY <2>1, <2>2
  <2> QED
    BY <1>2, <2>1, <2>2, <2>3
<1> QED
  BY <1>1, <1>3, <1>5, <1>6, <1>7, <1>8, <1>9

\* What removing leaves: a model that is whole stays so, unless it is that manager's and old.
LEMMA RemovedModels ==
  ASSUME ConstantsOK, LineageInv, NEW m \in Names, NEW old, Removed(m, old),
         NEW s \in Steps, NEW n \in Names, s \notin old \/ n # m, ModelWhole(s, n)
  PROVE  ModelWhole(s, n)'
<1>1. /\ \A r \in Ranks : shard'[s][n][r] = shard[s][n][r]
      /\ folders \subseteq folders' \union old
      /\ ~config.sft => folders' = folders
  BY RemovedKeeps
<1>2. n # m => ~config.sft
  BY ManagerFacts
<1>3. s \in folders
  BY DEF ModelWhole
<1> QED
  BY <1>1, <1>2, <1>3, Basics, ModelKept

\* A step without a folder has no files.
LEMMA RemovedNoFile ==
  ASSUME ConstantsOK, LineageInv, DumpInv, NEW m \in Names, NEW old, Removed(m, old)
  PROVE  \A s \in Steps \ folders', n \in Names, r \in Ranks : shard'[s][n][r] = NoFile
<1> SUFFICES ASSUME NEW s \in Steps, s \notin folders', NEW n \in Names, NEW r \in Ranks
             PROVE  shard'[s][n][r] = NoFile
  OBVIOUS
<1>1. /\ s \notin old \/ n # m => shard'[s][n][r] = shard[s][n][r]
      /\ s \in old => shard'[s][m][r] = NoFile
      /\ folders \subseteq folders' \union old
      /\ ~config.sft => folders' = folders
  BY RemovedKeeps
<1>2. n # m => ~config.sft
  BY ManagerFacts
<1>3. s \notin folders => shard[s][n][r] = NoFile
  BY DEF DumpInv
<1> QED
  BY <1>1, <1>2, <1>3

-----------------------------------------------------------------------------
(* Ranks, managers and steps                                                 *)

LEMMA SomethingInit == ASSUME ConstantsOK PROVE Init => SomethingInv
<1> SUFFICES ASSUME Init PROVE SomethingInv
  OBVIOUS
<1>1. AtInv
  <2>1. Len(Managers) \in 1 .. 2 /\ 1 \in 1 .. Len(Managers)
    BY ManagerFacts
  <2> QED
    BY <2>1 DEF Init, AtInv
<1>2. StepInv /\ TrackInv
  BY Basics DEF Init, StepInv, TrackInv, None, Torn
<1>3. DumpInv
  BY DEF Init, DumpInv, Names
<1>4. ListInv
  BY DEF Init, ListInv, Names
<1> QED
  BY <1>1, <1>2, <1>3, <1>4 DEF SomethingInv

LEMMA AtNext == ASSUME ConstantsOK, AtInv, Next PROVE AtInv'
<1>1. 0 \in Ranks /\ Managers' = Managers /\ 1 \in 1 .. Len(Managers) /\ Len(Managers) \in Nat
  <2>1. config' = config
    BY DEF Next, Start, Training, Saving, Crash, Capacity, Register, Track, Saved, Arrive, Dump, SaveData
  <2> QED
    BY <2>1, Basics, NamesKept, ManagerFacts
<1>2. at \in [Ranks -> {"called", "ready", "dumped", "saved", "tracked"}] /\ manager \in 1 .. Len(Managers)
  BY DEF AtInv
<1>3. ASSUME UNCHANGED <<manager, at>>, phase \notin {"saving", "data"}, phase' # "data"
      PROVE  AtInv'
  <2>1. manager = 1 /\ \A r \in Ranks : at[r] = "called"
    BY <1>3 DEF AtInv
  <2> QED
    BY <1>1, <1>2, <1>3, <2>1 DEF AtInv
<1>4. ASSUME manager' = 1, at' = [r \in Ranks |-> "called"], phase' # "data"
      PROVE  AtInv'
  BY <1>1, <1>4 DEF AtInv
<1>5. CASE Start
  BY <1>3, <1>4, <1>5 DEF Start, FromScratch, Resume, CannotLoad, Blank, memory
<1>6. CASE Training
  BY <1>3, <1>6 DEF Training, Train, EndEpoch, EndFit, memory
<1>7. CASE Crash
  BY <1>4, <1>7 DEF Crash, Blank
<1>8. CASE Saved
  BY <1>4, <1>8 DEF Saved
<1>9. CASE Register
  <2>1. CASE manager < Len(Managers)
    BY <1>1, <1>2, <1>9, <2>1 DEF Register, AtInv
  <2>2. CASE ~(manager < Len(Managers))
    <3>1. phase' = "data" /\ UNCHANGED <<manager, at>> /\ at[0] \in {"dumped", "saved"}
      BY <1>1, <1>9, <2>2 DEF Register, AllDumped
    <3> QED
      BY <1>1, <1>2, <3>1 DEF AtInv
  <2> QED
    BY <2>1, <2>2
<1>10. CASE Capacity
  BY <1>1, <1>2, <1>10 DEF Capacity, AtInv
<1>11. CASE Track
  BY <1>1, <1>2, <1>11 DEF Track, AtInv
<1>12. ASSUME NEW r \in Ranks, Arrive(r) \/ Dump(r) PROVE AtInv'
  BY <1>1, <1>2, <1>12 DEF Arrive, Dump, AtInv
<1>13. ASSUME NEW r \in Ranks, SaveData(r) PROVE AtInv'
  BY <1>1, <1>2, <1>13 DEF SaveData, AtInv
<1> QED
  BY <1>5, <1>6, <1>7, <1>8, <1>9, <1>10, <1>11, <1>12, <1>13 DEF Next, Saving

LEMMA Quotient ==
  ASSUME NEW S \in Nat \ {0}, NEW e \in Nat
  PROVE  (S * e) \div S = e
<1> DEFINE q == (S * e) \div S
           t == (S * e) % S
<1>1. q \in Nat /\ t \in 0 .. S - 1 /\ S * e = S * q + t
  <2>1. S * e \in Nat
    OBVIOUS
  <2> QED
    BY <2>1
<1> HIDE DEF q, t
<1>2. CASE q < e
  BY <1>1, <1>2, Products
<1>3. CASE e < q
  BY <1>1, <1>3, Products
<1> QED
  BY <1>1, <1>2, <1>3 DEF q

LEMMA StepNext ==
  ASSUME ConstantsOK, LineageInv, AtInv, StepInv, DumpInv, TrackInv, Next
  PROVE  StepInv'
<1>1. global_steps \in Nat /\ total_training_steps \in Nat \ {0} /\ Steps = 1 .. total_training_steps
  <2>1. total_training_steps \in Nat /\ total_training_steps >= 1
    <3>1. StepsPerEpoch \in Nat /\ total_epochs \in Nat /\ StepsPerEpoch >= 1 /\ total_epochs >= 1
      BY DEF ConstantsOK
    <3>2. 0 < total_epochs /\ StepsPerEpoch * 0 = 0
      BY <3>1
    <3>3. StepsPerEpoch * 0 + StepsPerEpoch <= StepsPerEpoch * total_epochs /\ StepsPerEpoch * total_epochs \in Nat
      BY <3>1, <3>2, Products
    <3> QED
      BY <3>1, <3>2, <3>3 DEF total_training_steps
  <2> QED
    BY <2>1 DEF LineageInv, Shape, Steps
<1>2. total_training_steps' = total_training_steps /\ Steps' = Steps /\ (SaveHere(tracker)' <=> SaveHere(tracker'))
      /\ (SaveHere(global_steps)' <=> SaveHere(global_steps'))
  BY DEF total_training_steps, Steps, SaveHere, IsLastStep
<1>3. ASSUME UNCHANGED <<config, global_steps, epoch, tracker>>,
             phase' = phase \/ phase' \in {"down", "failed", "done"} \/ (phase = "saving" /\ phase' = "data")
      PROVE  StepInv'
  BY <1>2, <1>3 DEF StepInv
<1>4. CASE Start
  <2>1. CASE FromScratch
    BY <1>1, <1>2, <1>4, <2>1 DEF Start, FromScratch, Blank, StepInv, disk
  <2>2. CASE Resume
    <3>1. /\ global_steps' = tracker /\ tracker \in Steps /\ epoch' = tracker \div StepsPerEpoch
          /\ phase' = "training" /\ UNCHANGED <<config, tracker>>
      BY <1>4, <2>2 DEF Start, Resume, disk
    <3>2. tracker = total_training_steps => epoch' = total_epochs
      BY <3>1, Quotient DEF total_training_steps, ConstantsOK
    <3>3. tracker < total_training_steps \/ tracker = total_training_steps
      BY <1>1, <3>1
    <3>4. StepInv!1'
      BY <1>2, <3>1, <3>2, <3>3
    <3> QED
      BY <1>2, <3>1, <3>4 DEF StepInv
  <2>3. CASE CannotLoad
    BY <1>3, <1>4, <2>3 DEF Start, CannotLoad, memory, disk
  <2> QED
    BY <1>4, <2>1, <2>2, <2>3 DEF Start
<1>5. CASE Training
  <2>1. CASE Train
    <3>1. /\ phase = "training" /\ epoch < total_epochs /\ global_steps' = global_steps + 1
          /\ UNCHANGED <<config, epoch, tracker>>
          /\ \/ phase' = "saving" /\ (SaveHere(global_steps') \/ ~config.sft)
             \/ phase' = "training" /\ ~SaveHere(global_steps')
      BY <1>5, <2>1 DEF Training, Train, disk
    <3>2. epoch # total_epochs
      BY <3>1, <1>1 DEF ConstantsOK
    <3>3. global_steps' \in Steps
      BY <1>1, <3>1, <3>2 DEF StepInv
    <3>4. ~SaveHere(global_steps') => global_steps' < total_training_steps
      <4>1. ~SaveHere(global_steps') => ~(global_steps' >= total_training_steps)
        BY DEF SaveHere, IsLastStep
      <4>2. global_steps' \in Nat
        BY <1>1, <3>1
      <4> QED
        BY <1>1, <4>1, <4>2
    <3> QED
      BY <1>2, <3>1, <3>3, <3>4 DEF StepInv
  <2>2. CASE EndEpoch
    <3>1. /\ phase = "training" /\ epoch < total_epochs
          /\ UNCHANGED <<config, phase, global_steps, tracker>>
      BY <1>5, <2>2 DEF Training, EndEpoch, disk
    <3>2. global_steps < total_training_steps
      BY <3>1 DEF StepInv, ConstantsOK
    <3> QED
      BY <1>2, <3>1, <3>2 DEF StepInv
  <2>3. CASE EndFit
    BY <1>3, <1>5, <2>3 DEF Training, EndFit, memory, disk
  <2> QED
    BY <1>5, <2>1, <2>2, <2>3 DEF Training
<1>6. CASE Crash
  BY <1>2, <1>6 DEF Crash, Blank, StepInv, disk
<1>7. CASE Track
  <2>1. /\ phase = "data" /\ phase' = phase /\ UNCHANGED <<config, global_steps, epoch>>
        /\ tracker' = global_steps \/ (tracker' = Torn /\ ~config.sft)
    BY <1>7 DEF Track
  <2> QED
    BY <1>2, <2>1 DEF StepInv
<1>8. CASE Saved
  <2>1. /\ phase = "data" /\ UNCHANGED <<config, global_steps, epoch, tracker>>
        /\ phase' = IF IsLastStep(global_steps) THEN "done" ELSE "training"
    BY <1>8 DEF Saved, disk
  <2>2. ~IsLastStep(global_steps) => global_steps < total_training_steps
    BY <1>1 DEF IsLastStep
  <2> QED
    BY <1>2, <2>1, <2>2 DEF StepInv
<1>9. CASE Capacity \/ Register \/ \E r \in Ranks : Arrive(r) \/ Dump(r) \/ SaveData(r)
  BY <1>3, <1>9 DEF Capacity, Register, Arrive, Dump, SaveData, disk
<1> QED
  BY <1>4, <1>5, <1>6, <1>7, <1>8, <1>9 DEF Next, Saving

-----------------------------------------------------------------------------
(* Making room, before a manager's save and after                            *)

LEMMA KeepFacts == ASSUME ConstantsOK, LineageInv PROVE config.keep \in Nat /\ config.sft \in BOOLEAN
BY DEF ConstantsOK, LineageInv, Shape

\* The list of the manager that saves: earlier steps, up to the tracked one.
LEMMA SavingList ==
  ASSUME ConstantsOK, LineageInv, AtInv, StepInv, ListInv, phase = "saving", NEW list, list = previous_saved_paths[Name]
  PROVE  /\ list \in Seq(Steps) /\ Len(list) \in Nat /\ DOMAIN list = 1 .. Len(list)
         /\ \A i, j \in DOMAIN list : list[i] = list[j] => i = j
         /\ \A i \in DOMAIN list : list[i] < global_steps
         /\ list # <<>> => list[Len(list)] = tracker /\ Len(list) \in DOMAIN list
         /\ global_steps \in Steps
<1>1. Name \in Names /\ ~Complete(Name)
  BY NameFacts
<1>2. list \in Seq(Steps)
  BY <1>1 DEF ListInv
<1>3. /\ \A i, j \in DOMAIN list : list[i] = list[j] => i = j
      /\ \A i \in DOMAIN list : list[i] < global_steps
      /\ list # <<>> => list[Len(list)] = tracker
  BY <1>1 DEF ListInv
<1>4. Len(list) \in Nat /\ DOMAIN list = 1 .. Len(list) /\ (list # <<>> => Len(list) \in DOMAIN list)
  BY <1>2
<1> QED
  BY <1>2, <1>3, <1>4 DEF StepInv

LEMMA CapacityTrims ==
  ASSUME ConstantsOK, LineageInv, AtInv, StepInv, ListInv, Capacity, config.keep > 1
  PROVE  \E old, kept :
           /\ Removed(Name, old) /\ global_steps \notin old /\ tracker \notin old
           /\ tracker \notin Steps => old = {}
           /\ previous_saved_paths' = [previous_saved_paths EXCEPT ![Name] = kept]
           /\ kept \in Seq(Steps)
           /\ \A i, j \in DOMAIN kept : kept[i] = kept[j] => i = j
           /\ \A i \in DOMAIN kept : kept[i] < global_steps
           /\ kept # <<>> => kept[Len(kept)] = tracker
<1> DEFINE list == previous_saved_paths[Name]
           n == config.keep - 1
<1>1. phase = "saving" /\ Trimmed(Name, list, n)
  BY DEF Capacity
<1>2. /\ list \in Seq(Steps) /\ Len(list) \in Nat /\ DOMAIN list = 1 .. Len(list)
      /\ \A i, j \in DOMAIN list : list[i] = list[j] => i = j
      /\ \A i \in DOMAIN list : list[i] < global_steps
      /\ list # <<>> => list[Len(list)] = tracker /\ Len(list) \in DOMAIN list
      /\ global_steps \in Steps
  BY <1>1, SavingList
<1>3. Name \in Names /\ n \in Nat \ {0}
  BY NameFacts, KeepFacts
<1> HIDE DEF list, n
<1>4. PICK old, kept :
           /\ Removed(Name, old)
           /\ previous_saved_paths' = [previous_saved_paths EXCEPT ![Name] = kept]
           /\ kept \in Seq(Steps)
           /\ \A i, j \in DOMAIN kept : kept[i] = kept[j] => i = j
           /\ \A i \in DOMAIN kept : \E j \in DOMAIN list : kept[i] = list[j]
           /\ list # <<>> => kept # <<>> /\ kept[Len(kept)] = list[Len(list)]
           /\ list = <<>> => kept = <<>>
           /\ \A s \in old : \E j \in DOMAIN list : j <= Len(list) - n /\ s = list[j]
           /\ \A j \in DOMAIN list : j > Len(list) - n => list[j] \notin old
  BY <1>1, <1>2, <1>3, TrimmedKeeps
<1>5. \A s \in old : s < global_steps
  BY <1>2, <1>4
<1>6. list = <<>> => old = {}
  <2>1. list = <<>> => DOMAIN list = {}
    BY <1>2
  <2> QED
    BY <1>4, <2>1
<1>7. list # <<>> => tracker \notin old /\ tracker \in Steps
  <2> SUFFICES ASSUME list # <<>> PROVE tracker \notin old /\ tracker \in Steps
    OBVIOUS
  <2>1. Len(list) \in DOMAIN list /\ Len(list) > Len(list) - n /\ list[Len(list)] = tracker
    BY <1>2, <1>3
  <2> QED
    BY <1>2, <1>4, <2>1
<1>8. global_steps \notin old
  BY <1>2, <1>5, Basics
<1>9. kept # <<>> => kept[Len(kept)] = tracker
  BY <1>2, <1>4
<1>10. \A i \in DOMAIN kept : kept[i] < global_steps
  BY <1>2, <1>4
<1> QED
  BY <1>4, <1>6, <1>7, <1>8, <1>9, <1>10

LEMMA RegisterTrims ==
  ASSUME ConstantsOK, LineageInv, AtInv, StepInv, ListInv, Register
  PROVE  \E old, kept :
           /\ Removed(Name, old) /\ global_steps \notin old
           /\ config.keep # 1 => tracker \notin old
           /\ previous_saved_paths[Name] = <<>> => old = {}
           /\ previous_saved_paths' = [previous_saved_paths EXCEPT ![Name] = kept]
           /\ kept \in Seq(Steps)
           /\ \A i, j \in DOMAIN kept : kept[i] = kept[j] => i = j
           /\ \A i \in DOMAIN kept : kept[i] <= global_steps
           /\ kept # <<>> => kept[Len(kept)] = global_steps
<1> DEFINE last == previous_saved_paths[Name]
           list == Append(last, global_steps)
           n == IF config.keep = 0 THEN Len(list) ELSE config.keep
<1>1. phase = "saving" /\ Trimmed(Name, list, n)
  BY DEF Register
<1>2. /\ last \in Seq(Steps) /\ Len(last) \in Nat /\ DOMAIN last = 1 .. Len(last)
      /\ \A i, j \in DOMAIN last : last[i] = last[j] => i = j
      /\ \A i \in DOMAIN last : last[i] < global_steps
      /\ last # <<>> => last[Len(last)] = tracker /\ Len(last) \in DOMAIN last
      /\ global_steps \in Steps /\ Steps \subseteq Nat
  BY <1>1, SavingList, Basics
<1> HIDE DEF last
<1>3. /\ list \in Seq(Steps) /\ Len(list) = Len(last) + 1 /\ DOMAIN list = 1 .. Len(list)
      /\ \A i \in 1 .. Len(last) : list[i] = last[i]
      /\ list[Len(list)] = global_steps
  BY <1>2
<1>4. Name \in Names /\ n \in Nat \ {0} /\ (config.keep # 1 => n >= 2 \/ n = Len(list))
  BY <1>2, <1>3, NameFacts, KeepFacts
<1> HIDE DEF list, n
<1>5. \A i \in DOMAIN list : list[i] <= global_steps /\ (i # Len(list) => i \in DOMAIN last /\ list[i] < global_steps)
  <2> SUFFICES ASSUME NEW i \in DOMAIN list
               PROVE  list[i] <= global_steps /\ (i # Len(list) => i \in DOMAIN last /\ list[i] < global_steps)
    OBVIOUS
  <2>1. CASE i = Len(list)
    BY <1>2, <1>3, <2>1
  <2>2. CASE i # Len(list)
    <3>1. i \in DOMAIN last /\ list[i] = last[i]
      BY <1>2, <1>3, <2>2
    <3>2. last[i] < global_steps /\ last[i] \in Nat
      <4>1. last[i] < global_steps
        BY <1>2, <3>1
      <4>2. last[i] \in Steps
        BY <1>2, <3>1
      <4> QED
        BY <1>2, <4>1, <4>2
    <3> QED
      BY <1>2, <3>1, <3>2
  <2> QED
    BY <2>1, <2>2
<1>6. \A i, j \in DOMAIN list : list[i] = list[j] => i = j
  <2> SUFFICES ASSUME NEW i \in DOMAIN list, NEW j \in DOMAIN list, list[i] = list[j] PROVE i = j
    OBVIOUS
  <2>1. CASE i # Len(list) /\ j # Len(list)
    BY <1>2, <1>3, <1>5, <2>1
  <2>2. CASE i = Len(list) /\ j # Len(list)
    BY <1>2, <1>3, <1>5, <2>2
  <2>3. CASE i # Len(list) /\ j = Len(list)
    BY <1>2, <1>3, <1>5, <2>3
  <2> QED
    BY <2>1, <2>2, <2>3
<1>7. PICK old, kept :
           /\ Removed(Name, old)
           /\ previous_saved_paths' = [previous_saved_paths EXCEPT ![Name] = kept]
           /\ kept \in Seq(Steps)
           /\ \A i, j \in DOMAIN kept : kept[i] = kept[j] => i = j
           /\ \A i \in DOMAIN kept : \E j \in DOMAIN list : kept[i] = list[j]
           /\ list # <<>> => kept # <<>> /\ kept[Len(kept)] = list[Len(list)]
           /\ list = <<>> => kept = <<>>
           /\ \A s \in old : \E j \in DOMAIN list : j <= Len(list) - n /\ s = list[j]
           /\ \A j \in DOMAIN list : j > Len(list) - n => list[j] \notin old
  BY <1>1, <1>3, <1>4, <1>6, TrimmedKeeps
<1>8. global_steps \notin old
  <2>1. Len(list) \in DOMAIN list /\ Len(list) > Len(list) - n
    BY <1>2, <1>3, <1>4
  <2> QED
    BY <1>3, <1>7, <2>1
<1>9. last = <<>> => old = {}
  <2> SUFFICES ASSUME last = <<>>, NEW s \in old PROVE FALSE
    OBVIOUS
  <2>1. PICK j \in DOMAIN list : j <= Len(list) - n
    BY <1>7
  <2>2. Len(list) = 1 /\ j \in 1 .. 1
    BY <1>3
  <2> QED
    BY <1>4, <2>1, <2>2
<1>10. last # <<>> /\ config.keep # 1 => tracker \notin old
  <2> SUFFICES ASSUME last # <<>>, config.keep # 1 PROVE tracker \notin old
    OBVIOUS
  <2>1. Len(last) \in DOMAIN list /\ list[Len(last)] = tracker /\ Len(last) \in Nat /\ Len(last) >= 1
    BY <1>2, <1>3
  <2>2. Len(last) > Len(list) - n
    BY <1>3, <1>4, <2>1
  <2> QED
    BY <1>7, <2>1, <2>2
<1>11. \A i \in DOMAIN kept : kept[i] <= global_steps
  BY <1>5, <1>7
<1>12. kept # <<>> => kept[Len(kept)] = global_steps
  BY <1>3, <1>7
<1> QED
  BY <1>7, <1>8, <1>9, <1>10, <1>11, <1>12 DEF last

-----------------------------------------------------------------------------
(* What the save under way has written                                       *)

\* Where no rank wrote, and no save is under way, nothing is claimed.
LEMMA DumpKept ==
  ASSUME DumpInv, UNCHANGED <<config, disk>>, phase' \notin {"saving", "data"}
  PROVE  DumpInv'
BY NamesKept DEF DumpInv, disk, Steps, total_training_steps

LEMMA DumpTrain ==
  ASSUME ConstantsOK, AtInv, DumpInv, Train, UNCHANGED <<config, disk>>
  PROVE  DumpInv'
<1>1. /\ phase = "training" /\ UNCHANGED <<manager, at>> /\ phase' \in {"training", "saving"}
  BY DEF Train
<1>2. manager = 1 /\ \A r \in Ranks : at[r] = "called"
  BY <1>1 DEF AtInv
<1>3. (\A r \in Ranks : ~Written(r)') /\ (\A m : ~Complete(m)')
  BY <1>1, <1>2 DEF Written, Complete
<1>4. DumpInv!1'
  BY NamesKept DEF DumpInv, disk, Steps, total_training_steps
<1> QED
  BY <1>1, <1>3, <1>4 DEF DumpInv

LEMMA DumpRoom ==
  ASSUME ConstantsOK, LineageInv, AtInv, StepInv, DumpInv, ListInv, Capacity
  PROVE  DumpInv'
<1>1. /\ phase = "saving" /\ at[0] = "called" /\ at' = [at EXCEPT ![0] = "ready"]
      /\ UNCHANGED <<config, phase, manager, global_steps, weights>>
  BY DEF Capacity
<1>2. /\ Steps' = Steps /\ Names' = Names /\ Name' = Name /\ Name \in Names /\ global_steps \in Steps
      /\ 0 \in Ranks
  BY <1>1, NamesKept, NameFacts, Basics DEF Steps, total_training_steps, StepInv
<1>3. (\A r \in Ranks : Written(r)' <=> Written(r)) /\ (\A m : Complete(m)' <=> Complete(m))
  <2>1. at \in [Ranks -> {"called", "ready", "dumped", "saved", "tracked"}]
    BY DEF AtInv
  <2>2. Managers' = Managers
    BY <1>1, NamesKept
  <2> QED
    BY <1>1, <2>1, <2>2 DEF Written, Complete
<1>4. PICK g \in Steps : g = global_steps /\ g = global_steps'
  BY <1>1, <1>2
<1>5. CASE config.keep > 1
  <2>1. PICK old : Removed(Name, old) /\ global_steps \notin old
    BY <1>5, CapacityTrims
  <2>2. \A s \in Steps \ folders', n \in Names, r \in Ranks : shard'[s][n][r] = NoFile
    BY <1>2, <2>1, RemovedNoFile
  <2>3. ASSUME NEW r \in Ranks, Written(r)
        PROVE  shard'[global_steps][Name][r] = weights /\ global_steps \in folders'
    <3>1. shard[global_steps][Name][r] = weights /\ global_steps \in folders
      BY <1>1, <2>3 DEF DumpInv
    <3> QED
      BY <1>2, <2>1, <3>1, RemovedKeeps
  <2>4. ASSUME NEW m \in Names, Complete(m) PROVE ModelWhole(g, m)'
    <3>1. ModelWhole(g, m)
      BY <1>1, <1>4, <2>4 DEF DumpInv
    <3> QED
      BY <1>2, <1>4, <2>1, <3>1, RemovedModels
  <2>5. \A m \in Names' : Complete(m)' => ModelWhole(global_steps, m)'
    BY <1>2, <1>3, <1>4, <2>4
  <2>6. \A r \in Ranks : Written(r)' => shard'[global_steps'][Name'][r] = weights' /\ global_steps' \in folders'
    BY <1>1, <1>2, <1>3, <2>3
  <2> QED
    BY <1>1, <1>2, <2>2, <2>5, <2>6 DEF DumpInv
<1>6. CASE ~(config.keep > 1)
  <2>1. UNCHANGED <<folders, shard>>
    BY <1>6 DEF Capacity
  <2>2. \A m \in Names : ModelWhole(global_steps, m)' <=> ModelWhole(global_steps, m)
    BY <1>1, <2>1 DEF ModelWhole
  <2> QED
    BY <1>1, <1>2, <1>3, <2>1, <2>2 DEF DumpInv
<1> QED
  BY <1>5, <1>6

\* All ranks' files are there when rank 0 registers the checkpoint, and stay.
LEMMA RegisterWhole ==
  ASSUME ConstantsOK, LineageInv, AtInv, StepInv, DumpInv, Register
  PROVE  ModelWhole(global_steps, Name)
<1>1. phase = "saving" /\ \A r \in Ranks : at[r] \in {"dumped", "saved"}
  BY DEF Register, AllDumped
<1>2. \A r \in Ranks : shard[global_steps][Name][r] = weights /\ global_steps \in folders
  BY <1>1 DEF DumpInv, Written
<1>3. Len(weights) = global_steps /\ 0 \in Ranks
  BY Basics DEF LineageInv, Trained
<1> QED
  BY <1>2, <1>3 DEF ModelWhole

LEMMA DumpRegister ==
  ASSUME ConstantsOK, LineageInv, AtInv, StepInv, DumpInv, ListInv, Register
  PROVE  DumpInv'
<1>1. /\ phase = "saving" /\ UNCHANGED <<config, global_steps, weights, tracker>>
      /\ \/ /\ manager < Len(Managers) /\ phase' = phase
            /\ manager' = manager + 1 /\ at' = [r \in Ranks |-> "called"]
         \/ ~(manager < Len(Managers)) /\ phase' = "data" /\ UNCHANGED <<manager, at>>
  BY DEF Register
<1>2. /\ Steps' = Steps /\ Names' = Names /\ Name \in Names /\ global_steps \in Steps
      /\ 0 \in Ranks /\ Managers' = Managers /\ manager \in 1 .. Len(Managers) /\ Len(Managers) \in Nat
  BY <1>1, NamesKept, NameFacts, ManagerFacts, Basics DEF Steps, total_training_steps, StepInv, AtInv
<1>10. PICK g \in Steps : g = global_steps /\ g = global_steps'
  BY <1>1, <1>2
<1>3. PICK old : Removed(Name, old) /\ global_steps \notin old
  BY RegisterTrims
<1>4. \A s \in Steps \ folders', n \in Names, r \in Ranks : shard'[s][n][r] = NoFile
  BY <1>2, <1>3, RemovedNoFile
<1>5. ASSUME NEW m \in Names, Complete(m) \/ m = Name PROVE ModelWhole(g, m)'
  <2>1. ModelWhole(g, m)
    BY <1>1, <1>5, <1>10, RegisterWhole DEF DumpInv
  <2> QED
    BY <1>2, <1>3, <1>10, <2>1, RemovedModels
<1>6. ASSUME NEW m \in Names, Complete(m)' PROVE Complete(m) \/ m = Name
  <2>1. PICK j \in 1 .. Len(Managers) : m = Managers[j]
    BY ManagerFacts
  <2>2. CASE phase' = "data"
    <3>1. j \in 1 .. manager - 1 \/ j = manager
      BY <1>1, <1>2, <2>1, <2>2
    <3> QED
      BY <2>1, <3>1 DEF Complete, Name
  <2>3. CASE phase' # "data"
    <3>1. manager' = manager + 1
      BY <1>1, <2>3
    <3>2. PICK k \in 1 .. manager' - 1 : m = Managers[k]
      BY <1>2, <1>6, <2>3 DEF Complete
    <3>3. k \in 1 .. manager - 1 \/ k = manager
      BY <1>2, <3>1, <3>2
    <3> QED
      BY <3>2, <3>3 DEF Complete, Name
  <2> QED
    BY <2>2, <2>3
<1>7. \A m \in Names' : Complete(m)' => ModelWhole(global_steps, m)'
  BY <1>2, <1>5, <1>6, <1>10
<1>8. CASE phase' = "saving"
  <2>1. \A r \in Ranks : ~Written(r)'
    BY <1>1, <1>8 DEF Written
  <2> QED
    BY <1>2, <1>4, <1>7, <1>8, <2>1 DEF DumpInv
<1>9. CASE phase' = "data"
  <2>1. \A m \in Names' : ModelWhole(global_steps, m)'
    BY <1>7, <1>9 DEF Complete
  <2>2. at'[0] \notin {"saved", "tracked"}
    BY <1>1, <1>9 DEF AtInv
  <2> QED
    BY <1>2, <1>4, <1>9, <2>1, <2>2 DEF DumpInv
<1> QED
  BY <1>1, <1>8, <1>9

LEMMA DumpFacts ==
  ASSUME ConstantsOK, LineageInv, AtInv, StepInv, NEW r \in Ranks, Dump(r)
  PROVE  /\ \A s \in Steps, m \in Names, q \in Ranks :
              shard'[s][m][q] = IF s = global_steps /\ m = Name /\ q = r THEN weights ELSE shard[s][m][q]
         /\ folders' = folders \union {global_steps} /\ global_steps \in Steps /\ Name \in Names
         /\ phase = "saving" /\ UNCHANGED <<config, phase, manager, global_steps, weights,
                                            previous_saved_paths, data, tracker>>
         /\ at' = [at EXCEPT ![r] = "dumped"] /\ at[r] = "ready"
<1>1. /\ shard' = [shard EXCEPT ![global_steps][Name][r] = weights]
      /\ folders' = folders \union {global_steps}
      /\ phase = "saving" /\ UNCHANGED <<config, phase, manager, global_steps, weights,
                                         previous_saved_paths, data, tracker>>
      /\ at' = [at EXCEPT ![r] = "dumped"] /\ at[r] = "ready"
  BY DEF Dump
<1>2. global_steps \in Steps /\ Name \in Names
  BY <1>1, NameFacts DEF StepInv
<1>3. ASSUME NEW s \in Steps, NEW m \in Names, NEW q \in Ranks
      PROVE  shard'[s][m][q] = IF s = global_steps /\ m = Name /\ q = r THEN weights ELSE shard[s][m][q]
  <2>1. shard \in [Steps -> [Names -> [Ranks -> Seq(Batches)]]]
    BY DEF LineageInv, Files
  <2>2. shard'[s] = IF s = global_steps
                    THEN [shard[s] EXCEPT ![Name] = [shard[s][Name] EXCEPT ![r] = weights]]
                    ELSE shard[s]
    BY <1>1, <2>1
  <2> QED
    BY <1>2, <2>1, <2>2
<1> QED
  BY <1>1, <1>2, <1>3

\* PPO writes again what is there: a whole model stays so.
LEMMA DumpModels ==
  ASSUME ConstantsOK, LineageInv, AtInv, StepInv, NEW r \in Ranks, Dump(r),
         NEW s \in Steps, NEW m \in Names, ModelWhole(s, m),
         s # global_steps \/ m # Name \/ ~config.sft
  PROVE  ModelWhole(s, m)'
<1>1. s \in folders'
  BY DumpFacts DEF ModelWhole
<1>2. CASE s # global_steps \/ m # Name
  <2>1. \A q \in Ranks : shard'[s][m][q] = shard[s][m][q]
    BY <1>2, DumpFacts
  <2> QED
    BY <1>1, <2>1, Basics, ModelKept
<1>3. CASE s = global_steps /\ m = Name /\ ~config.sft
  <2>1. shard[s][m][r] # NoFile
    BY ModelIsFile
  <2>2. Trained(shard[s][m][r], s) /\ Trained(weights, s) /\ s \in Nat
    BY <1>3, <2>1, Basics DEF LineageInv, Files
  <2>3. shard[s][m][r] = weights
    BY <1>3, <2>2, Determined
  <2>4. \A q \in Ranks : shard'[s][m][q] = shard[s][m][q]
    BY <2>3, DumpFacts
  <2> QED
    BY <1>1, <2>4, Basics, ModelKept
<1> QED
  BY <1>2, <1>3

LEMMA DumpDump ==
  ASSUME ConstantsOK, LineageInv, AtInv, StepInv, DumpInv, NEW r \in Ranks, Dump(r)
  PROVE  DumpInv'
<1>1. /\ Steps' = Steps /\ Names' = Names /\ Managers' = Managers /\ Name' = Name
      /\ phase' = "saving" /\ phase = "saving" /\ UNCHANGED <<manager, global_steps, weights>>
  BY DumpFacts, NamesKept DEF Steps, total_training_steps
<1>2. PICK g \in Steps : g = global_steps /\ g = global_steps'
  BY <1>1, DumpFacts
<1>3. \A s \in Steps \ folders', m \in Names, q \in Ranks : shard'[s][m][q] = NoFile
  <2> SUFFICES ASSUME NEW s \in Steps, s \notin folders', NEW m \in Names, NEW q \in Ranks
               PROVE  shard'[s][m][q] = NoFile
    OBVIOUS
  <2>1. s # global_steps /\ s \notin folders
    BY DumpFacts
  <2>2. shard[s][m][q] = NoFile
    BY <2>1 DEF DumpInv
  <2> QED
    BY <2>1, <2>2, DumpFacts
<1>4. ASSUME NEW q \in Ranks, Written(q)'
      PROVE  shard'[g][Name][q] = weights /\ g \in folders'
  <2>1. q = r \/ Written(q)
    <3>1. at \in [Ranks -> {"called", "ready", "dumped", "saved", "tracked"}]
      BY DEF AtInv
    <3> QED
      BY <1>4, <3>1, DumpFacts DEF Written
  <2>2. Written(q) => shard[g][Name][q] = weights
    BY <1>1, <1>2 DEF DumpInv
  <2>3. g = global_steps
    BY <1>2
  <2> QED
    BY <2>1, <2>2, <2>3, DumpFacts
<1>5. ASSUME NEW m \in Names, Complete(m)' PROVE ModelWhole(g, m)'
  <2>1. Complete(m)
    BY <1>1, <1>5 DEF Complete
  <2>2. m # Name
    BY <1>1, <2>1, NameFacts
  <2>3. ModelWhole(g, m)
    BY <1>1, <1>2, <2>1 DEF DumpInv
  <2> QED
    BY <2>2, <2>3, DumpModels
<1>6. \A m \in Names' : Complete(m)' => ModelWhole(global_steps, m)'
  BY <1>1, <1>2, <1>5
<1>7. \A q \in Ranks : Written(q)' => shard'[global_steps'][Name'][q] = weights' /\ global_steps' \in folders'
  BY <1>1, <1>2, <1>4
<1> QED
  BY <1>1, <1>3, <1>6, <1>7 DEF DumpInv

\* What is claimed of ranks and managers, when these only move on.
LEMMA DumpMoves ==
  ASSUME DumpInv,
         UNCHANGED <<config, phase, manager, global_steps, weights, folders, shard>>,
         \A r \in Ranks : Written(r)' => Written(r),
         phase = "data" => /\ at'[0] \in {"saved", "tracked"} => data'[global_steps][0] # NoData
                           /\ at'[0] = "tracked" => tracker' = global_steps
  PROVE  DumpInv'
<1>1. /\ Steps' = Steps /\ Names' = Names /\ Managers' = Managers /\ Name' = Name
  BY NamesKept DEF Steps, total_training_steps
<1>2. \A m : (ModelWhole(global_steps, m)' <=> ModelWhole(global_steps, m)) /\ (Complete(m)' <=> Complete(m))
  BY <1>1 DEF ModelWhole, Complete
<1>3. DumpInv!1'
  BY <1>1 DEF DumpInv
<1> QED
  BY <1>1, <1>2, <1>3 DEF DumpInv

LEMMA DataFacts ==
  ASSUME ConstantsOK, LineageInv, NEW r \in Ranks, SaveData(r)
  PROVE  \A s \in Steps : data[s][0] # NoData \/ (s = global_steps /\ r = 0) => data'[s][0] # NoData
<1>1. data' = [data EXCEPT ![global_steps][r] = position[r]]
  BY DEF SaveData
<1>2. data \in [Steps -> [Ranks -> Int]] /\ position[r] \in Nat /\ 0 \in Ranks /\ NoData = -1
  BY Basics DEF LineageInv, Files, Shape
<1>3. position[r] # NoData
  BY <1>2
<1>4. \A s \in Steps : data'[s] = IF s = global_steps THEN [data[s] EXCEPT ![r] = position[r]] ELSE data[s]
  BY <1>1, <1>2
<1>5. \A s \in Steps : data[s] \in [Ranks -> Int]
  BY <1>2
<1>6. \A s \in Steps : data'[s][0] = IF s = global_steps /\ r = 0 THEN position[r] ELSE data[s][0]
  BY <1>2, <1>4, <1>5
<1> QED
  BY <1>3, <1>6

LEMMA DumpMoved ==
  ASSUME ConstantsOK, LineageInv, AtInv, StepInv, DumpInv,
         (\E r \in Ranks : Arrive(r) \/ SaveData(r)) \/ Track
  PROVE  DumpInv'
<1>1. at \in [Ranks -> {"called", "ready", "dumped", "saved", "tracked"}] /\ 0 \in Ranks
  BY Basics DEF AtInv
<1>2. phase \in {"saving", "data"} => global_steps \in Steps
  BY DEF StepInv
<1>3. ASSUME NEW r \in Ranks, Arrive(r) PROVE DumpInv'
  <2>1. /\ UNCHANGED <<config, phase, manager, global_steps, weights, folders, shard>>
        /\ phase = "saving" /\ at' = [at EXCEPT ![r] = "ready"]
    BY <1>3 DEF Arrive, disk
  <2>2. \A q \in Ranks : Written(q)' => Written(q)
    BY <1>1, <2>1 DEF Written
  <2> QED
    BY <2>1, <2>2, DumpMoves
<1>4. ASSUME NEW r \in Ranks, SaveData(r) PROVE DumpInv'
  <2>1. /\ UNCHANGED <<config, phase, manager, global_steps, weights, folders, shard, tracker>>
        /\ phase \in {"saving", "data"} /\ at' = [at EXCEPT ![r] = "saved"] /\ at[r] = "dumped"
    BY <1>4 DEF SaveData
  <2>2. \A q \in Ranks : Written(q)' => Written(q)
    BY <1>1, <2>1 DEF Written
  <2>3. at'[0] = IF r = 0 THEN "saved" ELSE at[0]
    BY <1>1, <2>1
  <2>4. ASSUME phase = "data"
        PROVE  /\ at'[0] \in {"saved", "tracked"} => data'[global_steps][0] # NoData
               /\ at'[0] = "tracked" => tracker' = global_steps
    <3>1. /\ at[0] \in {"saved", "tracked"} => data[global_steps][0] # NoData
          /\ at[0] = "tracked" => tracker = global_steps
      BY <2>4 DEF DumpInv
    <3>2. global_steps \in Steps
      BY <1>2, <2>4
    <3>3. data[global_steps][0] # NoData \/ r = 0 => data'[global_steps][0] # NoData
      BY <1>4, <3>2, DataFacts
    <3> QED
      BY <2>1, <2>3, <3>1, <3>3
  <2> QED
    BY <2>1, <2>2, <2>4, DumpMoves
<1>5. CASE Track
  <2>1. /\ UNCHANGED <<config, phase, manager, global_steps, weights, folders, shard, data>>
        /\ phase = "data" /\ at[0] = "saved"
        /\ \/ tracker' = global_steps /\ at' = [at EXCEPT ![0] = "tracked"]
           \/ tracker' = Torn /\ at' = at
    BY <1>5 DEF Track
  <2>2. \A q \in Ranks : Written(q)' => Written(q)
    BY <1>1, <2>1 DEF Written
  <2>3. data[global_steps][0] # NoData
    BY <2>1 DEF DumpInv
  <2> QED
    BY <2>1, <2>2, <2>3, DumpMoves
<1> QED
  BY <1>3, <1>4, <1>5

LEMMA DumpNext ==
  ASSUME ConstantsOK, LineageInv, AtInv, StepInv, DumpInv, ListInv, Next
  PROVE  DumpInv'
<1>1. CASE Start
  <2>1. phase' \in {"training", "failed"} /\ UNCHANGED <<config, disk>>
    BY <1>1 DEF Start, FromScratch, Resume, CannotLoad
  <2> QED
    BY <2>1, DumpKept
<1>2. CASE Training
  <2>1. CASE Train
    BY <1>2, <2>1, DumpTrain DEF Training
  <2>2. CASE EndEpoch \/ EndFit
    <3>1. phase' \in {"training", "done"} /\ UNCHANGED <<config, disk>>
      BY <1>2, <2>2 DEF Training, EndEpoch, EndFit
    <3> QED
      BY <3>1, DumpKept
  <2> QED
    BY <1>2, <2>1, <2>2 DEF Training
<1>3. CASE Crash
  BY <1>3, DumpKept DEF Crash
<1>4. CASE Saved
  <2>1. phase' \in {"training", "done"} /\ UNCHANGED <<config, disk>>
    BY <1>4 DEF Saved
  <2> QED
    BY <2>1, DumpKept
<1> QED
  BY <1>1, <1>2, <1>3, <1>4, DumpRoom, DumpRegister, DumpDump, DumpMoved DEF Next, Saving

-----------------------------------------------------------------------------
(* The lists of what this process has saved                                  *)

LEMMA ListMoves ==
  ASSUME ListInv, UNCHANGED <<config, global_steps, previous_saved_paths>>,
         phase' = phase => manager' = manager,
         \/ phase' = phase \/ phase' \in {"failed", "done"}
         \/ phase = "data" /\ phase' = "training" /\ tracker' = global_steps,
         phase' \in {"training", "saving"} /\ phase' = phase => tracker' = tracker
  PROVE  ListInv'
<1>1. Steps' = Steps /\ Names' = Names /\ Managers' = Managers
  BY NamesKept DEF Steps, total_training_steps
<1>2. previous_saved_paths' \in [Names' -> Seq(Steps')]
  BY <1>1 DEF ListInv
<1>3. CASE phase' = phase
  <2>1. \A m : Complete(m)' <=> Complete(m)
    BY <1>1, <1>3 DEF Complete
  <2> QED
    BY <1>1, <1>2, <1>3, <2>1 DEF ListInv, Complete
<1>4. CASE phase' \in {"failed", "done"}
  BY <1>2, <1>4 DEF ListInv
<1>5. CASE phase = "data" /\ phase' = "training" /\ tracker' = global_steps
  <2>1. \A m \in Names : Complete(m)
    BY <1>5 DEF Complete
  <2> QED
    BY <1>1, <1>2, <1>5, <2>1 DEF ListInv
<1> QED
  BY <1>3, <1>4, <1>5

LEMMA ListEmpty ==
  ASSUME UNCHANGED config, \A m \in Names : previous_saved_paths'[m] = <<>>,
         previous_saved_paths' \in [Names -> Seq(Steps)]
  PROVE  ListInv'
<1>1. Steps' = Steps /\ Names' = Names
  BY NamesKept DEF Steps, total_training_steps
<1> QED
  BY <1>1 DEF ListInv

LEMMA ListTrain ==
  ASSUME ConstantsOK, LineageInv, AtInv, ListInv, Train, UNCHANGED <<config, disk>>
  PROVE  ListInv'
<1>1. /\ phase = "training" /\ phase' \in {"training", "saving"} /\ global_steps' = global_steps + 1
      /\ UNCHANGED <<manager, previous_saved_paths, tracker>>
  BY DEF Train, disk
<1>2. Steps' = Steps /\ Names' = Names /\ global_steps \in Nat /\ Steps \subseteq Nat
  BY NamesKept, Basics DEF Steps, total_training_steps, LineageInv, Shape
<1>3. \A m : ~Complete(m)'
  <2>1. manager' = 1
    BY <1>1 DEF AtInv
  <2> QED
    BY <1>1, <2>1 DEF Complete
<1>4. ASSUME NEW m \in Names, NEW list, list = previous_saved_paths[m]
      PROVE  /\ \A i, j \in DOMAIN list : list[i] = list[j] => i = j
             /\ \A i \in DOMAIN list : list[i] <= global_steps' /\ list[i] < global_steps'
             /\ list # <<>> => list[Len(list)] = tracker
  <2>1. /\ list \in Seq(Steps)
        /\ \A i, j \in DOMAIN list : list[i] = list[j] => i = j
        /\ \A i \in DOMAIN list : list[i] <= global_steps
        /\ list # <<>> => list[Len(list)] = tracker
    BY <1>1, <1>4 DEF ListInv
  <2>2. \A i \in DOMAIN list : list[i] \in Steps
    BY <2>1
  <2>3. \A i \in DOMAIN list : list[i] \in Nat /\ list[i] <= global_steps
    BY <1>2, <2>1, <2>2
  <2> QED
    BY <1>1, <1>2, <2>1, <2>3
<1>5. previous_saved_paths' \in [Names' -> Seq(Steps')]
  BY <1>1, <1>2 DEF ListInv
<1>6. ASSUME NEW m \in Names', NEW list, list = previous_saved_paths'[m]
      PROVE  /\ \A i, j \in DOMAIN list : list[i] = list[j] => i = j
             /\ \A i \in DOMAIN list : list[i] <= global_steps' /\ list[i] < global_steps'
             /\ list # <<>> => list[Len(list)] = tracker'
  <2>1. m \in Names /\ list = previous_saved_paths[m]
    BY <1>1, <1>2, <1>6
  <2> QED
    BY <1>1, <1>4, <2>1
<1> QED
  BY <1>1, <1>3, <1>5, <1>6 DEF ListInv

LEMMA ListRoom ==
  ASSUME ConstantsOK, LineageInv, AtInv, StepInv, ListInv, Capacity
  PROVE  ListInv'
<1>1. phase = "saving" /\ UNCHANGED <<config, phase, manager, global_steps, tracker>>
  BY DEF Capacity
<1>2. CASE ~(config.keep > 1)
  <2>1. UNCHANGED previous_saved_paths
    BY <1>2 DEF Capacity
  <2> QED
    BY <1>1, <2>1, ListMoves
<1>3. CASE config.keep > 1
  <2>1. PICK kept :
           /\ previous_saved_paths' = [previous_saved_paths EXCEPT ![Name] = kept]
           /\ kept \in Seq(Steps)
           /\ \A i, j \in DOMAIN kept : kept[i] = kept[j] => i = j
           /\ \A i \in DOMAIN kept : kept[i] < global_steps
           /\ kept # <<>> => kept[Len(kept)] = tracker
    BY <1>3, CapacityTrims
  <2>2. /\ Steps' = Steps /\ Names' = Names /\ Managers' = Managers /\ Name \in Names /\ ~Complete(Name)
        /\ global_steps \in Nat /\ Steps \subseteq Nat
    BY <1>1, NamesKept, NameFacts, Basics DEF Steps, total_training_steps, LineageInv, Shape
  <2>3. \A m : Complete(m)' <=> Complete(m)
    BY <1>1, <2>2 DEF Complete
  <2>4. /\ previous_saved_paths' \in [Names -> Seq(Steps)] /\ previous_saved_paths'[Name] = kept
        /\ \A m \in Names : m # Name => previous_saved_paths'[m] = previous_saved_paths[m]
    BY <2>1, <2>2 DEF ListInv
  <2>5. \A i \in DOMAIN kept : kept[i] <= global_steps
    <3> SUFFICES ASSUME NEW i \in DOMAIN kept PROVE kept[i] <= global_steps
      OBVIOUS
    <3>1. kept[i] \in Steps /\ kept[i] < global_steps
      BY <2>1
    <3>2. kept[i] \in Nat /\ global_steps \in Nat
      BY <2>2, <3>1
    <3> QED
      BY <3>1, <3>2
  <2>6. ASSUME NEW m \in Names, NEW list, list = previous_saved_paths'[m]
        PROVE  /\ \A i, j \in DOMAIN list : list[i] = list[j] => i = j
               /\ \A i \in DOMAIN list : /\ list[i] <= global_steps
                                         /\ ~Complete(m) => list[i] < global_steps
               /\ list # <<>> => list[Len(list)] = IF Complete(m) THEN global_steps ELSE tracker
    <3>1. CASE m = Name
      BY <2>1, <2>2, <2>4, <2>5, <2>6, <3>1
    <3>2. CASE m # Name
      BY <1>1, <2>4, <2>6, <3>2 DEF ListInv
    <3> QED
      BY <3>1, <3>2
  <2> QED
    BY <1>1, <2>2, <2>3, <2>4, <2>6 DEF ListInv
<1> QED
  BY <1>2, <1>3

LEMMA ListRegister ==
  ASSUME ConstantsOK, LineageInv, AtInv, StepInv, ListInv, Register
  PROVE  ListInv'
<1>1. /\ phase = "saving" /\ phase' \in {"saving", "data"} /\ UNCHANGED <<config, global_steps, tracker>>
      /\ \/ manager < Len(Managers) /\ phase' = "saving" /\ manager' = manager + 1
         \/ ~(manager < Len(Managers)) /\ phase' = "data" /\ manager' = manager
  BY DEF Register
<1>2. /\ Steps' = Steps /\ Names' = Names /\ Managers' = Managers /\ Name \in Names
      /\ manager \in 1 .. Len(Managers) /\ Len(Managers) \in Nat
  BY <1>1, NamesKept, NameFacts, ManagerFacts DEF Steps, total_training_steps, AtInv
<1>8. PICK nm \in Names : nm = Name /\ nm = Managers[manager]
  BY <1>2 DEF Name
<1>3. PICK kept :
         /\ previous_saved_paths' = [previous_saved_paths EXCEPT ![nm] = kept]
         /\ kept \in Seq(Steps)
         /\ \A i, j \in DOMAIN kept : kept[i] = kept[j] => i = j
         /\ \A i \in DOMAIN kept : kept[i] <= global_steps
         /\ kept # <<>> => kept[Len(kept)] = global_steps
  BY <1>8, RegisterTrims
<1>4. /\ previous_saved_paths' \in [Names -> Seq(Steps)] /\ previous_saved_paths'[nm] = kept
      /\ \A m \in Names : m # nm => previous_saved_paths'[m] = previous_saved_paths[m]
  BY <1>2, <1>3, <1>8 DEF ListInv
<1>5. Complete(nm)'
  <2>1. CASE phase' = "data"
    BY <2>1 DEF Complete
  <2>2. CASE phase' # "data"
    <3>1. manager \in 1 .. manager' - 1 /\ nm = Managers'[manager]
      BY <1>1, <1>2, <1>8, <2>2
    <3> QED
      BY <3>1 DEF Complete
  <2> QED
    BY <2>1, <2>2
<1>6. ASSUME NEW m \in Names, m # nm PROVE Complete(m)' <=> Complete(m)
  <2>1. PICK j \in 1 .. Len(Managers) : m = Managers[j] /\ j # manager
    BY <1>6, <1>8, ManagerFacts
  <2>2. CASE phase' = "data"
    <3>1. j \in 1 .. manager - 1
      BY <1>1, <1>2, <2>1, <2>2
    <3> QED
      BY <2>1, <2>2, <3>1 DEF Complete
  <2>3. CASE phase' # "data"
    <3>1. \A k : k \in 1 .. manager' - 1 <=> k \in 1 .. manager - 1 \/ k = manager
      BY <1>1, <1>2, <2>3
    <3> QED
      BY <1>1, <1>2, <1>6, <1>8, <2>3, <3>1 DEF Complete
  <2> QED
    BY <2>2, <2>3
<1>7. ASSUME NEW m \in Names, NEW list, list = previous_saved_paths'[m]
      PROVE  /\ \A i, j \in DOMAIN list : list[i] = list[j] => i = j
             /\ \A i \in DOMAIN list : /\ list[i] <= global_steps
                                       /\ phase' = "saving" /\ ~Complete(m)' => list[i] < global_steps
             /\ list # <<>> => list[Len(list)] = IF Complete(m)' THEN global_steps ELSE tracker
  <2>1. CASE m = nm
    BY <1>3, <1>4, <1>5, <1>7, <2>1
  <2>2. CASE m # nm
    BY <1>1, <1>4, <1>6, <1>7, <2>2 DEF ListInv
  <2> QED
    BY <2>1, <2>2
<1> QED
  BY <1>1, <1>2, <1>4, <1>7 DEF ListInv

LEMMA ListNext ==
  ASSUME ConstantsOK, LineageInv, AtInv, StepInv, DumpInv, ListInv, Next
  PROVE  ListInv'
<1>1. Blank => /\ previous_saved_paths' \in [Names -> Seq(Steps)]
                /\ \A m \in Names : previous_saved_paths'[m] = <<>>
  <2>1. Blank => previous_saved_paths' = [m \in Names |-> <<>>]
    BY DEF Blank, Names
  <2>2. <<>> \in Seq(Steps)
    OBVIOUS
  <2>3. [m \in Names |-> <<>>] \in [Names -> Seq(Steps)]
    BY <2>2
  <2>4. \A m \in Names : [n \in Names |-> <<>>][m] = <<>>
    OBVIOUS
  <2> QED
    BY <2>1, <2>3, <2>4
<1>2. CASE Start
  <2>1. CASE FromScratch
    BY <1>1, <1>2, <2>1, ListEmpty DEF Start, FromScratch
  <2>2. CASE Resume
    <3>1. phase = "down" /\ UNCHANGED <<config, previous_saved_paths>>
      BY <1>2, <2>2 DEF Start, Resume
    <3> QED
      BY <3>1, ListEmpty DEF ListInv
  <2>3. CASE CannotLoad
    BY <1>2, <2>3, ListMoves DEF Start, CannotLoad, memory, disk
  <2> QED
    BY <1>2, <2>1, <2>2, <2>3 DEF Start
<1>3. CASE Training
  BY <1>3, ListTrain, ListMoves DEF Training, EndEpoch, EndFit, memory, disk
<1>4. CASE Crash
  BY <1>1, <1>4, ListEmpty DEF Crash
<1>5. CASE Saved
  <2>1. /\ phase = "data" /\ at[0] = "tracked" /\ phase' \in {"training", "done"}
        /\ UNCHANGED <<config, global_steps, previous_saved_paths, tracker>>
    BY <1>5 DEF Saved, disk
  <2>2. tracker = global_steps
    BY <2>1 DEF DumpInv
  <2> QED
    BY <2>1, <2>2, ListMoves
<1>6. CASE Track
  BY <1>6, ListMoves DEF Track
<1>7. CASE \E r \in Ranks : Arrive(r) \/ Dump(r) \/ SaveData(r)
  BY <1>7, ListMoves DEF Arrive, Dump, SaveData, disk
<1> QED
  BY <1>2, <1>3, <1>4, <1>5, <1>6, <1>7, ListRoom, ListRegister DEF Next, Saving

-----------------------------------------------------------------------------
(* The tracked step                                                          *)

\* The disk as it was: what remains is where training stands.
LEMMA TrackKept ==
  ASSUME TrackInv, UNCHANGED <<config, disk>>,
         tracker \in Steps /\ phase' \in {"training", "saving"} /\ (config.sft \/ config.keep # 1)
           => Onward' \/ Anew'
  PROVE  TrackInv'
<1>1. /\ Steps' = Steps /\ Names' = Names /\ UNCHANGED <<config, tracker>>
  BY NamesKept DEF Steps, total_training_steps, disk
<1>2. /\ \A s, m : ModelWhole(s, m)' <=> ModelWhole(s, m)
      /\ Whole(tracker)' <=> Whole(tracker)
      /\ Models(tracker)' <=> Models(tracker)
      /\ Loadable(tracker)' <=> Loadable(tracker)
      /\ Later' <=> Later
  BY <1>1, DiskKept DEF Whole, Models, Loadable, ModelWhole, disk
<1> QED
  BY <1>1, <1>2 DEF TrackInv

\* Training goes on from the tracked step, or that step is behind what it saved.
LEMMA TrackOnward ==
  ASSUME ConstantsOK, UNCHANGED <<config, tracker>>, NEW t \in Steps, t = tracker,
         t <= global_steps', phase' = "saving" => t < global_steps',
         Models(t)', config.keep # 1 => Whole(t)'
  PROVE  TrackInv'
<1>1. Steps' = Steps /\ Names' = Names /\ t = tracker'
  BY NamesKept DEF Steps, total_training_steps
<1>2. Models(tracker)' /\ (config'.keep # 1 => Whole(tracker)')
  BY <1>1 DEF Models, Whole, ModelWhole
<1>3. \A m \in Names' : ModelWhole(t, m)'
  BY DEF Models
<1>4. Onward'
  BY <1>1, <1>2 DEF Onward
<1>5. t # Torn
  BY Basics DEF Torn
<1> QED
  BY <1>1, <1>2, <1>3, <1>4, <1>5 DEF TrackInv

\* Only that some model is whole is claimed, or that none was tracked.
LEMMA TrackSome ==
  ASSUME TrackInv, UNCHANGED <<config, tracker>>, tracker \notin Steps \/ (~config.sft /\ config.keep = 1),
         \A m \in Names : tracker # None => \E s \in Steps : ModelWhole(s, m)'
  PROVE  TrackInv'
<1>1. Steps' = Steps /\ Names' = Names
  BY NamesKept DEF Steps, total_training_steps
<1> QED
  BY <1>1 DEF TrackInv

\* SFT keeps a single checkpoint, and the tracked one is gone or about to go.
LEMMA TrackAnew ==
  ASSUME ConstantsOK, UNCHANGED <<config, tracker>>, NEW t \in Steps, t = tracker, config.sft, config.keep = 1,
         Models(t)' \/ (Later' /\ ~Loadable(t)'),
         phase' # "data" => Anew',
         \E s \in Steps : Models(s)'
  PROVE  TrackInv'
<1>1. Steps' = Steps /\ Names' = Names /\ t = tracker'
  BY NamesKept DEF Steps, total_training_steps
<1>2. Models(tracker)' \/ (Later' /\ ~Loadable(tracker)')
  BY <1>1 DEF Models, Loadable, ModelWhole
<1>3. \A m \in Names' : \E s \in Steps : ModelWhole(s, m)'
  BY DEF Models
<1>4. t # Torn
  BY Basics DEF Torn
<1> QED
  BY <1>1, <1>2, <1>3, <1>4 DEF TrackInv

LEMMA TrackStart ==
  ASSUME ConstantsOK, LineageInv, StepInv, ListInv, TrackInv, Start
  PROVE  TrackInv'
<1>1. UNCHANGED <<config, disk, tracker>> /\ Names' = Names
  BY NamesKept DEF Start, disk
<1>2. CASE FromScratch
  <2>1. /\ NoCheckpoint /\ phase' = "training" /\ global_steps' = 0
        /\ previous_saved_paths' = [m \in Names |-> <<>>]
    BY <1>2 DEF FromScratch, Blank, Names
  <2>2. ASSUME tracker \in Steps, config.sft \/ config.keep # 1 PROVE Anew'
    <3>1. tracker \notin folders /\ tracker > 0
      BY <2>1, <2>2, Basics DEF NoCheckpoint, None
    <3>2. ~Models(tracker) /\ config.keep = 1 /\ config.sft /\ Later
      BY <2>2, <3>1, WholeModels DEF TrackInv
    <3>3. Later'
      BY <1>1, <3>2, DiskKept
    <3>4. global_steps' <= tracker' /\ global_steps' < tracker'
      <4>1. tracker \in Nat /\ tracker' = tracker
        BY <1>1, <2>2, Basics
      <4> QED
        BY <2>1, <3>1, <4>1
    <3>5. \A m \in Names' : previous_saved_paths'[m] = <<>>
      BY <1>1, <2>1
    <3>6. config'.sft /\ config'.keep = 1 /\ tracker' \notin folders'
      BY <1>1, <3>1, <3>2 DEF disk
    <3> QED
      BY <3>3, <3>4, <3>5, <3>6 DEF Anew
  <2> QED
    BY <1>1, <2>2, TrackKept
<1>3. CASE Resume
  <2>1. tracker \in Steps /\ Loadable(tracker) /\ phase' = "training" /\ global_steps' = tracker
    BY <1>3 DEF Resume
  <2>2. ASSUME config.sft \/ config.keep # 1 PROVE Onward'
    <3>1. Models(tracker)
      BY <2>1, <2>2, WholeModels DEF TrackInv
    <3>2. Models(tracker)'
      BY <1>1, <3>1, DiskKept DEF Models, ModelWhole, disk
    <3> QED
      BY <1>1, <2>1, <3>2, Basics DEF Onward
  <2> QED
    BY <1>1, <2>2, TrackKept
<1>4. CASE CannotLoad
  <2>1. phase' = "failed"
    BY <1>4 DEF CannotLoad
  <2> QED
    BY <1>1, <2>1, TrackKept
<1> QED
  BY <1>2, <1>3, <1>4 DEF Start

LEMMA TrackTrain ==
  ASSUME ConstantsOK, LineageInv, StepInv, TrackInv, Train, UNCHANGED <<config, disk>>
  PROVE  TrackInv'
<1>1. /\ phase = "training" /\ global_steps' = global_steps + 1
      /\ UNCHANGED <<config, disk, tracker, folders, previous_saved_paths>>
      /\ phase' \in {"training", "saving"} /\ (phase' = "training" => ~SaveHere(global_steps'))
      /\ Names' = Names
  BY NamesKept DEF Train, disk
<1>2. ASSUME tracker \in Steps, config.sft \/ config.keep # 1 PROVE Onward' \/ Anew'
  <2>1. PICK t \in Steps : t = tracker /\ t = tracker'
    BY <1>1, <1>2
  <2>2. PICK g \in Nat : g = global_steps
    BY DEF LineageInv, Shape
  <2>3. t \in Nat /\ global_steps' = g + 1
    BY <1>1, <2>1, <2>2, Basics
  <2>4. CASE Onward
    <3>1. t <= g /\ Models(tracker)'
      BY <1>1, <2>1, <2>2, <2>4, DiskKept DEF Onward, Models, ModelWhole, disk
    <3>2. t < g + 1
      BY <2>2, <2>3, <3>1
    <3> QED
      BY <2>1, <2>3, <3>1, <3>2 DEF Onward
  <2>5. CASE Anew
    <3>1. g < t /\ config.sft /\ config.keep = 1 /\ Later /\ tracker \notin folders
      BY <1>1, <2>1, <2>2, <2>5 DEF Anew
    <3>2. g + 1 <= t
      BY <2>2, <2>3, <3>1
    <3>3. phase' = "training" => g + 1 # t
      <4>1. SaveHere(tracker)
        BY <1>2, <3>1 DEF StepInv
      <4> QED
        BY <1>1, <2>1, <2>3, <4>1
    <3>4. phase' = "training" => g + 1 < t
      BY <2>2, <2>3, <3>2, <3>3
    <3>5. Later'
      BY <1>1, <3>1, DiskKept
    <3>6. \A m \in Names' : previous_saved_paths'[m] = <<>>
      BY <1>1, <2>5 DEF Anew
    <3> QED
      BY <1>1, <2>1, <2>3, <3>1, <3>2, <3>4, <3>5, <3>6 DEF Anew
  <2> QED
    BY <1>1, <1>2, <2>4, <2>5 DEF TrackInv
<1> QED
  BY <1>1, <1>2, TrackKept

\* Steps that leave the disk as it is, and training where it is.
LEMMA TrackMoves ==
  ASSUME TrackInv, UNCHANGED <<config, disk, phase, global_steps, previous_saved_paths>>,
         \A r \in Ranks : Written(r)' <=> Written(r)
  PROVE  TrackInv'
<1>1. /\ UNCHANGED <<tracker, folders, shard>> /\ Names' = Names
      /\ Models(tracker)' <=> Models(tracker)
      /\ Later' <=> Later
  BY NamesKept, DiskKept DEF Models, ModelWhole, disk
<1>2. Onward => Onward'
  BY <1>1 DEF Onward
<1>3. Anew => Anew'
  BY <1>1 DEF Anew
<1> QED
  BY <1>2, <1>3, TrackKept DEF TrackInv

LEMMA OnwardOrAnew ==
  ASSUME TrackInv, tracker \in Steps, phase = "saving", config.sft \/ config.keep # 1
  PROVE  Onward \/ (Anew /\ config.sft /\ config.keep = 1)
BY DEF TrackInv, Anew

LEMMA TrackRoom ==
  ASSUME ConstantsOK, LineageInv, AtInv, StepInv, ListInv, TrackInv, Capacity
  PROVE  TrackInv'
<1>1. /\ phase = "saving" /\ phase' = phase /\ at[0] = "called" /\ at' = [at EXCEPT ![0] = "ready"]
      /\ UNCHANGED <<config, global_steps, tracker>> /\ global_steps \in Steps
  BY DEF Capacity, StepInv
<1>2. CASE ~(config.keep > 1)
  <2>1. UNCHANGED <<previous_saved_paths, disk>>
    BY <1>1, <1>2 DEF Capacity, disk
  <2>2. \A r \in Ranks : Written(r)' <=> Written(r)
    <3>1. at \in [Ranks -> {"called", "ready", "dumped", "saved", "tracked"}]
      BY DEF AtInv
    <3> QED
      BY <1>1, <3>1 DEF Written
  <2> QED
    BY <1>1, <2>1, <2>2, TrackMoves
<1>3. CASE config.keep > 1
  <2>1. PICK old : Removed(Name, old) /\ tracker \notin old /\ (tracker \notin Steps => old = {})
    BY <1>3, CapacityTrims
  <2>2. Name \in Names
    BY NameFacts
  <2>3. CASE tracker \in Steps
    <3>1. PICK t \in Steps : t = tracker
      BY <2>3
    <3>2. config.keep # 1
      BY <1>3
    <3>3. Onward
      BY <1>1, <2>3, <3>2, OnwardOrAnew
    <3>4. \A m \in Names : ModelWhole(t, m)
      BY <3>1, <3>3 DEF Onward, Models
    <3>5. Models(t)'
      BY <1>1, <2>1, <2>2, <3>1, <3>4, RemovedModels, NamesKept DEF Models
    <3>6. Whole(t)'
      <4>1. data[t][0] # NoData
        BY <2>3, <3>1, <3>2, WholeModels DEF TrackInv
      <4>2. data'[t] = data[t]
        BY <2>1, <2>2, <3>1, RemovedKeeps
      <4> QED
        BY <3>5, <4>1, <4>2 DEF Whole, Models, Names
    <3>7. t <= global_steps' /\ t < global_steps'
      BY <1>1, <3>1, <3>3 DEF Onward
    <3> QED
      BY <1>1, <3>1, <3>5, <3>6, <3>7, TrackOnward
  <2>4. CASE tracker \notin Steps
    <3>1. ASSUME NEW m \in Names, tracker # None PROVE \E s \in Steps : ModelWhole(s, m)'
      <4>1. PICK s \in Steps : ModelWhole(s, m)
        BY <3>1 DEF TrackInv
      <4> QED
        BY <2>1, <2>2, <2>4, <4>1, RemovedModels
    <3> QED
      BY <1>1, <2>4, <3>1, TrackSome
  <2> QED
    BY <2>3, <2>4
<1> QED
  BY <1>2, <1>3

LEMMA TrackRegister ==
  ASSUME ConstantsOK, LineageInv, AtInv, StepInv, DumpInv, ListInv, TrackInv, Register
  PROVE  TrackInv'
<1>1. /\ phase = "saving" /\ phase' \in {"saving", "data"}
      /\ UNCHANGED <<config, global_steps, tracker>> /\ Names' = Names
  BY NamesKept DEF Register
<1>2. PICK nm \in Names : nm = Name
  BY NameFacts
<1>3. PICK g \in Steps : g = global_steps /\ g = global_steps'
  BY <1>1 DEF StepInv
<1>4. PICK old : /\ Removed(nm, old) /\ g \notin old
                 /\ config.keep # 1 => tracker \notin old
                 /\ previous_saved_paths[nm] = <<>> => old = {}
  BY <1>2, <1>3, RegisterTrims
<1>5. ModelWhole(g, nm)'
  <2>1. ModelWhole(g, nm)
    BY <1>2, <1>3, RegisterWhole
  <2> QED
    BY <1>4, <2>1, RemovedModels
<1>6. ASSUME NEW t \in Steps, t = tracker, Onward, tracker \notin old
      PROVE  TrackInv'
  <2>1. \A m \in Names : ModelWhole(t, m)
    BY <1>6 DEF Onward, Models
  <2>2. Models(t)'
    BY <1>1, <1>4, <1>6, <2>1, RemovedModels DEF Models
  <2>3. ASSUME config.keep # 1 PROVE Whole(t)'
    <3>1. data[t][0] # NoData
      BY <1>6, <2>3, WholeModels DEF TrackInv
    <3>2. data'[t] = data[t]
      BY <1>4, <1>6, RemovedKeeps
    <3> QED
      BY <2>2, <3>1, <3>2 DEF Whole, Models, Names
  <2>4. t <= global_steps' /\ t < global_steps'
    BY <1>1, <1>6 DEF Onward
  <2> QED
    BY <1>1, <1>6, <2>2, <2>3, <2>4, TrackOnward
<1>7. CASE tracker \notin Steps \/ (~config.sft /\ config.keep = 1)
  <2>1. ASSUME NEW m \in Names, tracker # None PROVE \E s \in Steps : ModelWhole(s, m)'
    <3>1. PICK s \in Steps : ModelWhole(s, m)
      BY <2>1 DEF TrackInv
    <3>2. CASE m = nm
      BY <1>5, <3>2
    <3>3. CASE m # nm
      BY <1>4, <3>1, <3>3, RemovedModels
    <3> QED
      BY <3>2, <3>3
  <2> QED
    BY <1>1, <1>7, <2>1, TrackSome
<1>8. CASE tracker \in Steps /\ config.keep # 1
  BY <1>1, <1>4, <1>6, <1>8, OnwardOrAnew
<1>9. CASE tracker \in Steps /\ config.sft /\ config.keep = 1
  <2>1. PICK t \in Steps : t = tracker
    BY <1>9
  <2>2. phase' = "data"
    <3>1. Len(Managers) = 1 /\ manager \in 1 .. 1
      BY <1>9, ManagerFacts DEF AtInv
    <3> QED
      BY <3>1 DEF Register
  <2>3. Models(g)'
    <3>1. \A m \in Names : m = nm
      BY <1>2, <1>9, NameFacts
    <3> QED
      BY <1>1, <1>5, <3>1 DEF Models
  <2>4. CASE Onward
    <3>1. CASE t \in old
      <4>1. t \notin folders'
        BY <1>4, <1>9, <3>1, RemovedKeeps
      <4>2. tracker' < g
        BY <1>1, <1>3, <2>4 DEF Onward
      <4>3. Later'
        <5>1. Steps' = Steps
          BY <1>1 DEF Steps, total_training_steps
        <5> QED
          BY <2>3, <4>2, <5>1 DEF Later
      <4> QED
        BY <1>1, <1>9, <2>1, <2>2, <2>3, <4>1, <4>3, TrackAnew DEF Loadable
    <3>2. CASE t \notin old
      BY <1>6, <2>1, <2>4, <3>2
    <3> QED
      BY <3>1, <3>2
  <2>5. CASE Anew
    <3>1. old = {}
      BY <1>4, <2>5 DEF Anew
    <3>2. CASE tracker \notin folders
      <4>1. t \notin folders'
        BY <1>4, <2>1, <3>2, RemovedKeeps
      <4>2. PICK s \in Steps : s > tracker /\ Models(s)
        BY <2>5 DEF Anew, Later
      <4>3. \A m \in Names : ModelWhole(s, m)'
        BY <1>4, <3>1, <4>2, RemovedModels DEF Models
      <4>4. Later'
        <5>1. Steps' = Steps
          BY <1>1 DEF Steps, total_training_steps
        <5> QED
          BY <1>1, <4>2, <4>3, <5>1 DEF Later, Models
      <4> QED
        BY <1>1, <1>9, <2>1, <2>2, <2>3, <4>1, <4>4, TrackAnew DEF Loadable
    <3>3. CASE tracker = global_steps
      <4>1. t = g
        BY <1>3, <2>1, <3>3
      <4> QED
        BY <1>1, <1>9, <2>1, <2>2, <2>3, <4>1, TrackAnew
    <3> QED
      BY <2>5, <3>2, <3>3 DEF Anew
  <2> QED
    BY <1>1, <1>9, <2>4, <2>5, OnwardOrAnew
<1> QED
  BY <1>7, <1>8, <1>9, KeepFacts

LEMMA TrackDump ==
  ASSUME ConstantsOK, LineageInv, AtInv, StepInv, DumpInv, ListInv, TrackInv, NEW r \in Ranks, Dump(r)
  PROVE  TrackInv'
<1>1. /\ phase = "saving" /\ phase' = phase /\ Names' = Names /\ Steps' = Steps
      /\ UNCHANGED <<config, global_steps, tracker, weights, manager, data, previous_saved_paths>>
      /\ folders' = folders \union {global_steps}
  BY DumpFacts, NamesKept DEF Steps, total_training_steps
<1>2. PICK g \in Steps : g = global_steps /\ g = global_steps'
  BY <1>1 DEF StepInv
<1>3. ASSUME NEW s \in Steps, Models(s), s # g \/ ~config.sft PROVE Models(s)'
  <2>1. \A m \in Names : ModelWhole(s, m)
    BY <1>3 DEF Models
  <2>2. \A m \in Names : ModelWhole(s, m)'
    BY <1>2, <1>3, <2>1, DumpModels
  <2> QED
    BY <1>1, <2>2 DEF Models
<1>4. CASE tracker \notin Steps \/ (~config.sft /\ config.keep = 1)
  <2>1. ASSUME NEW m \in Names, tracker # None PROVE \E s \in Steps : ModelWhole(s, m)'
    <3>1. ~config.sft
      BY <1>4, <2>1 DEF TrackInv
    <3>2. PICK s \in Steps : ModelWhole(s, m)
      BY <2>1 DEF TrackInv
    <3> QED
      BY <3>1, <3>2, DumpModels
  <2> QED
    BY <1>1, <1>4, <2>1, TrackSome
<1>5. ASSUME NEW t \in Steps, t = tracker, Onward PROVE TrackInv'
  <2>1. t < g /\ t <= g
    BY <1>1, <1>2, <1>5 DEF Onward
  <2>2. t # g
    BY <2>1, Basics
  <2>3. Models(t)'
    BY <1>3, <1>5, <2>2 DEF Onward, Models
  <2>4. ASSUME config.keep # 1 PROVE Whole(t)'
    <3>1. data[t][0] # NoData
      BY <1>5, <2>4, WholeModels DEF TrackInv
    <3> QED
      BY <1>1, <2>3, <3>1 DEF Whole, Models, Names
  <2> QED
    BY <1>1, <1>2, <1>5, <2>1, <2>3, <2>4, TrackOnward
<1>6. ASSUME NEW t \in Steps, t = tracker, Anew PROVE TrackInv'
  <2>1. /\ config.sft /\ config.keep = 1 /\ Later /\ g <= t
        /\ \A m \in Names : previous_saved_paths[m] = <<>>
        /\ \/ t \notin folders
           \/ t = g /\ \A m \in Names, q \in Ranks : ~Written(q) => shard[t][m][q] = NoFile
    BY <1>2, <1>6 DEF Anew
  <2>2. PICK s \in Steps : s > t /\ Models(s)
    BY <1>6, <2>1 DEF Later
  <2>3. Models(s)'
    <3>1. s # g
      BY <2>1, <2>2, Basics
    <3> QED
      BY <1>3, <2>2, <3>1
  <2>4. Later'
    BY <1>1, <1>6, <2>2, <2>3 DEF Later, Models
  <2>5. CASE t # g
    <3>1. t \notin folders'
      BY <1>1, <1>2, <2>1, <2>5
    <3>2. Anew'
      <4>1. global_steps' <= tracker' /\ phase' # "training" /\ tracker' \notin folders'
        BY <1>1, <1>2, <1>6, <2>1, <3>1
      <4>2. config'.sft /\ config'.keep = 1 /\ \A m \in Names' : previous_saved_paths'[m] = <<>>
        BY <1>1, <2>1
      <4> QED
        BY <2>4, <4>1, <4>2 DEF Anew
    <3> QED
      BY <1>1, <1>6, <2>1, <2>3, <2>4, <3>1, <3>2, TrackAnew DEF Loadable
  <2>6. CASE t = g
    <3>1. \A m \in Names, q \in Ranks : ~Written(q) => shard[t][m][q] = NoFile
      BY <2>1, <2>6 DEF DumpInv
    <3>2. \A q \in Ranks : Written(q)' <=> (Written(q) \/ q = r)
      <4>1. at \in [Ranks -> {"called", "ready", "dumped", "saved", "tracked"}]
        BY DEF AtInv
      <4> QED
        BY <4>1, DumpFacts DEF Written
    <3>3. ASSUME NEW m \in Names, NEW q \in Ranks, ~Written(q)' PROVE shard'[t][m][q] = NoFile
      <4>1. q # r /\ ~Written(q)
        BY <3>2, <3>3
      <4> QED
        BY <3>1, <4>1, DumpFacts
    <3>4. Anew'
      <4>1. global_steps' <= tracker' /\ phase' = "saving" /\ tracker' = global_steps'
        BY <1>1, <1>2, <1>6, <2>1, <2>6
      <4>2. config'.sft /\ config'.keep = 1 /\ \A m \in Names' : previous_saved_paths'[m] = <<>>
        BY <1>1, <2>1
      <4>3. \A m \in Names', q \in Ranks : ~Written(q)' => shard'[tracker'][m][q] = NoFile
        BY <1>1, <1>6, <3>3
      <4> QED
        BY <2>4, <4>1, <4>2, <4>3 DEF Anew
    <3>5. Models(t)' \/ (Later' /\ ~Loadable(t)')
      <4>1. CASE \A q \in Ranks : Written(q)'
        <5>1. \A q \in Ranks : shard'[t][Name][q] = weights
          <6> SUFFICES ASSUME NEW q \in Ranks PROVE shard'[t][Name][q] = weights
            OBVIOUS
          <6>1. q = r \/ Written(q)
            BY <3>2, <4>1
          <6>2. Written(q) => shard[t][Name][q] = weights
            BY <1>1, <1>2, <2>6 DEF DumpInv
          <6>3. t = global_steps
            BY <1>2, <2>6
          <6> QED
            BY <6>1, <6>2, <6>3, DumpFacts
        <5>2. Len(weights) = t /\ t \in folders' /\ 0 \in Ranks
          BY <1>1, <1>2, <2>6, Basics DEF LineageInv, Trained
        <5>3. \A m \in Names : m = Name
          BY <2>1, NameFacts
        <5>4. \A m \in Names : ModelWhole(t, m)'
          BY <5>1, <5>2, <5>3 DEF ModelWhole
        <5> QED
          BY <1>1, <5>4 DEF Models
      <4>2. CASE \E q \in Ranks : ~Written(q)'
        <5>1. PICK q \in Ranks : ~Written(q)'
          BY <4>2
        <5>2. Name \in Names /\ shard'[t][Name][q] = NoFile
          BY <3>3, <5>1, NameFacts
        <5>3. ~Loadable(t)'
          BY <1>1, <5>2 DEF Loadable, Names
        <5> QED
          BY <2>4, <5>3
      <4> QED
        BY <4>1, <4>2
    <3> QED
      BY <1>1, <1>6, <2>1, <2>3, <3>4, <3>5, TrackAnew
  <2> QED
    BY <2>5, <2>6
<1> QED
  BY <1>1, <1>4, <1>5, <1>6, OnwardOrAnew, KeepFacts

LEMMA TrackSaveData ==
  ASSUME ConstantsOK, LineageInv, AtInv, StepInv, TrackInv, NEW r \in Ranks, SaveData(r)
  PROVE  TrackInv'
<1>1. /\ UNCHANGED <<config, phase, global_steps, previous_saved_paths, folders, shard, tracker>>
      /\ at' = [at EXCEPT ![r] = "saved"] /\ at[r] = "dumped"
      /\ Steps' = Steps /\ Names' = Names
  BY NamesKept DEF SaveData, Steps, total_training_steps
<1>2. \A q \in Ranks : Written(q)' <=> Written(q)
  <2>1. at \in [Ranks -> {"called", "ready", "dumped", "saved", "tracked"}]
    BY DEF AtInv
  <2> QED
    BY <1>1, <2>1 DEF Written
<1>3. /\ \A s, m : ModelWhole(s, m)' <=> ModelWhole(s, m)
      /\ \A s : (Models(s)' <=> Models(s)) /\ (Loadable(s)' <=> Loadable(s))
  <2>1. \A s, m : ModelWhole(s, m)' <=> ModelWhole(s, m)
    BY <1>1 DEF ModelWhole
  <2>2. \A s : Models(s)' <=> Models(s)
    BY <1>1, <2>1 DEF Models
  <2>3. \A s : Loadable(s)' <=> Loadable(s)
    BY <1>1 DEF Loadable, Names
  <2> QED
    BY <2>1, <2>2, <2>3
<1>4. /\ Models(tracker)' <=> Models(tracker)
      /\ Loadable(tracker)' <=> Loadable(tracker)
      /\ Later' <=> Later
  BY <1>1, <1>3 DEF Models, Loadable, ModelWhole, Later
<1>5. ASSUME tracker \in Steps, Whole(tracker) PROVE Whole(tracker)'
  <2>1. data[tracker][0] # NoData /\ Models(tracker)
    BY <1>5, WholeModels
  <2>2. data'[tracker][0] # NoData
    BY <1>5, <2>1, DataFacts
  <2>3. Models(tracker)'
    BY <1>4, <2>1
  <2> QED
    BY <1>1, <2>2, <2>3 DEF Whole, Models, Names
<1>6. Onward => Onward'
  BY <1>1, <1>4 DEF Onward
<1>7. Anew => Anew'
  BY <1>1, <1>2, <1>4 DEF Anew
<1> QED
  BY <1>1, <1>3, <1>4, <1>5, <1>6, <1>7 DEF TrackInv

LEMMA TrackTrack ==
  ASSUME ConstantsOK, LineageInv, StepInv, DumpInv, TrackInv, Track
  PROVE  TrackInv'
<1>1. /\ phase = "data" /\ phase' = "data" /\ at[0] = "saved"
      /\ UNCHANGED <<config, global_steps, folders, shard, data>> /\ Steps' = Steps /\ Names' = Names
      /\ \/ tracker' = global_steps
         \/ tracker' = Torn /\ ~config.sft
  BY NamesKept DEF Track, Steps, total_training_steps
<1>2. PICK g \in Steps : g = global_steps
  BY <1>1 DEF StepInv
<1>3. \A m \in Names : ModelWhole(g, m)
  BY <1>1, <1>2 DEF DumpInv
<1>4. Models(g)' /\ Whole(g)'
  <2>1. \A m \in Names : ModelWhole(g, m)'
    BY <1>1, <1>3 DEF ModelWhole
  <2>2. data'[g][0] # NoData
    BY <1>1, <1>2 DEF DumpInv
  <2> QED
    BY <1>1, <2>1, <2>2 DEF Whole, Models, Names
<1>5. Torn \notin Steps /\ None \notin Steps
  BY Basics DEF Torn, None
<1>6. \A m \in Names' : \E s \in Steps : ModelWhole(s, m)'
  BY <1>4 DEF Models
<1>7. CASE tracker' = global_steps
  <2>1. tracker' = g
    BY <1>2, <1>7
  <2>2. Models(tracker)' /\ Whole(tracker)'
    BY <1>4, <2>1 DEF Models, Whole, ModelWhole
  <2> QED
    BY <1>1, <1>5, <1>6, <2>1, <2>2 DEF TrackInv
<1>8. CASE tracker' = Torn /\ ~config.sft
  BY <1>1, <1>5, <1>6, <1>8 DEF TrackInv
<1> QED
  BY <1>1, <1>7, <1>8

LEMMA TrackNext ==
  ASSUME ConstantsOK, LineageInv, AtInv, StepInv, DumpInv, ListInv, TrackInv, Next
  PROVE  TrackInv'
<1>1. at \in [Ranks -> {"called", "ready", "dumped", "saved", "tracked"}]
  BY DEF AtInv
<1>2. CASE Training
  <2>1. CASE Train
    BY <1>2, <2>1, TrackTrain DEF Training
  <2>2. CASE EndEpoch
    <3>1. UNCHANGED <<config, disk, phase, global_steps, previous_saved_paths, at>>
      BY <1>2, <2>2 DEF Training, EndEpoch
    <3> QED
      BY <3>1, TrackMoves DEF Written
  <2>3. CASE EndFit
    BY <1>2, <2>3, TrackKept DEF Training, EndFit
  <2> QED
    BY <1>2, <2>1, <2>2, <2>3 DEF Training
<1>3. CASE Crash
  BY <1>3, TrackKept DEF Crash
<1>4. CASE Saved
  <2>1. /\ phase = "data" /\ at[0] = "tracked" /\ phase' \in {"done", "training"}
        /\ UNCHANGED <<config, disk, global_steps, tracker>>
    BY <1>4 DEF Saved, disk
  <2>2. tracker = global_steps /\ \A m \in Names : ModelWhole(global_steps, m)
    BY <2>1 DEF DumpInv
  <2>3. Models(tracker)'
    BY <2>1, <2>2, DiskKept, NamesKept DEF Models, ModelWhole, disk
  <2>4. global_steps' \in Nat
    BY <2>1 DEF LineageInv, Shape
  <2>5. Onward'
    BY <2>1, <2>2, <2>3, <2>4 DEF Onward
  <2> QED
    BY <2>1, <2>5, TrackKept
<1>5. ASSUME NEW r \in Ranks, Arrive(r) PROVE TrackInv'
  <2>1. /\ UNCHANGED <<config, disk, phase, global_steps, previous_saved_paths>>
        /\ at[r] = "called" /\ at' = [at EXCEPT ![r] = "ready"]
    BY <1>5 DEF Arrive
  <2>2. \A q \in Ranks : Written(q)' <=> Written(q)
    BY <1>1, <2>1 DEF Written
  <2> QED
    BY <2>1, <2>2, TrackMoves
<1> QED
  BY <1>2, <1>3, <1>4, <1>5, TrackStart, TrackRoom, TrackRegister, TrackDump, TrackSaveData, TrackTrack
     DEF Next, Saving

LEMMA SomethingNext ==
  ASSUME ConstantsOK PROVE LineageInv /\ SomethingInv /\ [Next]_vars => SomethingInv'
<1> SUFFICES ASSUME LineageInv, SomethingInv, [Next]_vars PROVE SomethingInv'
  OBVIOUS
<1> USE DEF SomethingInv
<1>1. CASE Next
  BY <1>1, AtNext, StepNext, DumpNext, ListNext, TrackNext
<1>2. CASE UNCHANGED vars
  <2>1. UNCHANGED <<config, disk, phase, manager, at, global_steps, epoch, weights, previous_saved_paths,
                    tracker, folders, shard, data>>
    BY <1>2 DEF vars, memory, disk
  <2>2. AtInv' /\ StepInv'
    BY <2>1, NamesKept DEF AtInv, StepInv, Steps, total_training_steps, SaveHere, IsLastStep
  <2>3. DumpInv'
    <3>1. phase = "data" => /\ at'[0] \in {"saved", "tracked"} => data'[global_steps][0] # NoData
                            /\ at'[0] = "tracked" => tracker' = global_steps
      BY <2>1 DEF DumpInv
    <3> QED
      BY <2>1, <3>1, DumpMoves DEF Written
  <2>4. ListInv'
    BY <2>1, ListMoves
  <2>5. TrackInv'
    BY <2>1, TrackMoves DEF Written
  <2> QED
    BY <2>2, <2>3, <2>4, <2>5
<1> QED
  BY <1>1, <1>2

\* AlwaysSomething: with more than one checkpoint kept, or all of them, what the tracker names is
\* whole whenever the processes are killed; with one, every manager has a whole save.
THEOREM AlwaysSomethingLeft == Spec => []AlwaysSomething
<1> USE ConstantsOK
<1>1. SomethingInv => AlwaysSomething
  BY DEF SomethingInv, TrackInv, AlwaysSomething, TrackedIsWhole, Names
<1> QED
  BY <1>1, LineageInit, LineageNext, SomethingInit, SomethingNext, PTL DEF Spec
=============================================================================
