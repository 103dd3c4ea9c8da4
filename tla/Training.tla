-------------------------------- MODULE Training --------------------------------
(***************************************************************************)
(* Trainings of one model name (apps/api/app/workers/tasks/train.py, run   *)
(* by the worker and by `make train'), the bundle of files each leaves     *)
(* under its version (packages/pdm: registry/bundle.py), the row that      *)
(* registers it (modules/pdm/service.py), and the copy of a bundle to a    *)
(* device (apps/edge/edge/export_models.py), whose runner takes the newest *)
(* one.  The version is the second in which the training began.            *)
(***************************************************************************)
EXTENDS Integers, Sequences, FiniteSets, FiniteSetsExt, SequencesExt

CONSTANTS
    Trainers,       \* processes that train
    MaxTrainings,   \* bound: trainings
    MaxSecond,      \* bound: seconds of the clock
    MaxMishaps      \* bound: trainings killed or begun in the second of another, exports interrupted,
                    \* registrations that fail

ASSUME TrainingAssumption == MaxTrainings \in Nat /\ MaxSecond \in Nat \ {0} /\ MaxMishaps \in Nat

VARIABLES
    second,      \* the clock
    disk,        \* models_dir/name: of each version, whose file each file is, or that it is torn
    copied,      \* the same on the device
    registered,  \* the training that registered each version, 0 if none has
    trainer,     \* what each process is doing
    exporter,    \* the export under way: its version and the files it has yet to copy
    trainings,   \* bound, and the number of the next training
    mishaps,     \* bound
    collided,    \* history: versions in which two trainings began
    orphaned     \* history: versions whose training ended after it opened bundle.json and before its row, or whose export stopped

trainingVars == <<second, disk, copied, registered, trainer, exporter, trainings, mishaps, collided, orphaned>>

Version   == 1..MaxSecond
TrainingIds == 0..MaxTrainings
NoFile    == 0
Torn      == -1     \* opened, which empties it, and not written to its end
Contents  == TrainingIds \cup {Torn}

\* Mutant: bundle.json is written first.
FileOrderJsonFirst == <<"bundle.json", "model.onnx", "anomaly.onnx", "model.pkl", "booster.txt">>

\* save_bundle, in the order it writes
FileOrder == <<"model.onnx", "anomaly.onnx", "model.pkl", "booster.txt", "bundle.json">>

\* EDGE_FILES, in the order they are copied
EdgeFiles == <<"bundle.json", "model.onnx", "booster.txt", "anomaly.onnx">>

Files       == ToSet(FileOrder)
EmptyBundle == [f \in Files |-> NoFile]
NoTraining  == [pc |-> "idle", id |-> 0, version |-> 0, left |-> <<>>]
NoExport    == [version |-> 0, left |-> <<>>]

TrainingTypeOK ==
    /\ second \in Version /\ trainings \in TrainingIds /\ mishaps \in 0..MaxMishaps
    /\ {disk, copied} \subseteq [Version -> [Files -> Contents]] /\ registered \in [Version -> TrainingIds]
    /\ collided \cup orphaned \subseteq Version
    /\ \A w \in Trainers :
         /\ trainer[w].pc \in {"idle", "fit", "save", "write", "register", "finish"}
         /\ trainer[w].id \in TrainingIds /\ trainer[w].version \in 0..MaxSecond
         /\ trainer[w].left \in Seq(Files)
    /\ exporter.version \in 0..MaxSecond /\ exporter.left \in Seq(Files)

TrainingInit ==
    /\ second = 1 /\ trainings = 0 /\ mishaps = 0
    /\ disk = [v \in Version |-> EmptyBundle] /\ copied = [v \in Version |-> EmptyBundle]
    /\ registered = [v \in Version |-> 0] /\ collided = {} /\ orphaned = {}
    /\ trainer = [w \in Trainers |-> NoTraining] /\ exporter = NoExport

-----------------------------------------------------------------------------
(* The data: Windows(n) are those of an asset of n rows, a window being    *)
(* the asset and its first row (build_features), and what is held out of   *)
(* the fit that is measured.                                               *)
AssetWindows(asset, rows, size, stride) ==
    {<<asset, first>> : first \in {k \in 1..(rows - size + 1) : (k - 1) % stride = 0}}

RowsOf(windows, size) == UNION {{<<w[1], k>> : k \in w[2]..(w[2] + size - 1)} : w \in windows}

\* Every asset's windows; the rows of the export are sorted by asset and time.
SyntheticWindows(lengths, size, stride) ==
    UNION {AssetWindows(a, lengths[a], size, stride) : a \in DOMAIN lengths}

Earlier(v, w) == v[1] < w[1] \/ (v[1] = w[1] /\ v[2] < w[2])

\* Mutant: the last fifth of the windows, however many assets there are.
HeldOutByTime(windows) ==
    {w \in windows : 5 * Cardinality({v \in windows : Earlier(v, w)}) >= 4 * Cardinality(windows)}

\* _train_synthetic: the last asset's, or the last fifth of the only asset's.
HeldOut(windows) ==
    LET assets == {w[1] : w \in windows} IN
    {w \in windows : IF Cardinality(assets) > 1 THEN w[1] = Max(assets)
                     ELSE 5 * Cardinality({v \in windows : Earlier(v, w)}) >= 4 * Cardinality(windows)}

-----------------------------------------------------------------------------
(* A training. *)
BeginTraining(w) ==
    LET taken == \/ \E v \in Trainers : trainer[v].pc # "idle" /\ trainer[v].version = second
                 \/ registered[second] # 0
                 \/ \E f \in Files : disk[second][f] # NoFile
    IN
    /\ trainer[w].pc = "idle" /\ trainings < MaxTrainings /\ trainings' = trainings + 1
    /\ trainer' = [trainer EXCEPT ![w] = [pc |-> "fit", id |-> trainings', version |-> second, left |-> FileOrder]]
    /\ IF taken
       THEN collided' = collided \cup {second} /\ mishaps < MaxMishaps /\ mishaps' = mishaps + 1
       ELSE UNCHANGED <<collided, mishaps>>
    /\ UNCHANGED <<second, disk, copied, registered, exporter, orphaned>>

\* Whatever the data set, it is fitted, measured on what was held out, fitted
\* on everything and then written; or there is no data, or too little.
Fit(w) ==
    /\ trainer[w].pc = "fit"
    /\ \/ trainer' = [trainer EXCEPT ![w].pc = "save"]
       \/ trainer' = [trainer EXCEPT ![w] = NoTraining]
    /\ UNCHANGED <<second, disk, copied, registered, exporter, trainings, mishaps, collided, orphaned>>

\* save_bundle's last write: bundle.json is opened, which empties it, and then
\* written and closed.  So are the others, but nobody reads a directory that
\* has no bundle.json.
OpenBundle(w) ==
    LET t == trainer[w] IN
    /\ t.pc = "save" /\ Head(t.left) = "bundle.json"
    /\ disk' = [disk EXCEPT ![t.version][Head(t.left)] = Torn]
    /\ trainer' = [trainer EXCEPT ![w].pc = "write"]
    /\ UNCHANGED <<second, copied, registered, exporter, trainings, mishaps, collided, orphaned>>

SaveFile(w) ==
    LET t == trainer[w] IN
    /\ t.pc \in {"save", "write"} /\ (Head(t.left) = "bundle.json" => t.pc = "write")
    /\ disk' = [disk EXCEPT ![t.version][Head(t.left)] = t.id]
    /\ trainer' = [trainer EXCEPT ![w] = [t EXCEPT !.left = Tail(@),
                                                   !.pc = IF Len(t.left) = 1 THEN "register" ELSE "save"]]
    /\ UNCHANGED <<second, copied, registered, exporter, trainings, mishaps, collided, orphaned>>

\* register_model: a version there is already is refused (409).
RegisterTrained(w) ==
    LET t == trainer[w] IN
    /\ t.pc = "register"
    /\ IF registered[t.version] # 0
       THEN trainer' = [trainer EXCEPT ![w] = NoTraining] /\ UNCHANGED registered
       ELSE /\ registered' = [registered EXCEPT ![t.version] = t.id]
            /\ trainer' = [trainer EXCEPT ![w].pc = "finish"]
    /\ UNCHANGED <<second, disk, copied, exporter, trainings, mishaps, collided, orphaned>>

\* The promotion that was asked for is in ModelRegistry, the insights of the
\* model in ModelJobs; whether they succeed or raise, the model stays registered.
FinishTraining(w) ==
    /\ trainer[w].pc = "finish"
    /\ trainer' = [trainer EXCEPT ![w] = NoTraining]
    /\ UNCHANGED <<second, disk, copied, registered, exporter, trainings, mishaps, collided, orphaned>>

\* The process is killed, or writing or registering raises; the job, if it was
\* one, is delivered again and is another training.  A bundle.json that was open stays torn.
TrainingEnds(w) ==
    LET t == trainer[w] IN
    /\ t.pc \in {"save", "write", "register"} /\ mishaps < MaxMishaps /\ mishaps' = mishaps + 1
    /\ orphaned' = IF t.pc \in {"write", "register"} THEN orphaned \cup {t.version} ELSE orphaned
    /\ trainer' = [trainer EXCEPT ![w] = NoTraining]
    /\ UNCHANGED <<second, disk, copied, registered, exporter, trainings, collided>>

SecondPasses ==
    /\ second < MaxSecond /\ second' = second + 1
    /\ UNCHANGED <<disk, copied, registered, trainer, exporter, trainings, mishaps, collided, orphaned>>

-----------------------------------------------------------------------------
(* The device. *)

\* latest_bundle_dir: the newest version that has a bundle.json, whatever is in it; 0: none.
LatestBundle(dir) == Max({0} \cup {v \in Version : dir[v]["bundle.json"] # NoFile})

StartExport ==
    /\ exporter = NoExport /\ LatestBundle(disk) # 0
    /\ exporter' = [version |-> LatestBundle(disk), left |-> EdgeFiles]
    /\ UNCHANGED <<second, disk, copied, registered, trainer, trainings, mishaps, collided, orphaned>>

\* export_bundle copies the files that are there.
CopyFile ==
    LET v == exporter.version
        f == Head(exporter.left) IN
    /\ exporter # NoExport
    /\ copied' = IF disk[v][f] = NoFile THEN copied ELSE [copied EXCEPT ![v][f] = disk[v][f]]
    /\ exporter' = IF Len(exporter.left) = 1 THEN NoExport ELSE [exporter EXCEPT !.left = Tail(@)]
    /\ UNCHANGED <<second, disk, registered, trainer, trainings, mishaps, collided, orphaned>>

\* The file being copied may be left torn.
ExportStops ==
    /\ exporter # NoExport /\ exporter' = NoExport
    /\ copied' \in {copied, [copied EXCEPT ![exporter.version][Head(exporter.left)] = Torn]}
    /\ mishaps < MaxMishaps /\ mishaps' = mishaps + 1
    /\ orphaned' = orphaned \cup {exporter.version}
    /\ UNCHANGED <<second, disk, registered, trainer, trainings, collided>>

TrainingNext ==
    \/ \E w \in Trainers :
         \/ BeginTraining(w) \/ Fit(w) \/ OpenBundle(w) \/ SaveFile(w)
         \/ RegisterTrained(w) \/ FinishTraining(w) \/ TrainingEnds(w)
    \/ SecondPasses \/ StartExport \/ CopyFile \/ ExportStops

TrainingSpec == TrainingInit /\ [][TrainingNext]_trainingVars

-----------------------------------------------------------------------------
(* Properties. *)

\* The files of a directory are those of one training, but bundle.json may be torn.
Whole(dir, v, files, id) ==
    \A f \in files : dir[v][f] = id \/ (f = "bundle.json" /\ dir[v][f] = Torn)

\* A version that a reader takes for a bundle (it has a bundle.json) has every
\* other file, written to its end, of one training; its bundle.json is torn
\* only while it is being written, or where the training ended in the middle of
\* it.  What is registered is whole, and of the training that registered it.
\* Two trainings that begin in the same second write the same directory, and
\* the second is refused only after it has.
BundlesWhole ==
    \A v \in Version \ collided :
       /\ disk[v]["bundle.json"] # NoFile => \E id \in 1..MaxTrainings : Whole(disk, v, Files, id)
       /\ disk[v]["bundle.json"] = Torn /\ v \notin orphaned =>
            \E w \in Trainers : trainer[w].version = v /\ trainer[w].pc = "write"
       /\ registered[v] # 0 => \A f \in Files : disk[v][f] = registered[v]

\* The runner of a device finds the files of one training, unless an export was
\* interrupted or is under way: it copies bundle.json first.  An export that
\* reads bundle.json while it is being written copies it torn.
DeviceRuns ==
    LET v == LatestBundle(copied) IN
    v # 0 /\ v \notin collided \cup orphaned /\ exporter.version # v
      => \E id \in 1..MaxTrainings : Whole(copied, v, ToSet(EdgeFiles), id)

\* The predictions of the newest bundle name a version the platform knows, or
\* is about to: its training is writing bundle.json or registering it, or has
\* failed to.
PickedIsKnown ==
    LET v == LatestBundle(disk) IN
    v # 0 /\ v \notin collided \cup orphaned
      => registered[v] # 0 \/ \E w \in Trainers : trainer[w].version = v /\ trainer[w].pc \in {"write", "register"}

\* What a model is measured on it has not seen: no row of a window held out is
\* in a window of the fit, where there is another asset to hold out.  (Of a
\* single asset the windows overlap at the split.)
MeasuredOnUnseen ==
    \A lengths \in UNION {[1..n -> {2, 5}] : n \in 2..3}, stride \in 1..2 :
       LET all  == SyntheticWindows(lengths, 2, stride)
           test == HeldOut(all) IN
       RowsOf(test, 2) \cap RowsOf(all \ test, 2) = {} /\ test # {} /\ test # all

\* Every model that is registered was trained, measured and written whole; what
\* else a reader may pick is short of its bundle.json at most, while the training
\* is at it or where it died there.
TrainingSound == BundlesWhole /\ DeviceRuns /\ PickedIsKnown /\ MeasuredOnUnseen
=============================================================================
