------------------------------ MODULE Catalog ------------------------------
(***************************************************************************)
(* Model assets, datasets and the workloads that refer to them.            *)
(*                                                                         *)
(* Every resource is a row and a file, and no transaction spans both.      *)
(* Requests run concurrently: uploads, creations of workloads, the         *)
(* publication of a trained model, downloads and deletions.  Rows are      *)
(* guarded by row locks and foreign keys, files by the order in which they *)
(* are written and removed.  A commit may fail with its effect applied, a  *)
(* connection may be lost while its request goes on, and the process may   *)
(* be killed.                                                              *)
(***************************************************************************)
EXTENDS Naturals, Sequences, FiniteSets

CONSTANTS Imported,    \* models whose asset and directory exist from the start
          Trainings,   \* training jobs; the model that one publishes has its name
          Others,      \* deployments and evaluation runs
          Datasets,
          Clients,     \* concurrent requests of the HTTP API
          Rank,        \* the order of the assets' ids
          MaxFaults    \* bound: kills of the process and failed calls

Models == Imported \cup Trainings
Workloads == Trainings \cup Others

ASSUME CatalogAssumption ==
    /\ Imported \cap Trainings = {} /\ Trainings \cap Others = {}
    /\ Rank \in [Models -> Nat]
    /\ \A m, n \in Models : Rank[m] = Rank[n] => m = n
    /\ IsFiniteSet(Clients)
    /\ MaxFaults \in Nat

VARIABLES assets,    \* model -> its row: absent, ready or soft-deleted
          datasets,  \* dataset -> its row
          rows,      \* workload -> its row
          disk,      \* the files and directories, as <<kind, whose>>
          reqs,      \* client -> the request it is serving
          late,      \* datasets whose INSERT may still be committed by the server
          strays,    \* datasets whose INSERT was committed that late
          faults

database == <<assets, datasets, rows, late, strays>>
vars == <<database, disk, reqs, faults>>

NoRow == [state |-> "none", uses |-> {}, data |-> {}, published |-> FALSE]
Exists(w) == rows[w].state \in {"open", "succeeded", "ended"}
Ended(w) == rows[w].state \in {"succeeded", "ended"}

-----------------------------------------------------------------------------
(***************************************************************************)
(* Requests.  A request waits for the row locks it wants, one by one, then *)
(* goes on at "next".  Its locks end with it, or with its connection.      *)
(***************************************************************************)
Idle == [pc |-> "idle", next |-> "idle", on |-> {}, want |-> <<>>, held |-> {},
         uses |-> {}, data |-> {}, lost |-> FALSE]
At(c, pc) == reqs[c].pc = pc
Go(c, pc) == reqs' = [reqs EXCEPT ![c].pc = pc]
End(c) == reqs' = [reqs EXCEPT ![c] = Idle]
Begin(c, request) == At(c, "idle") /\ reqs' = [reqs EXCEPT ![c] = request]

New(pc, next, x, want, uses, data) ==
    [pc |-> pc, next |-> next, on |-> {x}, want |-> want, held |-> {},
     uses |-> uses, data |-> data, lost |-> FALSE]
On(pc, x) == New(pc, "idle", x, <<>>, {}, {})
Locking(x, want, next) == New("locking", next, x, want, {}, {})
Subject(c) == CHOOSE x \in reqs[c].on : TRUE
Serves(x) == \E c \in Clients : x \in reqs[c].on

Asset(m) == <<"asset", m>>
Job(w) == <<"job", w>>

\* Faulty variant of Free: the row is read without FOR UPDATE.
AlwaysFree(lock) == TRUE

Free(lock) == \A c \in Clients : lock \notin reqs[c].held

\* What a request asks of a row once it holds it: a visible asset, or a job that has
\* succeeded and is not published.
Accepts(lock) ==
    IF lock[1] = "asset" THEN assets[lock[2]] = "ready"
                         ELSE rows[lock[2]].state = "succeeded" /\ ~rows[lock[2]].published

Lock(c) ==
    LET lock == Head(reqs[c].want)
    IN  /\ At(c, "locking") /\ ~reqs[c].lost
        /\ Free(lock)
        /\ IF Accepts(lock)
           THEN reqs' = [reqs EXCEPT ![c].held = @ \cup {lock}, ![c].want = Tail(@),
                                     ![c].pc = IF Len(reqs[c].want) = 1 THEN reqs[c].next ELSE @]
           ELSE End(c)
        /\ UNCHANGED <<database, disk, faults>>

Commits(c, pc) == At(c, pc) /\ ~reqs[c].lost

Fault == faults < MaxFaults /\ faults' = faults + 1

-----------------------------------------------------------------------------
(***************************************************************************)
(* Datasets.                                                               *)
(***************************************************************************)
Part(d) == <<"part", d>>
Data(d) == <<"data", d>>

BeginUpload(c, d) ==
    /\ datasets[d] = "none" /\ ~Serves(d) /\ d \notin late
    /\ {Part(d), Data(d)} \cap disk = {}
    /\ Begin(c, On("receiving", d))
    /\ disk' = disk \cup {Part(d)}
    /\ UNCHANGED <<database, faults>>

\* Faulty variant of RejectUpload: the partial file stays.
RejectUploadLeaves(c) ==
    /\ At(c, "receiving")
    /\ End(c)
    /\ UNCHANGED <<database, disk, faults>>

RejectUpload(c) ==
    /\ At(c, "receiving")
    /\ disk' = disk \ {Part(Subject(c))}
    /\ End(c)
    /\ UNCHANGED <<database, faults>>

StoreUpload(c) ==
    /\ At(c, "receiving")
    /\ disk' = (disk \ {Part(Subject(c))}) \cup {Data(Subject(c))}
    /\ Go(c, "registering")
    /\ UNCHANGED <<database, faults>>

RegisterUpload(c) ==
    /\ At(c, "registering")
    /\ datasets' = [datasets EXCEPT ![Subject(c)] = "ready"]
    /\ End(c)
    /\ UNCHANGED <<assets, rows, late, strays, disk, faults>>

\* The request is cancelled, or its commit raises: without effect, with it, or with an
\* effect that is still to come.
RegisterFails(c) ==
    /\ At(c, "registering") /\ Fault
    /\ Go(c, "recovering")
    /\ \/ UNCHANGED <<datasets, late>>
       \/ datasets' = [datasets EXCEPT ![Subject(c)] = "ready"] /\ UNCHANGED late
       \/ late' = late \cup {Subject(c)} /\ UNCHANGED datasets
    /\ UNCHANGED <<assets, rows, strays, disk>>

NotRegistered(d) == datasets[d] = "none"

\* The file is only given up when the database says that there is no row.
RecoverUpload(c) ==
    /\ At(c, "recovering")
    /\ \/ NotRegistered(Subject(c)) /\ Go(c, "unlinking") /\ UNCHANGED faults
       \/ ~NotRegistered(Subject(c)) /\ End(c) /\ UNCHANGED faults
       \/ Fault /\ End(c)
    /\ UNCHANGED <<database, disk>>

LateCommit(d) ==
    /\ d \in late
    /\ late' = late \ {d}
    /\ datasets' = [datasets EXCEPT ![d] = "ready"]
    /\ strays' = strays \cup {d}
    /\ UNCHANGED <<assets, rows, disk, reqs, faults>>

BeginDeleteDataset(c, d) ==
    /\ datasets[d] = "ready"
    /\ Begin(c, On("erasing", d))
    /\ UNCHANGED <<database, disk, faults>>

\* The foreign keys of jobs and runs refuse the deletion of the row they refer to.
DeleteDataset(c) ==
    LET d == Subject(c)
        used == \E w \in Workloads : Exists(w) /\ d \in rows[w].data
    IN  /\ At(c, "erasing")
        /\ IF used THEN End(c) /\ UNCHANGED datasets
                   ELSE Go(c, "unlinking") /\ datasets' = [datasets EXCEPT ![d] = "gone"]
        /\ UNCHANGED <<assets, rows, late, strays, disk, faults>>

\* The end of a deletion, and of the recovery of an upload.
Unlink(c) ==
    /\ At(c, "unlinking")
    /\ \/ disk' = disk \ {Data(Subject(c))} /\ UNCHANGED faults
       \/ Fault /\ UNCHANGED disk
    /\ End(c)
    /\ UNCHANGED database

-----------------------------------------------------------------------------
(***************************************************************************)
(* Creation of deployments, training jobs and evaluation runs.             *)
(***************************************************************************)
\* Faulty variant of LockOrder: the assets are locked as the request names them.
AsRequested(models) == [i \in 1..Len(models) |-> Asset(models[i])]

\* get_active_model_assets_for_update locks one or two assets in the order of the ids.
LockOrder(models) ==
    LET first == Head(models)
        last == models[Len(models)]
    IN  IF first = last THEN <<Asset(first)>>
        ELSE IF Rank[first] < Rank[last] THEN <<Asset(first), Asset(last)>>
                                         ELSE <<Asset(last), Asset(first)>>

\* A training needs one model and one dataset, a deployment one model, an evaluation a
\* baseline, a candidate and perhaps a dataset.
Inputs(w) ==
    IF w \in Trainings
    THEN {<<m>> : m \in Models \ {w}} \X {{d} : d \in Datasets}
    ELSE ({<<m>> : m \in Models} \X {{}})
         \cup ({<<m, n>> : m, n \in Models} \X ({{}} \cup {{d} : d \in Datasets}))

BeginCreate(c, w) ==
    /\ rows[w].state = "none"
    /\ \E in \in Inputs(w) :
          LET models == {in[1][i] : i \in 1..Len(in[1])}
          IN  /\ \A m \in models : assets[m] # "none"
              /\ Begin(c, New("locking", "validating", w, LockOrder(in[1]), models, in[2]))
    /\ UNCHANGED <<database, disk, faults>>

Verified(d) == datasets[d] = "ready" /\ Data(d) \in disk

\* The dataset is read without a lock, and its file is compared with its row.
Validate(c) ==
    /\ At(c, "validating")
    /\ IF \A d \in reqs[c].data : Verified(d) THEN Go(c, "inserting") ELSE End(c)
    /\ UNCHANGED <<database, disk, faults>>

\* Faulty variant of ForeignKeysHold: the schema has no foreign key.
ForeignKeysIgnored(data) == TRUE

ForeignKeysHold(data) == \A d \in data : datasets[d] = "ready"

\* Names are unique: of two requests for the same workload one gets a conflict.
Insert(c) ==
    /\ Commits(c, "inserting")
    /\ rows' = IF rows[Subject(c)].state = "none" /\ ForeignKeysHold(reqs[c].data)
               THEN [rows EXCEPT ![Subject(c)] = [state |-> "open", uses |-> reqs[c].uses,
                                                  data |-> reqs[c].data, published |-> FALSE]]
               ELSE rows
    /\ End(c)
    /\ UNCHANGED <<assets, datasets, late, strays, disk, faults>>

\* The workload ends, as Platform models; a training also with success.
EndWorkload(w) ==
    /\ rows[w].state = "open"
    /\ \E s \in {"ended"} \cup (IF w \in Trainings THEN {"succeeded"} ELSE {}) :
          rows' = [rows EXCEPT ![w].state = s]
    /\ UNCHANGED <<assets, datasets, late, strays, disk, reqs, faults>>

\* DELETE of a workload locks its row until it commits.
DeleteWorkload(w) ==
    /\ Ended(w) /\ Free(Job(w))
    /\ rows' = [rows EXCEPT ![w] = [NoRow EXCEPT !.state = "gone"]]
    /\ UNCHANGED <<assets, datasets, late, strays, disk, reqs, faults>>

-----------------------------------------------------------------------------
(***************************************************************************)
(* Model assets.  A deletion hides the row and keeps the directory.        *)
(***************************************************************************)
BeginDeleteAsset(c, m) ==
    /\ assets[m] = "ready"
    /\ Begin(c, Locking(m, <<Asset(m)>>, "checking"))
    /\ UNCHANGED <<database, disk, faults>>

\* Faulty variant of Referenced: what a training published is not counted.
ReferencedAsInput(m) == \E w \in Workloads : Exists(w) /\ m \in rows[w].uses

\* model_asset_has_operational_references
Referenced(m) ==
    \E w \in Workloads : Exists(w) /\ (m \in rows[w].uses \/ (w = m /\ rows[w].published))

CheckReferences(c) ==
    /\ At(c, "checking")
    /\ IF Referenced(Subject(c)) THEN End(c) ELSE Go(c, "hiding")
    /\ UNCHANGED <<database, disk, faults>>

HideAsset(c) ==
    /\ Commits(c, "hiding")
    /\ assets' = [assets EXCEPT ![Subject(c)] = "deleted"]
    /\ End(c)
    /\ UNCHANGED <<datasets, rows, late, strays, disk, faults>>

-----------------------------------------------------------------------------
(***************************************************************************)
(* Publication of a trained model, and the download of its artifacts.      *)
(***************************************************************************)
Directory(m) == <<"model", m>>
Staging(c) == <<"staging", c>>
Archive(c) == <<"archive", c>>

BeginPublish(c, t) ==
    /\ Exists(t)
    /\ Begin(c, Locking(t, <<Job(t)>>, "resolving"))
    /\ UNCHANGED <<database, disk, faults>>

\* The file lock belongs to a thread, which survives the loss of its row lock.
Flocked(t) == \E c \in Clients : At(c, "copying") /\ t \in reqs[c].on

\* A directory that is already there has the fingerprint of the job's artifacts: an earlier
\* publication ended between the rename and the commit.
TakeFlock(c) ==
    /\ At(c, "resolving") /\ ~Flocked(Subject(c))
    /\ IF Directory(Subject(c)) \in disk
       THEN Go(c, "linking") /\ UNCHANGED disk
       ELSE Go(c, "copying") /\ disk' = disk \cup {Staging(c)}
    /\ UNCHANGED <<database, faults>>

MoveStaging(c) ==
    /\ At(c, "copying")
    /\ disk' = (disk \ {Staging(c)}) \cup {Directory(Subject(c))}
    /\ Go(c, "linking")
    /\ UNCHANGED <<database, faults>>

\* The copy fails, is found incomplete, or its artifacts changed meanwhile.
FailCopy(c) ==
    /\ At(c, "copying")
    /\ disk' = disk \ {Staging(c)}
    /\ End(c)
    /\ UNCHANGED <<database, faults>>

\* One transaction creates the asset and lets the job refer to it.
Linked(t) ==
    /\ assets' = [assets EXCEPT ![t] = IF @ = "none" THEN "ready" ELSE @]
    /\ rows' = [rows EXCEPT ![t].published = TRUE]

Link(c) ==
    /\ Commits(c, "linking")
    /\ \/ Linked(Subject(c)) /\ UNCHANGED faults
       \/ Fault /\ Linked(Subject(c))          \* the answer of the commit is lost
    /\ End(c)
    /\ UNCHANGED <<datasets, late, strays, disk>>

BeginDownload(c, t) ==
    /\ Ended(t)
    /\ Begin(c, On("archiving", t))
    /\ disk' = disk \cup {Archive(c)}
    /\ UNCHANGED <<database, faults>>

\* The archive was sent, or could not be built.
EndDownload(c) ==
    /\ At(c, "archiving")
    /\ disk' = disk \ {Archive(c)}
    /\ End(c)
    /\ UNCHANGED <<database, faults>>

-----------------------------------------------------------------------------
(***************************************************************************)
(* Failures.                                                               *)
(***************************************************************************)
\* The request is refused or raises between two steps; its transaction is rolled back.
Abort(c) ==
    /\ reqs[c].pc \in {"locking", "validating", "inserting", "checking", "hiding",
                       "resolving", "linking", "erasing"}
    /\ End(c)
    /\ UNCHANGED <<database, disk, faults>>

\* The database ends the session and its locks; the request finds out when it commits.
LoseConnection(c) ==
    /\ reqs[c].held # {} /\ Fault
    /\ reqs' = [reqs EXCEPT ![c].held = {}, ![c].lost = TRUE]
    /\ UNCHANGED <<database, disk>>

\* The process is killed and started again, which removes partial uploads that are old.
Restart ==
    /\ Fault
    /\ reqs' = [c \in Clients |-> Idle]
    /\ \E old \in SUBSET {f \in disk : f[1] = "part"} : disk' = disk \ old
    /\ UNCHANGED database

-----------------------------------------------------------------------------
Init ==
    /\ assets = [m \in Models |-> IF m \in Imported THEN "ready" ELSE "none"]
    /\ datasets = [d \in Datasets |-> "none"]
    /\ rows = [w \in Workloads |-> NoRow]
    /\ disk = {Directory(m) : m \in Imported}
    /\ reqs = [c \in Clients |-> Idle]
    /\ late = {} /\ strays = {}
    /\ faults = 0

Accept(c) ==
    \/ \E d \in Datasets : BeginUpload(c, d) \/ BeginDeleteDataset(c, d)
    \/ \E w \in Workloads : BeginCreate(c, w)
    \/ \E m \in Models : BeginDeleteAsset(c, m)
    \/ \E t \in Trainings : BeginPublish(c, t) \/ BeginDownload(c, t)

Step(c) ==
    \/ StoreUpload(c) \/ RegisterUpload(c) \/ RecoverUpload(c) \/ DeleteDataset(c) \/ Unlink(c)
    \/ Validate(c) \/ Insert(c) \/ CheckReferences(c) \/ HideAsset(c)
    \/ MoveStaging(c) \/ Link(c) \/ EndDownload(c)

Next ==
    \/ \E c \in Clients :
          \/ Accept(c) \/ Step(c) \/ Lock(c) \/ TakeFlock(c)
          \/ RejectUpload(c) \/ RegisterFails(c) \/ FailCopy(c)
          \/ Abort(c) \/ LoseConnection(c)
    \/ \E d \in Datasets : LateCommit(d)
    \/ \E w \in Workloads : EndWorkload(w) \/ DeleteWorkload(w)
    \/ Restart

Spec == Init /\ [][Next]_vars

-----------------------------------------------------------------------------
(***************************************************************************)
(* Properties                                                              *)
(***************************************************************************)
Files == {<<"part", d>> : d \in Datasets} \cup {<<"data", d>> : d \in Datasets}
         \cup {<<"model", m>> : m \in Models}
         \cup {<<"staging", c>> : c \in Clients} \cup {<<"archive", c>> : c \in Clients}

TypeOK ==
    /\ assets \in [Models -> {"none", "ready", "deleted"}]
    /\ datasets \in [Datasets -> {"none", "ready", "gone"}]
    /\ rows \in [Workloads -> [state : {"none", "open", "succeeded", "ended", "gone"},
                               uses : SUBSET Models, data : SUBSET Datasets,
                               published : BOOLEAN]]
    /\ disk \subseteq Files
    /\ \A c, d \in Clients : c # d => reqs[c].held \cap reqs[d].held = {}
    /\ late \subseteq Datasets /\ strays \subseteq Datasets
    /\ faults \in 0..MaxFaults

\* A workload never refers to a deleted asset, although assets and workloads are created and
\* deleted by requests that check each other's tables: the row lock that a creation takes on
\* its assets (get_active_model_asset) keeps delete_model_asset from missing it.  The dataset
\* of a workload keeps its row (create_training_job reads it without a lock, delete_dataset
\* unlinks after its commit: the foreign keys decide), and a committed dataset its file
\* (recovery of upload_dataset), unless the commit took effect after the recovery had asked.
UsedAssetsExist ==
    /\ \A w \in Workloads : Exists(w) =>
          /\ \A m \in rows[w].uses : assets[m] = "ready" /\ Directory(m) \in disk
          /\ \A d \in rows[w].data \ strays : datasets[d] = "ready"
    /\ \A d \in Datasets \ strays : datasets[d] = "ready" => Data(d) \in disk

\* A job and the asset it published know each other, whatever failed in between: the asset
\* has its directory, is never hidden while its job exists, and never exists without a job
\* that refers to it (publish_training_model).
PublishedTogether ==
    \A t \in Trainings :
        /\ assets[t] # "none" => Directory(t) \in disk
        /\ Exists(t) => (rows[t].published <=> assets[t] = "ready")

\* Every refusal and every failed validation cleans up: without a fault each temporary file,
\* and each dataset file without a row, belongs to a request that is still running.
NothingLeftBehind ==
    faults = 0 =>
        \A f \in disk :
            /\ f[1] = "part" => Serves(f[2])
            /\ f[1] = "data" => datasets[f[2]] = "ready" \/ Serves(f[2])
            /\ f[1] = "staging" => At(f[2], "copying")
            /\ f[1] = "archive" => At(f[2], "archiving")

\* Requests never wait for each other in a circle: an evaluation locks two assets while
\* other creations and deletions lock them too (get_active_model_assets_for_update).
WaitsFor(c, d) == At(c, "locking") /\ Head(reqs[c].want) \in reqs[d].held
NoCircularWait ==
    \A S \in (SUBSET Clients) \ {{}} : \E c \in S : \A d \in S : ~WaitsFor(c, d)
=============================================================================
