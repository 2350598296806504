--------------------------- MODULE CatalogProofs ---------------------------
(***************************************************************************)
(* What a workload refers to exists, a job and its published asset know    *)
(* each other, requests clean up and never wait in a circle: proofs about  *)
(* Catalog, for any number of concurrent requests, resources and faults.   *)
(***************************************************************************)
EXTENDS Catalog, FiniteSetTheorems, WellFoundedInduction, TLAPS

Locks == ({"asset"} \X Models) \cup ({"job"} \X Workloads)
Points == {"idle", "locking", "validating", "inserting", "checking", "hiding",
           "resolving", "copying", "linking", "archiving",
           "receiving", "registering", "recovering", "erasing", "unlinking"}
Request == [pc : Points,
            next : {"idle", "validating", "checking", "resolving"},
            on : SUBSET (Datasets \cup Models \cup Workloads), want : Seq(Locks),
            held : SUBSET Locks, uses : SUBSET Models, data : SUBSET Datasets, lost : BOOLEAN]

Typed ==
    /\ assets \in [Models -> {"none", "ready", "deleted"}]
    /\ datasets \in [Datasets -> {"none", "ready", "gone"}]
    /\ rows \in [Workloads -> [state : {"none", "open", "succeeded", "ended", "gone"},
                               uses : SUBSET Models, data : SUBSET Datasets,
                               published : BOOLEAN]]
    /\ reqs \in [Clients -> Request]

-----------------------------------------------------------------------------
(***************************************************************************)
(* Requests on models: what they are about, which locks they have gathered *)
(* and what they may rely on while they hold them.                         *)
(***************************************************************************)
Heading(c, pc) == At(c, "locking") /\ reqs[c].next = pc
Creating(c) == Heading(c, "validating") \/ At(c, "validating") \/ At(c, "inserting")
Deleting(c) == Heading(c, "checking") \/ At(c, "checking") \/ At(c, "hiding")
Publishing(c) ==
    Heading(c, "resolving") \/ At(c, "resolving") \/ At(c, "copying") \/ At(c, "linking")

HasSubject(c) ==
    /\ Creating(c) => \E w \in Workloads : reqs[c].on = {w}
    /\ Deleting(c) => \E m \in Models : reqs[c].on = {m}
    /\ Publishing(c) => \E t \in Trainings : reqs[c].on = {t}

Wanted(c) == {reqs[c].want[i] : i \in 1..Len(reqs[c].want)}
InReach(c, lock) == lock \in reqs[c].held \/ (At(c, "locking") /\ lock \in Wanted(c))

\* A request has its locks, or waits for them, until its connection is lost.
Gathers(c) ==
    /\ At(c, "locking") => reqs[c].want # <<>> /\ reqs[c].next # "idle"
    /\ ~reqs[c].lost =>
          /\ Creating(c) => \A m \in reqs[c].uses : InReach(c, Asset(m))
          /\ Deleting(c) => InReach(c, Asset(Subject(c)))
          /\ Publishing(c) => InReach(c, Job(Subject(c)))

\* What a lock was taken for stays so, and nobody else has it.
HoldsAccepted(c) == \A lock \in reqs[c].held : Accepts(lock)
Exclusive == \A c, e \in Clients : c # e => reqs[c].held \cap reqs[e].held = {}

\* An asset that is about to be hidden stays without references, a directory that is about
\* to be linked stays there.
HidesUnused(c) == At(c, "hiding") /\ ~reqs[c].lost => ~Referenced(Subject(c))
LinksDirectory(c) == At(c, "linking") => Directory(Subject(c)) \in disk

-----------------------------------------------------------------------------
(***************************************************************************)
(* Requests on datasets.                                                   *)
(***************************************************************************)
Filling(c) == At(c, "receiving") \/ At(c, "registering")
OnData(c) == Filling(c) \/ At(c, "recovering") \/ At(c, "erasing") \/ At(c, "unlinking")

HasDataset(c) ==
    /\ OnData(c) => \E d \in Datasets : reqs[c].on = {d}
    /\ Filling(c) => datasets[Subject(c)] = "none" /\ Subject(c) \notin late
    /\ At(c, "registering") => Data(Subject(c)) \in disk
    /\ At(c, "erasing") => datasets[Subject(c)] # "none"
    /\ At(c, "unlinking") => datasets[Subject(c)] # "ready" \/ Subject(c) \in strays

\* Nobody else has to do with a dataset that is being uploaded.
FillsAlone ==
    \A c, e \in Clients : c # e /\ Filling(c) /\ OnData(e) => Subject(c) # Subject(e)

-----------------------------------------------------------------------------
(***************************************************************************)
(* Rows and files.                                                         *)
(***************************************************************************)
AssetsHaveDirectories == \A m \in Models : assets[m] # "none" => Directory(m) \in disk
AssetsHaveJobs ==
    \A t \in Trainings :
        /\ assets[t] # "none" => rows[t].state # "none"
        /\ assets[t] = "deleted" => ~Exists(t)
        /\ Exists(t) => (rows[t].published <=> assets[t] = "ready")
UsesAreReady ==
    \A w \in Workloads : Exists(w) =>
        /\ \A m \in rows[w].uses : assets[m] = "ready"
        /\ \A d \in rows[w].data \ strays : datasets[d] = "ready"
DatasetsHaveFiles == \A d \in Datasets \ strays : datasets[d] = "ready" => Data(d) \in disk

ClientInv(c) ==
    /\ HasSubject(c) /\ Gathers(c) /\ HoldsAccepted(c) /\ HidesUnused(c) /\ LinksDirectory(c)
    /\ HasDataset(c)
RowsInv == AssetsHaveDirectories /\ AssetsHaveJobs /\ UsesAreReady /\ DatasetsHaveFiles
IInv == Typed /\ RowsInv /\ Exclusive /\ FillsAlone /\ \A c \in Clients : ClientInv(c)

-----------------------------------------------------------------------------
(***************************************************************************)
(* Steps of one request.                                                   *)
(***************************************************************************)
\* Client c goes on with request q, the others wait.
Becomes(c, q) == /\ q \in Request /\ reqs' = [reqs EXCEPT ![c] = q]

\* What is kept for good: directories of models and files of datasets.
KeepsFiles ==
    \A x : (Directory(x) \in disk => Directory(x) \in disk') /\ (Data(x) \in disk => Data(x) \in disk')

\* Only this client's request changes.
LEMMA BecomesOne ==
    ASSUME Typed, NEW c \in Clients, NEW q, Becomes(c, q)
    PROVE  /\ reqs' \in [Clients -> Request] /\ reqs'[c] = q
           /\ \A e \in Clients : e # c => reqs'[e] = reqs[e]
  BY DEF Becomes, Typed

\* A request that is over asks nothing of the rest.
LEMMA IdleBecomes ==
    ASSUME NEW c \in Clients, End(c), Typed
    PROVE  Becomes(c, Idle) /\ ClientInv(c)'
<1>1. Idle \in Request /\ reqs'[c] = Idle
  BY DEF Idle, Request, Points, End, Typed
<1>2. Becomes(c, Idle)
  BY <1>1 DEF Becomes, End
<1> QED
  BY <1>1, <1>2 DEF ClientInv, HasSubject, Gathers, HoldsAccepted, HidesUnused, LinksDirectory,
     HasDataset, Creating, Deleting, Publishing, Heading, At, Idle, OnData, Filling, Points

\* A step to another point of the code keeps the rest of the request.
LEMMA GoBecomes ==
    ASSUME NEW c \in Clients, NEW pc \in Points, Go(c, pc), Typed
    PROVE  /\ Becomes(c, [reqs[c] EXCEPT !.pc = pc]) /\ reqs'[c].pc = pc
           /\ reqs'[c].next = reqs[c].next /\ reqs'[c].on = reqs[c].on
           /\ reqs'[c].want = reqs[c].want /\ reqs'[c].held = reqs[c].held
           /\ reqs'[c].uses = reqs[c].uses /\ reqs'[c].data = reqs[c].data
           /\ reqs'[c].lost = reqs[c].lost
  BY DEF Go, Becomes, Typed, Request

\* A request that takes no lock and turns to no other dataset gets in nobody's way.
LEMMA PairsKept ==
    ASSUME Typed, Exclusive, FillsAlone, NEW c \in Clients, NEW q, Becomes(c, q),
           q.held \subseteq reqs[c].held,
           OnData(c)' => OnData(c) /\ q.on = reqs[c].on,
           Filling(c)' => Filling(c)
    PROVE  Exclusive' /\ FillsAlone'
<1>1. /\ reqs'[c] = q /\ \A e \in Clients : e # c => reqs'[e] = reqs[e]
  BY BecomesOne
<1>2. Exclusive'
  BY <1>1 DEF Exclusive
<1>3. OnData(c)' => Subject(c)' = Subject(c)
  BY <1>1 DEF Subject
<1>4. \A e \in Clients : e # c => /\ Subject(e)' = Subject(e)
                                 /\ OnData(e)' = OnData(e) /\ Filling(e)' = Filling(e)
  BY <1>1 DEF Subject, OnData, Filling, At
<1>5. FillsAlone'
  <2> SUFFICES ASSUME NEW d \in Clients, NEW e \in Clients, d # e, Filling(d)', OnData(e)'
               PROVE  Subject(d)' # Subject(e)'
    BY DEF FillsAlone
  <2>1. Filling(d) /\ Subject(d)' = Subject(d)
    BY <1>3, <1>4 DEF OnData
  <2>2. OnData(e) /\ Subject(e)' = Subject(e)
    BY <1>3, <1>4
  <2> QED
    BY <2>1, <2>2 DEF FillsAlone
<1> QED
  BY <1>2, <1>5

\* What another request relies on does not change with the requests of others.
LEMMA OtherKept ==
    ASSUME NEW e \in Clients, ClientInv(e), reqs'[e] = reqs[e], UNCHANGED database,
           \A x : Directory(x) \in disk => Directory(x) \in disk',
           At(e, "registering") /\ Data(Subject(e)) \in disk => Data(Subject(e)) \in disk'
    PROVE  ClientInv(e)'
  BY DEF database, ClientInv, HasSubject, Gathers, HoldsAccepted, HidesUnused, LinksDirectory,
     HasDataset, Creating, Deleting, Publishing, Heading, At, OnData, Filling, Subject, Referenced,
     Exists, InReach, Wanted, Accepts, Directory, Data

\* Without a change of rows, what they describe stays on the disk.
LEMMA RowsKept ==
    ASSUME RowsInv, UNCHANGED database, KeepsFiles
    PROVE  RowsInv'
  BY DEF RowsInv, database, KeepsFiles, AssetsHaveDirectories, AssetsHaveJobs, UsesAreReady,
         DatasetsHaveFiles, Exists

\* A step that changes no row and keeps the files.
LEMMA Quiet ==
    ASSUME IInv, NEW c \in Clients, NEW q, Becomes(c, q), UNCHANGED database, KeepsFiles,
           ClientInv(c)', Exclusive', FillsAlone'
    PROVE  IInv'
<1>1. \A e \in Clients : e # c => ClientInv(e)'
  BY BecomesOne, OtherKept DEF IInv, KeepsFiles
<1>2. Typed'
  BY BecomesOne DEF IInv, Typed, database
<1> QED
  BY <1>1, <1>2, RowsKept DEF IInv

\* A request ends or is refused without having changed a row.
LEMMA Quits ==
    ASSUME IInv, NEW c \in Clients, End(c), UNCHANGED database, KeepsFiles
    PROVE  IInv'
<1>1. Becomes(c, Idle) /\ ClientInv(c)' /\ reqs'[c] = Idle
  BY IdleBecomes, BecomesOne DEF IInv
<1>2. ~OnData(c)' /\ ~Filling(c)' /\ Idle.held = {}
  BY <1>1 DEF OnData, Filling, At, Idle
<1>3. Exclusive' /\ FillsAlone'
  BY <1>1, <1>2, PairsKept DEF IInv
<1> QED
  BY <1>1, <1>3, Quiet

\* A request goes on without having changed a row.
LEMMA Proceeds ==
    ASSUME IInv, NEW c \in Clients, NEW pc \in Points \ {"locking"}, Go(c, pc), ~At(c, "locking"),
           UNCHANGED database, KeepsFiles,
           Creating(c)' => Creating(c), Deleting(c)' => Deleting(c),
           Publishing(c)' => Publishing(c), OnData(c)' => OnData(c), Filling(c)' => Filling(c),
           HidesUnused(c)', LinksDirectory(c)', HasDataset(c)'
    PROVE  IInv'
<1>1. Becomes(c, [reqs[c] EXCEPT !.pc = pc])
  BY GoBecomes DEF IInv
<1>2. [reqs[c] EXCEPT !.pc = pc].held = reqs[c].held /\ [reqs[c] EXCEPT !.pc = pc].on = reqs[c].on
  BY DEF IInv, Typed, Request
<1>3. Exclusive' /\ FillsAlone'
  BY <1>1, <1>2, PairsKept DEF IInv
<1>4. /\ reqs'[c].pc = pc /\ reqs'[c].on = reqs[c].on /\ reqs'[c].held = reqs[c].held
      /\ reqs'[c].uses = reqs[c].uses /\ reqs'[c].lost = reqs[c].lost /\ Subject(c)' = Subject(c)
  BY GoBecomes DEF IInv, Subject
<1>5. ClientInv(c) /\ ~At(c, "locking")'
  BY <1>4 DEF IInv, At
<1>6. HasSubject(c)'
  BY <1>4, <1>5 DEF ClientInv, HasSubject
<1>7. Gathers(c)'
  BY <1>4, <1>5 DEF ClientInv, Gathers, InReach
<1>8. HoldsAccepted(c)'
  BY <1>4, <1>5 DEF ClientInv, HoldsAccepted, Accepts, database
<1> QED
  BY <1>1, <1>3, <1>6, <1>7, <1>8, Quiet DEF ClientInv

-----------------------------------------------------------------------------
(***************************************************************************)
(* The actions that change no row.                                         *)
(***************************************************************************)
\* A request is refused, fails or has nothing more to do.
LEMMA EndIInv ==
    ASSUME IInv, NEW c \in Clients,
           RejectUpload(c) \/ FailCopy(c) \/ EndDownload(c) \/ Abort(c)
    PROVE  IInv'
<1>1. End(c) /\ UNCHANGED database
  BY DEF RejectUpload, FailCopy, EndDownload, Abort
<1>2. KeepsFiles
  BY DEF KeepsFiles, RejectUpload, FailCopy, EndDownload, Abort, Part, Staging, Archive,
         Directory, Data
<1> QED
  BY <1>1, <1>2, Quits

\* A dataset's file is stored before its row; a recovery asks for the row first.
LEMMA UploadIInv ==
    ASSUME IInv, NEW c \in Clients, StoreUpload(c) \/ RecoverUpload(c)
    PROVE  IInv'
<1> USE DEF Creating, Deleting, Publishing, Heading, OnData, Filling, At, HidesUnused,
        LinksDirectory, Points
<1>1. CASE StoreUpload(c)
  <2>1. Go(c, "registering") /\ UNCHANGED database /\ KeepsFiles /\ At(c, "receiving")
        /\ Data(Subject(c)) \in disk'
    BY <1>1 DEF StoreUpload, KeepsFiles, Part, Data, Directory
  <2>2. reqs'[c].pc = "registering" /\ reqs'[c].on = reqs[c].on /\ Subject(c)' = Subject(c)
    BY <2>1, GoBecomes DEF IInv, Subject
  <2>3. HasDataset(c)'
    BY <2>1, <2>2 DEF IInv, ClientInv, HasDataset, database, Data
  <2> QED
    BY <2>1, <2>2, <2>3, Proceeds
<1>2. CASE RecoverUpload(c) /\ End(c)
  BY <1>2, Quits DEF RecoverUpload, KeepsFiles
<1>3. CASE RecoverUpload(c) /\ ~End(c)
  <2>1. Go(c, "unlinking") /\ UNCHANGED database /\ KeepsFiles /\ At(c, "recovering")
        /\ datasets[Subject(c)] = "none"
    BY <1>3 DEF RecoverUpload, KeepsFiles, NotRegistered
  <2>2. reqs'[c].pc = "unlinking" /\ reqs'[c].on = reqs[c].on /\ Subject(c)' = Subject(c)
    BY <2>1, GoBecomes DEF IInv, Subject
  <2>3. HasDataset(c)'
    BY <2>1, <2>2 DEF IInv, ClientInv, HasDataset, database
  <2> QED
    BY <2>1, <2>2, <2>3, Proceeds
<1> QED
  BY <1>1, <1>2, <1>3

\* Checks before a creation and before a deletion.
LEMMA CheckIInv ==
    ASSUME IInv, NEW c \in Clients, Validate(c) \/ CheckReferences(c)
    PROVE  IInv'
<1>1. UNCHANGED database /\ KeepsFiles
  BY DEF Validate, CheckReferences, KeepsFiles
<1>2. CASE End(c)
  BY <1>1, <1>2, Quits
<1> USE DEF Creating, Deleting, Publishing, Heading, OnData, Filling, At, LinksDirectory, Points
<1>3. CASE Validate(c) /\ ~End(c)
  <2>1. Go(c, "inserting") /\ At(c, "validating")
    BY <1>3 DEF Validate
  <2>2. reqs'[c].pc = "inserting"
    BY <2>1, GoBecomes DEF IInv
  <2>3. HasDataset(c)' /\ HidesUnused(c)'
    BY <2>2 DEF HasDataset, HidesUnused
  <2> QED
    BY <1>1, <2>1, <2>2, <2>3, Proceeds
<1>4. CASE CheckReferences(c) /\ ~End(c)
  <2>1. Go(c, "hiding") /\ At(c, "checking") /\ ~Referenced(Subject(c))
    BY <1>4 DEF CheckReferences
  <2>2. reqs'[c].pc = "hiding" /\ Subject(c)' = Subject(c)
    BY <2>1, GoBecomes DEF IInv, Subject
  <2>3. ~Referenced(Subject(c))'
    BY <1>1, <2>1, <2>2 DEF Referenced, Exists, database
  <2>4. HasDataset(c)' /\ HidesUnused(c)'
    BY <2>2, <2>3 DEF HasDataset, HidesUnused
  <2> QED
    BY <1>1, <2>1, <2>2, <2>4, Proceeds
<1> QED
  BY <1>2, <1>3, <1>4

\* A publication copies under the file lock, or finds the directory.
LEMMA CopyIInv ==
    ASSUME IInv, NEW c \in Clients, TakeFlock(c) \/ MoveStaging(c)
    PROVE  IInv'
<1> USE DEF Creating, Deleting, Publishing, Heading, OnData, Filling, At, Points
<1>1. PICK pc \in {"linking", "copying"} :
         /\ Go(c, pc) /\ UNCHANGED database /\ KeepsFiles /\ (At(c, "resolving") \/ At(c, "copying"))
         /\ pc = "linking" => Directory(Subject(c)) \in disk'
  BY DEF TakeFlock, MoveStaging, KeepsFiles, Staging, Directory, Data
<1>2. reqs'[c].pc = pc /\ Subject(c)' = Subject(c)
  BY <1>1, GoBecomes DEF IInv, Subject
<1>3. HasDataset(c)' /\ HidesUnused(c)' /\ LinksDirectory(c)'
  BY <1>1, <1>2 DEF HasDataset, HidesUnused, LinksDirectory, Directory
<1> QED
  BY <1>1, <1>2, <1>3, Proceeds

-----------------------------------------------------------------------------
(***************************************************************************)
(* New requests.                                                           *)
(***************************************************************************)
\* A request that starts by waiting for locks.
LEMMA LockingIInv ==
    ASSUME IInv, NEW c \in Clients, NEW q \in Request, Begin(c, q), UNCHANGED <<database, disk>>,
           q.pc = "locking", q.want # <<>>, q.held = {}, ~q.lost,
           \/ /\ q.next = "validating" /\ \E w \in Workloads : q.on = {w}
              /\ \A m \in q.uses : \E i \in 1..Len(q.want) : q.want[i] = Asset(m)
           \/ q.next = "checking" /\ \E m \in Models : q.on = {m} /\ q.want = <<Asset(m)>>
           \/ q.next = "resolving" /\ \E t \in Trainings : q.on = {t} /\ q.want = <<Job(t)>>
    PROVE  IInv'
<1>1. Becomes(c, q) /\ reqs'[c] = q /\ KeepsFiles
  BY BecomesOne DEF Begin, Becomes, IInv, KeepsFiles
<1> USE DEF Creating, Deleting, Publishing, Heading, OnData, Filling, At
<1>2. Exclusive' /\ FillsAlone'
  BY <1>1, PairsKept DEF IInv
<1>3. HasSubject(c)'
  BY <1>1 DEF HasSubject
<1>4. Gathers(c)'
  <2>1. CASE q.next = "validating"
    BY <1>1, <2>1 DEF Gathers, InReach, Wanted
  <2>2. CASE q.next = "checking"
    <3>1. PICK m \in Models : q.on = {m} /\ q.want = <<Asset(m)>>
      BY <2>2
    <3>2. Subject(c)' = m /\ q.want[1] = Asset(m) /\ Len(q.want) = 1
      BY <1>1, <3>1 DEF Subject
    <3> QED
      BY <1>1, <2>2, <3>2 DEF Gathers, InReach, Wanted
  <2>3. CASE q.next = "resolving"
    <3>1. PICK t \in Trainings : q.on = {t} /\ q.want = <<Job(t)>>
      BY <2>3
    <3>2. Subject(c)' = t /\ q.want[1] = Job(t) /\ Len(q.want) = 1
      BY <1>1, <3>1 DEF Subject
    <3> QED
      BY <1>1, <2>3, <3>2 DEF Gathers, InReach, Wanted
  <2> QED
    BY <2>1, <2>2, <2>3
<1>5. HoldsAccepted(c)' /\ HidesUnused(c)' /\ LinksDirectory(c)' /\ HasDataset(c)'
  BY <1>1 DEF HoldsAccepted, HidesUnused, LinksDirectory, HasDataset
<1> QED
  BY <1>1, <1>2, <1>3, <1>4, <1>5, Quiet DEF ClientInv

\* Every asset that a request names is among the locks it waits for.
LEMMA LockOrderReaches ==
    ASSUME NEW m \in Models, NEW n \in Models,
           NEW in \in {<<m>>, <<m, n>>}, NEW a \in {in[i] : i \in 1..Len(in)}
    PROVE  /\ LockOrder(in) \in Seq(Locks) /\ LockOrder(in) # <<>>
           /\ \E i \in 1..Len(LockOrder(in)) : LockOrder(in)[i] = Asset(a)
<1>1. PICK k \in Models : /\ Head(in) = m /\ in[Len(in)] = k
                         /\ a \in {m, k}
  <2>1. CASE in = <<m>>
    <3>1. Head(in) = m /\ Len(in) = 1 /\ in[1] = m
      BY <2>1
    <3> QED
      BY <3>1
  <2>2. CASE in = <<m, n>>
    <3>1. Head(in) = m /\ Len(in) = 2 /\ in[1] = m /\ in[2] = n
      BY <2>2
    <3> QED
      BY <3>1
  <2> QED
    BY <2>1, <2>2
<1>2. LockOrder(in) \in {<<Asset(m)>>, <<Asset(m), Asset(k)>>, <<Asset(k), Asset(m)>>}
      /\ (m # k => LockOrder(in) # <<Asset(m)>>)
  BY <1>1 DEF LockOrder, Asset
<1>3. Asset(m) \in Locks /\ Asset(k) \in Locks
  BY DEF Asset, Locks
<1> HIDE DEF LockOrder
<1>4. CASE LockOrder(in) = <<Asset(m)>>
  <2>1. Len(LockOrder(in)) = 1 /\ LockOrder(in)[1] = Asset(m) /\ a = m
    BY <1>1, <1>2, <1>4
  <2> QED
    BY <1>3, <1>4, <2>1
<1>5. CASE \E x, y \in {m, k} : LockOrder(in) = <<Asset(x), Asset(y)>> /\ a \in {x, y}
  <2>1. PICK x \in {m, k}, y \in {m, k} : LockOrder(in) = <<Asset(x), Asset(y)>> /\ a \in {x, y}
    BY <1>5
  <2>2. /\ Len(LockOrder(in)) = 2 /\ LockOrder(in)[1] = Asset(x) /\ LockOrder(in)[2] = Asset(y)
        /\ LockOrder(in) # <<>>
    BY <2>1
  <2>3. LockOrder(in) \in Seq(Locks)
    BY <1>3, <2>1
  <2> QED
    BY <2>1, <2>2, <2>3
<1> QED
  BY <1>1, <1>2, <1>4, <1>5

\* The creation of a workload waits for the locks of all assets that it names.
LEMMA BeginCreateIInv ==
    ASSUME IInv, NEW c \in Clients, NEW w \in Workloads, BeginCreate(c, w)
    PROVE  IInv'
<1>1. PICK in \in Inputs(w) :
         Begin(c, New("locking", "validating", w, LockOrder(in[1]),
                      {in[1][i] : i \in 1..Len(in[1])}, in[2]))
  BY DEF BeginCreate
<1>2. \E m, n \in Models : in[1] \in {<<m>>, <<m, n>>}
  BY <1>1 DEF Inputs
<1>3. PICK m \in Models, n \in Models : in[1] \in {<<m>>, <<m, n>>}
  BY <1>2
<1> PICK names : names = in[1]
  OBVIOUS
<1>4. PICK data \in SUBSET Datasets : data = in[2]
  BY <1>1 DEF Inputs
<1> DEFINE models == {names[i] : i \in 1..Len(names)}
           want == LockOrder(names)
           q == New("locking", "validating", w, want, models, data)
<1>5. models \in SUBSET Models
  BY <1>3
<1>6. /\ want \in Seq(Locks) /\ want # <<>>
      /\ \A a \in models : \E i \in 1..Len(want) : want[i] = Asset(a)
  <2>1. want \in Seq(Locks) /\ want # <<>>
    <3>1. \E i \in 1..Len(names) : names[i] = m
      <4>1. CASE names = <<m>>
        <5>1. Len(names) = 1 /\ names[1] = m
          BY <4>1
        <5> QED
          BY <5>1
      <4>2. CASE names = <<m, n>>
        <5>1. Len(names) = 2 /\ names[1] = m
          BY <4>2
        <5> QED
          BY <5>1
      <4> QED
        BY <1>3, <4>1, <4>2
    <3>2. m \in models /\ names \in {<<m>>, <<m, n>>}
      BY <1>3, <3>1
    <3> QED
      BY <3>2, LockOrderReaches
  <2>2. ASSUME NEW a \in models PROVE \E i \in 1..Len(want) : want[i] = Asset(a)
    <3>1. names \in {<<m>>, <<m, n>>} /\ a \in {names[i] : i \in 1..Len(names)}
      BY <1>3
    <3> HIDE DEF models
    <3> QED
      BY <3>1, LockOrderReaches
  <2> QED
    BY <2>1, <2>2
<1>7. Begin(c, q)
  BY <1>1, <1>3, <1>4
<1> HIDE DEF models, want
<1>8. /\ q \in Request /\ q.pc = "locking" /\ q.want = want /\ q.held = {} /\ ~q.lost
      /\ q.next = "validating" /\ q.on = {w} /\ q.uses = models
  BY <1>4, <1>5, <1>6 DEF Request, New, Points
<1> HIDE DEF q
<1> QED
  BY <1>6, <1>7, <1>8, LockingIInv DEF BeginCreate

\* A deletion of an asset and a publication.
LEMMA BeginLockIInv ==
    ASSUME IInv, NEW c \in Clients,
           \/ \E m \in Models : BeginDeleteAsset(c, m)
           \/ \E t \in Trainings : BeginPublish(c, t)
    PROVE  IInv'
<1>1. CASE \E m \in Models : BeginDeleteAsset(c, m)
  <2>1. PICK m \in Models : BeginDeleteAsset(c, m)
    BY <1>1
  <2> DEFINE q == Locking(m, <<Asset(m)>>, "checking")
  <2>2. /\ q \in Request /\ q.pc = "locking" /\ q.want = <<Asset(m)>> /\ q.held = {} /\ ~q.lost
        /\ q.next = "checking" /\ q.on = {m}
    BY DEF Request, Locking, New, Points, Locks, Asset
  <2> QED
    BY <2>1, <2>2, LockingIInv DEF BeginDeleteAsset
<1>2. CASE \E t \in Trainings : BeginPublish(c, t)
  <2>1. PICK t \in Trainings : BeginPublish(c, t)
    BY <1>2
  <2> DEFINE q == Locking(t, <<Job(t)>>, "resolving")
  <2>2. /\ q \in Request /\ q.pc = "locking" /\ q.want = <<Job(t)>> /\ q.held = {} /\ ~q.lost
        /\ q.next = "resolving" /\ q.on = {t}
    BY DEF Request, Locking, New, Points, Locks, Job, Workloads
  <2> QED
    BY <2>1, <2>2, LockingIInv DEF BeginPublish
<1> QED
  BY <1>1, <1>2

\* A request on a dataset, or a download: an upload finds a dataset that nobody serves.
LEMMA BeginOnIInv ==
    ASSUME IInv, NEW c \in Clients,
           \/ \E d \in Datasets : BeginUpload(c, d) \/ BeginDeleteDataset(c, d)
           \/ \E t \in Trainings : BeginDownload(c, t)
    PROVE  IInv'
<1>1. PICK pc \in {"receiving", "erasing", "archiving"}, x \in Datasets \cup Workloads :
         /\ Begin(c, On(pc, x)) /\ UNCHANGED database /\ KeepsFiles
         /\ pc = "receiving" => x \in Datasets /\ datasets[x] = "none" /\ ~Serves(x) /\ x \notin late
         /\ pc = "erasing" => x \in Datasets /\ datasets[x] = "ready"
  BY DEF BeginUpload, BeginDeleteDataset, BeginDownload, KeepsFiles, Workloads
<1> DEFINE q == On(pc, x)
<1>2. q \in Request /\ q.pc = pc /\ q.on = {x} /\ q.held = {} /\ ~q.lost
  BY DEF On, New, Request, Points
<1>3. Becomes(c, q) /\ reqs'[c] = q /\ Subject(c)' = x
  BY <1>1, <1>2, BecomesOne DEF Begin, Becomes, IInv, Subject
<1>4. \A e \in Clients : e # c => reqs'[e] = reqs[e]
  BY <1>1, <1>2, BecomesOne DEF Begin, Becomes, IInv
<1> HIDE DEF q
<1>5. Exclusive'
  BY <1>2, <1>3, <1>4 DEF IInv, Exclusive
<1>6. \A e \in Clients : e # c => Subject(e)' = Subject(e) /\ OnData(e)' = OnData(e) /\ Filling(e)' = Filling(e)
  BY <1>4 DEF Subject, OnData, Filling, At
<1>7. \A e \in Clients : OnData(e) => Subject(e) \in reqs[e].on
  BY DEF IInv, ClientInv, HasDataset, Subject
<1>8. FillsAlone'
  <2> SUFFICES ASSUME NEW d \in Clients, NEW e \in Clients, d # e, Filling(d)', OnData(e)'
               PROVE  Subject(d)' # Subject(e)'
    BY DEF FillsAlone
  <2>1. CASE d = c
    <3>1. pc = "receiving" /\ OnData(e) /\ e # c
      BY <1>2, <1>3, <1>6, <2>1 DEF Filling, At
    <3> QED
      BY <1>1, <1>3, <1>6, <1>7, <2>1, <3>1 DEF Serves
  <2>2. CASE e = c
    <3>1. pc \in {"receiving", "erasing"} /\ Filling(d) /\ OnData(d) /\ d # c
      BY <1>2, <1>3, <1>6, <2>2 DEF Filling, OnData, At
    <3>2. Subject(d) # x
      BY <1>1, <1>7, <3>1 DEF Serves, IInv, ClientInv, HasDataset
    <3> QED
      BY <1>3, <1>6, <2>2, <3>1, <3>2
  <2>3. CASE d # c /\ e # c
    BY <1>6, <2>3 DEF IInv, FillsAlone
  <2> QED
    BY <2>1, <2>2, <2>3
<1>9. ClientInv(c)'
  BY <1>1, <1>2, <1>3 DEF ClientInv, HasSubject, Gathers, HoldsAccepted, HidesUnused,
     LinksDirectory, HasDataset, Creating, Deleting, Publishing, Heading, At, OnData, Filling,
     database, InReach
<1> QED
  BY <1>1, <1>3, <1>5, <1>8, <1>9, Quiet

-----------------------------------------------------------------------------
(***************************************************************************)
(* Row locks.                                                              *)
(***************************************************************************)
\* Taking one lock leaves the others where they were: held, or still wanted.
LEMMA HeadOfWanted ==
    ASSUME NEW want \in Seq(Locks), want # <<>>
    PROVE  /\ Head(want) \in Locks /\ Tail(want) \in Seq(Locks)
           /\ Len(want) # 1 => Tail(want) # <<>>
           /\ \A i \in 1..Len(want) : \/ want[i] = Head(want)
                                      \/ Len(want) # 1 /\ \E j \in 1..Len(Tail(want)) : Tail(want)[j] = want[i]
<1>1. /\ Head(want) \in Locks /\ Tail(want) \in Seq(Locks) /\ Len(want) \in Nat \ {0}
      /\ Head(want) = want[1] /\ Len(Tail(want)) = Len(want) - 1
      /\ \A j \in 1..(Len(want) - 1) : Tail(want)[j] = want[j + 1]
  OBVIOUS
<1>2. Len(want) # 1 => Tail(want) # <<>>
  <2>1. Len(want) # 1 => Len(Tail(want)) # 0
    BY <1>1
  <2> QED
    BY <2>1
<1>3. ASSUME NEW i \in 1..Len(want), i # 1
      PROVE  Len(want) # 1 /\ \E j \in 1..Len(Tail(want)) : Tail(want)[j] = want[i]
  <2>1. i - 1 \in 1..(Len(want) - 1) /\ Tail(want)[i - 1] = want[i] /\ Len(want) # 1
    BY <1>1, <1>3
  <2> QED
    BY <1>1, <2>1
<1> QED
  BY <1>1, <1>2, <1>3

\* Nobody else holds a lock that is taken, and the row is as its holder asked.
LEMMA LockIInv ==
    ASSUME IInv, NEW c \in Clients, Lock(c)
    PROVE  IInv'
<1>1. CASE End(c)
  BY <1>1, Quits DEF Lock, KeepsFiles
<1>2. CASE ~End(c)
  <2> DEFINE lock == Head(reqs[c].want)
             pc == IF Len(reqs[c].want) = 1 THEN reqs[c].next ELSE "locking"
             q == [reqs[c] EXCEPT !.held = @ \cup {lock}, !.want = Tail(@), !.pc = pc]
  <2>1. /\ At(c, "locking") /\ ~reqs[c].lost /\ Free(lock) /\ Accepts(lock)
        /\ UNCHANGED database /\ KeepsFiles
    BY <1>2 DEF Lock, KeepsFiles
  <2>2. reqs[c] \in Request /\ reqs[c].want \in Seq(Locks) /\ reqs[c].want # <<>>
        /\ reqs[c].next # "idle" /\ ClientInv(c)
    BY <2>1 DEF IInv, Typed, ClientInv, Gathers, Request
  <2>3. /\ lock \in Locks /\ Tail(reqs[c].want) \in Seq(Locks)
        /\ Len(reqs[c].want) # 1 => Tail(reqs[c].want) # <<>>
        /\ \A l \in Wanted(c) :
              \/ l = lock
              \/ Len(reqs[c].want) # 1
                 /\ \E j \in 1..Len(Tail(reqs[c].want)) : Tail(reqs[c].want)[j] = l
    <3>1. \A l \in Wanted(c) : \E i \in 1..Len(reqs[c].want) : l = reqs[c].want[i]
      BY DEF Wanted
    <3> QED
      BY <2>2, <3>1, HeadOfWanted
  <2>4. q \in Request
    BY <2>2, <2>3 DEF Request, Points
  <2>5. reqs' = [reqs EXCEPT ![c] = q]
    <3>1. reqs' = [reqs EXCEPT ![c].held = @ \cup {lock}, ![c].want = Tail(@),
                               ![c].pc = IF Len(reqs[c].want) = 1 THEN reqs[c].next ELSE @]
      BY <1>2 DEF Lock
    <3> QED
      BY <2>1, <3>1 DEF At
  <2>6. /\ q.held = reqs[c].held \cup {lock} /\ q.on = reqs[c].on /\ q.uses = reqs[c].uses
        /\ q.lost = reqs[c].lost /\ q.pc = pc /\ q.next = reqs[c].next
        /\ q.want = Tail(reqs[c].want)
    BY <2>2 DEF Request
  <2>7. pc \in {"locking", reqs[c].next} /\ (pc = "locking" <=> Len(reqs[c].want) # 1)
    BY <2>2 DEF Request
  <2> HIDE DEF q, lock, pc
  <2>8. reqs'[c] = q /\ \A e \in Clients : e # c => reqs'[e] = reqs[e]
    BY <2>4, <2>5, BecomesOne DEF Becomes, IInv
  <2>9. Exclusive'
    BY <2>1, <2>6, <2>8 DEF Exclusive, Free, IInv
  <2>10. ~OnData(c)' /\ ~Filling(c)'
    BY <2>2, <2>6, <2>7, <2>8 DEF OnData, Filling, At, Request
  <2>11. FillsAlone'
    <3>1. \A e \in Clients : e # c => /\ Subject(e)' = Subject(e)
                                     /\ OnData(e)' = OnData(e) /\ Filling(e)' = Filling(e)
      BY <2>8 DEF Subject, OnData, Filling, At
    <3> QED
      BY <2>10, <3>1 DEF FillsAlone, IInv
  <2>12. /\ Creating(c)' => Creating(c)
         /\ Deleting(c)' => Deleting(c)
         /\ Publishing(c)' => Publishing(c)
         /\ Subject(c)' = Subject(c)
    BY <2>1, <2>2, <2>6, <2>7, <2>8 DEF Creating, Deleting, Publishing, Heading, At, Subject, Request
  <2>13. HasSubject(c)'
    BY <2>2, <2>6, <2>8, <2>12 DEF HasSubject, ClientInv
  <2>14. \A l : InReach(c, l) => InReach(c, l)'
    <3> SUFFICES ASSUME NEW l, InReach(c, l), l \notin reqs'[c].held
                 PROVE  InReach(c, l)'
      BY DEF InReach
    <3>1. l \in Wanted(c) /\ l # lock
      BY <2>6, <2>8 DEF InReach
    <3>2. Len(reqs[c].want) # 1 /\ \E j \in 1..Len(q.want) : q.want[j] = l
      BY <2>3, <2>6, <3>1
    <3> QED
      BY <2>6, <2>7, <2>8, <3>2 DEF InReach, Wanted, At
  <2>15. Gathers(c)'
    BY <2>2, <2>3, <2>6, <2>7, <2>8, <2>12, <2>14 DEF Gathers, ClientInv, At
  <2>16. HoldsAccepted(c)'
    BY <2>1, <2>2, <2>6, <2>8 DEF HoldsAccepted, ClientInv, Accepts, database
  <2>17. HidesUnused(c)' /\ LinksDirectory(c)' /\ HasDataset(c)'
    BY <2>2, <2>6, <2>7, <2>8, <2>10 DEF HidesUnused, LinksDirectory, HasDataset, At, Request, OnData, Filling
  <2> QED
    BY <2>1, <2>4, <2>5, <2>9, <2>11, <2>13, <2>15, <2>16, <2>17, Quiet DEF Becomes, ClientInv
<1> QED
  BY <1>1, <1>2

\* A lost connection leaves a request that can no longer commit.
LEMMA LoseIInv ==
    ASSUME IInv, NEW c \in Clients, LoseConnection(c)
    PROVE  IInv'
<1> DEFINE q == [reqs[c] EXCEPT !.held = {}, !.lost = TRUE]
<1>1. reqs[c] \in Request /\ UNCHANGED database /\ KeepsFiles /\ ClientInv(c)
  BY DEF IInv, Typed, LoseConnection, KeepsFiles
<1>2. q \in Request /\ reqs' = [reqs EXCEPT ![c] = q]
  BY <1>1 DEF LoseConnection, Request, IInv, Typed
<1>3. /\ q.held = {} /\ q.lost /\ q.pc = reqs[c].pc /\ q.next = reqs[c].next /\ q.on = reqs[c].on
      /\ q.want = reqs[c].want
  BY <1>1 DEF Request
<1> HIDE DEF q
<1>4. reqs'[c] = q /\ Subject(c)' = Subject(c)
  BY <1>2, <1>3, BecomesOne DEF Becomes, IInv, Subject
<1>5. Exclusive' /\ FillsAlone'
  BY <1>2, <1>3, <1>4, PairsKept DEF Becomes, IInv, OnData, Filling, At
<1>6. ClientInv(c)'
  BY <1>1, <1>3, <1>4 DEF ClientInv, HasSubject, Gathers, HoldsAccepted, HidesUnused, LinksDirectory,
     HasDataset, Creating, Deleting, Publishing, Heading, At, OnData, Filling, database, KeepsFiles,
     Directory, Data
<1> QED
  BY <1>1, <1>2, <1>5, <1>6, Quiet DEF Becomes

-----------------------------------------------------------------------------
(***************************************************************************)
(* The actions on rows and files of datasets.                              *)
(***************************************************************************)
\* A request that is over leaves the others as they are.
LEMMA EndsKept ==
    ASSUME IInv, NEW c \in Clients, End(c)
    PROVE  /\ reqs' \in [Clients -> Request] /\ \A e \in Clients : e # c => reqs'[e] = reqs[e]
           /\ ClientInv(c)' /\ Exclusive' /\ FillsAlone'
<1>1. Becomes(c, Idle) /\ ClientInv(c)' /\ reqs'[c] = Idle
  BY IdleBecomes, BecomesOne DEF IInv
<1>2. ~OnData(c)' /\ ~Filling(c)' /\ Idle.held = {}
  BY <1>1 DEF OnData, Filling, At, Idle
<1>3. Exclusive' /\ FillsAlone'
  BY <1>1, <1>2, PairsKept DEF IInv
<1> QED
  BY <1>1, <1>3, BecomesOne DEF IInv

\* Another request keeps its invariant when the rows that it relies on do.
LEMMA StillKept ==
    ASSUME NEW e \in Clients, ClientInv(e), reqs'[e] = reqs[e],
           \A x : Directory(x) \in disk => Directory(x) \in disk',
           HoldsAccepted(e)', HidesUnused(e)', HasDataset(e)'
    PROVE  ClientInv(e)'
  BY DEF ClientInv, HasSubject, Gathers, LinksDirectory, Creating, Deleting, Publishing, Heading, At,
     Subject, InReach, Wanted, Directory

\* A change of one dataset is nothing to a request on another one.
LEMMA DatasetsKept ==
    ASSUME NEW e \in Clients, ClientInv(e), reqs'[e] = reqs[e], UNCHANGED <<assets, rows>>,
           \A x : Directory(x) \in disk => Directory(x) \in disk',
           OnData(e) => /\ datasets'[Subject(e)] = datasets[Subject(e)]
                        /\ Subject(e) \in late' => Subject(e) \in late
                        /\ Subject(e) \in strays => Subject(e) \in strays'
                        /\ Data(Subject(e)) \in disk => Data(Subject(e)) \in disk'
    PROVE  ClientInv(e)'
<1>1. HoldsAccepted(e)' /\ HidesUnused(e)'
  BY DEF ClientInv, HoldsAccepted, HidesUnused, Accepts, Referenced, Exists, Subject, At
<1>2. HasDataset(e)'
  BY DEF ClientInv, HasDataset, OnData, Filling, At, Subject, Data
<1> QED
  BY <1>1, <1>2, StillKept

\* An upload that is registered has its file, and nobody removes it.
LEMMA RegisterIInv ==
    ASSUME IInv, NEW c \in Clients, RegisterUpload(c)
    PROVE  IInv'
<1> DEFINE d == Subject(c)
<1>1. /\ Filling(c) /\ d \in Datasets /\ Data(d) \in disk /\ datasets[d] = "none" /\ End(c)
      /\ datasets' = [datasets EXCEPT ![d] = "ready"] /\ UNCHANGED <<assets, rows, late, strays, disk>>
  BY DEF RegisterUpload, IInv, ClientInv, HasDataset, OnData, Filling, At, Subject
<1> HIDE DEF d
<1>2. /\ reqs' \in [Clients -> Request] /\ \A e \in Clients : e # c => reqs'[e] = reqs[e]
      /\ ClientInv(c)' /\ Exclusive' /\ FillsAlone'
  BY <1>1, EndsKept
<1>3. ASSUME NEW e \in Clients, e # c PROVE ClientInv(e)'
  <2>1. OnData(e) => Subject(e) # d /\ Subject(e) \in Datasets
    BY <1>1, <1>3 DEF IInv, FillsAlone, ClientInv, HasDataset, Subject, d
  <2> QED
    BY <1>1, <1>2, <1>3, <2>1, DatasetsKept DEF IInv, Typed
<1>4. Typed'
  BY <1>1, <1>2 DEF IInv, Typed
<1>5. RowsInv'
  BY <1>1 DEF IInv, Typed, RowsInv, AssetsHaveDirectories, AssetsHaveJobs, UsesAreReady,
     DatasetsHaveFiles, Exists, Workloads, Data
<1> QED
  BY <1>2, <1>3, <1>4, <1>5 DEF IInv

\* A request on a dataset goes on, with or without its own row changed.
LEMMA RowGoes ==
    ASSUME IInv, NEW c \in Clients, NEW pc \in {"recovering", "unlinking"}, Go(c, pc), OnData(c),
           UNCHANGED <<assets, rows, strays, disk>>, RowsInv',
           late' \subseteq late \cup {Subject(c)},
           datasets' \in [Datasets -> {"none", "ready", "gone"}],
           \A d \in Datasets : d # Subject(c) => datasets'[d] = datasets[d],
           pc = "unlinking" => datasets'[Subject(c)] # "ready",
           \/ Filling(c)
           \/ late' = late /\ datasets'[Subject(c)] = "gone" /\ datasets[Subject(c)] # "none"
    PROVE  IInv'
<1> DEFINE q == [reqs[c] EXCEPT !.pc = pc]
<1>1. /\ Becomes(c, q) /\ reqs'[c].pc = pc /\ reqs'[c].on = reqs[c].on
      /\ reqs'[c].held = reqs[c].held /\ Subject(c)' = Subject(c)
  BY GoBecomes DEF IInv, Points, Subject
<1>2. q = reqs'[c] /\ \A e \in Clients : e # c => reqs'[e] = reqs[e]
  BY <1>1, BecomesOne DEF IInv
<1> HIDE DEF q
<1>3. Exclusive' /\ FillsAlone'
  BY <1>1, <1>2, PairsKept DEF IInv, Filling, At
<1>4. ClientInv(c)'
  <2>1. HasSubject(c)' /\ Gathers(c)' /\ HidesUnused(c)' /\ LinksDirectory(c)'
    BY <1>1 DEF HasSubject, Gathers, HidesUnused, LinksDirectory, Creating, Deleting, Publishing,
       Heading, At
  <2>2. HoldsAccepted(c)'
    BY <1>1 DEF IInv, ClientInv, HoldsAccepted, Accepts
  <2>3. HasDataset(c)'
    BY <1>1 DEF IInv, ClientInv, HasDataset, OnData, Filling, At
  <2> QED
    BY <2>1, <2>2, <2>3 DEF ClientInv
<1>5. ASSUME NEW e \in Clients, e # c PROVE ClientInv(e)'
  <2>1. ClientInv(e) /\ reqs'[e] = reqs[e] /\ (OnData(e) => Subject(e) \in Datasets)
    BY <1>2, <1>5 DEF IInv, ClientInv, HasDataset, Subject
  <2>2. CASE Subject(e) # Subject(c) \/ ~OnData(e)
    BY <2>1, <2>2, DatasetsKept
  <2>3. CASE Subject(e) = Subject(c) /\ OnData(e)
    <3>1. ~Filling(c) /\ ~Filling(e)
      BY <1>5, <2>3 DEF IInv, FillsAlone
    <3>2. HoldsAccepted(e)' /\ HidesUnused(e)'
      BY <2>1 DEF ClientInv, HoldsAccepted, HidesUnused, Accepts, Referenced, Exists, Subject, At
    <3>3. HasDataset(e)'
      BY <2>1, <2>3, <3>1 DEF ClientInv, HasDataset, OnData, Filling, At, Subject
    <3> QED
      BY <2>1, <3>2, <3>3, StillKept
  <2> QED
    BY <2>2, <2>3
<1>6. Typed'
  BY <1>1, BecomesOne DEF IInv, Typed
<1> QED
  BY <1>3, <1>4, <1>5, <1>6 DEF IInv

\* Whatever became of the commit of an upload, its file is there.
LEMMA RegisterFailsIInv ==
    ASSUME IInv, NEW c \in Clients, RegisterFails(c)
    PROVE  IInv'
<1> DEFINE d == Subject(c)
<1>1. /\ Filling(c) /\ OnData(c) /\ d \in Datasets /\ Data(d) \in disk /\ datasets[d] = "none"
      /\ Go(c, "recovering") /\ UNCHANGED <<assets, rows, strays, disk>>
      /\ late' \subseteq late \cup {d} /\ datasets' \in {datasets, [datasets EXCEPT ![d] = "ready"]}
  BY DEF RegisterFails, IInv, ClientInv, HasDataset, OnData, Filling, At, Subject
<1> HIDE DEF d
<1>2. /\ datasets' \in [Datasets -> {"none", "ready", "gone"}]
      /\ \A x \in Datasets : x # d => datasets'[x] = datasets[x]
  BY <1>1 DEF IInv, Typed
<1>3. RowsInv'
  BY <1>1 DEF IInv, Typed, RowsInv, AssetsHaveDirectories, AssetsHaveJobs, UsesAreReady,
     DatasetsHaveFiles, Exists, Workloads, Data
<1> QED
  BY <1>1, <1>2, <1>3, RowGoes DEF d

\* No workload loses its dataset: the foreign keys refuse it.
LEMMA DeleteDatasetIInv ==
    ASSUME IInv, NEW c \in Clients, DeleteDataset(c)
    PROVE  IInv'
<1>1. CASE End(c) /\ UNCHANGED datasets
  BY <1>1, Quits DEF DeleteDataset, KeepsFiles, database
<1>2. CASE ~(End(c) /\ UNCHANGED datasets)
  <2> DEFINE d == Subject(c)
  <2>1. /\ OnData(c) /\ d \in Datasets /\ datasets[d] # "none" /\ Go(c, "unlinking")
        /\ UNCHANGED <<assets, rows, late, strays, disk>>
        /\ datasets' = [datasets EXCEPT ![d] = "gone"]
        /\ \A w \in Workloads : Exists(w) => d \notin rows[w].data
    BY <1>2 DEF DeleteDataset, IInv, ClientInv, HasDataset, OnData, At, Subject
  <2> HIDE DEF d
  <2>2. /\ datasets' \in [Datasets -> {"none", "ready", "gone"}] /\ datasets'[d] = "gone"
        /\ \A x \in Datasets : x # d => datasets'[x] = datasets[x]
    BY <2>1 DEF IInv, Typed
  <2>3. RowsInv'
    BY <2>1, <2>2 DEF IInv, Typed, RowsInv, AssetsHaveDirectories, AssetsHaveJobs, UsesAreReady,
       DatasetsHaveFiles, Exists, Workloads, Data
  <2> QED
    BY <2>1, <2>2, <2>3, RowGoes DEF d
<1> QED
  BY <1>1, <1>2

\* A file is removed when its dataset is gone, or was never registered in time.
LEMMA UnlinkIInv ==
    ASSUME IInv, NEW c \in Clients, Unlink(c)
    PROVE  IInv'
<1> DEFINE d == Subject(c)
<1>1. /\ OnData(c) /\ d \in Datasets /\ (datasets[d] # "ready" \/ d \in strays)
      /\ End(c) /\ UNCHANGED database /\ disk' \in {disk, disk \ {Data(d)}}
  BY DEF Unlink, IInv, ClientInv, HasDataset, OnData, At, Subject
<1> HIDE DEF d
<1>2. /\ reqs' \in [Clients -> Request] /\ \A e \in Clients : e # c => reqs'[e] = reqs[e]
      /\ ClientInv(c)' /\ Exclusive' /\ FillsAlone'
  BY <1>1, EndsKept
<1>3. /\ \A x : Directory(x) \in disk => Directory(x) \in disk'
      /\ \A x : x # d => (Data(x) \in disk => Data(x) \in disk')
  BY <1>1 DEF Directory, Data
<1>4. ASSUME NEW e \in Clients, e # c PROVE ClientInv(e)'
  <2>1. At(e, "registering") => Subject(e) # d
    BY <1>1, <1>4 DEF IInv, FillsAlone, Filling, d
  <2> QED
    BY <1>1, <1>2, <1>3, <1>4, <2>1, OtherKept DEF IInv
<1>5. Typed'
  BY <1>1, <1>2 DEF IInv, Typed, database
<1>6. RowsInv'
  BY <1>1, <1>3 DEF IInv, RowsInv, AssetsHaveDirectories, AssetsHaveJobs, UsesAreReady,
     DatasetsHaveFiles, Exists, database
<1> QED
  BY <1>2, <1>4, <1>5, <1>6 DEF IInv

\* What takes effect after the recovery had asked is a stray.
LEMMA LateIInv ==
    ASSUME IInv, NEW d \in Datasets, LateCommit(d)
    PROVE  IInv'
<1>1. ASSUME NEW e \in Clients PROVE ClientInv(e)'
  <2>1. ClientInv(e) /\ (OnData(e) => Subject(e) \in Datasets)
    BY DEF IInv, ClientInv, HasDataset, Subject
  <2>2. HoldsAccepted(e)' /\ HidesUnused(e)'
    BY <2>1 DEF LateCommit, ClientInv, HoldsAccepted, HidesUnused, Accepts, Referenced, Exists, Subject, At
  <2>3. HasDataset(e)'
    BY <2>1 DEF LateCommit, IInv, Typed, ClientInv, HasDataset, OnData, Filling, At, Subject
  <2> QED
    BY <2>1, <2>2, <2>3, StillKept DEF LateCommit
<1>2. Typed' /\ Exclusive' /\ FillsAlone'
  BY DEF LateCommit, IInv, Typed, Exclusive, FillsAlone, OnData, Filling, At, Subject
<1>3. RowsInv'
  BY DEF LateCommit, IInv, Typed, RowsInv, AssetsHaveDirectories, AssetsHaveJobs, UsesAreReady,
     DatasetsHaveFiles, Exists, Workloads
<1> QED
  BY <1>1, <1>2, <1>3 DEF IInv

-----------------------------------------------------------------------------
(***************************************************************************)
(* The actions on rows of workloads and assets.                            *)
(***************************************************************************)
\* What a request holds until it commits: the rows of its assets, or of its job.
LEMMA HoldsLocks ==
    ASSUME NEW c \in Clients, ClientInv(c), ~At(c, "locking"), ~reqs[c].lost
    PROVE  /\ Creating(c) => \A m \in reqs[c].uses : Asset(m) \in reqs[c].held
           /\ Deleting(c) => Asset(Subject(c)) \in reqs[c].held
           /\ Publishing(c) => Job(Subject(c)) \in reqs[c].held
  BY DEF ClientInv, Gathers, InReach

\* A change of assets and jobs leaves a request on datasets alone.
LEMMA WorkloadsKept ==
    ASSUME NEW e \in Clients, ClientInv(e), reqs'[e] = reqs[e],
           UNCHANGED <<datasets, late, strays, disk>>, HoldsAccepted(e)', HidesUnused(e)'
    PROVE  ClientInv(e)'
<1>1. HasDataset(e)'
  BY DEF ClientInv, HasDataset, OnData, Filling, At, Subject, Data
<1> QED
  BY <1>1, StillKept

\* A workload is created while nobody hides one of its assets: both would hold its lock.
LEMMA InsertIInv ==
    ASSUME IInv, NEW c \in Clients, Insert(c)
    PROVE  IInv'
<1> DEFINE w == Subject(c)
<1>1. CASE rows' = rows
  BY <1>1, Quits DEF Insert, KeepsFiles, database
<1>2. CASE rows' # rows
  <2>1. /\ Creating(c) /\ At(c, "inserting") /\ ~reqs[c].lost /\ w \in Workloads /\ End(c)
        /\ rows[w].state = "none"
        /\ \A d \in reqs[c].data : datasets[d] = "ready"
        /\ rows' = [rows EXCEPT ![w] = [state |-> "open", uses |-> reqs[c].uses,
                                        data |-> reqs[c].data, published |-> FALSE]]
        /\ UNCHANGED <<assets, datasets, late, strays, disk>>
    BY <1>2 DEF Insert, Commits, ForeignKeysHold, IInv, ClientInv, HasSubject, Creating, At, Subject
  <2>2. \A m \in reqs[c].uses : Asset(m) \in reqs[c].held /\ assets[m] = "ready"
    <3>1. \A m \in reqs[c].uses : Asset(m) \in reqs[c].held
      BY <2>1, HoldsLocks DEF IInv, At
    <3>2. \A m : Asset(m) \in reqs[c].held => assets[m] = "ready"
      BY DEF IInv, ClientInv, HoldsAccepted, Accepts, Asset
    <3> QED
      BY <3>1, <3>2
  <2>3. reqs[c].uses \in SUBSET Models /\ reqs[c].data \in SUBSET Datasets
    BY DEF IInv, Typed, Request
  <2> HIDE DEF w
  <2>4. /\ reqs' \in [Clients -> Request] /\ \A e \in Clients : e # c => reqs'[e] = reqs[e]
        /\ ClientInv(c)' /\ Exclusive' /\ FillsAlone'
    BY <2>1, EndsKept
  <2>5. /\ \A x \in Workloads : x # w => rows'[x] = rows[x]
        /\ rows'[w].state = "open" /\ rows'[w].uses = reqs[c].uses
        /\ rows'[w].data = reqs[c].data /\ rows'[w].published = FALSE
    BY <2>1 DEF IInv, Typed
  <2>6. Typed'
    BY <2>1, <2>3, <2>4 DEF IInv, Typed
  <2>7. ASSUME NEW e \in Clients, e # c PROVE ClientInv(e)'
    <3>1. reqs'[e] = reqs[e] /\ ClientInv(e) /\ Subject(e)' = Subject(e)
      BY <2>4, <2>7 DEF IInv, Subject
    <3>2. HoldsAccepted(e)'
      <4>1. \A lock \in reqs[e].held : lock \in Locks /\ Accepts(lock)
        BY <3>1 DEF IInv, Typed, Request, ClientInv, HoldsAccepted
      <4>2. \A lock \in Locks : Accepts(lock) => Accepts(lock)'
        BY <2>1, <2>5 DEF Accepts, Locks
      <4> QED
        BY <3>1, <4>1, <4>2 DEF HoldsAccepted
    <3>3. HidesUnused(e)'
      <4> SUFFICES ASSUME At(e, "hiding"), ~reqs[e].lost
                   PROVE  ~Referenced(Subject(e))'
        BY <3>1 DEF HidesUnused, At
      <4>1. ~Referenced(Subject(e)) /\ Asset(Subject(e)) \in reqs[e].held
        BY <3>1, HoldsLocks DEF ClientInv, HidesUnused, Deleting, At
      <4>2. Subject(e) \notin reqs[c].uses
        BY <2>2, <2>7, <4>1 DEF IInv, Exclusive
      <4> QED
        BY <2>5, <3>1, <4>1, <4>2 DEF Referenced, Exists
    <3> QED
      BY <2>1, <3>1, <3>2, <3>3, WorkloadsKept
  <2>8. RowsInv'
    <3>1. AssetsHaveDirectories' /\ DatasetsHaveFiles'
      BY <2>1 DEF IInv, RowsInv, AssetsHaveDirectories, DatasetsHaveFiles, Directory, Data
    <3>2. AssetsHaveJobs'
      BY <2>1, <2>5 DEF IInv, RowsInv, AssetsHaveJobs, Exists, Workloads
    <3>3. UsesAreReady'
      BY <2>1, <2>2, <2>5 DEF IInv, RowsInv, UsesAreReady, Exists
    <3> QED
      BY <3>1, <3>2, <3>3 DEF RowsInv
  <2> QED
    BY <2>4, <2>6, <2>7, <2>8 DEF IInv
<1> QED
  BY <1>1, <1>2

\* A workload that ends keeps what it refers to; one that is deleted gives it up, and nobody is
\* publishing it.
LEMMA WorkloadIInv ==
    ASSUME IInv, NEW w \in Workloads, EndWorkload(w) \/ DeleteWorkload(w)
    PROVE  IInv'
<1>1. PICK s \in {"succeeded", "ended", "gone"} :
         /\ rows' \in [Workloads -> [state : {"none", "open", "succeeded", "ended", "gone"},
                                     uses : SUBSET Models, data : SUBSET Datasets,
                                     published : BOOLEAN]]
         /\ rows'[w].state = s /\ (\A x \in Workloads : x # w => rows'[x] = rows[x])
         /\ rows[w].state # "none"
         /\ s # "gone" => /\ rows[w].state = "open" /\ rows'[w].uses = rows[w].uses
                          /\ rows'[w].data = rows[w].data /\ rows'[w].published = rows[w].published
         /\ s = "gone" => Free(Job(w))
  <2>1. CASE EndWorkload(w)
    <3>1. PICK s \in {"succeeded", "ended"} : rows' = [rows EXCEPT ![w].state = s]
      BY <2>1 DEF EndWorkload
    <3> QED
      BY <2>1, <3>1 DEF EndWorkload, IInv, Typed
  <2>2. CASE DeleteWorkload(w)
    <3>1. /\ [NoRow EXCEPT !.state = "gone"].state = "gone"
          /\ [NoRow EXCEPT !.state = "gone"] \in
                [state : {"none", "open", "succeeded", "ended", "gone"},
                 uses : SUBSET Models, data : SUBSET Datasets, published : BOOLEAN]
      BY DEF NoRow
    <3> QED
      BY <2>2, <3>1 DEF DeleteWorkload, Ended, IInv, Typed
  <2> QED
    BY <2>1, <2>2
<1>2. UNCHANGED <<assets, datasets, late, strays, disk, reqs>>
  BY DEF EndWorkload, DeleteWorkload
<1>3. Typed' /\ Exclusive' /\ FillsAlone'
  <2>1. Typed'
    BY <1>1, <1>2 DEF IInv, Typed
  <2>2. Exclusive' /\ FillsAlone'
    BY <1>2 DEF IInv, Exclusive, FillsAlone, OnData, Filling, At, Subject
  <2> QED
    BY <2>1, <2>2
<1>4. ASSUME NEW e \in Clients PROVE ClientInv(e)'
  <2>1. HoldsAccepted(e)'
    <3>1. \A lock \in reqs[e].held : lock \in Locks /\ Accepts(lock)
      BY DEF IInv, Typed, Request, ClientInv, HoldsAccepted
    <3>2. \A lock \in reqs[e].held : Accepts(lock)'
      <4> SUFFICES ASSUME NEW lock \in reqs[e].held PROVE Accepts(lock)'
        OBVIOUS
      <4>1. CASE \E m \in Models : lock = <<"asset", m>>
        BY <1>2, <3>1, <4>1 DEF Accepts
      <4>2. CASE \E x \in Workloads : lock = <<"job", x>>
        <5>1. PICK x \in Workloads : lock = <<"job", x>>
          BY <4>2
        <5>2. rows[x].state = "succeeded" /\ ~rows[x].published
          BY <3>1, <5>1 DEF Accepts
        <5>3. x # w
          BY <1>1, <5>1, <5>2 DEF Free, Job
        <5> QED
          BY <1>1, <5>1, <5>2, <5>3 DEF Accepts
      <4> QED
        BY <3>1, <4>1, <4>2 DEF Locks
    <3> QED
      BY <1>2, <3>2 DEF HoldsAccepted
  <2>2. HidesUnused(e)'
    BY <1>1, <1>2 DEF IInv, ClientInv, HidesUnused, Referenced, Exists, At, Subject
  <2> QED
    BY <1>2, <2>1, <2>2, WorkloadsKept DEF IInv
<1>5. RowsInv'
  <2>1. AssetsHaveDirectories' /\ DatasetsHaveFiles'
    BY <1>2 DEF IInv, RowsInv, AssetsHaveDirectories, DatasetsHaveFiles, Directory, Data
  <2>2. AssetsHaveJobs'
    BY <1>1, <1>2 DEF IInv, RowsInv, AssetsHaveJobs, Exists, Workloads
  <2>3. UsesAreReady'
    BY <1>1, <1>2 DEF IInv, RowsInv, UsesAreReady, Exists
  <2> QED
    BY <2>1, <2>2, <2>3 DEF RowsInv
<1> QED
  BY <1>3, <1>4, <1>5 DEF IInv

\* Under the lock of its row an asset that was found unused still is when it is hidden.
LEMMA HideIInv ==
    ASSUME IInv, NEW c \in Clients, HideAsset(c)
    PROVE  IInv'
<1> DEFINE m == Subject(c)
<1>1. /\ Deleting(c) /\ At(c, "hiding") /\ ~reqs[c].lost /\ m \in Models /\ End(c)
      /\ ~Referenced(m) /\ assets' = [assets EXCEPT ![m] = "deleted"]
      /\ UNCHANGED <<datasets, rows, late, strays, disk>>
  BY DEF HideAsset, Commits, IInv, ClientInv, HasSubject, HidesUnused, Deleting, At, Subject
<1>2. Asset(m) \in reqs[c].held /\ assets[m] = "ready"
  <2>1. Asset(m) \in reqs[c].held
    BY <1>1, HoldsLocks DEF IInv, At
  <2> QED
    BY <2>1 DEF IInv, ClientInv, HoldsAccepted, Accepts, Asset
<1> HIDE DEF m
<1>3. /\ reqs' \in [Clients -> Request] /\ \A e \in Clients : e # c => reqs'[e] = reqs[e]
      /\ ClientInv(c)' /\ Exclusive' /\ FillsAlone'
  BY <1>1, EndsKept
<1>4. assets'[m] = "deleted" /\ \A n \in Models : n # m => assets'[n] = assets[n]
  BY <1>1 DEF IInv, Typed
<1>5. ASSUME NEW e \in Clients, e # c PROVE ClientInv(e)'
  <2>1. reqs'[e] = reqs[e] /\ ClientInv(e)
    BY <1>3, <1>5 DEF IInv
  <2>2. \A lock \in reqs[e].held : lock \in Locks /\ Accepts(lock) /\ lock # Asset(m)
    BY <1>2, <1>5, <2>1 DEF IInv, Typed, Request, ClientInv, HoldsAccepted, Exclusive
  <2>3. HoldsAccepted(e)'
    BY <1>1, <1>4, <2>1, <2>2 DEF HoldsAccepted, Accepts, Locks, Asset
  <2>4. HidesUnused(e)'
    BY <1>1, <2>1 DEF ClientInv, HidesUnused, Referenced, Exists, At, Subject
  <2> QED
    BY <1>1, <2>1, <2>3, <2>4, WorkloadsKept
<1>6. Typed'
  BY <1>1, <1>3 DEF IInv, Typed
<1>7. RowsInv'
  <2>1. AssetsHaveDirectories' /\ DatasetsHaveFiles'
    BY <1>1, <1>2, <1>4 DEF IInv, RowsInv, AssetsHaveDirectories, DatasetsHaveFiles, Directory, Data
  <2>2. AssetsHaveJobs'
    BY <1>1, <1>2, <1>4 DEF IInv, RowsInv, AssetsHaveJobs, Exists, Workloads, Models, Referenced
  <2>3. UsesAreReady'
    BY <1>1, <1>4 DEF IInv, Typed, RowsInv, UsesAreReady, Exists, Referenced
  <2> QED
    BY <2>1, <2>2, <2>3 DEF RowsInv
<1> QED
  BY <1>3, <1>5, <1>6, <1>7 DEF IInv

\* A job is published once, while its lock is held, and its asset appears with it.
LEMMA LinkIInv ==
    ASSUME IInv, NEW c \in Clients, Link(c)
    PROVE  IInv'
<1> DEFINE t == Subject(c)
<1>1. /\ Publishing(c) /\ At(c, "linking") /\ ~reqs[c].lost /\ t \in Trainings /\ End(c)
      /\ Directory(t) \in disk /\ Linked(t) /\ UNCHANGED <<datasets, late, strays, disk>>
  BY DEF Link, Commits, IInv, ClientInv, HasSubject, LinksDirectory, Publishing, At, Subject
<1> HIDE DEF t
<1>2. Job(t) \in reqs[c].held /\ rows[t].state = "succeeded" /\ ~rows[t].published
  <2>1. Job(t) \in reqs[c].held
    BY <1>1, HoldsLocks DEF IInv, At, t
  <2> QED
    BY <2>1 DEF IInv, ClientInv, HoldsAccepted, Accepts, Job
<1>3. t \in Models /\ t \in Workloads /\ assets[t] = "none"
  BY <1>1, <1>2 DEF IInv, Typed, RowsInv, AssetsHaveJobs, Exists, Models, Workloads
<1>4. /\ reqs' \in [Clients -> Request] /\ \A e \in Clients : e # c => reqs'[e] = reqs[e]
      /\ ClientInv(c)' /\ Exclusive' /\ FillsAlone'
  BY <1>1, EndsKept
<1>5. /\ assets'[t] = "ready" /\ (\A m \in Models : m # t => assets'[m] = assets[m])
      /\ rows'[t].published = TRUE /\ rows'[t].state = rows[t].state /\ rows'[t].uses = rows[t].uses
      /\ rows'[t].data = rows[t].data /\ (\A w \in Workloads : w # t => rows'[w] = rows[w])
  BY <1>1, <1>3 DEF IInv, Typed, Linked
<1>6. Typed'
  BY <1>1, <1>3, <1>4 DEF IInv, Typed, Linked
<1>7. ASSUME NEW e \in Clients, e # c PROVE ClientInv(e)'
  <2>1. reqs'[e] = reqs[e] /\ ClientInv(e) /\ Subject(e)' = Subject(e)
    BY <1>4, <1>7 DEF IInv, Subject
  <2>2. \A lock \in reqs[e].held : lock \in Locks /\ Accepts(lock) /\ lock # Job(t)
    BY <1>2, <1>7, <2>1 DEF IInv, Typed, Request, ClientInv, HoldsAccepted, Exclusive
  <2>3. HoldsAccepted(e)'
    BY <1>5, <2>1, <2>2 DEF HoldsAccepted, Accepts, Locks, Job
  <2>4. HidesUnused(e)'
    <3> SUFFICES ASSUME At(e, "hiding"), ~reqs[e].lost
                 PROVE  ~Referenced(Subject(e))'
      BY <2>1 DEF HidesUnused, At
    <3>1. ~Referenced(Subject(e)) /\ Asset(Subject(e)) \in reqs[e].held
      BY <2>1, HoldsLocks DEF ClientInv, HidesUnused, Deleting, At
    <3>2. Subject(e) # t
      BY <1>3, <2>2, <3>1 DEF Accepts, Asset
    <3> QED
      BY <1>3, <1>5, <2>1, <3>1, <3>2 DEF Referenced, Exists
  <2> QED
    BY <1>1, <2>1, <2>3, <2>4, WorkloadsKept
<1>8. RowsInv'
  <2>1. AssetsHaveDirectories' /\ DatasetsHaveFiles'
    BY <1>1, <1>5 DEF IInv, RowsInv, AssetsHaveDirectories, DatasetsHaveFiles, Directory, Data
  <2>2. AssetsHaveJobs'
    BY <1>2, <1>5 DEF IInv, RowsInv, AssetsHaveJobs, Exists, Workloads, Models
  <2>3. UsesAreReady'
    BY <1>1, <1>3, <1>5 DEF IInv, Typed, RowsInv, UsesAreReady, Exists
  <2> QED
    BY <2>1, <2>2, <2>3 DEF RowsInv
<1> QED
  BY <1>4, <1>6, <1>7, <1>8 DEF IInv

-----------------------------------------------------------------------------
(***************************************************************************)
(* The invariant, and what follows from it.                                *)
(***************************************************************************)
\* A restart ends every request and keeps every row and every file that a row describes.
LEMMA RestartIInv ==
    ASSUME IInv, Restart
    PROVE  IInv'
<1>1. /\ reqs' = [c \in Clients |-> Idle] /\ UNCHANGED database /\ KeepsFiles
  BY DEF Restart, KeepsFiles, Directory, Data
<1>2. Idle \in Request
  BY DEF Idle, Request, Points
<1>3. ASSUME NEW c \in Clients PROVE ClientInv(c)' /\ ~OnData(c)' /\ ~Filling(c)' /\ reqs'[c].held = {}
  <2>1. reqs'[c] = Idle /\ Idle.pc = "idle" /\ Idle.held = {}
    BY <1>1 DEF Idle
  <2> QED
    BY <2>1 DEF ClientInv, HasSubject, Gathers, HoldsAccepted, HidesUnused, LinksDirectory,
       HasDataset, Creating, Deleting, Publishing, Heading, At, OnData, Filling
<1>4. Exclusive' /\ FillsAlone'
  BY <1>3 DEF Exclusive, FillsAlone
<1>5. Typed'
  BY <1>1, <1>2 DEF IInv, Typed, database
<1> QED
  BY <1>1, <1>3, <1>4, <1>5, RowsKept DEF IInv

\* The initial state: imported assets, no rows of workloads, no requests.
LEMMA InitIInv == Init => IInv
<1> SUFFICES ASSUME Init PROVE IInv
  OBVIOUS
<1>1. Idle \in Request /\ NoRow \in [state : {"none", "open", "succeeded", "ended", "gone"},
                                     uses : SUBSET Models, data : SUBSET Datasets,
                                     published : BOOLEAN]
      /\ NoRow.state = "none" /\ Idle.pc = "idle" /\ Idle.held = {}
  BY DEF Idle, NoRow, Request, Points
<1>2. Typed
  BY <1>1 DEF Init, Typed
<1>3. RowsInv
  <2>1. AssetsHaveDirectories
    BY DEF Init, AssetsHaveDirectories
  <2>2. AssetsHaveJobs
    BY <1>1, CatalogAssumption DEF Init, AssetsHaveJobs, Exists, Models, Workloads
  <2>3. UsesAreReady /\ DatasetsHaveFiles
    BY <1>1 DEF Init, UsesAreReady, DatasetsHaveFiles, Exists
  <2> QED
    BY <2>1, <2>2, <2>3 DEF RowsInv
<1>4. ASSUME NEW c \in Clients PROVE ClientInv(c) /\ ~OnData(c) /\ ~Filling(c) /\ reqs[c].held = {}
  <2>1. reqs[c] = Idle
    BY DEF Init
  <2> QED
    BY <1>1, <2>1 DEF ClientInv, HasSubject, Gathers, HoldsAccepted, HidesUnused, LinksDirectory,
       HasDataset, Creating, Deleting, Publishing, Heading, At, OnData, Filling
<1>5. Exclusive /\ FillsAlone
  BY <1>4 DEF Exclusive, FillsAlone
<1> QED
  BY <1>2, <1>3, <1>4, <1>5 DEF IInv

\* Every step of every request, of the database and of the process keeps the invariant.
LEMMA NextIInv == IInv /\ [Next]_vars => IInv'
<1> SUFFICES ASSUME IInv, [Next]_vars PROVE IInv'
  OBVIOUS
<1>1. ASSUME NEW c \in Clients, Accept(c) PROVE IInv'
  BY <1>1, BeginOnIInv, BeginCreateIInv, BeginLockIInv DEF Accept
<1>2. ASSUME NEW c \in Clients, Step(c) PROVE IInv'
  BY <1>2, UploadIInv, RegisterIInv, DeleteDatasetIInv, UnlinkIInv, CheckIInv, InsertIInv, HideIInv,
     CopyIInv, LinkIInv, EndIInv DEF Step
<1>3. ASSUME NEW c \in Clients, \/ Lock(c) \/ TakeFlock(c) \/ RejectUpload(c) \/ RegisterFails(c)
                                \/ FailCopy(c) \/ Abort(c) \/ LoseConnection(c)
      PROVE  IInv'
  BY <1>3, LockIInv, CopyIInv, EndIInv, RegisterFailsIInv, LoseIInv
<1>4. CASE UNCHANGED vars
  <2>1. ASSUME NEW c \in Clients PROVE ClientInv(c)'
    BY <1>4, OtherKept DEF IInv, vars, Data
  <2>2. Typed' /\ Exclusive' /\ FillsAlone'
    BY <1>4 DEF IInv, vars, database, Typed, Exclusive, FillsAlone, OnData, Filling, At, Subject
  <2> QED
    BY <1>4, <2>1, <2>2, RowsKept DEF IInv, vars, KeepsFiles, Directory, Data
<1> QED
  BY <1>1, <1>2, <1>3, <1>4, LateIInv, WorkloadIInv, RestartIInv DEF Next

\* The invariant holds in every reachable state.
LEMMA CatalogInvariant == Spec => []IInv
  BY InitIInv, NextIInv, PTL DEF Spec

\* For every number of requests, faults and resources: no workload refers to an asset that is
\* hidden or to a dataset that is gone, and what it refers to is on the disk.
THEOREM WorkloadsKeepTheirInputs == Spec => []UsedAssetsExist
<1>1. IInv => UsedAssetsExist
  <2> SUFFICES ASSUME IInv PROVE UsedAssetsExist
    OBVIOUS
  <2>1. ASSUME NEW w \in Workloads, Exists(w)
        PROVE  /\ \A m \in rows[w].uses : assets[m] = "ready" /\ Directory(m) \in disk
               /\ \A d \in rows[w].data \ strays : datasets[d] = "ready"
    BY <2>1 DEF IInv, Typed, RowsInv, UsesAreReady, AssetsHaveDirectories
  <2> QED
    BY <2>1 DEF IInv, RowsInv, DatasetsHaveFiles, UsedAssetsExist
<1> QED
  BY <1>1, CatalogInvariant, PTL

\* For every number of requests, faults and resources: a training job and the asset it published
\* know each other, and the asset has its directory.
THEOREM JobsKnowTheirAssets == Spec => []PublishedTogether
<1>1. IInv => PublishedTogether
  BY DEF IInv, RowsInv, AssetsHaveDirectories, AssetsHaveJobs, PublishedTogether, Models
<1> QED
  BY <1>1, CatalogInvariant, PTL

-----------------------------------------------------------------------------
(***************************************************************************)
(* Types, and what belongs to whom on the disk.                            *)
(***************************************************************************)
Limits ==
    /\ disk \subseteq Files
    /\ late \subseteq Datasets /\ strays \subseteq Datasets
    /\ faults \in 0..MaxFaults

\* A request that fails counts; every other step leaves the counter alone.
LEMMA FaultLimits ==
    ASSUME Limits, Fault
    PROVE  faults' \in 0..MaxFaults /\ faults' # 0
<1>1. MaxFaults \in Nat /\ faults \in 0..MaxFaults
  BY CatalogAssumption DEF Limits
<1> QED
  BY <1>1 DEF Fault

\* Every file is of a dataset, a model or a request.
LEMMA LimitsNext == IInv /\ Limits /\ [Next]_vars => Limits'
<1> SUFFICES ASSUME IInv, Limits, [Next]_vars PROVE Limits'
  OBVIOUS
<1>1. faults' = faults \/ Fault
  BY DEF Next, vars, Accept, Step, BeginUpload, BeginDeleteDataset, BeginCreate, BeginDeleteAsset,
     BeginPublish, BeginDownload, StoreUpload, RegisterUpload, RecoverUpload, DeleteDataset, Unlink,
     Validate, Insert, CheckReferences, HideAsset, MoveStaging, Link, EndDownload, Lock, TakeFlock,
     RejectUpload, RegisterFails, FailCopy, Abort, LoseConnection, LateCommit, EndWorkload,
     DeleteWorkload, Restart
<1>2. faults' \in 0..MaxFaults
  BY <1>1, FaultLimits DEF Limits
<1>3. ASSUME NEW c \in Clients, OnData(c) PROVE Subject(c) \in Datasets
  BY <1>3 DEF IInv, ClientInv, HasDataset, Subject
<1>4. ASSUME NEW c \in Clients, Publishing(c) PROVE Subject(c) \in Models
  BY <1>4 DEF IInv, ClientInv, HasSubject, Subject, Models
<1>5. late' \subseteq Datasets /\ strays' \subseteq Datasets
  <2>1. ASSUME NEW c \in Clients, RegisterFails(c) PROVE late' \subseteq Datasets /\ strays' = strays
    BY <1>3, <2>1 DEF RegisterFails, OnData, Filling, Limits
  <2>2. ASSUME NEW d \in Datasets, LateCommit(d) PROVE late' \subseteq Datasets /\ strays' \subseteq Datasets
    BY <2>2 DEF LateCommit, Limits
  <2>3. \/ UNCHANGED <<late, strays>>
        \/ \E c \in Clients : RegisterFails(c)
        \/ \E d \in Datasets : LateCommit(d)
    BY DEF Next, vars, database, Accept, Step, BeginUpload, BeginDeleteDataset, BeginCreate,
       BeginDeleteAsset, BeginPublish, BeginDownload, StoreUpload, RegisterUpload, RecoverUpload,
       DeleteDataset, Unlink, Validate, Insert, CheckReferences, HideAsset, MoveStaging, Link,
       EndDownload, Lock, TakeFlock, RejectUpload, FailCopy, Abort, LoseConnection, EndWorkload,
       DeleteWorkload, Restart
  <2> QED
    BY <2>1, <2>2, <2>3 DEF Limits
<1>6. disk' \subseteq Files
  <2>1. \/ disk' \subseteq disk
        \/ \E c \in Clients :
             \/ \E d \in Datasets : disk' = disk \cup {Part(d)}
             \/ OnData(c) /\ disk' = (disk \ {Part(Subject(c))}) \cup {Data(Subject(c))}
             \/ disk' = disk \cup {Staging(c)} \/ disk' = disk \cup {Archive(c)}
             \/ Publishing(c) /\ disk' = (disk \ {Staging(c)}) \cup {Directory(Subject(c))}
    BY DEF Next, vars, Accept, Step, BeginUpload, BeginDeleteDataset, BeginCreate, BeginDeleteAsset,
       BeginPublish, BeginDownload, StoreUpload, RegisterUpload, RecoverUpload, DeleteDataset,
       Unlink, Validate, Insert, CheckReferences, HideAsset, MoveStaging, Link, EndDownload, Lock,
       TakeFlock, RejectUpload, RegisterFails, FailCopy, Abort, LoseConnection, LateCommit,
       EndWorkload, DeleteWorkload, Restart, OnData, Filling, Publishing
  <2> QED
    BY <1>3, <1>4, <2>1 DEF Limits, Files, Part, Data, Staging, Archive, Directory
<1> QED
  BY <1>2, <1>5, <1>6 DEF Limits

\* Nothing is on the disk, counted or late at the start but the imported directories.
LEMMA LimitsInit == Init => Limits
  BY CatalogAssumption DEF Init, Limits, Files, Directory, Models

\* For every number of requests, faults and resources: rows, files and counters have their types,
\* and no row lock is held twice.
THEOREM CatalogTypes == Spec => []TypeOK
<1>1. Spec => [](IInv /\ Limits)
  BY InitIInv, NextIInv, LimitsInit, LimitsNext, PTL DEF Spec
<1>2. IInv /\ Limits => TypeOK
  BY DEF IInv, Typed, Exclusive, Limits, TypeOK
<1> QED
  BY <1>1, <1>2, PTL

-----------------------------------------------------------------------------
(***************************************************************************)
(* Each file that is not kept for good has an owner that will remove it.   *)
(***************************************************************************)
OwnsFile(c, f) ==
    \/ At(c, "receiving") /\ f = Part(Subject(c))
    \/ (At(c, "registering") \/ At(c, "unlinking")) /\ f = Data(Subject(c))
    \/ At(c, "copying") /\ f = Staging(c)
    \/ At(c, "archiving") /\ f = Archive(c)
Lasting(f) ==
    \/ \E m \in Models : f = Directory(m)
    \/ \E d \in Datasets : f = Data(d) /\ datasets[d] = "ready"
Accounted(f) == Lasting(f) \/ \E c \in Clients : OwnsFile(c, f)
Tidy == faults = 0 => (\A f \in disk : Accounted(f)) /\ \A c \in Clients : ~At(c, "recovering")

\* A step of one request: it may lose what it owned, and what was kept for good, only to the one
\* or the other.
LEMMA TidyStep ==
    ASSUME IInv, Tidy, NEW c \in Clients, faults' = 0 => faults = 0,
           \A e \in Clients : e # c => reqs'[e] = reqs[e],
           faults' = 0 => ~At(c, "recovering")',
           faults' = 0 => \A f \in disk' : \/ f \in disk /\ ~OwnsFile(c, f) /\ ~Lasting(f)
                                           \/ Lasting(f)' \/ OwnsFile(c, f)'
    PROVE  Tidy'
<1> SUFFICES ASSUME faults' = 0 PROVE (\A f \in disk' : Accounted(f)') /\ \A e \in Clients : ~At(e, "recovering")'
  BY DEF Tidy
<1>1. (\A f \in disk : Accounted(f)) /\ \A e \in Clients : ~At(e, "recovering")
  BY DEF Tidy
<1>2. ASSUME NEW e \in Clients, e # c
      PROVE  At(e, "recovering")' = At(e, "recovering") /\ \A f : OwnsFile(e, f)' = OwnsFile(e, f)
  <2>1. reqs'[e] = reqs[e]
    BY <1>2
  <2>2. Subject(e)' = Subject(e)
    BY <2>1 DEF Subject
  <2> QED
    BY <2>1, <2>2 DEF At, OwnsFile
<1>3. ASSUME NEW f \in disk' PROVE Accounted(f)'
  <2>1. CASE f \in disk /\ ~OwnsFile(c, f) /\ ~Lasting(f)
    BY <1>1, <1>2, <2>1 DEF Accounted
  <2>2. CASE Lasting(f)' \/ OwnsFile(c, f)'
    BY <2>2 DEF Accounted
  <2> QED
    BY <2>1, <2>2
<1> QED
  BY <1>1, <1>2, <1>3

\* A request that owns nothing and removes nothing that lasts.
LEMMA TidyQuiet ==
    ASSUME IInv, Tidy, NEW c \in Clients, faults' = 0 => faults = 0,
           \A e \in Clients : e # c => reqs'[e] = reqs[e], ~At(c, "recovering")',
           \A f : Lasting(f) => Lasting(f)', \A f : ~OwnsFile(c, f), disk' \subseteq disk
    PROVE  Tidy'
  BY TidyStep

\* Steps that touch no file and no dataset.
LEMMA TidyAtRest ==
    ASSUME IInv, Tidy, NEW c \in Clients, UNCHANGED <<datasets, disk>>,
           faults' = faults \/ faults' # 0,
           \A e \in Clients : e # c => reqs'[e] = reqs[e],
           ~At(c, "recovering")', \A f : ~OwnsFile(c, f)
    PROVE  Tidy'
<1>1. CASE faults' # 0
  BY <1>1 DEF Tidy
<1>2. CASE faults' = faults
  <2>1. \A f : Lasting(f) => Lasting(f)'
    BY DEF Lasting, Directory, Data
  <2> QED
    BY <1>2, <2>1, TidyQuiet
<1> QED
  BY <1>1, <1>2

\* Requests that only read, lock, or change rows other than those of datasets.
LEMMA TidyRequests ==
    ASSUME IInv, Limits, Tidy, NEW c \in Clients,
           \/ \E d \in Datasets : BeginDeleteDataset(c, d)
           \/ \E w \in Workloads : BeginCreate(c, w)
           \/ \E m \in Models : BeginDeleteAsset(c, m)
           \/ \E t \in Trainings : BeginPublish(c, t)
           \/ Validate(c) \/ Insert(c) \/ CheckReferences(c) \/ HideAsset(c) \/ Link(c)
           \/ Lock(c) \/ Abort(c)
    PROVE  Tidy'
<1>1. UNCHANGED <<datasets, disk>>
  BY DEF BeginDeleteDataset, BeginCreate, BeginDeleteAsset, BeginPublish, Validate, Insert,
     CheckReferences, HideAsset, Link, Lock, Abort, database
<1>2. faults' = faults \/ faults' # 0
  BY FaultLimits DEF BeginDeleteDataset, BeginCreate, BeginDeleteAsset, BeginPublish, Validate,
     Insert, CheckReferences, HideAsset, Link, Lock, Abort
<1>3. /\ At(c, "idle") \/ At(c, "validating") \/ At(c, "inserting") \/ At(c, "checking")
         \/ At(c, "hiding") \/ At(c, "linking") \/ At(c, "locking") \/ At(c, "resolving")
         \/ At(c, "erasing")
      /\ \A f : ~OwnsFile(c, f)
  BY DEF BeginDeleteDataset, BeginCreate, BeginDeleteAsset, BeginPublish, Begin, Validate, Insert,
     CheckReferences, HideAsset, Link, Commits, Lock, Abort, At, OwnsFile
<1>4. reqs'[c].pc # "recovering" /\ \A e \in Clients : e # c => reqs'[e] = reqs[e]
  <2>1. CASE \/ \E d \in Datasets : BeginDeleteDataset(c, d)
             \/ \E w \in Workloads : BeginCreate(c, w)
             \/ \E m \in Models : BeginDeleteAsset(c, m)
             \/ \E t \in Trainings : BeginPublish(c, t)
    BY <2>1 DEF BeginDeleteDataset, BeginCreate, BeginDeleteAsset, BeginPublish, Begin, On, New,
       Locking, IInv, Typed
  <2>2. CASE End(c)
    BY <2>2 DEF End, Idle, IInv, Typed
  <2>3. CASE Go(c, "inserting") \/ Go(c, "hiding")
    BY <2>3 DEF IInv, Typed, Request, Go
  <2>4. CASE Lock(c) /\ ~End(c)
    <3>1. reqs[c].next # "recovering" /\ reqs[c].pc = "locking" /\ reqs[c] \in Request
      BY <2>4 DEF Lock, At, IInv, Typed, Request
    <3>2. reqs' = [reqs EXCEPT ![c].held = @ \cup {Head(reqs[c].want)}, ![c].want = Tail(@),
                               ![c].pc = IF Len(reqs[c].want) = 1 THEN reqs[c].next ELSE @]
      BY <2>4 DEF Lock
    <3> QED
      BY <3>1, <3>2 DEF IInv, Typed, Request
  <2> QED
    BY <2>1, <2>2, <2>3, <2>4 DEF Validate, Insert, CheckReferences, HideAsset, Link, Lock, Abort
<1>5. ~At(c, "recovering")'
  BY <1>4 DEF At
<1> QED
  BY <1>1, <1>2, <1>3, <1>4, <1>5, TidyAtRest

\* Uploads: the partial file, then the file of the dataset, belong to the request until a row or
\* the end of the request takes over.
LEMMA TidyUploads ==
    ASSUME IInv, Limits, Tidy, NEW c \in Clients,
           \/ \E d \in Datasets : BeginUpload(c, d)
           \/ RejectUpload(c) \/ StoreUpload(c) \/ RegisterUpload(c) \/ RegisterFails(c)
           \/ RecoverUpload(c)
    PROVE  Tidy'
<1>1. ASSUME NEW d \in Datasets, BeginUpload(c, d) PROVE Tidy'
  <2>1. /\ reqs'[c].pc = "receiving" /\ reqs'[c].on = {d} /\ UNCHANGED <<datasets, faults>>
        /\ disk' = disk \cup {Part(d)} /\ \A e \in Clients : e # c => reqs'[e] = reqs[e]
    BY <1>1 DEF BeginUpload, Begin, On, New, IInv, Typed, database
  <2>2. OwnsFile(c, Part(d))' /\ \A f : ~OwnsFile(c, f)
    BY <1>1, <2>1 DEF OwnsFile, At, Subject, BeginUpload, Begin, Part
  <2>3. \A f : Lasting(f) => Lasting(f)'
    BY <2>1 DEF Lasting, Directory, Data
  <2>4. ~At(c, "recovering")'
    BY <2>1 DEF At
  <2> QED
    BY <2>1, <2>2, <2>3, <2>4, TidyStep
<1>2. CASE RejectUpload(c)
  <2>1. /\ reqs'[c].pc = "idle" /\ At(c, "receiving") /\ UNCHANGED <<datasets, faults>>
        /\ disk' = disk \ {Part(Subject(c))} /\ \A e \in Clients : e # c => reqs'[e] = reqs[e]
    BY <1>2 DEF RejectUpload, End, Idle, IInv, Typed, database
  <2>2. \A f \in disk' : f \in disk /\ ~OwnsFile(c, f)
    BY <2>1 DEF OwnsFile, At
  <2>3. \A f : Lasting(f) => Lasting(f)'
    BY <2>1 DEF Lasting, Directory, Data
  <2>4. ~At(c, "recovering")'
    BY <2>1 DEF At
  <2> QED
    BY <2>1, <2>2, <2>3, <2>4, TidyStep
<1>3. CASE StoreUpload(c)
  <2>1. PICK d \in Datasets : d = Subject(c)
    BY <1>3 DEF StoreUpload, IInv, ClientInv, HasDataset, OnData, Filling, Subject
  <2>2. /\ reqs'[c].pc = "registering" /\ reqs'[c].on = reqs[c].on /\ At(c, "receiving")
        /\ UNCHANGED <<datasets, faults>> /\ disk' = (disk \ {Part(d)}) \cup {Data(d)}
        /\ \A e \in Clients : e # c => reqs'[e] = reqs[e]
    BY <1>3, <2>1 DEF StoreUpload, Go, IInv, Typed, Request, database
  <2>3. Subject(c)' = d
    BY <2>1, <2>2 DEF Subject
  <2>4. \A f \in disk' : f = Data(d) \/ (f \in disk /\ ~OwnsFile(c, f))
    BY <2>1, <2>2 DEF OwnsFile, At
  <2>5. \A f : Lasting(f) => Lasting(f)'
    BY <2>2 DEF Lasting, Directory, Data
  <2>6. ~At(c, "recovering")' /\ OwnsFile(c, Data(d))'
    BY <2>2, <2>3 DEF At, OwnsFile, Data
  <2> QED
    BY <2>2, <2>4, <2>5, <2>6, TidyStep
<1>4. CASE RegisterUpload(c)
  <2>1. PICK d \in Datasets : d = Subject(c)
    BY <1>4 DEF RegisterUpload, IInv, ClientInv, HasDataset, OnData, Filling, Subject
  <2>2. /\ reqs'[c].pc = "idle" /\ At(c, "registering") /\ UNCHANGED <<disk, faults>>
        /\ datasets' = [datasets EXCEPT ![d] = "ready"]
        /\ \A e \in Clients : e # c => reqs'[e] = reqs[e]
    BY <1>4, <2>1 DEF RegisterUpload, End, Idle, IInv, Typed
  <2>3. datasets'[d] = "ready" /\ \A x \in Datasets : datasets[x] = "ready" => datasets'[x] = "ready"
    BY <2>2 DEF IInv, Typed
  <2>4. \A f : (Lasting(f) => Lasting(f)') /\ (OwnsFile(c, f) => Lasting(f)')
    BY <2>1, <2>2, <2>3 DEF Lasting, OwnsFile, At, Directory, Data
  <2>5. ~At(c, "recovering")'
    BY <2>2 DEF At
  <2> QED
    BY <2>2, <2>4, <2>5, TidyStep
<1>5. CASE RegisterFails(c)
  BY <1>5, FaultLimits DEF RegisterFails, Tidy
<1>6. CASE RecoverUpload(c)
  <2>1. faults # 0 /\ (faults' = faults \/ faults' # 0)
    BY <1>6, FaultLimits DEF RecoverUpload, Tidy
  <2> QED
    BY <2>1 DEF Tidy
<1> QED
  BY <1>1, <1>2, <1>3, <1>4, <1>5, <1>6

\* Deletions of datasets: the file passes from the row to the request, which unlinks it.
LEMMA TidyDeletions ==
    ASSUME IInv, Limits, Tidy, NEW c \in Clients, DeleteDataset(c) \/ Unlink(c)
    PROVE  Tidy'
<1>1. PICK d \in Datasets : d = Subject(c)
  BY DEF DeleteDataset, Unlink, IInv, ClientInv, HasDataset, OnData, Subject
<1>2. CASE DeleteDataset(c) /\ End(c)
  <2>1. UNCHANGED <<datasets, disk, faults>> /\ At(c, "erasing") /\ reqs' = [reqs EXCEPT ![c] = Idle]
    <3>1. At(c, "erasing") /\ reqs'[c] = Idle /\ Idle.pc = "idle"
      BY <1>2 DEF DeleteDataset, End, Idle, IInv, Typed
    <3>2. ~Go(c, "unlinking")
      BY <3>1 DEF Go, IInv, Typed, Request
    <3> QED
      BY <1>2, <3>1, <3>2 DEF DeleteDataset, End
  <2>2. /\ ~At(c, "recovering")' /\ (\A f : ~OwnsFile(c, f))
        /\ \A e \in Clients : e # c => reqs'[e] = reqs[e]
    BY <2>1 DEF At, OwnsFile, Idle, IInv, Typed
  <2> QED
    BY <2>1, <2>2, TidyAtRest
<1>3. CASE DeleteDataset(c) /\ ~End(c)
  <2>1. /\ reqs'[c].pc = "unlinking" /\ reqs'[c].on = reqs[c].on /\ At(c, "erasing")
        /\ datasets' = [datasets EXCEPT ![d] = "gone"] /\ UNCHANGED <<disk, faults>>
        /\ \A e \in Clients : e # c => reqs'[e] = reqs[e]
    BY <1>1, <1>3 DEF DeleteDataset, Go, IInv, Typed, Request
  <2>2. Subject(c)' = d
    BY <1>1, <2>1 DEF Subject
  <2>3. ~At(c, "recovering")' /\ OwnsFile(c, Data(d))' /\ \A f : ~OwnsFile(c, f)
    BY <2>1, <2>2 DEF At, OwnsFile, Data
  <2>4. \A x \in Datasets : x # d => datasets'[x] = datasets[x]
    BY <2>1 DEF IInv, Typed
  <2>5. \A f : Lasting(f) => Lasting(f)' \/ f = Data(d)
    BY <2>4 DEF Lasting, Directory, Data
  <2> QED
    BY <2>1, <2>3, <2>5, TidyStep
<1>4. CASE Unlink(c)
  <2>1. CASE faults' # 0
    BY <2>1 DEF Tidy
  <2>2. CASE faults' = 0
    <3>1. ~Fault
      BY <2>2, FaultLimits
    <3>2. /\ reqs'[c].pc = "idle" /\ At(c, "unlinking") /\ UNCHANGED <<datasets, faults>>
          /\ disk' = disk \ {Data(d)} /\ \A e \in Clients : e # c => reqs'[e] = reqs[e]
      BY <1>1, <1>4, <3>1 DEF Unlink, End, Idle, IInv, Typed, database
    <3>3. \A f \in disk' : f \in disk /\ ~OwnsFile(c, f)
      BY <1>1, <3>2 DEF OwnsFile, At
    <3>4. ~At(c, "recovering")' /\ \A f : Lasting(f) => Lasting(f)'
      BY <3>2 DEF Lasting, Directory, Data, At
    <3> QED
      BY <3>2, <3>3, <3>4, TidyStep
  <2> QED
    BY <2>1, <2>2
<1> QED
  BY <1>2, <1>3, <1>4

\* Publication and download: the copy and the archive belong to their request.
LEMMA TidyCopies ==
    ASSUME IInv, Limits, Tidy, NEW c \in Clients,
           \/ TakeFlock(c) \/ MoveStaging(c) \/ FailCopy(c) \/ EndDownload(c)
           \/ \E t \in Trainings : BeginDownload(c, t)
    PROVE  Tidy'
<1>1. UNCHANGED <<datasets, faults>>
  BY DEF TakeFlock, MoveStaging, FailCopy, EndDownload, BeginDownload, database
<1>2. \A f : Lasting(f) => Lasting(f)'
  BY <1>1 DEF Lasting, Directory, Data
<1>3. CASE TakeFlock(c)
  <2>1. /\ At(c, "resolving") /\ \A e \in Clients : e # c => reqs'[e] = reqs[e]
        /\ \/ reqs'[c].pc = "linking" /\ disk' = disk
           \/ reqs'[c].pc = "copying" /\ disk' = disk \cup {Staging(c)}
    BY <1>3 DEF TakeFlock, Go, IInv, Typed, Request
  <2>2. ~At(c, "recovering")' /\ \A f : ~OwnsFile(c, f)
    BY <2>1 DEF At, OwnsFile
  <2>3. reqs'[c].pc = "copying" => OwnsFile(c, Staging(c))'
    BY DEF At, OwnsFile, Staging
  <2>4. Staging(c)' = Staging(c)
    BY DEF Staging
  <2> QED
    BY <1>1, <1>2, <2>1, <2>2, <2>3, <2>4, TidyStep
<1>4. CASE MoveStaging(c)
  <2>1. PICK t \in Models : t = Subject(c)
    BY <1>4 DEF MoveStaging, IInv, ClientInv, HasSubject, Publishing, Subject, Models
  <2>2. /\ At(c, "copying") /\ reqs'[c].pc = "linking"
        /\ disk' = (disk \ {Staging(c)}) \cup {Directory(t)}
        /\ \A e \in Clients : e # c => reqs'[e] = reqs[e]
    BY <1>4, <2>1 DEF MoveStaging, Go, IInv, Typed, Request
  <2>3. \A f \in disk' : f = Directory(t) \/ (f \in disk /\ ~OwnsFile(c, f))
    BY <2>2 DEF OwnsFile, At
  <2>4. ~At(c, "recovering")' /\ Lasting(Directory(t))'
    BY <2>2 DEF At, Lasting, Directory
  <2> QED
    BY <1>1, <1>2, <2>2, <2>3, <2>4, TidyStep
<1>5. CASE FailCopy(c) \/ EndDownload(c)
  <2>1. /\ reqs'[c].pc = "idle" /\ \A e \in Clients : e # c => reqs'[e] = reqs[e]
        /\ \/ At(c, "copying") /\ disk' = disk \ {Staging(c)}
           \/ At(c, "archiving") /\ disk' = disk \ {Archive(c)}
    BY <1>5 DEF FailCopy, EndDownload, End, Idle, IInv, Typed
  <2>2. ~At(c, "recovering")' /\ \A f \in disk' : f \in disk /\ ~OwnsFile(c, f)
    BY <2>1 DEF OwnsFile, At
  <2> QED
    BY <1>1, <1>2, <2>1, <2>2, TidyStep
<1>6. ASSUME NEW t \in Trainings, BeginDownload(c, t) PROVE Tidy'
  <2>1. /\ At(c, "idle") /\ reqs'[c].pc = "archiving" /\ disk' = disk \cup {Archive(c)}
        /\ \A e \in Clients : e # c => reqs'[e] = reqs[e]
    BY <1>6 DEF BeginDownload, Begin, On, New, IInv, Typed
  <2>2. /\ ~At(c, "recovering")' /\ (\A f : ~OwnsFile(c, f)) /\ Archive(c)' = Archive(c)
        /\ OwnsFile(c, Archive(c))'
    BY <2>1 DEF At, OwnsFile, Archive
  <2> QED
    BY <1>1, <1>2, <2>1, <2>2, TidyStep
<1> QED
  BY <1>3, <1>4, <1>5, <1>6

\* Every step keeps every file accounted for.
LEMMA TidyNext == IInv /\ Limits /\ Tidy /\ [Next]_vars => Tidy'
<1> SUFFICES ASSUME IInv, Limits, Tidy, [Next]_vars PROVE Tidy'
  OBVIOUS
<1>1. ASSUME NEW c \in Clients, \/ Accept(c) \/ Step(c) \/ Lock(c) \/ TakeFlock(c)
                                \/ RejectUpload(c) \/ RegisterFails(c) \/ FailCopy(c) \/ Abort(c)
      PROVE  Tidy'
  BY <1>1, TidyRequests, TidyUploads, TidyDeletions, TidyCopies DEF Accept, Step
<1>2. ASSUME Fault PROVE Tidy'
  BY <1>2, FaultLimits DEF Tidy
<1>3. ASSUME UNCHANGED <<disk, reqs, faults>>,
             \A d \in Datasets : datasets[d] = "ready" => datasets'[d] = "ready"
      PROVE  Tidy'
  <2>1. \A f : Lasting(f) => Lasting(f)'
    BY <1>3 DEF Lasting, Directory, Data
  <2>2. \A c \in Clients : /\ At(c, "recovering")' = At(c, "recovering")
                           /\ \A f : OwnsFile(c, f) => OwnsFile(c, f)'
    BY <1>3 DEF At, OwnsFile, Subject, Part, Data, Staging, Archive
  <2> QED
    BY <1>3, <2>1, <2>2 DEF Tidy, Accounted
<1>4. ASSUME NEW d \in Datasets, LateCommit(d) PROVE Tidy'
  BY <1>3, <1>4 DEF LateCommit, IInv, Typed
<1>5. ASSUME NEW w \in Workloads, EndWorkload(w) \/ DeleteWorkload(w) PROVE Tidy'
  BY <1>3, <1>5 DEF EndWorkload, DeleteWorkload
<1>6. CASE UNCHANGED vars
  BY <1>3, <1>6 DEF vars, database
<1> QED
  BY <1>1, <1>2, <1>4, <1>5, <1>6 DEF Next, LoseConnection, Restart

\* For every number of requests and resources: as long as nothing has failed, each temporary file
\* and each dataset file without a row belongs to a request that is still running.
THEOREM RequestsCleanUp == Spec => []NothingLeftBehind
<1>1. Init => Tidy
  BY DEF Init, Tidy, Accounted, Lasting, Directory, At, Idle, Models
<1>2. Spec => [](IInv /\ Limits /\ Tidy)
  BY <1>1, InitIInv, NextIInv, LimitsInit, LimitsNext, TidyNext, PTL DEF Spec
<1>3. IInv /\ Limits /\ Tidy => NothingLeftBehind
  <2> SUFFICES ASSUME IInv, Limits, Tidy, faults = 0, NEW f \in disk
               PROVE  /\ f[1] = "part" => Serves(f[2])
                      /\ f[1] = "data" => datasets[f[2]] = "ready" \/ Serves(f[2])
                      /\ f[1] = "staging" => At(f[2], "copying")
                      /\ f[1] = "archive" => At(f[2], "archiving")
    BY DEF NothingLeftBehind
  <2>1. CASE Lasting(f)
    BY <2>1 DEF Lasting, Directory, Data
  <2>2. ASSUME NEW c \in Clients, OwnsFile(c, f)
        PROVE  \/ f = Part(Subject(c)) /\ Serves(Subject(c))
               \/ f = Data(Subject(c)) /\ Serves(Subject(c))
               \/ f = Staging(c) /\ At(c, "copying")
               \/ f = Archive(c) /\ At(c, "archiving")
    BY <2>2 DEF OwnsFile, IInv, ClientInv, HasDataset, OnData, Filling, Subject, Serves
  <2>3. ASSUME NEW c \in Clients, OwnsFile(c, f)
        PROVE  /\ f[1] = "part" => Serves(f[2])
               /\ f[1] = "data" => datasets[f[2]] = "ready" \/ Serves(f[2])
               /\ f[1] = "staging" => At(f[2], "copying")
               /\ f[1] = "archive" => At(f[2], "archiving")
    BY <2>2, <2>3 DEF Part, Data, Staging, Archive
  <2> QED
    BY <2>1, <2>3 DEF Tidy, Accounted
<1> QED
  BY <1>2, <1>3, PTL

-----------------------------------------------------------------------------
(***************************************************************************)
(* Locks are taken in the order of the assets' ids.                        *)
(***************************************************************************)
Earlier(k, l) == k[1] = "asset" /\ l[1] = "asset" /\ Rank[k[2]] < Rank[l[2]]
Ordered(c) ==
    At(c, "locking") =>
        \A i \in 1..Len(reqs[c].want) :
            /\ \A h \in reqs[c].held : Earlier(h, reqs[c].want[i])
            /\ \A j \in 1..(i - 1) : Earlier(reqs[c].want[j], reqs[c].want[i])

\* LockOrder names the assets of a request in the order of their ids, each once.
LEMMA LockOrderAscends ==
    ASSUME NEW w \in Workloads, NEW in \in Inputs(w)
    PROVE  LET want == LockOrder(in[1])
           IN  \A i \in 1..Len(want) : \A j \in 1..(i - 1) : Earlier(want[j], want[i])
<1>1. PICK m \in Models, n \in Models : in[1] = <<m>> \/ in[1] = <<m, n>>
  BY DEF Inputs
<1>2. Rank[m] \in Nat /\ Rank[n] \in Nat /\ (Rank[m] = Rank[n] => m = n)
  BY CatalogAssumption
<1>3. CASE in[1] = <<m>>
  <2>1. LockOrder(in[1]) = <<Asset(m)>>
    BY <1>3 DEF LockOrder
  <2> QED
    BY <2>1
<1>4. CASE in[1] = <<m, n>>
  <2>1. \/ LockOrder(in[1]) = <<Asset(m)>>
        \/ LockOrder(in[1]) = <<Asset(m), Asset(n)>> /\ Rank[m] < Rank[n]
        \/ LockOrder(in[1]) = <<Asset(n), Asset(m)>> /\ Rank[n] < Rank[m]
    BY <1>2, <1>4 DEF LockOrder
  <2> QED
    BY <2>1 DEF Earlier, Asset
<1> QED
  BY <1>1, <1>3, <1>4

\* A step of one request leaves the order of the others alone.
LEMMA OthersOrdered ==
    ASSUME NEW e \in Clients, Ordered(e), reqs'[e] = reqs[e]
    PROVE  Ordered(e)'
  BY DEF Ordered, At, Earlier

\* A request that waits for nothing, or for one lock without holding any, is in order.
LEMMA OneLockOrdered ==
    ASSUME NEW c \in Clients,
           \/ reqs'[c].pc # "locking"
           \/ reqs'[c].held = {} /\ \E lock : reqs'[c].want = <<lock>>
    PROVE  Ordered(c)'
  BY DEF Ordered, At

\* Every step keeps the order.
LEMMA OrderedNext ==
    IInv /\ (\A c \in Clients : Ordered(c)) /\ [Next]_vars => \A c \in Clients : Ordered(c)'
<1> SUFFICES ASSUME IInv, \A c \in Clients : Ordered(c), [Next]_vars
             PROVE  \A c \in Clients : Ordered(c)'
  OBVIOUS
<1>1. ASSUME NEW c \in Clients, NEW w \in Workloads, BeginCreate(c, w) PROVE Ordered(c)'
  <2>1. PICK in \in Inputs(w) :
           reqs'[c].want = LockOrder(in[1]) /\ reqs'[c].held = {}
    BY <1>1 DEF BeginCreate, Begin, New, IInv, Typed
  <2> QED
    BY <2>1, LockOrderAscends DEF Ordered, Earlier
<1>2. ASSUME NEW c \in Clients, Lock(c) PROVE Ordered(c)'
  <2>1. CASE End(c)
    <3>1. reqs'[c].pc # "locking"
      BY <2>1 DEF End, Idle, IInv, Typed
    <3> QED
      BY <3>1, OneLockOrdered
  <2>2. CASE ~End(c)
    <3> DEFINE want == reqs[c].want
    <3>1. /\ At(c, "locking") /\ want # <<>> /\ want \in Seq(Locks)
          /\ reqs'[c].want = Tail(want) /\ reqs'[c].held = reqs[c].held \cup {Head(want)}
      <4>1. /\ reqs' = [reqs EXCEPT ![c].held = @ \cup {Head(reqs[c].want)}, ![c].want = Tail(@),
                               ![c].pc = IF Len(reqs[c].want) = 1 THEN reqs[c].next ELSE @]
            /\ At(c, "locking")
        BY <1>2, <2>2 DEF Lock
      <4>2. want # <<>> /\ want \in Seq(Locks)
        BY <4>1 DEF IInv, ClientInv, Gathers, Typed, Request
      <4> QED
        BY <4>1, <4>2 DEF IInv, Typed, Request
    <3>2. /\ \A i \in 1..Len(want) : /\ \A h \in reqs[c].held : Earlier(h, want[i])
                                     /\ \A j \in 1..(i - 1) : Earlier(want[j], want[i])
      BY <3>1 DEF Ordered
    <3>3. /\ Len(Tail(want)) = Len(want) - 1 /\ Head(want) = want[1]
          /\ \A i \in 1..Len(Tail(want)) : Tail(want)[i] = want[i + 1]
      BY <3>1
    <3> HIDE DEF want
    <3>4. ASSUME NEW i \in 1..Len(Tail(want))
          PROVE  /\ \A h \in reqs'[c].held : Earlier(h, Tail(want)[i])
                 /\ \A j \in 1..(i - 1) : Earlier(Tail(want)[j], Tail(want)[i])
      <4>1. i + 1 \in 1..Len(want) /\ 1 \in 1..((i + 1) - 1) /\ Tail(want)[i] = want[i + 1]
        BY <3>1, <3>3
      <4>2. \A j \in 1..(i - 1) : j + 1 \in 1..((i + 1) - 1) /\ Tail(want)[j] = want[j + 1]
        BY <3>1, <3>3, <4>1
      <4> QED
        BY <3>1, <3>2, <3>3, <4>1, <4>2
    <3> QED
      BY <3>1, <3>4 DEF Ordered, Earlier
  <2> QED
    BY <2>1, <2>2
<1>3. ASSUME NEW c \in Clients, LoseConnection(c) PROVE Ordered(c)'
  <2>1. reqs'[c].pc = reqs[c].pc /\ reqs'[c].want = reqs[c].want /\ reqs'[c].held = {}
    BY <1>3 DEF LoseConnection, IInv, Typed, Request
  <2> QED
    BY <2>1 DEF Ordered, At, Earlier
<1>4. ASSUME NEW c \in Clients,
             \/ \E m \in Models : BeginDeleteAsset(c, m)
             \/ \E t \in Trainings : BeginPublish(c, t)
      PROVE  Ordered(c)'
  <2>1. \E lock : reqs'[c].want = <<lock>> /\ reqs'[c].held = {}
    BY <1>4 DEF BeginDeleteAsset, BeginPublish, Begin, Locking, New, IInv, Typed
  <2> QED
    BY <2>1, OneLockOrdered
<1>5. ASSUME NEW c \in Clients,
             \/ \E d \in Datasets : BeginUpload(c, d) \/ BeginDeleteDataset(c, d)
             \/ \E t \in Trainings : BeginDownload(c, t)
             \/ Step(c) \/ TakeFlock(c) \/ RejectUpload(c) \/ RegisterFails(c) \/ FailCopy(c)
             \/ Abort(c)
      PROVE  Ordered(c)'
  <2>1. \/ End(c)
        \/ \E pc \in Points \ {"locking"} : Go(c, pc)
        \/ \E pc \in Points \ {"locking"} : \E x : Begin(c, On(pc, x))
    BY <1>5 DEF BeginUpload, BeginDeleteDataset, BeginDownload, Step, StoreUpload, RegisterUpload,
       RecoverUpload, DeleteDataset, Unlink, Validate, Insert, CheckReferences, HideAsset,
       MoveStaging, Link, EndDownload, TakeFlock, RejectUpload, RegisterFails, FailCopy, Abort,
       Points
  <2>2. reqs'[c].pc # "locking"
    BY <2>1 DEF End, Idle, Go, Begin, On, New, IInv, Typed, Request
  <2> QED
    BY <2>2, OneLockOrdered
<1>6. ASSUME NEW c \in Clients,
             \/ Accept(c) \/ Step(c) \/ Lock(c) \/ TakeFlock(c) \/ RejectUpload(c)
             \/ RegisterFails(c) \/ FailCopy(c) \/ Abort(c) \/ LoseConnection(c)
      PROVE  \A e \in Clients : Ordered(e)'
  <2>1. Ordered(c)'
    BY <1>1, <1>2, <1>3, <1>4, <1>5, <1>6 DEF Accept
  <2>2. \A e \in Clients : e # c => reqs'[e] = reqs[e]
    <3>1. \E q : reqs' = [reqs EXCEPT ![c] = q]
      BY <1>6 DEF Accept, Step, BeginUpload, BeginDeleteDataset, BeginCreate, BeginDeleteAsset,
         BeginPublish, BeginDownload, StoreUpload, RegisterUpload, RecoverUpload, DeleteDataset,
         Unlink, Validate, Insert, CheckReferences, HideAsset, MoveStaging, Link, EndDownload, Lock,
         TakeFlock, RejectUpload, RegisterFails, FailCopy, Abort, LoseConnection, Begin, End, Go
    <3> QED
      BY <3>1 DEF IInv, Typed
  <2> QED
    BY <2>1, <2>2, OthersOrdered
<1>7. CASE Restart
  <2>1. \A c \in Clients : reqs'[c].pc # "locking"
    BY <1>7 DEF Restart, Idle
  <2> QED
    BY <2>1, OneLockOrdered
<1>8. CASE UNCHANGED reqs
  BY <1>8, OthersOrdered
<1> QED
  BY <1>6, <1>7, <1>8 DEF Next, vars, LateCommit, EndWorkload, DeleteWorkload

\* In a finite set of requests with numbers one has a number that no other exceeds: the requests
\* above it would be fewer each time.
LEMMA SomeoneIsHighest ==
    ASSUME NEW S, IsFiniteSet(S), S # {}, NEW f \in [S -> Nat]
    PROVE  \E c \in S : \A d \in S : ~(f[c] < f[d])
<1> DEFINE Above(c) == {d \in S : f[c] < f[d]}
           T == {Above(c) : c \in S}
<1>1. FiniteSubsetsOf(S) = SUBSET S
  BY FS_FiniteSubsetsOfFinite
<1>2. IsWellFoundedOn(StrictSubsetOrdering(S), SUBSET S)
  BY <1>1, FS_StrictSubsetOrderingWellFounded
<1>3. T \subseteq SUBSET S /\ T # {}
  <2>1. \A c \in S : Above(c) \in SUBSET S
    OBVIOUS
  <2> HIDE DEF Above
  <2> QED
    BY <2>1
<1> HIDE DEF T
<1>4. PICK A \in T : \A B \in T : ~(<<B, A>> \in StrictSubsetOrdering(S))
  BY <1>2, <1>3, WFMin
<1>5. PICK c \in S : A = Above(c)
  BY DEF T
<1>6. SUFFICES ASSUME NEW d \in S, f[c] < f[d] PROVE FALSE
  OBVIOUS
<1>7. Above(d) \subseteq Above(c) /\ d \in Above(c) /\ d \notin Above(d)
  BY <1>6
<1>8. <<Above(d), Above(c)>> \in StrictSubsetOrdering(S)
  BY <1>7 DEF StrictSubsetOrdering
<1> QED
  BY <1>4, <1>5, <1>8 DEF T

\* For every number of requests, models and faults: no set of requests waits for each other in a
\* circle, because each waits for an asset with a higher id than those it holds.
THEOREM LocksDoNotCircle == Spec => []NoCircularWait
<1>1. Init => \A c \in Clients : Ordered(c)
  BY DEF Init, Ordered, At, Idle
<1> DEFINE AllOrdered == \A c \in Clients : Ordered(c)
<1>2. IInv /\ AllOrdered /\ [Next]_vars => AllOrdered'
  BY OrderedNext
<1>3. Init => AllOrdered
  BY <1>1
<1>4. IInv /\ AllOrdered => NoCircularWait
  <2> SUFFICES ASSUME IInv, \A c \in Clients : Ordered(c), NEW S \in SUBSET Clients, S # {},
                      \A c \in S : \E d \in S : WaitsFor(c, d)
               PROVE  FALSE
    BY DEF NoCircularWait
  <2> DEFINE next(c) == Head(reqs[c].want)
  <2>1. ASSUME NEW c \in S, NEW d \in S, WaitsFor(c, d)
        PROVE  Earlier(next(c), next(d)) /\ next(c) \in Locks
    <3>1. At(d, "locking") /\ next(c) \in reqs[d].held
      BY <2>1 DEF WaitsFor
    <3>2. reqs[d].want # <<>> /\ reqs[d].want \in Seq(Locks) /\ reqs[d].held \subseteq Locks
      BY <3>1 DEF IInv, ClientInv, Gathers, Typed, Request
    <3>3. next(d) = reqs[d].want[1] /\ 1 \in 1..Len(reqs[d].want)
      BY <3>2
    <3> QED
      BY <3>1, <3>2, <3>3 DEF Ordered
  <2>2. ASSUME NEW c \in S PROVE Rank[next(c)[2]] \in Nat
    BY <2>1, CatalogAssumption DEF Earlier, Locks
  <2> DEFINE f == [c \in S |-> Rank[next(c)[2]]]
  <2>3. f \in [S -> Nat] /\ \A c \in S : \E d \in S : f[c] < f[d]
    BY <2>1, <2>2 DEF Earlier
  <2>4. IsFiniteSet(S)
    BY CatalogAssumption, FS_Subset
  <2> HIDE DEF f
  <2> QED
    BY <2>3, <2>4, SomeoneIsHighest
<1> HIDE DEF AllOrdered
<1> QED
  BY <1>2, <1>3, <1>4, InitIInv, NextIInv, PTL DEF Spec
=============================================================================
