------------------------- MODULE ModelPipelineProofs -------------------------
(***************************************************************************)
(* What an import stores is whole: proofs about ModelPipeline, for any     *)
(* repositories, pieces, moves of the branch and moments of death.         *)
(***************************************************************************)
EXTENDS ModelPipeline, FiniteSetTheorems, WellFoundedInduction, TLAPS

Messages == [type : {"metadata", "done", "error"}, commit : Nat, sized : BOOLEAN]
Heard == [done : Nat, error : BOOLEAN, sized : BOOLEAN, fits : BOOLEAN]

Described == {"move", "settle", "done"}
Checked == {"describe"} \cup Described
InStore == place = "store"
Reported == heard.done # 0 \/ Said("done") # {}

ImportTyped ==
    /\ head \in Nat /\ pinned \in [commit : Nat, sized : BOOLEAN]
    /\ pipe \in Seq(Messages) /\ heard \in Heard

\* Who is at work: only an online import has a child, from Spawn until it ends or is stopped.
ChildIsOnline == child # "none" => Online
ThreadKnowsSource == (thread \in {"spawn", "watch"} => Online) /\ (thread = "copy" => ~Online)
NotYetSpawned == thread \in {"start", "enter", "spawn", "copy"} => child = "none"
ChildIsStopped == thread \in {"validate", "clean"} \cup Checked \cup Ended => ~ChildAlive
StopHasEnding == thread \in {"stop", "clean"} => ending \in {"canceled", "failed"}

\* The pieces of a download are of the commit that was resolved before the first of them.
PiecesArePinned ==
    Online => /\ child \in {"none", "resolve"} => held = {}
              /\ held \subseteq Whole(pinned.commit)

\* Whoever reports the end of a download has all its pieces, and names their commit.
NothingReported == child \in {"none", "resolve", "announce", "fetch", "report"} => ~Reported
ReportIsWhole == child = "report" => held = Whole(pinned.commit)
DoneIsPinned ==
    heard.done \in {0, pinned.commit} /\ \A m \in Said("done") : m.commit = pinned.commit
DoneIsWhole == Reported /\ place # "none" => held = Whole(pinned.commit)

\* Where the directory is.
PlaceFollowsThread ==
    /\ thread \in Trying => place = "staging"
    /\ thread \in {"settle", "done"} => InStore
    /\ InStore => thread \in {"settle", "done", "failed"}
    /\ thread \in Ended => place # "staging"

\* What is known of it after each step of the thread.
WholeToCheck ==
    thread \in {"validate"} \cup Checked \/ InStore =>
        Fetched = Parts /\ (Online => held = Whole(heard.done))
AcceptedOnceChecked == thread \in Checked \/ InStore => ImporterAccepts(origin.directory)
ManifestIsTrue ==
    thread \in Described \/ InStore => manifest.lists = held /\ manifest.revision = heard.done

ImportIInv ==
    /\ ImportTyped
    /\ ChildIsOnline /\ ThreadKnowsSource /\ NotYetSpawned /\ ChildIsStopped /\ StopHasEnding
    /\ PiecesArePinned /\ NothingReported /\ ReportIsWhole /\ DoneIsPinned /\ DoneIsWhole
    /\ PlaceFollowsThread /\ WholeToCheck /\ AcceptedOnceChecked /\ ManifestIsTrue

-----------------------------------------------------------------------------
(***************************************************************************)
(* Directories and messages.                                               *)
(***************************************************************************)
\* Whatever the importer accepts a loader can read: the validator of the importer against the
\* reference (_validate_model_files).
LEMMA AcceptedIsLoadable == ASSUME NEW d, ImporterAccepts(d) PROVE Loadable(d)
<1>1. SelectWeightFiles(d) /\ ReadableWeights(d) /\ (d.index # NoIndex => IndexIsTrue(d))
  BY DEF ImporterAccepts
<1>2. CASE OneWeight(d)
  <2>1. DOMAIN d.weights = {Single} /\ d.index = NoIndex /\ DOMAIN d.index = {}
    BY <1>2 DEF OneWeight, NoIndex
  <2>2. Stored(d) = d.weights[Single] /\ d.weights[Single] # {} /\ d.torn = {}
    BY <1>1, <2>1 DEF Stored, Range, ReadableWeights
  <2>3. \A t \in Stored(d) : Opened(d, t) = Single
    BY <2>1 DEF Opened
  <2>4. \A t \in Stored(d) : {f \in DOMAIN d.weights : t \in d.weights[f]} = {Opened(d, t)}
    BY <2>1, <2>2, <2>3
  <2> QED
    BY <2>1, <2>2, <2>4 DEF Loadable
<1>3. CASE ~OneWeight(d)
  <2>1. /\ d.index # NoIndex /\ DOMAIN d.weights = Range(d.index)
        /\ WholeSequence(DOMAIN d.weights) /\ IndexIsTrue(d)
    BY <1>1, <1>3 DEF SelectWeightFiles
  <2>2. PICK n \in Nat : DOMAIN d.weights = {<<k, n>> : k \in 1..n} /\ DOMAIN d.weights # {}
    BY <2>1 DEF WholeSequence, ShardNames
  <2>3. Single \notin DOMAIN d.weights
    BY <2>1 DEF WholeSequence, ShardNames, Single
  <2>4. \A t \in Stored(d) : t \in DOMAIN d.index /\ Opened(d, t) = d.index[t]
    BY <2>1, <2>3 DEF IndexIsTrue, Opened
  <2>5. \A t \in Stored(d) : d.index[t] \in DOMAIN d.weights /\ t \in d.weights[d.index[t]]
    BY <2>1, <2>4 DEF IndexIsTrue, Range
  <2>6. \A t \in Stored(d) : {f \in DOMAIN d.weights : t \in d.weights[f]} = {Opened(d, t)}
    BY <2>1, <2>4, <2>5 DEF IndexIsTrue
  <2>7. Stored(d) # {} /\ d.torn = {}
    BY <1>1, <2>2 DEF ReadableWeights, Stored, Range
  <2>8. \A s \in DOMAIN d.weights \ {Single} : \A k \in 1..s[2] : <<k, s[2]>> \in DOMAIN d.weights
    BY <2>2
  <2> QED
    BY <2>6, <2>7, <2>8 DEF Loadable
<1> QED
  BY <1>2, <1>3

\* Pieces of one commit are all of it when nothing is missing, and only then.
LEMMA AllPieces ==
    ASSUME NEW c, NEW pieces, pieces \subseteq Whole(c)
    PROVE  {piece[1] : piece \in pieces} = Parts <=> pieces = Whole(c)
<1>1. \A piece \in pieces : piece = <<piece[1], c>> /\ piece[1] \in Parts
  BY DEF Whole
<1>2. \A part \in Parts : <<part, c>>[1] = part /\ <<part, c>> \in Whole(c)
  BY DEF Whole
<1>3. ASSUME {piece[1] : piece \in pieces} = Parts, NEW part \in Parts
      PROVE  <<part, c>> \in pieces
  <2>1. PICK piece \in pieces : piece[1] = part
    BY <1>3
  <2> QED
    BY <2>1, <1>1
<1>4. ASSUME pieces = Whole(c), NEW part \in Parts
      PROVE  part \in {piece[1] : piece \in pieces}
  BY <1>2, <1>4
<1>5. {piece[1] : piece \in pieces} \subseteq Parts
  BY <1>1
<1> QED
  BY <1>3, <1>4, <1>5 DEF Whole

\* A piece more.
LEMMA OnePieceMore ==
    ASSUME NEW part, NEW c, held' = held \cup {<<part, c>>}
    PROVE  Fetched' = Fetched \cup {part}
<1>1. <<part, c>>[1] = part
  OBVIOUS
<1>2. ASSUME NEW x \in Fetched' PROVE x \in Fetched \cup {part}
  BY <1>1, <1>2 DEF Fetched
<1>3. ASSUME NEW x \in Fetched PROVE x \in Fetched'
  BY <1>3 DEF Fetched
<1>4. part \in Fetched'
  BY <1>1 DEF Fetched
<1> QED
  BY <1>2, <1>3, <1>4

\* What is in the pipe after a message was sent.
LEMMA Sent ==
    ASSUME pipe \in Seq(Messages), NEW m \in Messages, pipe' = Append(pipe, m)
    PROVE  pipe' \in Seq(Messages) /\ Range(pipe') = Range(pipe) \cup {m}
<1>1. pipe' \in Seq(Messages) /\ Len(pipe') = Len(pipe) + 1
  OBVIOUS
<1>2. Range(pipe) = {pipe[i] : i \in 1..Len(pipe)} /\ Range(pipe') = {pipe'[i] : i \in 1..Len(pipe')}
  BY <1>1 DEF Range
<1>3. \A i \in 1..Len(pipe) : pipe'[i] = pipe[i]
  OBVIOUS
<1>4. pipe'[Len(pipe) + 1] = m
  OBVIOUS
<1>5. 1..Len(pipe') = 1..Len(pipe) \cup {Len(pipe) + 1}
  BY <1>1
<1> QED
  BY <1>1, <1>2, <1>3, <1>4, <1>5

\* An empty pipe says nothing.
LEMMA Emptied ==
    ASSUME pipe' = <<>>
    PROVE  pipe' \in Seq(Messages) /\ Range(pipe') = {}
  BY DEF Range

\* The thread hears of a commit only what was reported, and the one that was pinned.
LEMMA HearingIsPinned ==
    ASSUME ImportTyped, DoneIsPinned
    PROVE  /\ Hearing \in Heard /\ Hearing.done \in {0, pinned.commit}
           /\ Hearing.done # 0 => Reported
<1>1. \A m \in Range(pipe) : m \in Messages
  BY DEF ImportTyped, Range
<1>2. CASE Said("done") = {}
  <2>1. Hearing.done = heard.done
    BY <1>2 DEF Hearing, ImportTyped, Heard
  <2> QED
    BY <2>1, <1>2 DEF Hearing, ImportTyped, Heard, DoneIsPinned, Reported
<1>3. CASE Said("done") # {}
  <2>1. (CHOOSE m \in Said("done") : TRUE) \in Said("done")
    BY <1>3
  <2>2. (CHOOSE m \in Said("done") : TRUE).commit = pinned.commit
    BY <2>1 DEF DoneIsPinned
  <2>3. Hearing.done = pinned.commit
    BY <1>3, <2>2 DEF Hearing, ImportTyped, Heard
  <2> QED
    BY <2>3, <1>3 DEF Hearing, ImportTyped, Heard, Reported
<1> QED
  BY <1>2, <1>3

\* A message of the child is heard later; only "done" counts as a report.
LEMMA SaysMore ==
    ASSUME ImportTyped, NEW type \in {"metadata", "done", "error"},
           NEW resolved \in [commit : Nat, sized : BOOLEAN],
           pipe' = Append(pipe, Message(type, resolved))
    PROVE  /\ pipe' \in Seq(Messages)
           /\ Said("done")' = IF type = "done" THEN Said("done") \cup {Message(type, resolved)}
                                               ELSE Said("done")
<1>1. Message(type, resolved) \in Messages /\ Message(type, resolved).type = type
  BY DEF Message, Messages
<1>2. pipe' \in Seq(Messages) /\ Range(pipe') = Range(pipe) \cup {Message(type, resolved)}
  BY <1>1, Sent DEF ImportTyped
<1> QED
  BY <1>1, <1>2 DEF Said

-----------------------------------------------------------------------------
(***************************************************************************)
(* Each step preserves the invariant.                                      *)
(***************************************************************************)
\* The child moves on, or ends; only Fetch, Announce, Report and ChildFails leave a trace.
LEMMA ChildIInv == ASSUME ImportIInv, ChildNext PROVE ImportIInv'
<1> USE DEF ImportIInv, ImportTyped, ChildIsOnline, ThreadKnowsSource, NotYetSpawned,
        ChildIsStopped, StopHasEnding, PiecesArePinned, NothingReported, ReportIsWhole,
        DoneIsPinned, DoneIsWhole, PlaceFollowsThread, WholeToCheck, AcceptedOnceChecked,
        ManifestIsTrue, ChildAlive, Online, Trying, Ended, Checked, Described, InStore,
        Reported
<1>1. ASSUME Announce PROVE ImportIInv'
  <2>1. pipe' \in Seq(Messages) /\ Said("done")' = Said("done")
    BY <1>1, SaysMore DEF Announce
  <2> QED
    BY <1>1, <2>1 DEF Announce, ChildGoes, OthersIdle, Fetched
<1>2. ASSUME Report PROVE ImportIInv'
  <2>1. /\ pipe' \in Seq(Messages)
        /\ Said("done")' = Said("done") \cup {Message("done", pinned)}
    BY <1>2, SaysMore DEF Report
  <2>2. Message("done", pinned).commit = pinned.commit
    BY DEF Message
  <2> QED
    BY <1>2, <2>1, <2>2 DEF Report, ChildGoes, OthersIdle, Fetched
<1>3. ASSUME ChildFails PROVE ImportIInv'
  <2>1. pipe' \in Seq(Messages) /\ Said("done")' = Said("done")
    BY <1>3, SaysMore DEF ChildFails, Unresolved
  <2> QED
    BY <1>3, <2>1 DEF ChildFails, OthersIdle, Fetched
<1>4. ASSUME NEW part \in Parts, Fetch(part) PROVE ImportIInv'
  <2>1. held' \subseteq Whole(pinned.commit) /\ held' = held \cup {<<part, pinned.commit>>}
    BY <1>4 DEF Fetch, FetchedCommit, Whole
  <2>2. Fetched' = Fetched \cup {part}
    BY <2>1, OnePieceMore
  <2>3. child' = "report" => held' = Whole(pinned.commit)
    <3> SUFFICES ASSUME child' = "report" PROVE held' = Whole(pinned.commit)
      OBVIOUS
    <3>1. Fetched' = Parts
      BY <1>4, <2>2 DEF Fetch
    <3> QED
      BY <2>1, <3>1, AllPieces DEF Fetched
  <2>4. /\ ~Reported /\ Said("done")' = Said("done") /\ child' \in {"fetch", "report"}
        /\ UNCHANGED <<origin, head, thread, ending, pinned, heard, pipe, manifest>>
    BY <1>4 DEF Fetch, OthersIdle, Said
  <2>5. /\ child = "fetch" /\ ChildAlive
        /\ place' = IF place = "none" THEN "staging" ELSE place
    BY <1>4 DEF Fetch
  <2>6. thread \notin {"validate", "copy"} \cup Checked \cup Ended /\ place # "store"
    BY <2>5
  <2> QED
    BY <2>1, <2>3, <2>4, <2>5, <2>6
<1>5. ASSUME Resolve PROVE ImportIInv'
  BY <1>5 DEF Resolve, ChildGoes, OthersIdle, Fetched, Whole, Said
<1>6. ASSUME ChildExits PROVE ImportIInv'
  BY <1>6 DEF ChildExits, ChildGoes, OthersIdle, Fetched, Whole, Said
<1>7. ASSUME ChildCrashes PROVE ImportIInv'
  BY <1>7 DEF ChildCrashes, OthersIdle, Fetched, Whole, Said
<1> QED
  BY <1>1, <1>2, <1>3, <1>4, <1>5, <1>6, <1>7 DEF ChildNext

\* The thread up to the validation: it starts the source and hears of its end, or it copies.
LEMMA TransferIInv ==
    ASSUME ImportIInv,
           Enter \/ Begin \/ Spawn \/ Watch \/ Conclude \/ \E part \in Parts : Copy(part)
    PROVE  ImportIInv'
<1> USE DEF ImportIInv, ImportTyped, ChildIsOnline, ThreadKnowsSource, NotYetSpawned,
        ChildIsStopped, StopHasEnding, PiecesArePinned, NothingReported, ReportIsWhole,
        DoneIsPinned, DoneIsWhole, PlaceFollowsThread, WholeToCheck, AcceptedOnceChecked,
        ManifestIsTrue, ChildAlive, Online, Trying, Ended, Checked, Described, InStore,
        Reported
<1>1. ASSUME Conclude PROVE ImportIInv'
  <2>1. /\ heard' \in Heard /\ heard'.done \in {0, pinned.commit}
        /\ heard'.done # 0 => Reported
    BY <1>1, HearingIsPinned DEF Conclude, Outcome, Heard
  <2>2. pipe' \in Seq(Messages) /\ Said("done")' = {}
    BY <1>1, Emptied DEF Conclude, Said
  <2>3. CASE thread' = "stop"
    BY <1>1, <2>1, <2>2, <2>3 DEF Conclude, Raise, directory, Fetched
  <2>4. CASE thread' = "validate"
    <3>1. heard'.done # 0 /\ UNCHANGED <<origin, head, ending, canceled, directory, child, pinned>>
      BY <1>1, <2>4 DEF Conclude, Raise, Outcome
    <3>2. held = Whole(heard'.done)
      BY <1>1, <2>1, <3>1 DEF Conclude
    <3>3. Fetched = Parts
      BY <3>2, AllPieces DEF Fetched
    <3> QED
      BY <1>1, <2>1, <2>2, <2>4, <3>1, <3>2, <3>3 DEF Conclude, directory, Fetched
  <2> QED
    BY <1>1, <2>3, <2>4 DEF Conclude, Raise
<1>2. ASSUME NEW part \in Parts, Copy(part) PROVE ImportIInv'
  <2>1. Fetched' = Fetched \cup {part}
    BY <1>2, OnePieceMore DEF Copy
  <2>2. ~Online /\ child = "none" /\ UNCHANGED Online
    BY <1>2 DEF Copy
  <2> QED
    BY <1>2, <2>1, <2>2 DEF Copy, ChildIdle, Said
<1>3. ASSUME Enter PROVE ImportIInv'
  BY <1>3 DEF Enter, ThreadGoes, directory, ChildIdle, Fetched, Said
<1>4. ASSUME Begin PROVE ImportIInv'
  BY <1>4 DEF Begin, ThreadGoes, directory, ChildIdle, Fetched, Said
<1>5. ASSUME Spawn PROVE ImportIInv'
  BY <1>5 DEF Spawn, ThreadGoes, directory, ChildIdle, Fetched, Said
<1>6. ASSUME Watch PROVE ImportIInv'
  <2>1. /\ heard' \in Heard /\ heard'.done \in {0, pinned.commit}
        /\ heard'.done # 0 => Reported
    BY <1>6, HearingIsPinned DEF Watch, Heard
  <2>2. pipe' \in Seq(Messages) /\ Said("done")' = {}
    BY <1>6, Emptied DEF Watch, Said
  <2> QED
    BY <1>6, <2>1, <2>2 DEF Watch, Raise, directory, Fetched
<1> QED
  BY <1>1, <1>2, <1>3, <1>4, <1>5, <1>6

\* The thread from the validation on, and everything that ends it early.
LEMMA EndIInv ==
    ASSUME ImportIInv,
           \/ Validate \/ Describe \/ Move \/ Settle
           \/ Interrupted \/ Stumble \/ StopChild \/ Clean
    PROVE  ImportIInv'
<1> USE DEF ImportIInv, ImportTyped, ChildIsOnline, ThreadKnowsSource, NotYetSpawned,
        ChildIsStopped, StopHasEnding, PiecesArePinned, NothingReported, ReportIsWhole,
        DoneIsPinned, DoneIsWhole, PlaceFollowsThread, WholeToCheck, AcceptedOnceChecked,
        ManifestIsTrue, ChildAlive, Online, Trying, Ended, Checked, Described, InStore,
        Reported
<1>1. ASSUME Validate PROVE ImportIInv'
  BY <1>1 DEF Validate, Acceptable, Raise, directory, ChildIdle, Fetched, Said
<1>2. ASSUME StopChild PROVE ImportIInv'
  BY <1>2 DEF StopChild, Stopped, ThreadGoes, directory, Fetched, Said
<1>3. ASSUME Describe PROVE ImportIInv'
  BY <1>3 DEF Describe, ThreadGoes, directory, ChildIdle, Fetched, Said
<1>4. ASSUME Move PROVE ImportIInv'
  BY <1>4 DEF Move, ThreadGoes, directory, ChildIdle, Fetched, Said
<1>5. ASSUME Settle PROVE ImportIInv'
  BY <1>5 DEF Settle, ThreadGoes, directory, ChildIdle, Fetched, Said
<1>6. ASSUME Interrupted PROVE ImportIInv'
  BY <1>6 DEF Interrupted, Raise, directory, ChildIdle, Fetched, Said
<1>7. ASSUME Stumble PROVE ImportIInv'
  BY <1>7 DEF Stumble, Raise, directory, ChildIdle, Fetched, Said
<1>8. ASSUME Clean PROVE ImportIInv'
  BY <1>8 DEF Clean, ChildIdle, Fetched, Whole, Said
<1> QED
  BY <1>1, <1>2, <1>3, <1>4, <1>5, <1>6, <1>7, <1>8

\* The branch moves, somebody cancels, or nothing happens to the import.
LEMMA OutsideIInv ==
    ASSUME ImportIInv, HeadMoves \/ Cancel \/ UNCHANGED downloadVars
    PROVE  ImportIInv'
<1> USE DEF ImportIInv, ImportTyped, ChildIsOnline, ThreadKnowsSource, NotYetSpawned,
        ChildIsStopped, StopHasEnding, PiecesArePinned, NothingReported, ReportIsWhole,
        DoneIsPinned, DoneIsWhole, PlaceFollowsThread, WholeToCheck, AcceptedOnceChecked,
        ManifestIsTrue, ChildAlive, Online, Trying, Ended, Checked, Described, InStore,
        Reported
<1>1. ASSUME HeadMoves PROVE ImportIInv'
  BY <1>1 DEF HeadMoves, watched, directory, Fetched, Said
<1>2. ASSUME Cancel PROVE ImportIInv'
  BY <1>2 DEF Cancel, directory, Fetched, Said
<1>3. ASSUME UNCHANGED downloadVars PROVE ImportIInv'
  BY <1>3 DEF downloadVars, watched, directory, Fetched, Said
<1> QED
  BY <1>1, <1>2, <1>3

\* An import that has not begun.
LEMMA InitIInv == Init => ImportIInv
<1> SUFFICES ASSUME DownloadInit PROVE ImportIInv
  BY DEF Init
<1> USE DEF DownloadInit, Unresolved, NothingHeard
<1>1. pipe \in Seq(Messages) /\ Said("done") = {} /\ ~Reported
  BY DEF Said, Range, Reported
<1>2. ImportTyped
  BY <1>1 DEF ImportTyped, Heard
<1>3. ChildIsOnline /\ ThreadKnowsSource /\ NotYetSpawned /\ ChildIsStopped /\ StopHasEnding
  BY DEF ChildIsOnline, ThreadKnowsSource, NotYetSpawned, ChildIsStopped, StopHasEnding,
         ChildAlive, Checked, Described, Ended
<1>4. PiecesArePinned /\ NothingReported /\ ReportIsWhole /\ DoneIsPinned /\ DoneIsWhole
  BY <1>1 DEF PiecesArePinned, NothingReported, ReportIsWhole, DoneIsPinned, DoneIsWhole
<1>5. PlaceFollowsThread /\ WholeToCheck /\ AcceptedOnceChecked /\ ManifestIsTrue
  BY DEF PlaceFollowsThread, WholeToCheck, AcceptedOnceChecked, ManifestIsTrue, Trying, Ended,
         Checked, Described, InStore
<1> QED
  BY <1>2, <1>3, <1>4, <1>5 DEF ImportIInv

\* Every step of the pipeline preserves the invariant of the import; those of a training do
\* not touch it.
LEMMA NextIInv == ImportIInv /\ [Next]_vars => ImportIInv'
<1> SUFFICES ASSUME ImportIInv, [Next]_vars PROVE ImportIInv'
  OBVIOUS
<1>1. CASE Import
  BY <1>1, ChildIInv, TransferIInv, EndIInv, OutsideIInv DEF Import, DownloadNext, ThreadNext
<1>2. CASE Start \/ Train \/ UNCHANGED vars
  <2>1. UNCHANGED downloadVars
    BY <1>2 DEF Start, Train, vars
  <2> QED
    BY <2>1, OutsideIInv
<1> QED
  BY <1>1, <1>2 DEF Next

-----------------------------------------------------------------------------
(***************************************************************************)
(* Theorems                                                                *)
(***************************************************************************)
\* The inductive invariant of an import: what the child, the pipe, the thread and the
\* directory know of each other between any two steps (ModelImporter.run, _run_download_process).
THEOREM ImportInvariant == Spec => []ImportIInv
<1>1. Init => ImportIInv
  BY InitIInv
<1>2. ImportIInv /\ [Next]_vars => ImportIInv'
  BY NextIInv
<1> QED
  BY <1>1, <1>2, PTL DEF Spec

\* An import is all or nothing: a stored directory is complete, of the one commit that its
\* manifest names, listed in it and readable, and an import that ended leaves neither a staging
\* directory nor a process (ModelImporter.run and its except clauses).
THEOREM StoredIsWhole == Spec => []ImportIsWhole
<1>1. ImportIInv => ImportIsWhole
  <2> SUFFICES ASSUME ImportIInv PROVE ImportIsWhole
    OBVIOUS
  <2>1. place = "store" => /\ Fetched = Parts /\ manifest.lists = held
                           /\ Online => held = Whole(manifest.revision)
                           /\ ImporterAccepts(origin.directory)
    BY DEF ImportIInv, WholeToCheck, ManifestIsTrue, AcceptedOnceChecked, InStore
  <2>2. place = "store" => Loadable(origin.directory)
    BY <2>1, AcceptedIsLoadable
  <2>3. place = "store" \/ thread \in Ended => ~ChildAlive
    BY DEF ImportIInv, PlaceFollowsThread, ChildIsStopped, InStore, Checked, Described, Ended
  <2>4. thread \in Ended => place # "staging"
    BY DEF ImportIInv, PlaceFollowsThread
  <2> QED
    BY <2>1, <2>2, <2>3, <2>4 DEF ImportIsWhole
<1> QED
  BY <1>1, ImportInvariant, PTL
-----------------------------------------------------------------------------
(***************************************************************************)
(* A success is complete: proofs about the training, for any base models,  *)
(* layouts, numbers of steps and moments of death.                         *)
(***************************************************************************)
Groups == [of : {"none", "train", "export"}, leader : {"none", "up", "done", "failed"},
           workers : BOOLEAN]
Codes == {-1, 0, 1, 137, 143}
Written == Saved \cup Damaged

TrainingTyped ==
    /\ phase \in Phases /\ algorithm \in {"none", "lora", "freeze"}
    /\ phase # "none" => algorithm # "none"
    /\ group \in Groups /\ flag \in [set : BOOLEAN, forwarded : BOOLEAN]
    /\ poll.code \in Codes /\ DOMAIN row = {"status", "step"}
    /\ row = [status |-> row.status, step |-> row.step]

\* A signal is forwarded only after it came.
ForwardedIsSet == flag.forwarded => flag.set

\* Which process group exists in which phase.
GroupFollowsPhase ==
    /\ phase \in {"none", "exited"} => group = NoGroup
    /\ phase \in {"train", "sweep", "check"} => group.of = "train"
    /\ phase \in {"export", "judge", "final"} => group.of = "export"
    /\ phase = "clear" => group.of # "none" /\ group.leader # "up"
    /\ phase \in {"sweep", "check", "judge", "final"} => group.leader = "done" /\ ~group.workers
    /\ group.of # "none" => group.leader # "none"
    /\ group.of = "export" => algorithm = "lora" /\ ~group.workers

\* The container has an exit code when it has ended, and the agent has seen no other one.
ExitFollowsPhase ==
    /\ exit \in Codes /\ (exit # -1 <=> phase = "exited")
    /\ poll.code # -1 => poll.code = exit

\* Whoever gets past the trainer without a stop has trained to the end.
Trained == done = MaxStep /\ (algorithm = "freeze" => model \in Written)
PastTraining ==
    \/ group.of = "train" /\ group.leader = "done" /\ ~flag.set
    \/ phase \in {"sweep", "check"} \/ group.of = "export" \/ exit = 0
TrainedToTheEnd == PastTraining => Trained

\* Where the merge is.
MergeFollowsPhase ==
    /\ phase = "none" \/ group.of = "train" \/ phase = "final" \/ exit = 0 => staged = NoDirectory
    /\ group.of = "export" /\ group.leader = "done" /\ phase # "final" => staged \in Written
    /\ phase = "final" \/ exit = 0 => model \in Written

\* What was verified when the row became "succeeded" is still so.
SuccessIsVerified ==
    row.status = "succeeded" =>
        /\ exit = 0 /\ (algorithm = "lora" => "adapter" \in output)
        /\ ~RejectsExport(output \cup model.kinds) /\ ValidateDeployable(Complete)

TrainingIInv ==
    /\ TrainingTyped /\ ForwardedIsSet /\ GroupFollowsPhase /\ ExitFollowsPhase
    /\ TrainedToTheEnd /\ MergeFollowsPhase /\ SuccessIsVerified

-----------------------------------------------------------------------------
(***************************************************************************)
(* What the control plane accepts of what an export or a training wrote.   *)
(***************************************************************************)
\* A readable model with a tensor in every file has no other weight file beside a single one.
LEMMA SingleIsAlone ==
    ASSUME NEW d, Loadable(d), {} \notin Range(d.weights), Single \in DOMAIN d.weights
    PROVE  DOMAIN d.weights = {Single}
<1> SUFFICES ASSUME NEW f \in DOMAIN d.weights PROVE f = Single
  OBVIOUS
<1>1. PICK t : t \in d.weights[f]
  BY DEF Range
<1>2. t \in Stored(d)
  BY <1>1 DEF Stored, Range
<1>3. Opened(d, t) = Single
  BY DEF Opened
<1>4. {g \in DOMAIN d.weights : t \in d.weights[g]} = {Single}
  BY <1>2, <1>3 DEF Loadable
<1> QED
  BY <1>1, <1>4

\* The control plane opens every weight file of such a model, so a cut off one is noticed.
LEMMA DamageIsNoticed ==
    ASSUME NEW e, Loadable(e), {} \notin Range(e.weights), NEW d,
           d.weights = e.weights, d.index = e.index,
           d.torn = {CHOOSE f \in DOMAIN e.weights : TRUE}
    PROVE  ~ValidateDeployable(d)
<1> DEFINE f == CHOOSE g \in DOMAIN e.weights : TRUE
<1>1. f \in DOMAIN e.weights
  BY DEF Loadable, Stored, Range
<1> SUFFICES ASSUME ValidateDeployable(d) PROVE FALSE
  OBVIOUS
<1>2. CASE Single \in DOMAIN e.weights
  <2>1. f = Single
    BY <1>1, <1>2, SingleIsAlone
  <2>2. d.index = NoIndex
    BY <1>2 DEF ValidateDeployable
  <2> QED
    BY <2>1, <2>2 DEF ValidateDeployable
<1>3. CASE Single \notin DOMAIN e.weights
  <2>1. d.index # NoIndex /\ Range(d.index) = DOMAIN d.weights
    BY <1>3 DEF ValidateDeployable
  <2> QED
    BY <1>1, <2>1 DEF ValidateDeployable
<1> QED
  BY <1>2, <1>3

\* What was saved is readable; only the kinds of its other files depend on the base model.
LEMMA SavedIsLoadable ==
    ASSUME NEW d \in Saved
    PROVE  Loadable(d) /\ {} \notin Range(d.weights)
<1>1. PICK l \in Layouts : d.weights = l.weights /\ d.index = l.index /\ d.torn = {}
  BY DEF Saved
<1> DEFINE e == [NoDirectory EXCEPT !.weights = l.weights, !.index = l.index]
<1>2. Loadable(e) /\ {} \notin Range(l.weights)
  BY TrainingAssumption
<1>3. e.weights = d.weights /\ e.index = d.index /\ e.torn = d.torn
  BY <1>1 DEF NoDirectory
<1>4. Loadable(e) <=> Loadable(d)
  BY <1>3 DEF Loadable, Stored, Opened
<1> QED
  BY <1>1, <1>2, <1>4

\* So a result that the control plane accepts is whole, whichever training wrote it.
LEMMA AcceptedIsSaved ==
    ASSUME model \in Written, ValidateDeployable(Complete)
    PROVE  model \in Saved /\ Loadable(model)
<1>1. /\ Complete.weights = model.weights
      /\ Complete.index = model.index /\ Complete.torn = model.torn
  BY DEF Complete, InRoot, Written, Saved, Damaged
<1>2. CASE model \in Damaged
  <2>1. PICK e \in Saved : model = [e EXCEPT !.torn = {CHOOSE f \in DOMAIN e.weights : TRUE}]
    BY <1>2 DEF Damaged
  <2>2. /\ model.weights = e.weights /\ model.index = e.index
        /\ model.torn = {CHOOSE f \in DOMAIN e.weights : TRUE}
    BY <2>1 DEF Saved
  <2> QED
    BY <1>1, <2>2, SavedIsLoadable, DamageIsNoticed
<1> QED
  BY <1>2, SavedIsLoadable DEF Written

-----------------------------------------------------------------------------
(***************************************************************************)
(* Preservation.                                                           *)
(***************************************************************************)
\* What may be written depends on the base model only.
LEMMA WrittenStays == ASSUME UNCHANGED base PROVE Saved' = Saved /\ Damaged' = Damaged
<1>1. Saved' = Saved
  BY DEF Saved
<1>2. Damaged' = Damaged
  BY <1>1 DEF Damaged
<1> QED
  BY <1>1, <1>2

\* Process 1 ends with another code than 0.
LEMMA FailedExit ==
    ASSUME TrainingIInv, Running, NEW code \in {1, 137, 143}, Exits(code)
    PROVE  TrainingIInv'
<1>1. /\ phase' = "exited" /\ exit' = code /\ group' = NoGroup /\ exit = -1
      /\ phase # "none" /\ poll.code = -1
      /\ UNCHANGED <<flag, algorithm, base, poll, row, desired>>
  BY DEF Exits, OnlyContainer, control, Running, TrainingIInv, ExitFollowsPhase
<1>2. row.status # "succeeded"
  BY <1>1 DEF TrainingIInv, SuccessIsVerified
<1>3. TrainingTyped' /\ ForwardedIsSet'
  BY <1>1 DEF TrainingIInv, TrainingTyped, ForwardedIsSet, Groups, NoGroup, Phases
<1>4. GroupFollowsPhase' /\ ExitFollowsPhase'
  BY <1>1 DEF GroupFollowsPhase, ExitFollowsPhase, NoGroup, Codes
<1>5. TrainedToTheEnd' /\ MergeFollowsPhase' /\ SuccessIsVerified'
  BY <1>1, <1>2 DEF TrainedToTheEnd, PastTraining, MergeFollowsPhase, SuccessIsVerified, NoGroup
<1> QED
  BY <1>3, <1>4, <1>5 DEF TrainingIInv

\* The workers of a group end.
LEMMA FewerWorkers ==
    ASSUME TrainingIInv, group' = [group EXCEPT !.workers = FALSE], group.workers,
           UNCHANGED <<algorithm, base, phase, flag, exit, files, control, fault>>
    PROVE  TrainingIInv'
<1>1. group' \in Groups /\ group'.of = group.of /\ group'.leader = group.leader
      /\ ~group'.workers
  BY DEF TrainingIInv, TrainingTyped, Groups
<1>2. Saved' = Saved /\ Damaged' = Damaged
  BY WrittenStays
<1> QED
  BY <1>1, <1>2
     DEF TrainingIInv, TrainingTyped, ForwardedIsSet, GroupFollowsPhase, ExitFollowsPhase,
         Trained, PastTraining, TrainedToTheEnd, MergeFollowsPhase, SuccessIsVerified,
         Written, NoGroup, files, control, Complete, InRoot

\* The trainer, the export and their processes work only while the container runs.
LEMMA TrainerIInv == ASSUME TrainingIInv, TrainerNext PROVE TrainingIInv'
<1> USE DEF TrainingIInv, TrainingTyped, ForwardedIsSet, GroupFollowsPhase, ExitFollowsPhase,
        Trained, PastTraining, TrainedToTheEnd, MergeFollowsPhase, SuccessIsVerified,
        Written, Groups, Codes, NoGroup, Phases
<1>w. UNCHANGED base => Saved' = Saved /\ Damaged' = Damaged
  BY WrittenStays
<1>1. ASSUME NEW s \in 0..MaxStep, WriteState(s) PROVE TrainingIInv'
  BY <1>1, <1>w DEF WriteState, Working, OnlyFiles, container, control, Complete, InRoot
<1>2. ASSUME NEW s \in 0..MaxStep, Rotate(s) PROVE TrainingIInv'
  BY <1>2, <1>w DEF Rotate, Working, OnlyFiles, container, control, Complete, InRoot
<1>3. ASSUME SaveModel PROVE TrainingIInv'
  BY <1>3, <1>w DEF SaveModel, Working, Leader, control, Complete, InRoot
<1>4. ASSUME Export PROVE TrainingIInv'
  BY <1>4, <1>w DEF Export, Working, Leader, control, Complete, InRoot
<1>5. ASSUME LeaderFails PROVE TrainingIInv'
  BY <1>5, <1>w DEF LeaderFails, Leader, files, control, Complete, InRoot
<1>6. ASSUME WorkerSaves PROVE TrainingIInv'
  BY <1>6, <1>w DEF WorkerSaves, OnlyFiles, container, control, Complete, InRoot
<1>7. ASSUME WorkersEnd PROVE TrainingIInv'
  BY <1>7, FewerWorkers DEF WorkersEnd
<1> QED
  BY <1>1, <1>2, <1>3, <1>4, <1>5, <1>6, <1>7 DEF TrainerNext

\* Process 1 from the signal it forwards to the command's end.
LEMMA SupervisorIInv ==
    ASSUME TrainingIInv, Forward \/ Escalate \/ Reap \/ Clear \/ CommandEnds
    PROVE  TrainingIInv'
<1> USE DEF TrainingIInv, TrainingTyped, ForwardedIsSet, GroupFollowsPhase, ExitFollowsPhase,
        Trained, PastTraining, TrainedToTheEnd, MergeFollowsPhase, SuccessIsVerified,
        Written, Groups, Codes, NoGroup, Phases, Running, OnlyContainer, control
<1>w. UNCHANGED base => Saved' = Saved /\ Damaged' = Damaged
  BY WrittenStays
<1>1. ASSUME Forward PROVE TrainingIInv'
  BY <1>1, <1>w DEF Forward, files, Complete, InRoot
<1>2. ASSUME Escalate PROVE TrainingIInv'
  <2>1. group' \in Groups /\ group'.of = group.of /\ group'.leader = "failed" /\ ~group'.workers
        /\ group.leader = "up"
    BY <1>2 DEF Escalate
  <2>2. UNCHANGED <<algorithm, base, phase, flag, exit, files, control, fault>>
    BY <1>2 DEF Escalate
  <2> QED
    BY <2>1, <2>2, <1>w DEF files, Complete, InRoot
<1>3. ASSUME Reap PROVE TrainingIInv'
  BY <1>3, <1>w DEF Reap, files, Complete, InRoot
<1>4. ASSUME Clear PROVE TrainingIInv'
  <2>1. GroupExists /\ group.leader # "up"
    BY <1>4 DEF Clear
  <2> QED
    BY <1>4, <2>1, FewerWorkers DEF Clear, GroupExists
<1>5. ASSUME CommandEnds PROVE TrainingIInv'
  <2>1. CASE flag.set \/ group.leader = "failed"
    BY <1>5, <2>1, FailedExit DEF CommandEnds, CommandInterrupted
  <2>2. CASE ~(flag.set \/ group.leader = "failed")
    <3>1. /\ phase = "clear" /\ ~group.workers /\ group.leader # "up"
          /\ phase' = IF group.of = "train" THEN "sweep" ELSE "judge"
          /\ UNCHANGED <<algorithm, base, group, flag, exit, files, control>>
      BY <1>5, <2>2 DEF CommandEnds, CommandInterrupted, GroupExists, Goes
    <3>2. group.leader = "done" /\ group.of \in {"train", "export"}
      BY <2>2, <3>1
    <3> QED
      BY <2>2, <3>1, <3>2, <1>w DEF files, Complete, InRoot
  <2> QED
    BY <2>1, <2>2
<1> QED
  BY <1>1, <1>2, <1>3, <1>4, <1>5

\* Process 1 between the commands.
LEMMA BetweenIInv ==
    ASSUME TrainingIInv, Sweep \/ Check \/ Judge \/ Final \/ StepFails
    PROVE  TrainingIInv'
<1>1. ASSUME StepFails PROVE TrainingIInv'
  BY <1>1, FailedExit DEF StepFails, Running
<1>2. ASSUME Judge, ~ValidateFullModel(staged) PROVE TrainingIInv'
  BY <1>2, FailedExit DEF Judge, Running
<1> USE DEF TrainingIInv, TrainingTyped, ForwardedIsSet, GroupFollowsPhase, ExitFollowsPhase,
        Trained, PastTraining, TrainedToTheEnd, MergeFollowsPhase, SuccessIsVerified,
        Written, Groups, Codes, NoGroup, Phases, OnlyContainer, control
<1>w. UNCHANGED base => Saved' = Saved /\ Damaged' = Damaged
  BY WrittenStays
<1>3. ASSUME Sweep PROVE TrainingIInv'
  BY <1>3, <1>w DEF Sweep, Goes
<1>4. ASSUME Check PROVE TrainingIInv'
  <2>0. phase = "check" /\ UNCHANGED files
    BY <1>4 DEF Check
  <2>1. \/ \E code \in {0, 1, 143} : Exits(code)
        \/ /\ algorithm = "lora" /\ phase' = "export"
           /\ group' = [of |-> "export", leader |-> "up", workers |-> FALSE]
           /\ UNCHANGED <<flag, exit, algorithm, base, control>>
    BY <1>4 DEF Check, Goes
  <2>2. CASE \E code \in {0, 1, 143} : Exits(code)
    <3>1. PICK code \in {0, 1, 143} : Exits(code)
      BY <2>2
    <3>2. /\ phase' = "exited" /\ exit' = code /\ group' = NoGroup
          /\ UNCHANGED <<flag, algorithm, base, control, files>>
      BY <2>0, <3>1 DEF Exits
    <3>3. code = 0 => algorithm = "freeze"
      BY <1>4, <2>0, <3>2 DEF Check, Exits, Goes
    <3> QED
      BY <2>0, <3>2, <3>3, <1>w DEF files, Complete, InRoot
  <2>3. CASE /\ algorithm = "lora" /\ phase' = "export"
             /\ group' = [of |-> "export", leader |-> "up", workers |-> FALSE]
             /\ UNCHANGED <<flag, exit, algorithm, base, control>>
    BY <2>0, <2>3, <1>w DEF files, Complete, InRoot
  <2> QED
    BY <2>1, <2>2, <2>3
<1>5. ASSUME Judge PROVE TrainingIInv'
  <2>1. CASE ValidateFullModel(staged)
    <3>1. /\ phase = "judge" /\ phase' = "final" /\ staged' = NoDirectory /\ model' = staged
          /\ UNCHANGED <<group, flag, exit, algorithm, base, control, done, output>>
      BY <1>5, <2>1 DEF Judge, Goes
    <3>2. staged \in Written /\ group.of = "export" /\ exit = -1 /\ algorithm = "lora"
      BY <3>1
    <3> QED
      BY <3>1, <3>2, <1>w
  <2>2. CASE ~ValidateFullModel(staged)
    BY <1>5, <1>2, <2>2
  <2> QED
    BY <2>1, <2>2
<1>6. ASSUME Final PROVE TrainingIInv'
  BY <1>6, <1>w DEF Final, Exits, files
<1> QED
  BY <1>1, <1>3, <1>4, <1>5, <1>6

\* Requests, Docker, the agent's reading and the reconciler.
LEMMA ControlIInv ==
    ASSUME TrainingIInv, Terminate \/ Deliver \/ DockerKill \/ ContainerDies \/ List \/ Read
    PROVE  TrainingIInv'
<1> USE DEF TrainingIInv, TrainingTyped, ForwardedIsSet, GroupFollowsPhase, ExitFollowsPhase,
        Trained, PastTraining, TrainedToTheEnd, MergeFollowsPhase, SuccessIsVerified,
        Written, Groups, Codes, NoGroup, Phases, Running, OnlyContainer, control, container, files
<1>w. UNCHANGED base => Saved' = Saved /\ Damaged' = Damaged
  BY WrittenStays
<1>1. ASSUME Terminate PROVE TrainingIInv'
  BY <1>1, <1>w DEF Terminate, Complete, InRoot
<1>2. ASSUME Deliver PROVE TrainingIInv'
  <2>1. flag' \in [set : BOOLEAN, forwarded : BOOLEAN] /\ flag'.set
    BY <1>2 DEF Deliver
  <2>2. UNCHANGED <<algorithm, base, phase, group, exit, files, control>>
    BY <1>2 DEF Deliver
  <2> QED
    BY <2>1, <2>2, <1>w DEF Complete, InRoot
<1>3. ASSUME DockerKill PROVE TrainingIInv'
  BY <1>3, FailedExit DEF DockerKill
<1>4. ASSUME ContainerDies PROVE TrainingIInv'
  BY <1>4, FailedExit DEF ContainerDies
<1>5. ASSUME List PROVE TrainingIInv'
  BY <1>5, <1>w DEF List, Complete, InRoot
<1>6. ASSUME Read PROVE TrainingIInv'
  <2>1. row'.status = "succeeded" =>
           row.status = "succeeded" \/ (poll.code = 0 /\ AgentAccepts /\ ControlPlaneAccepts)
    <3>1. row'.status \in CASE poll.code = -1 -> {row.status}
                            [] poll.code = 0 -> {CompletedStatus}
                            [] OTHER -> IF desired = "terminated" THEN {"canceled", "failed"}
                                        ELSE {"failed"}
      BY <1>6 DEF Read
    <3> QED
      BY <3>1 DEF CompletedStatus
  <2>2. row' = [status |-> row'.status, step |-> row'.step] /\ DOMAIN row' = {"status", "step"}
    BY <1>6 DEF Read
  <2>3. poll' = NoPoll /\ UNCHANGED <<algorithm, base, container, files, desired, fault>>
    BY <1>6 DEF Read
  <2> QED
    BY <2>1, <2>2, <2>3, <1>w DEF NoPoll, Complete, InRoot, AgentAccepts, ControlPlaneAccepts,
                                  ValidateAdapter
<1> QED
  BY <1>1, <1>2, <1>3, <1>4, <1>5, <1>6

\* A job is started on a directory, or refused.
LEMMA LaunchIInv == ASSUME TrainingIInv, NEW d, Launch(d) PROVE TrainingIInv'
<1> USE DEF TrainingIInv, TrainingTyped, ForwardedIsSet, GroupFollowsPhase, ExitFollowsPhase,
        Trained, PastTraining, TrainedToTheEnd, MergeFollowsPhase, SuccessIsVerified,
        Groups, Codes, NoGroup, Phases
<1>1. /\ phase = "none" /\ group = NoGroup /\ exit = -1 /\ row.status = "queued"
      /\ algorithm' \in {"lora", "freeze"} /\ UNCHANGED <<flag, exit, files, poll>>
  BY DEF Launch
<1>2. CASE ValidateDeployable(d)
  <2>1. /\ phase' = "train" /\ group' = [of |-> "train", leader |-> "up", workers |-> TRUE]
        /\ row' = [row EXCEPT !.status = "running"]
    BY <1>2 DEF Launch
  <2>2. row' = [status |-> "running", step |-> row.step]
    BY <2>1
  <2> QED
    BY <1>1, <2>1, <2>2 DEF files
<1>3. CASE ~ValidateDeployable(d)
  <2>1. UNCHANGED <<phase, group>> /\ row' = [status |-> "refused", step |-> row.step]
    BY <1>3 DEF Launch
  <2> QED
    BY <1>1, <2>1 DEF files
<1> QED
  BY <1>2, <1>3

\* A job that has not started.
LEMMA InitTrainingIInv == Init => TrainingIInv
  BY DEF Init, TrainingInit, NoFlag, NoPoll, TrainingIInv, TrainingTyped, ForwardedIsSet,
         GroupFollowsPhase, ExitFollowsPhase, Trained, PastTraining, TrainedToTheEnd,
         MergeFollowsPhase, SuccessIsVerified, Groups, Codes, NoGroup, Phases

\* Every step of the pipeline preserves the invariant of the training; those of an import do
\* not touch it.
LEMMA NextTrainingIInv == TrainingIInv /\ [Next]_vars => TrainingIInv'
<1> SUFFICES ASSUME TrainingIInv, [Next]_vars PROVE TrainingIInv'
  OBVIOUS
<1>1. CASE Train
  BY <1>1, TrainerIInv, SupervisorIInv, BetweenIInv, ControlIInv
     DEF Train, TrainingNext, Supervise
<1>2. CASE Start
  BY <1>2, LaunchIInv DEF Start
<1>3. CASE UNCHANGED trainingVars
  <2>1. Saved' = Saved /\ Damaged' = Damaged
    BY <1>3, WrittenStays DEF trainingVars
  <2> QED
    BY <1>3, <2>1 DEF trainingVars, container, files, control, TrainingIInv, TrainingTyped,
           ForwardedIsSet, GroupFollowsPhase, ExitFollowsPhase, Trained, PastTraining,
           TrainedToTheEnd, MergeFollowsPhase, SuccessIsVerified, Written, Complete, InRoot
<1> QED
  BY <1>1, <1>2, <1>3 DEF Next, Import, vars

-----------------------------------------------------------------------------
(***************************************************************************)
(* Theorems                                                                *)
(***************************************************************************)
\* The inductive invariant of a training: what process 1, its process group, the files and the
\* row have to do with each other (run_training, training_metadata).
THEOREM TrainingInvariant == Spec => []TrainingIInv
  BY InitTrainingIInv, NextTrainingIInv, PTL DEF Spec

\* A job that is reported as a success has trained to the end and left a readable model, with
\* nothing executable and no half-written merge beside it (run_training, the agent's and the
\* control plane's checks of the result).
THEOREM SuccessIsTrained == Spec => []SuccessIsComplete
<1>1. TrainingIInv => SuccessIsComplete
  <2> SUFFICES ASSUME TrainingIInv, row.status = "succeeded" PROVE SuccessIsComplete
    BY DEF SuccessIsComplete
  <2>1. /\ exit = 0 /\ (algorithm = "lora" => "adapter" \in output)
        /\ ~RejectsExport(output \cup model.kinds) /\ ValidateDeployable(Complete)
    BY DEF TrainingIInv, SuccessIsVerified
  <2>2. done = MaxStep /\ staged = NoDirectory /\ model \in Written
    BY <2>1 DEF TrainingIInv, TrainedToTheEnd, PastTraining, Trained, MergeFollowsPhase
  <2>3. model \in Saved /\ Loadable(model)
    BY <2>1, <2>2, AcceptedIsSaved
  <2> QED
    BY <2>1, <2>2, <2>3 DEF SuccessIsComplete
<1> QED
  BY <1>1, TrainingInvariant, PTL

-----------------------------------------------------------------------------
(***************************************************************************)
(* The step that a job shows: proofs for any number of steps, of kept      *)
(* checkpoints, and of files that come and go while they are read.         *)
(***************************************************************************)
\* The trainer completes one step after the other, and a row shows a step it has completed.
CheckpointsAreReached ==
    \A s \in Steps : /\ state[s] = "whole" => s <= done
                     /\ state[s] = "torn" => s = done + 1
RowIsReached == row.step <= done

\* Of the checkpoints of completed steps the oldest are gone, and never a newer one only.
OldestGoFirst ==
    \A s, k \in Steps : s < k /\ k <= done /\ state[s] # "none" => state[k] # "none"

\* The agent has listed the checkpoint the row was read from, or it is gone for good.
RowIsListed ==
    poll.open /\ row.step # 0 /\ state[row.step] # "none" => row.step \in poll.listed

ProgressIInv ==
    TrainingTypeOK /\ CheckpointsAreReached /\ RowIsReached /\ OldestGoFirst /\ RowIsListed

\* There is at least one step.
LEMMA StepsAreCounted == MaxStep \in Nat \ {0}
  BY TrainingAssumption, Zenon

\* A set of steps that is not empty has a highest one: the steps above it would be fewer each
\* time.
LEMMA HighestStep ==
    ASSUME NEW S, S \subseteq 0..MaxStep, S # {}
    PROVE  Max(S) \in S /\ \A y \in S : Max(S) >= y
<1> DEFINE Above(c) == {d \in S : c < d}
           T == {Above(c) : c \in S}
<1>1. MaxStep \in Nat /\ 0 \in Int /\ MaxStep \in Int
  BY StepsAreCounted
<1>2. IsFiniteSet(S) /\ S \subseteq Nat
  <2>1. IsFiniteSet(0..MaxStep)
    BY <1>1, FS_Interval
  <2>2. S \in SUBSET (0..MaxStep) /\ S \subseteq Nat
    BY <1>1
  <2> HIDE DEF Above, T
  <2> QED
    BY <2>1, <2>2, FS_Subset
<1>3. IsWellFoundedOn(StrictSubsetOrdering(S), SUBSET S)
  BY <1>2, FS_FiniteSubsetsOfFinite, FS_StrictSubsetOrderingWellFounded
<1>4. T \subseteq SUBSET S /\ T # {}
  <2>1. \A c \in S : Above(c) \in SUBSET S
    OBVIOUS
  <2> HIDE DEF Above
  <2> QED
    BY <2>1
<1> HIDE DEF T
<1>5. PICK A \in T : \A B \in T : ~(<<B, A>> \in StrictSubsetOrdering(S))
  BY <1>3, <1>4, WFMin
<1>6. PICK c \in S : A = Above(c)
  BY DEF T
<1>7. ASSUME NEW d \in S, c < d PROVE FALSE
  <2>1. \A e \in S : d < e => c < e
    BY <1>2, <1>7
  <2>a. d \in Above(c) /\ d \notin Above(d)
    BY <1>2, <1>7
  <2>b. Above(d) \subseteq Above(c)
    BY <2>1
  <2>2. <<Above(d), Above(c)>> \in StrictSubsetOrdering(S)
    BY <2>a, <2>b DEF StrictSubsetOrdering
  <2> QED
    BY <1>5, <1>6, <2>2 DEF T
<1>8. \E x \in S : \A y \in S : x >= y
  BY <1>2, <1>7
<1> QED
  BY <1>8 DEF Max

\* The step that a reading leads to is a completed one, and not before the one the row shows:
\* when an older checkpoint is still there, so is the row's, and it was listed.
LEMMA ReadingGoesOn ==
    ASSUME ProgressIInv, poll.open
    PROVE  LastStep \in 0..MaxStep /\ LastStep <= done /\ row.step <= LastStep
<1> DEFINE T == {StepOf(s) : s \in Readable}
<1>0. /\ MaxStep \in Nat /\ done \in 0..MaxStep /\ row.step \in 0..MaxStep
      /\ poll.listed \subseteq 0..MaxStep
  BY StepsAreCounted DEF ProgressIInv, TrainingTypeOK
<1>1. CASE Readable = {}
  BY <1>0, <1>1 DEF LastStep, ProgressIInv, RowIsReached
<1>2. CASE Readable # {}
  <2>1. \A s \in Readable : s \in 0..MaxStep /\ StepOf(s) \in 0..MaxStep /\ StepOf(s) <= done
    BY <1>0 DEF Readable, StepOf, ProgressIInv, CheckpointsAreReached, Steps
  <2>2. T \subseteq 0..MaxStep /\ T # {}
    BY <1>2, <2>1
  <2>3. LastStep = Max(T)
    BY <1>2 DEF LastStep
  <2>4. Max(T) \in T /\ \A y \in T : Max(T) >= y
    BY <2>2, HighestStep
  <2>5. Max(T) \in 0..MaxStep /\ Max(T) <= done
    BY <2>1, <2>4
  <2>6. \E y \in T : row.step <= y
    <3>1. PICK s \in Readable : TRUE
      BY <1>2
    <3>2. CASE s = 0 \/ row.step <= s
      BY <1>0, <2>1, <3>2 DEF StepOf, ProgressIInv, RowIsReached
    <3>3. CASE s # 0 /\ s < row.step
      <4>1. s \in Steps /\ row.step \in Steps /\ state[s] # "none"
        BY <1>0, <2>1, <3>3 DEF Steps, Readable
      <4>2. state[row.step] # "none" /\ row.step <= done
        BY <3>3, <4>1 DEF ProgressIInv, OldestGoFirst, RowIsReached
      <4>3. state[row.step] = "whole"
        BY <1>0, <4>1, <4>2 DEF ProgressIInv, TrainingTypeOK, CheckpointsAreReached, States, Steps
      <4>4. row.step \in Readable
        BY <1>0, <4>1, <4>2, <4>3 DEF ProgressIInv, RowIsListed, Readable, Steps
      <4>5. StepOf(row.step) = row.step
        BY <4>1 DEF StepOf, Steps
      <4> QED
        BY <1>0, <4>4, <4>5
    <3> QED
      BY <1>0, <2>1, <3>2, <3>3
  <2> HIDE DEF T
  <2>7. row.step <= Max(T)
    <3>1. PICK y \in T : row.step <= y
      BY <2>6
    <3>2. Max(T) >= y /\ y \in Nat
      BY <2>2, <2>4, <3>1
    <3> QED
      BY <1>0, <2>5, <3>1, <3>2
  <2> QED
    BY <2>3, <2>5, <2>7
<1> QED
  BY <1>1, <1>2

-----------------------------------------------------------------------------
\* Steps that touch neither the state files nor the row nor a reading.
LEMMA NothingRead ==
    ASSUME ProgressIInv, TrainingTypeOK', UNCHANGED <<done, state, poll>>, row'.step = row.step
    PROVE  ProgressIInv'
  BY DEF ProgressIInv, CheckpointsAreReached, RowIsReached, OldestGoFirst, RowIsListed

\* The trainer writes the state file of the next step, or that of the root.
LEMMA WritingGoesOn ==
    ASSUME ProgressIInv, NEW s \in 0..MaxStep, WriteState(s)
    PROVE  ProgressIInv' /\ row'.step = row.step
<1> USE StepsAreCounted
<1>1. /\ done \in 0..MaxStep /\ state \in [0..MaxStep -> States] /\ row.step \in 0..MaxStep
      /\ s = IF done < MaxStep THEN done + 1 ELSE 0
      /\ state[s] \in {"none", "torn"}
      /\ state' = [state EXCEPT ![s] = IF state[s] = "none" THEN "torn" ELSE "whole"]
      /\ done' = IF s # 0 /\ state[s] = "torn" THEN s ELSE done
      /\ UNCHANGED <<poll, row>>
  BY DEF WriteState, OnlyFiles, control, ProgressIInv, TrainingTypeOK
<1>2. state' \in [0..MaxStep -> States] /\ done' \in 0..MaxStep
      /\ \A k \in 0..MaxStep : k # s => state'[k] = state[k]
      /\ state'[s] = IF state[s] = "none" THEN "torn" ELSE "whole"
  BY <1>1 DEF States
<1>3. TrainingTypeOK'
  BY <1>1, <1>2 DEF WriteState, OnlyFiles, container, control, ProgressIInv, TrainingTypeOK
<1>4. CheckpointsAreReached'
  BY <1>1, <1>2 DEF ProgressIInv, CheckpointsAreReached, Steps
<1>5. RowIsReached'
  BY <1>1, <1>2 DEF ProgressIInv, RowIsReached
<1>6. OldestGoFirst'
  BY <1>1, <1>2 DEF ProgressIInv, OldestGoFirst, CheckpointsAreReached, Steps
<1>7. RowIsListed'
  <2>1. row.step # 0 => row.step # s
    BY <1>1 DEF ProgressIInv, RowIsReached
  <2> QED
    BY <1>1, <1>2, <2>1 DEF ProgressIInv, RowIsListed
<1> QED
  BY <1>1, <1>3, <1>4, <1>5, <1>6, <1>7 DEF ProgressIInv

\* The oldest checkpoint is removed.
LEMMA RotationGoesOn ==
    ASSUME ProgressIInv, NEW s \in 0..MaxStep, Rotate(s)
    PROVE  ProgressIInv' /\ row'.step = row.step
<1> USE StepsAreCounted
<1>1. /\ done \in 0..MaxStep /\ state \in [0..MaxStep -> States] /\ row.step \in 0..MaxStep
      /\ s \in Steps /\ \A k \in Steps : state[k] = "whole" => s <= k
      /\ state' = [state EXCEPT ![s] = "none"]
      /\ UNCHANGED <<done, poll, row>>
  BY DEF Rotate, Checkpoints, OnlyFiles, control, ProgressIInv, TrainingTypeOK
<1>2. state' \in [0..MaxStep -> States] /\ state'[s] = "none"
      /\ \A k \in 0..MaxStep : k # s => state'[k] = state[k]
  BY <1>1 DEF States, Steps
<1>3. TrainingTypeOK'
  BY <1>1, <1>2 DEF Rotate, OnlyFiles, container, control, ProgressIInv, TrainingTypeOK
<1>4. CheckpointsAreReached'
  BY <1>1, <1>2 DEF ProgressIInv, CheckpointsAreReached, Steps
<1>5. OldestGoFirst'
  <2> SUFFICES ASSUME NEW a \in Steps, NEW k \in Steps, a < k, k <= done,
                      state'[a] # "none", state'[k] = "none"
               PROVE  FALSE
    BY <1>1 DEF OldestGoFirst, Steps
  <2>1. a # s /\ state[a] # "none" /\ a \in 0..MaxStep /\ k \in 0..MaxStep
    BY <1>2 DEF Steps
  <2>2. k = s
    BY <1>2, <2>1 DEF ProgressIInv, OldestGoFirst
  <2>3. state[a] = "whole"
    BY <1>1, <2>1 DEF ProgressIInv, CheckpointsAreReached, States, Steps
  <2> QED
    BY <1>1, <2>1, <2>2, <2>3
<1>6. RowIsReached' /\ RowIsListed'
  BY <1>1, <1>2 DEF ProgressIInv, RowIsReached, RowIsListed
<1> QED
  BY <1>1, <1>3, <1>4, <1>5, <1>6 DEF ProgressIInv

\* The agent lists the state files.
LEMMA ListingGoesOn == ASSUME ProgressIInv, List PROVE ProgressIInv' /\ row'.step = row.step
<1>1. /\ poll' = [open |-> TRUE, listed |-> Existing, code |-> exit]
      /\ UNCHANGED <<algorithm, base, container, files, row, desired, fault>>
  BY DEF List
<1>2. DOMAIN state = 0..MaxStep /\ Existing \subseteq 0..MaxStep
  BY DEF Existing, ProgressIInv, TrainingTypeOK
<1>3. TrainingTypeOK'
  BY <1>1, <1>2 DEF container, files, ProgressIInv, TrainingTypeOK
<1>4. RowIsListed'
  BY <1>1, <1>2 DEF files, Existing, RowIsListed, ProgressIInv, TrainingTypeOK
<1> QED
  BY <1>1, <1>3, <1>4
     DEF files, ProgressIInv, CheckpointsAreReached, RowIsReached, OldestGoFirst

\* The reconciler stores what the agent has read.
LEMMA ReadGoesOn == ASSUME ProgressIInv, Read PROVE ProgressIInv' /\ row'.step >= row.step
<1> USE StepsAreCounted
<1>1. /\ poll.open /\ poll' = NoPoll
      /\ UNCHANGED <<algorithm, base, container, files, desired, fault>>
  BY DEF Read
<1>2. row'.step \in {row.step, LastStep}
  BY DEF Read
<1>3. row' \in [status : Terminal \cup {"queued", "running", "refused"}, step : 0..MaxStep]
  <2>1. row.status \in Terminal \cup {"queued", "running", "refused"}
        /\ row.step \in 0..MaxStep /\ LastStep \in 0..MaxStep
    BY <1>1, ReadingGoesOn DEF ProgressIInv, TrainingTypeOK
  <2>2. row' = [status |-> row'.status, step |-> row'.step]
        /\ row'.status \in Terminal \cup {row.status}
    BY DEF Read, CompletedStatus, Terminal
  <2> QED
    BY <1>2, <2>1, <2>2
<1>4. row.step <= row'.step /\ row'.step <= done
  BY <1>1, <1>2, ReadingGoesOn DEF ProgressIInv, TrainingTypeOK, RowIsReached
<1>5. TrainingTypeOK'
  BY <1>1, <1>3 DEF container, files, NoPoll, ProgressIInv, TrainingTypeOK
<1>6. row'.step >= row.step
  BY <1>3, <1>4 DEF ProgressIInv, TrainingTypeOK
<1> QED
  BY <1>1, <1>4, <1>5, <1>6
     DEF files, NoPoll, ProgressIInv, CheckpointsAreReached, RowIsReached, OldestGoFirst, RowIsListed

\* A group without workers and a flag that changes are a group and a flag.
LEMMA GroupsAndFlags ==
    ASSUME TrainingTypeOK
    PROVE  /\ [group EXCEPT !.workers = FALSE] \in Groups
           /\ [group EXCEPT !.leader = "failed", !.workers = FALSE] \in Groups
           /\ \A l \in {"done", "failed"} : [group EXCEPT !.leader = l] \in Groups
           /\ [flag EXCEPT !.set = TRUE] \in [set : BOOLEAN, forwarded : BOOLEAN]
           /\ [flag EXCEPT !.forwarded = TRUE] \in [set : BOOLEAN, forwarded : BOOLEAN]
<1>1. group \in Groups /\ flag \in [set : BOOLEAN, forwarded : BOOLEAN]
  BY DEF TrainingTypeOK, Groups
<1> QED
  BY <1>1 DEF Groups

\* No other step of the training touches the state files, a reading or the step of the row.
LEMMA OthersGoOn ==
    ASSUME ProgressIInv,
           \/ SaveModel \/ Export \/ LeaderFails \/ WorkerSaves \/ WorkersEnd
           \/ Supervise \/ StepFails \/ Terminate \/ Deliver \/ DockerKill \/ ContainerDies
    PROVE  ProgressIInv' /\ row'.step = row.step
<1> SUFFICES TrainingTypeOK' /\ UNCHANGED <<done, state, poll>> /\ row'.step = row.step
  BY NothingRead
<1>0. TrainingTypeOK
  BY DEF ProgressIInv
<1>1. CASE SaveModel \/ Export \/ LeaderFails \/ WorkerSaves \/ WorkersEnd
  <2>1. CASE SaveModel
    BY <1>0, <2>1
       DEF SaveModel, Leader, Product, Grown, TrainingTypeOK, files, container, control, Goes,
           OnlyContainer, Phases
  <2>2. CASE Export
    BY <1>0, <2>2
       DEF Export, Leader, Grown, TrainingTypeOK, files, container, control, Goes, OnlyContainer,
           Phases
  <2>3. CASE LeaderFails
    BY <1>0, <2>3
       DEF LeaderFails, Leader, TrainingTypeOK, files, container, control, Goes, OnlyContainer,
           Phases
  <2>4. CASE WorkerSaves
    BY <1>0, <2>4
       DEF WorkerSaves, OnlyFiles, TrainingTypeOK, files, container, control, Goes,
           OnlyContainer, Phases
  <2>5. CASE WorkersEnd
    BY <1>0, <2>5, GroupsAndFlags DEF WorkersEnd, Groups, TrainingTypeOK, files, control
  <2> QED
    BY <1>1, <2>1, <2>2, <2>3, <2>4, <2>5
<1>2. ASSUME NEW code \in {0, 1, 137, 143}, Exits(code), UNCHANGED <<done, state, output>>,
             fault' \in BOOLEAN
      PROVE  TrainingTypeOK' /\ UNCHANGED <<done, state, poll>> /\ row'.step = row.step
  BY <1>0, <1>2
     DEF Exits, OnlyContainer, NoGroup, Phases, TrainingTypeOK, files, container, control, Goes
<1>3. CASE Supervise
  <2>1. CASE Forward
    BY <1>0, <2>1, GroupsAndFlags DEF Forward, TrainingTypeOK, files, control, OnlyContainer
  <2>2. CASE Escalate
    BY <1>0, <2>2, GroupsAndFlags
       DEF Escalate, Groups, TrainingTypeOK, files, control, OnlyContainer
  <2>3. CASE Reap
    BY <1>0, <2>3 DEF Reap, TrainingTypeOK, files, container, control, Goes, OnlyContainer, Phases
  <2>4. CASE Clear
    BY <1>0, <2>4, GroupsAndFlags DEF Clear, Groups, TrainingTypeOK, files, control, OnlyContainer
  <2>5. CASE CommandEnds
    <3>1. CASE CommandInterrupted \/ group.leader = "failed"
      <4>1. \E code \in {1, 143} : Exits(code)
        BY <2>5, <3>1 DEF CommandEnds, control, files, Goes, OnlyContainer
      <4>2. UNCHANGED <<done, state, output, fault>>
        BY <2>5, <3>1 DEF CommandEnds, control, files, Goes, OnlyContainer
      <4> QED
        BY <1>0, <1>2, <4>1, <4>2 DEF TrainingTypeOK
    <3>2. CASE ~(CommandInterrupted \/ group.leader = "failed")
      <4>1. /\ phase' \in {"sweep", "judge"} /\ UNCHANGED <<group, files>>
            /\ UNCHANGED <<flag, exit, fault, algorithm, base, control>>
        BY <2>5, <3>2 DEF CommandEnds, Goes, OnlyContainer
      <4> QED
        BY <1>0, <4>1 DEF TrainingTypeOK, files, control, Phases
    <3> QED
      BY <3>1, <3>2
  <2>6. CASE Sweep
    BY <1>0, <2>6 DEF Sweep, TrainingTypeOK, files, container, control, Goes, OnlyContainer, Phases
  <2>7. CASE Check
    <3>1. UNCHANGED <<files, fault>>
      BY <2>7 DEF Check, control, files, Goes, OnlyContainer
    <3>2. \/ \E code \in {0, 1, 143} : Exits(code)
          \/ /\ phase' = "export" /\ UNCHANGED <<flag, exit, fault, algorithm, base, control>>
             /\ group' = [of |-> "export", leader |-> "up", workers |-> FALSE]
      BY <2>7 DEF Check, control, files, Goes, OnlyContainer
    <3>3. CASE \E code \in {0, 1, 143} : Exits(code)
      BY <1>0, <1>2, <3>1, <3>3 DEF TrainingTypeOK, files
    <3>4. CASE /\ phase' = "export" /\ UNCHANGED <<flag, exit, fault, algorithm, base, control>>
               /\ group' = [of |-> "export", leader |-> "up", workers |-> FALSE]
      BY <1>0, <3>1, <3>4 DEF TrainingTypeOK, files, control, Phases
    <3> QED
      BY <3>2, <3>3, <3>4
  <2>8. CASE Judge
    <3>1. CASE ValidateFullModel(staged)
      BY <1>0, <2>8, <3>1
         DEF Judge, TrainingTypeOK, files, container, control, Goes, OnlyContainer, Phases
    <3>2. CASE ~ValidateFullModel(staged)
      BY <1>0, <1>2, <2>8, <3>2
         DEF Judge, TrainingTypeOK, files, container, control, Goes, OnlyContainer, Phases
    <3> QED
      BY <3>1, <3>2
  <2>9. CASE Final
    BY <1>0, <1>2, <2>9
       DEF Final, TrainingTypeOK, files, container, control, Goes, OnlyContainer, Phases
  <2> QED
    BY <1>3, <2>1, <2>2, <2>3, <2>4, <2>5, <2>6, <2>7, <2>8, <2>9 DEF Supervise
<1>4. CASE StepFails
  BY <1>0, <1>2, <1>4
     DEF StepFails, TrainingTypeOK, files, container, control, Goes, OnlyContainer, Phases
<1>5. CASE Terminate
  <2>1. row' = [status |-> row'.status, step |-> row.step]
        /\ row'.status \in {"canceled", row.status}
    BY <1>0, <1>5
       DEF Terminate, TrainingTypeOK, files, container, control, Goes, OnlyContainer, Phases
  <2>2. UNCHANGED <<algorithm, base, container, files, poll, fault>> /\ desired' = "terminated"
    BY <1>5 DEF Terminate, control, files, Goes, OnlyContainer
  <2> QED
    BY <1>0, <2>1, <2>2 DEF TrainingTypeOK, container, files, Terminal
<1>6. CASE Deliver
  BY <1>0, <1>6, GroupsAndFlags
     DEF Deliver, OnlyContainer, TrainingTypeOK, files, container, control, Goes, Phases
<1>7. CASE DockerKill
  BY <1>0, <1>2, <1>7
     DEF DockerKill, TrainingTypeOK, files, container, control, Goes, OnlyContainer, Phases
<1>8. CASE ContainerDies
  BY <1>0, <1>2, <1>8
     DEF ContainerDies, TrainingTypeOK, files, container, control, Goes, OnlyContainer, Phases
<1> QED
  BY <1>1, <1>3, <1>4, <1>5, <1>6, <1>7, <1>8

\* A job is started, or refused.
LEMMA LaunchGoesOn ==
    ASSUME ProgressIInv, NEW d, Launch(d)
    PROVE  ProgressIInv' /\ row'.step = row.step
<1>1. /\ UNCHANGED <<flag, exit, files, poll, desired, fault>>
      /\ algorithm' \in {"lora", "freeze"}
      /\ row' = [row EXCEPT !.status = row'.status] /\ row'.status \in {"running", "refused"}
      /\ \/ UNCHANGED <<phase, group>>
         \/ phase' = "train" /\ group' = [of |-> "train", leader |-> "up", workers |-> TRUE]
  BY DEF Launch, ProgressIInv, TrainingTypeOK
<1>2. row' = [status |-> row'.status, step |-> row.step]
  BY <1>1 DEF ProgressIInv, TrainingTypeOK
<1>3. row' \in [status : Terminal \cup {"queued", "running", "refused"}, step : 0..MaxStep]
      /\ row'.step = row.step
  BY <1>1, <1>2 DEF ProgressIInv, TrainingTypeOK
<1>4. group' \in Groups /\ phase' \in Phases
  <2>1. group \in Groups /\ phase \in Phases
    BY DEF Groups, ProgressIInv, TrainingTypeOK
  <2>2. [of |-> "train", leader |-> "up", workers |-> TRUE] \in Groups /\ "train" \in Phases
    BY DEF Groups, Phases
  <2> QED
    BY <1>1, <2>1, <2>2
<1>5. TrainingTypeOK'
  BY <1>1, <1>3, <1>4 DEF files, Groups, ProgressIInv, TrainingTypeOK
<1> QED
  BY <1>1, <1>3, <1>5, NothingRead DEF files

\* Every step of the pipeline keeps the invariant, and none takes the row back.
LEMMA NextGoesOn == ProgressIInv /\ [Next]_vars => ProgressIInv' /\ row'.step >= row.step
<1> SUFFICES ASSUME ProgressIInv, [Next]_vars PROVE ProgressIInv' /\ row'.step >= row.step
  OBVIOUS
<1>0. row.step \in Nat
  BY StepsAreCounted DEF ProgressIInv, TrainingTypeOK
<1> SUFFICES ProgressIInv' /\ (row'.step = row.step \/ row'.step >= row.step)
  BY <1>0
<1>1. CASE Train
  <2>1. CASE TrainerNext
    BY <2>1, WritingGoesOn, RotationGoesOn, OthersGoOn DEF TrainerNext
  <2> QED
    BY <1>1, <2>1, OthersGoOn, ListingGoesOn, ReadGoesOn DEF Train, TrainingNext
<1>2. CASE Start
  BY <1>2, LaunchGoesOn DEF Start
<1>3. CASE UNCHANGED trainingVars
  <2>1. TrainingTypeOK'
    BY <1>3 DEF trainingVars, container, files, control, ProgressIInv, TrainingTypeOK
  <2> QED
    BY <1>3, <2>1, NothingRead DEF trainingVars, files, control
<1> QED
  BY <1>1, <1>2, <1>3 DEF Next, Import, vars

\* A job without a step.
LEMMA InitGoesOn == Init => ProgressIInv
<1> SUFFICES ASSUME TrainingInit PROVE ProgressIInv
  BY DEF Init
<1>1. done \in 0..MaxStep /\ state \in [0..MaxStep -> States] /\ row.step = 0
  BY StepsAreCounted DEF TrainingInit, States
<1>2. /\ poll \in [open : BOOLEAN, listed : SUBSET (0..MaxStep), code : {-1, 0, 1, 137, 143}]
      /\ row \in [status : Terminal \cup {"queued", "running", "refused"}, step : 0..MaxStep]
  BY StepsAreCounted DEF TrainingInit, NoPoll
<1>3. group \in Groups /\ flag \in [set : BOOLEAN, forwarded : BOOLEAN]
  BY DEF TrainingInit, NoGroup, NoFlag, Groups
<1>4. TrainingTypeOK
  BY <1>1, <1>2, <1>3 DEF TrainingInit, TrainingTypeOK, Groups, Phases
<1> QED
  BY <1>1, <1>4, StepsAreCounted
     DEF TrainingInit, NoPoll, ProgressIInv, CheckpointsAreReached, RowIsReached, OldestGoFirst,
         RowIsListed, Steps

-----------------------------------------------------------------------------
\* The inductive invariant of a training's progress: state files, the reading and the row
\* (read_training_state, training_metadata).
THEOREM ProgressInvariant == Spec => []ProgressIInv
  BY InitGoesOn, NextGoesOn, PTL DEF Spec

\* The step a job shows never goes back, for any number of steps and of kept checkpoints,
\* although files appear and are removed between the agent's listing and its reading
\* (training_metadata, apply_training_status).
THEOREM ProgressGoesOn == Spec => ProgressNeverGoesBack
<1> DEFINE Kept == row'.step >= row.step
<1>1. ProgressIInv /\ [Next]_vars => Kept
  BY NextGoesOn
<1>2. ProgressNeverGoesBack <=> [][Kept]_vars
  BY DEF ProgressNeverGoesBack
<1> HIDE DEF Kept
<1> QED
  BY <1>1, <1>2, ProgressInvariant, PTL DEF Spec

-----------------------------------------------------------------------------
(***************************************************************************)
(* Why an import fails or is canceled: proofs for any branch and any       *)
(* moments of failure.                                                     *)
(***************************************************************************)
\* Whoever has resolved a commit knows one of the branch.
ResolvedIsKnown == child \in {"announce", "fetch", "report"} \/ Reported => pinned.commit \in Commits

\* A child that ended by itself has reported, or something outside went wrong.
SilenceIsTrouble == child \in {"exit", "gone"} => Reported \/ trouble
ErrorsAreTrouble ==
    /\ heard.error \/ Said("error") # {} => trouble
    /\ thread = "watch" /\ child = "crashed" => trouble

\* The exception that is on its way, and the end, have their reason.
EndingHasReason ==
    /\ thread \in {"stop", "clean"} =>
          (ending = "failed" => trouble) /\ (ending = "canceled" => canceled)
    /\ thread = "failed" => trouble
    /\ thread = "canceled" => canceled

ReasonIInv ==
    /\ DownloadTypeOK /\ ResolvedIsKnown /\ SilenceIsTrouble /\ ErrorsAreTrouble /\ EndingHasReason

\* The first commit is one of the branch.
LEMMA CommitsAreCounted == MaxCommits \in Nat /\ 1 \in Commits
<1>1. MaxCommits \in Nat \ {0}
  BY DownloadAssumption, Zenon
<1> QED
  BY <1>1 DEF Commits

\* What the thread hears of a commit, and of an error.
LEMMA HearingHasReason ==
    ASSUME ImportIInv, ReasonIInv
    PROVE  /\ Hearing \in [done : 0..MaxCommits, error : BOOLEAN, sized : BOOLEAN, fits : BOOLEAN]
           /\ Hearing.error => trouble
           /\ Reported <=> Hearing.done # 0
           /\ Reported => Hearing.done = pinned.commit
<1>1. Hearing \in Heard /\ Hearing.done \in {0, pinned.commit} /\ (Hearing.done # 0 => Reported)
  BY HearingIsPinned DEF ImportIInv
<1>2. Hearing.error <=> heard.error \/ Said("error") # {}
  BY DEF Hearing, ImportIInv, ImportTyped, Heard
<1>3. ASSUME Reported PROVE Hearing.done = pinned.commit /\ pinned.commit # 0
  <2>1. pinned.commit \in 1..MaxCommits
    BY <1>3 DEF ReasonIInv, ResolvedIsKnown, Commits
  <2>2. CASE Said("done") = {}
    <3>1. Hearing.done = heard.done /\ heard.done # 0
      BY <1>3, <2>2 DEF Hearing, Reported, ImportIInv, ImportTyped, Heard
    <3> QED
      BY <1>1, <2>1, <3>1
  <2>3. CASE Said("done") # {}
    <3>1. PICK m : m = (CHOOSE n \in Said("done") : TRUE) /\ m \in Said("done")
      BY <2>3
    <3>2. Hearing.done = m.commit
      BY <2>3, <3>1 DEF Hearing, ImportIInv, ImportTyped, Heard
    <3> QED
      BY <2>1, <3>1, <3>2 DEF ImportIInv, DoneIsPinned
  <2> QED
    BY <2>2, <2>3
<1>4. pinned.commit \in 0..MaxCommits
  BY DEF ReasonIInv, DownloadTypeOK
<1>5. Hearing.done \in 0..MaxCommits
  BY <1>1, <1>4, CommitsAreCounted
<1>6. Hearing \in [done : 0..MaxCommits, error : BOOLEAN, sized : BOOLEAN, fits : BOOLEAN]
  BY <1>1, <1>5 DEF Heard
<1> QED
  BY <1>1, <1>2, <1>3, <1>6 DEF ReasonIInv, ErrorsAreTrouble

\* What is in the pipe after a message was sent: those before it, and the message.
LEMMA MessagesStayTyped ==
    ASSUME ImportTyped, ReasonIInv, NEW type \in {"metadata", "done", "error"},
           NEW resolved \in [commit : 0..MaxCommits, sized : BOOLEAN],
           pipe' = Append(pipe, Message(type, resolved))
    PROVE  /\ \A m \in Range(pipe') :
                 m \in [type : {"metadata", "done", "error"}, commit : 0..MaxCommits, sized : BOOLEAN]
           /\ \A t : Said(t)' = IF t = type THEN Said(t) \cup {Message(type, resolved)} ELSE Said(t)
<1>1. /\ Message(type, resolved) \in [type : {"metadata", "done", "error"}, commit : 0..MaxCommits,
                                      sized : BOOLEAN]
      /\ Message(type, resolved).type = type
  BY DEF Message
<1>2. Message(type, resolved) \in Messages
  BY <1>1, CommitsAreCounted DEF Messages
<1>3. Range(pipe') = Range(pipe) \cup {Message(type, resolved)}
  BY <1>2, Sent DEF ImportTyped
<1> QED
  BY <1>1, <1>3 DEF Said, ReasonIInv, DownloadTypeOK

\* The child moves on, or ends.
LEMMA ChildHasReason == ASSUME ImportIInv, ReasonIInv, ChildNext PROVE ReasonIInv'
<1> USE DEF ReasonIInv, DownloadTypeOK, ResolvedIsKnown, SilenceIsTrouble, ErrorsAreTrouble,
        EndingHasReason, Reported, OthersIdle, ChildGoes, Children, ChildAlive
<1>0. ImportTyped /\ MaxCommits \in Nat /\ 1 \in Commits
  BY CommitsAreCounted DEF ImportIInv
<1>1. ASSUME Announce PROVE ReasonIInv'
  <2>1. /\ pipe' = Append(pipe, Message("metadata", pinned))
        /\ child = "announce" /\ child' = "fetch" /\ UNCHANGED <<pinned, place, held, trouble>>
        /\ UNCHANGED <<origin, head, thread, ending, canceled, heard, manifest>>
    BY <1>1 DEF Announce
  <2>2. /\ \A m \in Range(pipe') :
              m \in [type : {"metadata", "done", "error"}, commit : 0..MaxCommits, sized : BOOLEAN]
        /\ Said("done")' = Said("done") /\ Said("error")' = Said("error")
    BY <1>0, <2>1, MessagesStayTyped
  <2> QED
    BY <2>1, <2>2
<1>2. ASSUME Report PROVE ReasonIInv'
  <2>1. /\ pipe' = Append(pipe, Message("done", pinned))
        /\ child = "report" /\ child' = "exit" /\ UNCHANGED <<pinned, place, held, trouble>>
        /\ UNCHANGED <<origin, head, thread, ending, canceled, heard, manifest>>
    BY <1>2 DEF Report
  <2>2. /\ \A m \in Range(pipe') :
              m \in [type : {"metadata", "done", "error"}, commit : 0..MaxCommits, sized : BOOLEAN]
        /\ Said("done")' = Said("done") \cup {Message("done", pinned)}
        /\ Said("error")' = Said("error")
    BY <1>0, <2>1, MessagesStayTyped
  <2> QED
    BY <2>1, <2>2
<1>3. ASSUME ChildFails PROVE ReasonIInv'
  <2>1. /\ pipe' = Append(pipe, Message("error", Unresolved)) /\ trouble' = TRUE
        /\ child' = "exit" /\ UNCHANGED <<pinned, place, held>>
        /\ UNCHANGED <<origin, head, thread, ending, canceled, heard, manifest>>
    BY <1>3 DEF ChildFails
  <2>2. /\ \A m \in Range(pipe') :
              m \in [type : {"metadata", "done", "error"}, commit : 0..MaxCommits, sized : BOOLEAN]
        /\ Said("done")' = Said("done")
    <3>1. Unresolved \in [commit : 0..MaxCommits, sized : BOOLEAN]
      BY <1>0 DEF Unresolved
    <3> QED
      BY <1>0, <2>1, <3>1, MessagesStayTyped
  <2> QED
    BY <2>1, <2>2
<1>4. ASSUME NEW part \in Parts, Fetch(part) PROVE ReasonIInv'
  <2>1. /\ child = "fetch" /\ held' = held \cup {<<part, pinned.commit>>}
        /\ child' \in {"report", "fetch"} /\ place' \in {"staging", place}
        /\ UNCHANGED <<pinned, pipe, trouble, origin, head, thread, ending, canceled, heard, manifest>>
    BY <1>4 DEF Fetch, FetchedCommit
  <2>2. held' \subseteq Pieces
    BY <2>1 DEF Pieces
  <2> QED
    BY <2>1, <2>2 DEF Said
<1>5. ASSUME Resolve PROVE ReasonIInv'
  <2>1. /\ child = "resolve" /\ child' = "announce" /\ pinned' \in [commit : {head}, sized : BOOLEAN]
        /\ UNCHANGED <<pipe, place, held, trouble, origin, head, thread, ending, canceled, heard, manifest>>
    BY <1>5 DEF Resolve
  <2>2. pinned' \in [commit : 0..MaxCommits, sized : BOOLEAN] /\ pinned'.commit \in Commits
    BY <1>0, <2>1 DEF Commits
  <2> QED
    BY <2>1, <2>2 DEF Said
<1>6. ASSUME ChildExits PROVE ReasonIInv'
  BY <1>6 DEF ChildExits, Said
<1>7. ASSUME ChildCrashes PROVE ReasonIInv'
  BY <1>7 DEF ChildCrashes, Said
<1> QED
  BY <1>1, <1>2, <1>3, <1>4, <1>5, <1>6, <1>7 DEF ChildNext

\* The thread up to the validation.
LEMMA TransferHasReason ==
    ASSUME ImportIInv, ReasonIInv,
           Enter \/ Begin \/ Spawn \/ Watch \/ Conclude \/ \E part \in Parts : Copy(part)
    PROVE  ReasonIInv'
<1> USE DEF ReasonIInv, DownloadTypeOK, ResolvedIsKnown, SilenceIsTrouble, ErrorsAreTrouble,
        EndingHasReason, Reported, ChildIdle, Children, ChildAlive, Threads, Trying, Ended, directory
<1>1. ASSUME Watch PROVE ReasonIInv'
  <2>1. /\ thread = "watch" /\ ChildAlive /\ pipe' = <<>>
        /\ heard' = [Hearing EXCEPT !.fits = Hearing.sized]
        /\ UNCHANGED <<child, pinned, origin, head, canceled, place, held, manifest>>
        /\ \/ UNCHANGED <<thread, ending, trouble>>
           \/ thread' = "stop" /\ ending' = "failed" /\ trouble' = TRUE
    BY <1>1 DEF Watch, Raise
  <2>2. /\ heard' \in [done : 0..MaxCommits, error : BOOLEAN, sized : BOOLEAN, fits : BOOLEAN]
        /\ heard'.error => trouble
        /\ heard'.done # 0 <=> Reported
    BY <2>1, HearingHasReason
  <2>3. Range(pipe') = {} /\ \A t : Said(t)' = {}
    BY <2>1, Emptied DEF Said
  <2>4. CASE UNCHANGED <<thread, ending, trouble>>
    BY <2>1, <2>2, <2>3, <2>4
  <2>5. CASE thread' = "stop" /\ ending' = "failed" /\ trouble' = TRUE
    BY <2>1, <2>2, <2>3, <2>5
  <2> QED
    BY <2>1, <2>4, <2>5
<1>2. ASSUME Conclude PROVE ReasonIInv'
  <2>1. /\ thread = "watch" /\ child \in {"gone", "crashed"} /\ pipe' = <<>>
        /\ heard' = [Hearing EXCEPT !.sized = FALSE, !.fits = FALSE]
        /\ UNCHANGED <<child, pinned, trouble, origin, head, canceled, place, held, manifest>>
    BY <1>2 DEF Conclude, Raise, Outcome
  <2>2. \/ /\ Hearing.error \/ child = "crashed" \/ Hearing.done = 0
           /\ thread' = "stop" /\ ending' = "failed"
        \/ thread' = "validate" /\ UNCHANGED ending
    BY <1>2 DEF Conclude, Raise, Outcome
  <2>3. /\ heard' \in [done : 0..MaxCommits, error : BOOLEAN, sized : BOOLEAN, fits : BOOLEAN]
        /\ heard'.error => trouble
        /\ heard'.done # 0 <=> Reported
    BY <2>1, HearingHasReason
  <2>4. Range(pipe') = {} /\ \A t : Said(t)' = {}
    BY <2>1, Emptied DEF Said
  <2>5. thread' = "stop" => trouble
    BY <2>1, <2>2, <2>3
  <2>6. CASE thread' = "stop" /\ ending' = "failed"
    BY <2>1, <2>3, <2>4, <2>5, <2>6
  <2>7. CASE thread' = "validate" /\ UNCHANGED ending
    BY <2>1, <2>3, <2>4, <2>7
  <2> QED
    BY <2>2, <2>6, <2>7
<1>3. ASSUME NEW part \in Parts, Copy(part) PROVE ReasonIInv'
  <2>1. <<part, 1>> \in Pieces
    BY CommitsAreCounted DEF Pieces
  <2> QED
    BY <1>3, <2>1 DEF Copy, Said
<1>4. ASSUME Enter PROVE ReasonIInv'
  BY <1>4 DEF Enter, ThreadGoes, Said
<1>5. ASSUME Begin PROVE ReasonIInv'
  BY <1>5 DEF Begin, ThreadGoes, Said
<1>6. ASSUME Spawn PROVE ReasonIInv'
  BY <1>6 DEF Spawn, ThreadGoes, Said
<1> QED
  BY <1>1, <1>2, <1>3, <1>4, <1>5, <1>6

\* The thread from the validation on, and everything that ends it early: an ending is raised
\* after the event was set, or when something outside went wrong.
LEMMA EndHasReason ==
    ASSUME ImportIInv, ReasonIInv,
           \/ Validate \/ Describe \/ Move \/ Settle
           \/ Interrupted \/ Stumble \/ StopChild \/ Clean
    PROVE  ReasonIInv'
<1> USE DEF ReasonIInv, DownloadTypeOK, ResolvedIsKnown, SilenceIsTrouble, ErrorsAreTrouble,
        EndingHasReason, Reported, ChildIdle, Children, ChildAlive, Threads, Trying, Ended, directory
<1>1. ASSUME Validate PROVE ReasonIInv'
  <2>1. /\ thread = "validate" /\ UNCHANGED <<child, pinned, pipe, heard>>
        /\ UNCHANGED <<origin, head, canceled, place, held, manifest>>
        /\ \/ thread' = "describe" /\ UNCHANGED <<ending, trouble>>
           \/ thread' = "stop" /\ ending' = "failed" /\ trouble' = TRUE
    BY <1>1 DEF Validate, Raise
  <2>2. \A t : Said(t)' = Said(t)
    BY <2>1 DEF Said
  <2>3. CASE thread' = "describe" /\ UNCHANGED <<ending, trouble>>
    BY <2>1, <2>2, <2>3
  <2>4. CASE thread' = "stop" /\ ending' = "failed" /\ trouble' = TRUE
    BY <2>1, <2>2, <2>4
  <2> QED
    BY <2>1, <2>3, <2>4
<1>2. ASSUME Describe PROVE ReasonIInv'
  BY <1>2 DEF Describe, ThreadGoes, Said
<1>3. ASSUME Move PROVE ReasonIInv'
  BY <1>3 DEF Move, ThreadGoes, Said
<1>4. ASSUME Settle PROVE ReasonIInv'
  <2>1. /\ thread = "settle" /\ UNCHANGED <<origin, head, ending, canceled, place, held, manifest>>
        /\ UNCHANGED <<child, pinned, pipe, heard>>
        /\ \/ thread' = "done" /\ UNCHANGED trouble
           \/ thread' = "failed" /\ trouble' = TRUE
    BY <1>4 DEF Settle, ThreadGoes
  <2>2. \A t : Said(t)' = Said(t)
    BY <2>1 DEF Said
  <2>3. CASE thread' = "done" /\ UNCHANGED trouble
    BY <2>1, <2>2, <2>3
  <2>4. CASE thread' = "failed" /\ trouble' = TRUE
    BY <2>1, <2>2, <2>4
  <2> QED
    BY <2>1, <2>3, <2>4
<1>5. ASSUME Interrupted PROVE ReasonIInv'
  BY <1>5 DEF Interrupted, Raise, Said
<1>6. ASSUME Stumble PROVE ReasonIInv'
  BY <1>6 DEF Stumble, Raise, Said
<1>7. ASSUME StopChild PROVE ReasonIInv'
  BY <1>7 DEF StopChild, Stopped, ThreadGoes, Said
<1>8. ASSUME Clean PROVE ReasonIInv'
  <2>1. MaxCommits \in Nat /\ ending \in {"canceled", "failed"}
    BY <1>8, CommitsAreCounted DEF Clean, ImportIInv, StopHasEnding
  <2> QED
    BY <1>8, <2>1 DEF Clean, NoManifest, Said
<1> QED
  BY <1>1, <1>2, <1>3, <1>4, <1>5, <1>6, <1>7, <1>8

\* The branch moves, somebody cancels, or nothing happens to the import.
LEMMA OutsideHasReason ==
    ASSUME ReasonIInv, HeadMoves \/ Cancel \/ UNCHANGED downloadVars
    PROVE  ReasonIInv'
<1> USE DEF ReasonIInv, DownloadTypeOK, ResolvedIsKnown, SilenceIsTrouble, ErrorsAreTrouble,
        EndingHasReason, Reported, directory, watched
<1>1. ASSUME HeadMoves PROVE ReasonIInv'
  <2>1. head' \in Commits
    BY <1>1, CommitsAreCounted DEF HeadMoves, Commits
  <2> QED
    BY <1>1, <2>1 DEF HeadMoves, Said
<1>2. ASSUME Cancel PROVE ReasonIInv'
  BY <1>2 DEF Cancel, Said
<1>3. ASSUME UNCHANGED downloadVars PROVE ReasonIInv'
  BY <1>3 DEF downloadVars, Said
<1> QED
  BY <1>1, <1>2, <1>3

\* Every step of the pipeline keeps what is known of an import's end.
LEMMA NextHasReason == ImportIInv /\ ReasonIInv /\ [Next]_vars => ReasonIInv'
<1> SUFFICES ASSUME ImportIInv, ReasonIInv, [Next]_vars PROVE ReasonIInv'
  OBVIOUS
<1>1. CASE Import
  BY <1>1, ChildHasReason, TransferHasReason, EndHasReason, OutsideHasReason
     DEF Import, DownloadNext, ThreadNext
<1>2. CASE Start \/ Train \/ UNCHANGED vars
  <2>1. UNCHANGED downloadVars
    BY <1>2 DEF Start, Train, vars
  <2> QED
    BY <2>1, OutsideHasReason
<1> QED
  BY <1>1, <1>2 DEF Next

\* An import that has not begun.
LEMMA InitHasReason == Init => ReasonIInv
<1> SUFFICES ASSUME DownloadInit PROVE ReasonIInv
  BY DEF Init
<1> USE DEF DownloadInit, Unresolved, NothingHeard, NoManifest
<1>1. Range(pipe) = {} /\ \A t : Said(t) = {}
  BY DEF Said, Range
<1>2. DownloadTypeOK
  <2>1. MaxCommits \in Nat /\ head \in Commits
    BY CommitsAreCounted
  <2>2. /\ pinned \in [commit : 0..MaxCommits, sized : BOOLEAN]
        /\ heard \in [done : 0..MaxCommits, error : BOOLEAN, sized : BOOLEAN, fits : BOOLEAN]
    BY <2>1
  <2>3. thread \in Threads /\ child \in Children
    BY DEF Threads, Children
  <2>4. held = {} /\ manifest.lists = {} /\ manifest.revision \in 0..MaxCommits
    BY <2>1
  <2>5. /\ origin \in Origins /\ ending = "none" /\ place = "none"
        /\ canceled = FALSE /\ trouble = FALSE
    OBVIOUS
  <2> HIDE DEF DownloadInit
  <2> QED
    BY <1>1, <2>1, <2>2, <2>3, <2>4, <2>5 DEF DownloadTypeOK
<1>3. ResolvedIsKnown /\ SilenceIsTrouble /\ ErrorsAreTrouble /\ EndingHasReason
  BY <1>1 DEF ResolvedIsKnown, SilenceIsTrouble, ErrorsAreTrouble, EndingHasReason, Reported
<1> QED
  BY <1>2, <1>3 DEF ReasonIInv

-----------------------------------------------------------------------------
(***************************************************************************)
(* Why a job fails: proofs for any base models, layouts, stops and faults. *)
(***************************************************************************)
\* The reasons a failure may have.
Explained ==
    \/ fault \/ desired = "terminated" \/ "tokenizer" \notin base.kinds \/ "unfit" \in output

\* A signal was asked for, and a process that nobody stopped has failed by itself.
StopIsAsked == flag.set => desired = "terminated"
LeaderHasReason == group.leader = "failed" => fault \/ flag.forwarded

\* Nothing executable is left once the directory was swept.
SweptStaysClean ==
    phase = "check" \/ group.of = "export" \/ exit = 0 => "pickle" \notin output

\* Without a fault the files are what the trainer and the export meant to write.
ResultIsSound ==
    PastTraining =>
        /\ state[0] = "whole" /\ (algorithm = "lora" => "adapter" \in output)
        /\ ~fault => (algorithm = "freeze" => model \in Saved)
MergeIsSound ==
    ~fault =>
        /\ group.of = "export" /\ group.leader = "done" /\ phase # "final" => staged \in Saved
        /\ phase = "final" \/ exit = 0 => model \in Saved

ExitHasReason == exit \notin {-1, 0} => Explained
RowHasReason ==
    /\ row.status = "failed" => Explained
    /\ row.status = "refused" => {"code", "unfit"} \cap base.kinds # {}
    /\ poll.open => row.status = "running"

FailureIInv ==
    /\ StopIsAsked /\ LeaderHasReason /\ SweptStaysClean /\ ResultIsSound /\ MergeIsSound
    /\ ExitHasReason /\ RowHasReason

-----------------------------------------------------------------------------
\* A whole sequence of shards has no single file in it.
LEMMA ShardsAreNotSingle == Single \notin ShardNames
  BY DEF Single, ShardNames

\* The control plane accepts what the importer has stored, unless there is code in it or a file
\* that only its own scan refuses.
LEMMA ImportedIsDeployable ==
    ASSUME NEW d, ImporterAccepts(d), "code" \notin d.kinds, "unfit" \notin d.kinds
    PROVE  ValidateDeployable(d)
<1>1. /\ {"config", "tokenizer_config"} \subseteq d.kinds
      /\ {"tokenizer", "sentencepiece"} \cap d.kinds # {} /\ "pickle" \notin d.kinds
      /\ d.typed /\ ~d.remote
      /\ SelectWeightFiles(d) /\ d.torn = {} /\ \A f \in DOMAIN d.weights : d.weights[f] # {}
  BY DEF ImporterAccepts, ReadableWeights
<1>2. CASE OneWeight(d)
  <2>1. DOMAIN d.weights = {Single} /\ d.index = NoIndex
    BY <1>2 DEF OneWeight
  <2> QED
    BY <1>1, <2>1 DEF ValidateDeployable, RejectsExport, ScanTree
<1>3. CASE ~OneWeight(d)
  <2>1. d.index # NoIndex /\ DOMAIN d.weights = Range(d.index) /\ Range(d.index) \subseteq ShardNames
    BY <1>1, <1>3 DEF SelectWeightFiles, WholeSequence
  <2>2. Single \notin DOMAIN d.weights
    BY <2>1, ShardsAreNotSingle
  <2> QED
    BY <1>1, <2>1, <2>2 DEF ValidateDeployable, RejectsExport, ScanTree
<1> QED
  BY <1>2, <1>3

\* What was saved of a base model with a tokenizer the runtime knows passes the validators of
\* the runtime and of the control plane, from merged/ and from a root that was swept.
LEMMA SavedIsAccepted ==
    ASSUME NEW d \in Saved, "tokenizer" \in base.kinds
    PROVE  /\ ValidateDeployable(d) /\ ValidateFullModel(d)
           /\ d.kinds \cap {"pickle", "code", "unfit"} = {}
           /\ "pickle" \notin output => InRoot(d) = d
<1>1. PICK l \in Layouts :
         \E payload \in {base.kinds \cap Payloads, (base.kinds \cap Payloads) \cup {"tokenizer"}} :
            d = [kinds |-> {"config", "tokenizer_config"} \cup payload, weights |-> l.weights,
                 index |-> l.index, torn |-> {}, typed |-> TRUE, remote |-> FALSE]
  BY DEF Saved
<1>2. PICK payload \in SUBSET Payloads :
         /\ d = [kinds |-> {"config", "tokenizer_config"} \cup payload, weights |-> l.weights,
                 index |-> l.index, torn |-> {}, typed |-> TRUE, remote |-> FALSE]
         /\ "tokenizer" \in payload
  BY <1>1 DEF Payloads
<1>3. /\ d.kinds = {"config", "tokenizer_config"} \cup payload /\ d.weights = l.weights
      /\ d.index = l.index /\ d.torn = {} /\ d.typed = TRUE /\ d.remote = FALSE
  BY <1>2
<1>4. /\ {"config", "tokenizer_config", "tokenizer"} \subseteq d.kinds
      /\ d.kinds \cap {"pickle", "code", "unfit"} = {}
  BY <1>2, <1>3 DEF Payloads
<1>5. \A f \in DOMAIN d.weights : d.weights[f] # {}
  BY SavedIsLoadable DEF Range
<1>6. DOMAIN d.weights # {}
  BY SavedIsLoadable DEF Loadable, Stored, Range
<1>7. \/ DOMAIN d.weights = {Single} /\ d.index = NoIndex
      \/ /\ d.index # NoIndex /\ DOMAIN d.weights = Range(d.index)
         /\ Range(d.index) \subseteq ShardNames
  <2>1. SelectWeightFiles(l)
    BY TrainingAssumption, Zenon
  <2> QED
    BY <1>3, <2>1 DEF SelectWeightFiles, OneWeight, WholeSequence
<1>8. ASSUME DOMAIN d.weights = {Single} /\ d.index = NoIndex
      PROVE  ValidateDeployable(d) /\ ValidateFullModel(d)
  <2>1. Range(d.index) = {}
    BY <1>8 DEF NoIndex, Range
  <2>2. ValidateDeployable(d)
    BY <1>3, <1>4, <1>5, <1>8 DEF ValidateDeployable, RejectsExport, ScanTree
  <2>3. ValidateFullModel(d)
    BY <1>3, <1>4, <1>6, <2>1 DEF ValidateFullModel
  <2> QED
    BY <2>2, <2>3
<1>9. ASSUME d.index # NoIndex /\ DOMAIN d.weights = Range(d.index),
             Range(d.index) \subseteq ShardNames
      PROVE  ValidateDeployable(d) /\ ValidateFullModel(d)
  <2>1. Single \notin DOMAIN d.weights
    BY <1>9, ShardsAreNotSingle
  <2>2. ValidateDeployable(d)
    BY <1>3, <1>4, <1>5, <1>9, <2>1 DEF ValidateDeployable, RejectsExport, ScanTree
  <2>3. ValidateFullModel(d)
    BY <1>3, <1>4, <1>6, <1>9 DEF ValidateFullModel
  <2> QED
    BY <2>2, <2>3
<1>10. ASSUME "pickle" \notin output PROVE InRoot(d) = d
  <2>1. output \cap {"pickle"} = {}
    BY <1>10
  <2> QED
    BY <1>2, <1>3, <2>1 DEF InRoot
<1> QED
  BY <1>4, <1>7, <1>8, <1>9, <1>10

-----------------------------------------------------------------------------
\* A row that does not change keeps its reason, because reasons stay.
LEMMA ReasonsStay ==
    ASSUME FailureIInv, UNCHANGED <<base, exit, row, poll>>, fault => fault',
           desired = "terminated" => desired' = "terminated",
           "unfit" \in output => "unfit" \in output'
    PROVE  ExitHasReason' /\ RowHasReason'
  BY DEF FailureIInv, ExitHasReason, RowHasReason, Explained

\* Process 1 ends with another code than 0, for a reason.
LEMMA FailedExitHasReason ==
    ASSUME FailureIInv, NEW code \in {1, 137, 143}, Exits(code), Explained'
    PROVE  FailureIInv'
<1>1. /\ phase' = "exited" /\ exit' = code /\ group' = NoGroup
      /\ UNCHANGED <<flag, algorithm, base, poll, row, desired>>
  BY DEF Exits, OnlyContainer, control
<1>2. ~PastTraining'
  BY <1>1 DEF PastTraining, NoGroup
<1> QED
  BY <1>1, <1>2 DEF FailureIInv, StopIsAsked, LeaderHasReason, SweptStaysClean, ResultIsSound,
       MergeIsSound, ExitHasReason, RowHasReason, NoGroup

\* The trainer, the export and their processes.
LEMMA TrainerHasReason ==
    ASSUME TrainingIInv, TrainingTypeOK, FailureIInv, TrainerNext
    PROVE  FailureIInv'
<1> USE DEF TrainingIInv, ForwardedIsSet, GroupFollowsPhase, ExitFollowsPhase,
        PastTraining, NoGroup, FailureIInv, StopIsAsked, LeaderHasReason, SweptStaysClean,
        ResultIsSound, MergeIsSound
<1>t. group \in Groups
  BY DEF TrainingTypeOK, Groups
<1>u. UNCHANGED base => Saved' = Saved /\ Damaged' = Damaged
  BY WrittenStays
<1>1. ASSUME NEW s \in 0..MaxStep, WriteState(s) PROVE FailureIInv'
  <2>1. /\ phase = "train" /\ group.leader = "up" /\ exit = -1
        /\ UNCHANGED <<algorithm, base, phase, group, flag, exit, poll, row, desired, fault>>
        /\ output \subseteq output' /\ UNCHANGED <<staged, model>>
    BY <1>1 DEF WriteState, Working, OnlyFiles, container, control
  <2>2. ExitHasReason' /\ RowHasReason'
    BY <2>1, ReasonsStay
  <2> QED
    BY <2>1, <2>2
<1>2. ASSUME NEW s \in 0..MaxStep, Rotate(s) PROVE FailureIInv'
  <2>1. /\ phase = "train" /\ group.leader = "up" /\ exit = -1
        /\ UNCHANGED <<algorithm, base, phase, group, flag, exit, poll, row, desired, fault>>
        /\ output \subseteq output' /\ UNCHANGED <<staged, model>>
    BY <1>2 DEF Rotate, Working, OnlyFiles, container, control
  <2>2. ExitHasReason' /\ RowHasReason'
    BY <2>1, ReasonsStay
  <2> QED
    BY <2>1, <2>2
<1>3. ASSUME SaveModel PROVE FailureIInv'
  <2>1. /\ phase = "train" /\ group.leader = "up" /\ exit = -1
        /\ group' = [group EXCEPT !.leader = "done"]
        /\ output \cup {"pickle"} \cup Product \subseteq output'
        /\ state[0] = "whole" \/ flag.forwarded
        /\ algorithm = "freeze" => model' \in Saved \cup Damaged
        /\ fault' = (fault \/ model' \in Damaged)
        /\ UNCHANGED <<algorithm, base, phase, flag, exit, poll, row, desired, state, staged>>
    BY <1>3 DEF SaveModel, Working, Leader, control, Grown
  <2>2. group'.leader = "done" /\ group'.of = group.of /\ group.of = "train"
    BY <1>t, <2>1 DEF Groups
  <2>3. ExitHasReason' /\ RowHasReason'
    BY <2>1, ReasonsStay
  <2>4. ResultIsSound'
    BY <1>u, <2>1, <2>2 DEF Product
  <2> QED
    BY <2>1, <2>2, <2>3, <2>4
<1>4. ASSUME Export PROVE FailureIInv'
  <2>1. /\ phase = "export" /\ group.leader = "up" /\ exit = -1 /\ group.of = "export"
        /\ \/ UNCHANGED group
           \/ staged' \in Saved \cup Damaged /\ group' = [group EXCEPT !.leader = "done"]
        /\ fault' = (fault \/ staged' \in Damaged)
        /\ output \subseteq output'
        /\ "pickle" \in output' => "pickle" \in output
        /\ UNCHANGED <<algorithm, base, phase, flag, exit, poll, row, desired, state, model>>
    BY <1>4 DEF Export, Working, Leader, control, Grown
  <2>2. group'.of = "export" /\ (group'.leader = "done" => staged' \in Saved \cup Damaged)
        /\ group'.leader # "failed"
    BY <1>t, <2>1 DEF Groups
  <2>3. ExitHasReason' /\ RowHasReason'
    BY <2>1, ReasonsStay
  <2> QED
    BY <1>u, <2>1, <2>2, <2>3
<1>5. ASSUME LeaderFails PROVE FailureIInv'
  <2>1. /\ group.leader = "up" /\ group' = [group EXCEPT !.leader = "failed"]
        /\ fault' = (fault \/ ~flag.forwarded)
        /\ UNCHANGED <<algorithm, base, phase, flag, exit, poll, row, desired>>
        /\ UNCHANGED <<done, state, output, staged, model>>
    BY <1>5 DEF LeaderFails, Leader, files, control
  <2>2. group'.leader = "failed" /\ group'.of = group.of
    BY <1>t, <2>1 DEF Groups
  <2>3. ExitHasReason' /\ RowHasReason'
    BY <2>1, ReasonsStay
  <2> QED
    BY <1>u, <2>1, <2>2, <2>3
<1>6. ASSUME WorkerSaves PROVE FailureIInv'
  <2>1. /\ group.workers
        /\ UNCHANGED <<algorithm, base, phase, group, flag, exit, poll, row, desired, fault>>
        /\ UNCHANGED <<done, state, staged, model>> /\ output' = output \cup {"pickle"}
    BY <1>6 DEF WorkerSaves, OnlyFiles, container, control
  <2>2. ExitHasReason' /\ RowHasReason'
    BY <2>1, ReasonsStay
  <2>3. SweptStaysClean'
    BY <2>1
  <2> QED
    BY <1>u, <2>1, <2>2, <2>3
<1>7. ASSUME WorkersEnd PROVE FailureIInv'
  <2>1. /\ group' = [group EXCEPT !.workers = FALSE]
        /\ UNCHANGED <<algorithm, base, phase, flag, exit, poll, row, desired, fault>>
        /\ UNCHANGED <<done, state, output, staged, model>>
    BY <1>7 DEF WorkersEnd, files, control
  <2>2. group'.leader = group.leader /\ group'.of = group.of
    BY <1>t, <2>1 DEF Groups
  <2>3. ExitHasReason' /\ RowHasReason'
    BY <2>1, ReasonsStay
  <2> QED
    BY <1>u, <2>1, <2>2, <2>3
<1> QED
  BY <1>1, <1>2, <1>3, <1>4, <1>5, <1>6, <1>7 DEF TrainerNext

\* Process 1 from the signal it forwards to the command's end.
LEMMA SupervisorHasReason ==
    ASSUME TrainingIInv, TrainingTypeOK, FailureIInv,
           Forward \/ Escalate \/ Reap \/ Clear \/ CommandEnds
    PROVE  FailureIInv'
<1> USE DEF TrainingIInv, ForwardedIsSet, GroupFollowsPhase, ExitFollowsPhase,
        PastTraining, NoGroup, FailureIInv, StopIsAsked, LeaderHasReason, SweptStaysClean,
        ResultIsSound, MergeIsSound, OnlyContainer, control, files
<1>t. group \in Groups /\ flag \in [set : BOOLEAN, forwarded : BOOLEAN]
  BY DEF TrainingTypeOK, Groups
<1>u. UNCHANGED base => Saved' = Saved /\ Damaged' = Damaged
  BY WrittenStays
<1>1. ASSUME Forward PROVE FailureIInv'
  <2>1. /\ flag.set /\ group.leader = "up" /\ flag' = [flag EXCEPT !.forwarded = TRUE]
        /\ UNCHANGED <<algorithm, base, phase, group, exit, poll, row, desired, fault>>
        /\ UNCHANGED <<done, state, output, staged, model>>
    BY <1>1 DEF Forward
  <2>2. flag'.set = flag.set /\ flag'.forwarded = TRUE
    BY <1>t, <2>1
  <2>3. ExitHasReason' /\ RowHasReason'
    BY <2>1, ReasonsStay
  <2> QED
    BY <1>u, <2>1, <2>2, <2>3
<1>2. ASSUME Escalate PROVE FailureIInv'
  <2>1. /\ group.leader = "up" /\ flag.forwarded
        /\ group' = [group EXCEPT !.leader = "failed", !.workers = FALSE]
        /\ UNCHANGED <<algorithm, base, phase, flag, exit, poll, row, desired, fault>>
        /\ UNCHANGED <<done, state, output, staged, model>>
    BY <1>2 DEF Escalate, Overdue
  <2>2. group'.leader = "failed" /\ group'.of = group.of
    BY <1>t, <2>1 DEF Groups
  <2>3. ExitHasReason' /\ RowHasReason'
    BY <2>1, ReasonsStay
  <2> QED
    BY <1>u, <2>1, <2>2, <2>3
<1>3. ASSUME Reap PROVE FailureIInv'
  <2>1. ExitHasReason' /\ RowHasReason'
    BY <1>3, ReasonsStay DEF Reap
  <2> QED
    BY <1>3, <1>u, <2>1 DEF Reap
<1>4. ASSUME Clear PROVE FailureIInv'
  <2>1. /\ group' = [group EXCEPT !.workers = FALSE]
        /\ UNCHANGED <<algorithm, base, phase, flag, exit, poll, row, desired, fault>>
        /\ UNCHANGED <<done, state, output, staged, model>>
    BY <1>4 DEF Clear
  <2>2. group'.leader = group.leader /\ group'.of = group.of
    BY <1>t, <2>1 DEF Groups
  <2>3. ExitHasReason' /\ RowHasReason'
    BY <2>1, ReasonsStay
  <2> QED
    BY <1>u, <2>1, <2>2, <2>3
<1>5. ASSUME CommandEnds PROVE FailureIInv'
  <2>1. CASE flag.set \/ group.leader = "failed"
    <3>1. /\ \E code \in {1, 143} : Exits(code)
          /\ UNCHANGED <<fault, desired, base>>
      BY <1>5, <2>1 DEF CommandEnds, CommandInterrupted, Exits
    <3>2. Explained'
      BY <2>1, <3>1 DEF Explained
    <3> QED
      BY <3>1, <3>2, FailedExitHasReason
  <2>2. CASE ~(flag.set \/ group.leader = "failed")
    <3>1. /\ phase = "clear" /\ ~group.workers /\ group.leader # "up"
          /\ phase' = IF group.of = "train" THEN "sweep" ELSE "judge"
          /\ UNCHANGED <<algorithm, base, group, flag, exit, poll, row, desired, fault>>
          /\ UNCHANGED <<done, state, output, staged, model>>
      BY <1>5, <2>2 DEF CommandEnds, CommandInterrupted, GroupExists, Goes
    <3>2. group.leader = "done" /\ group.of \in {"train", "export"}
      BY <1>t, <2>2, <3>1 DEF Groups
    <3>3. ExitHasReason' /\ RowHasReason'
      BY <3>1, ReasonsStay
    <3>4. group.of = "export" => "pickle" \notin output
      BY <3>1
    <3> QED
      BY <1>u, <2>2, <3>1, <3>2, <3>3, <3>4
  <2> QED
    BY <2>1, <2>2
<1> QED
  BY <1>1, <1>2, <1>3, <1>4, <1>5

\* Without a fault what is there to be validated passes: the adapter or the model of the
\* training, the merge, and the result.
LEMMA SoundIsValid ==
    ASSUME TrainingIInv, FailureIInv, "tokenizer" \in base.kinds, ~fault
    PROVE  /\ phase = "check" /\ algorithm = "freeze" => ValidateFullModel(Complete)
           /\ phase = "check" /\ algorithm = "lora" => ValidateAdapter(output)
           /\ phase = "judge" => ValidateFullModel(staged)
           /\ phase = "final" => ValidateFullModel(model)
           /\ exit = 0 => /\ state[0] = "whole" /\ (algorithm = "lora" => ValidateAdapter(output))
                          /\ ValidateFullModel(Complete) /\ ValidateDeployable(Complete)
                          /\ model.kinds \cap {"pickle", "code", "unfit"} = {} /\ "pickle" \notin output
<1>1. phase = "check" \/ exit = 0 => /\ PastTraining /\ "pickle" \notin output /\ state[0] = "whole"
                                     /\ algorithm = "lora" => "adapter" \in output
  BY DEF PastTraining, FailureIInv, SweptStaysClean, ResultIsSound
<1>2. phase = "check" /\ algorithm = "freeze" => model \in Saved
  BY <1>1 DEF FailureIInv, ResultIsSound
<1>3. phase = "final" \/ exit = 0 => model \in Saved
  BY DEF FailureIInv, MergeIsSound
<1>4. phase = "judge" => staged \in Saved
  BY DEF FailureIInv, MergeIsSound, TrainingIInv, GroupFollowsPhase
<1>5. model \in Saved /\ "pickle" \notin output => Complete = model
  BY SavedIsAccepted DEF Complete
<1> QED
  BY <1>1, <1>2, <1>3, <1>4, <1>5, SavedIsAccepted DEF ValidateAdapter

\* Process 1 between the commands.
LEMMA BetweenHasReason ==
    ASSUME TrainingIInv, TrainingTypeOK, FailureIInv, Sweep \/ Check \/ Judge \/ Final \/ StepFails
    PROVE  FailureIInv'
<1> USE DEF TrainingIInv, ForwardedIsSet, GroupFollowsPhase, ExitFollowsPhase,
        PastTraining, NoGroup, FailureIInv, StopIsAsked, LeaderHasReason, SweptStaysClean,
        ResultIsSound, MergeIsSound, OnlyContainer, control, files
<1>u. UNCHANGED base => Saved' = Saved /\ Damaged' = Damaged
  BY WrittenStays
<1>1. ASSUME StepFails PROVE FailureIInv'
  BY <1>1, FailedExitHasReason DEF StepFails, Explained
<1>2. ASSUME Sweep PROVE FailureIInv'
  <2>1. /\ phase = "sweep" /\ phase' = "check" /\ output' = output \ {"pickle"}
        /\ UNCHANGED <<algorithm, base, group, flag, exit, poll, row, desired, fault>>
        /\ UNCHANGED <<done, state, staged, model>>
    BY <1>2 DEF Sweep, Goes
  <2>2. ExitHasReason' /\ RowHasReason'
    BY <2>1, ReasonsStay
  <2> QED
    BY <1>u, <2>1, <2>2
<1>3. ASSUME Check PROVE FailureIInv'
  <2>1. phase = "check" /\ exit = -1 /\ UNCHANGED <<done, state, output, staged, model, fault>>
    BY <1>3 DEF Check
  <2>2. \/ /\ algorithm = "freeze" /\ ValidateFullModel(Complete) /\ Exits(0)
        \/ /\ algorithm = "lora" /\ phase' = "export"
           /\ group' = [of |-> "export", leader |-> "up", workers |-> FALSE]
           /\ UNCHANGED <<algorithm, base, flag, exit, poll, row, desired>>
        \/ Exits(1) /\ algorithm = "freeze" /\ ~ValidateFullModel(Complete)
        \/ Exits(1) /\ algorithm = "lora" /\ ~ValidateAdapter(output)
        \/ Exits(143) /\ flag.set
    <3>1. algorithm \in {"freeze", "lora"}
      BY <2>1 DEF TrainingTyped, TrainingTypeOK
    <3>2. CASE algorithm = "freeze"
      BY <1>3, <3>2 DEF Check
    <3>3. CASE algorithm = "lora"
      BY <1>3, <3>3 DEF Check, Goes
    <3> QED
      BY <3>1, <3>2, <3>3
  <2>3. CASE algorithm = "freeze" /\ ValidateFullModel(Complete) /\ Exits(0)
    <3>1. /\ phase' = "exited" /\ exit' = 0 /\ group' = NoGroup
          /\ UNCHANGED <<flag, algorithm, base, poll, row, desired>>
      BY <2>3 DEF Exits
    <3>2. ExitHasReason' /\ RowHasReason'
      BY <2>1, <3>1 DEF ExitHasReason, RowHasReason, Explained
    <3> QED
      BY <1>u, <2>1, <2>3, <3>1, <3>2
  <2>4. CASE /\ algorithm = "lora" /\ phase' = "export"
             /\ group' = [of |-> "export", leader |-> "up", workers |-> FALSE]
             /\ UNCHANGED <<algorithm, base, flag, exit, poll, row, desired>>
    <3>1. ExitHasReason' /\ RowHasReason'
      BY <2>1, <2>4, ReasonsStay
    <3> QED
      BY <1>u, <2>1, <2>4, <3>1
  <2>5. CASE \/ Exits(1) /\ algorithm = "freeze" /\ ~ValidateFullModel(Complete)
             \/ Exits(1) /\ algorithm = "lora" /\ ~ValidateAdapter(output)
             \/ Exits(143) /\ flag.set
    <3>1. Explained /\ \E code \in {1, 143} : Exits(code)
      BY <2>1, <2>5, SoundIsValid DEF Explained
    <3>2. UNCHANGED <<fault, desired, base, output>>
      BY <1>3, <2>1, <3>1 DEF Exits, Check, files
    <3>3. Explained'
      BY <3>1, <3>2 DEF Explained
    <3> QED
      BY <3>1, <3>3, FailedExitHasReason
  <2> QED
    BY <2>2, <2>3, <2>4, <2>5
<1>4. ASSUME Judge PROVE FailureIInv'
  <2>1. CASE ValidateFullModel(staged)
    <3>1. /\ phase = "judge" /\ phase' = "final" /\ staged' = NoDirectory /\ model' = staged
          /\ UNCHANGED <<algorithm, base, group, flag, exit, poll, row, desired, fault>>
          /\ UNCHANGED <<done, state, output>>
      BY <1>4, <2>1 DEF Judge, Goes
    <3>2. ExitHasReason' /\ RowHasReason'
      BY <3>1, ReasonsStay
    <3> QED
      BY <1>u, <3>1, <3>2
  <2>2. CASE ~ValidateFullModel(staged)
    <3>1. phase = "judge" /\ Exits(1) /\ UNCHANGED <<fault, desired, base>>
      BY <1>4, <2>2 DEF Judge, Exits
    <3>2. Explained'
      BY <2>2, <3>1, SoundIsValid DEF Explained
    <3> QED
      BY <3>1, <3>2, FailedExitHasReason
  <2> QED
    BY <2>1, <2>2
<1>5. ASSUME Final PROVE FailureIInv'
  <2>0. phase = "final" /\ exit = -1 /\ UNCHANGED <<done, state, output, staged, model, fault>>
    BY <1>5 DEF Final
  <2>1. CASE ValidateFullModel(model)
    <3>1. /\ phase' = "exited" /\ exit' = 0 /\ group' = NoGroup
          /\ UNCHANGED <<flag, algorithm, base, poll, row, desired>>
      BY <1>5, <2>1 DEF Final, Exits
    <3>2. ExitHasReason' /\ RowHasReason'
      BY <2>0, <3>1 DEF ExitHasReason, RowHasReason, Explained
    <3> QED
      BY <1>u, <2>0, <3>1, <3>2
  <2>2. CASE ~ValidateFullModel(model)
    <3>1. Exits(1) /\ UNCHANGED <<desired, base>>
      BY <1>5, <2>2 DEF Final, Exits
    <3>2. Explained'
      BY <2>0, <2>2, <3>1, SoundIsValid DEF Explained
    <3> QED
      BY <3>1, <3>2, FailedExitHasReason
  <2> QED
    BY <2>1, <2>2
<1> QED
  BY <1>1, <1>2, <1>3, <1>4, <1>5

\* Requests, Docker, the agent's reading and the reconciler.
LEMMA ControlHasReason ==
    ASSUME TrainingIInv, TrainingTypeOK, FailureIInv,
           Terminate \/ Deliver \/ DockerKill \/ ContainerDies \/ List \/ Read
    PROVE  FailureIInv'
<1> USE DEF FailureIInv, StopIsAsked, LeaderHasReason, SweptStaysClean, ResultIsSound,
        MergeIsSound, PastTraining, container, files, control, OnlyContainer
<1>u. UNCHANGED base => Saved' = Saved /\ Damaged' = Damaged
  BY WrittenStays
<1>0. ASSUME UNCHANGED <<algorithm, base, phase, group, flag, exit, fault>>,
             UNCHANGED <<done, state, output, staged, model>>, RowHasReason', ExitHasReason',
             desired = "terminated" => desired' = "terminated"
      PROVE  FailureIInv'
  BY <1>0, <1>u
<1>1. ASSUME Terminate PROVE FailureIInv'
  <2>1. /\ desired' = "terminated" /\ UNCHANGED <<algorithm, base, container, files, poll, fault>>
        /\ row' = IF row.status = "queued" THEN [row EXCEPT !.status = "canceled"] ELSE row
    BY <1>1 DEF Terminate
  <2>2. row'.status \in {"canceled", row.status} /\ (row.status = "running" => row' = row)
    BY <2>1 DEF TrainingTypeOK
  <2>3. RowHasReason' /\ ExitHasReason'
    BY <2>1, <2>2 DEF RowHasReason, ExitHasReason, Explained
  <2> QED
    BY <1>0, <2>1, <2>3
<1>2. ASSUME Deliver PROVE FailureIInv'
  <2>1. /\ desired = "terminated" /\ flag' = [flag EXCEPT !.set = TRUE]
        /\ UNCHANGED <<algorithm, base, phase, group, exit, poll, row, desired, fault>>
        /\ UNCHANGED <<done, state, output, staged, model>>
    BY <1>2 DEF Deliver
  <2>2. flag'.set = TRUE /\ flag'.forwarded = flag.forwarded
    BY <2>1 DEF TrainingTypeOK
  <2>3. RowHasReason' /\ ExitHasReason'
    BY <2>1, ReasonsStay
  <2> QED
    BY <1>u, <2>1, <2>2, <2>3
<1>3. ASSUME DockerKill PROVE FailureIInv'
  <2>1. Exits(137) /\ desired = "terminated" /\ UNCHANGED desired
    BY <1>3 DEF DockerKill, Exits
  <2> QED
    BY <2>1, FailedExitHasReason DEF Explained
<1>4. ASSUME ContainerDies PROVE FailureIInv'
  BY <1>4, FailedExitHasReason DEF ContainerDies, Explained
<1>5. ASSUME List PROVE FailureIInv'
  <2>1. /\ row.status = "running"
        /\ UNCHANGED <<algorithm, base, container, files, row, desired, fault>>
    BY <1>5 DEF List
  <2>2. RowHasReason' /\ ExitHasReason'
    BY <2>1 DEF RowHasReason, ExitHasReason, Explained
  <2> QED
    BY <1>0, <2>1, <2>2
<1>6. ASSUME Read PROVE FailureIInv'
  <2>1. /\ poll.open /\ poll' = NoPoll
        /\ UNCHANGED <<algorithm, base, container, files, desired, fault>>
    BY <1>6 DEF Read
  <2>2. row.status = "running"
    BY <2>1 DEF RowHasReason
  <2>3. row'.status \in CASE poll.code = -1 -> {row.status}
                          [] poll.code = 0 -> {CompletedStatus}
                          [] OTHER -> IF desired = "terminated" THEN {"canceled", "failed"}
                                      ELSE {"failed"}
    BY <1>6 DEF Read
  <2>4. row'.status # "refused"
    BY <2>2, <2>3 DEF CompletedStatus
  <2>5. row'.status = "failed" => Explained
    <3>1. CASE poll.code = -1
      BY <2>2, <2>3, <3>1
    <3>2. CASE poll.code = 0
      <4>1. exit = 0
        BY <3>2 DEF TrainingIInv, ExitFollowsPhase
      <4> SUFFICES ASSUME ~Explained PROVE CompletedStatus = "succeeded"
        BY <2>3, <3>2
      <4>2. /\ state[0] = "whole" /\ (algorithm = "lora" => ValidateAdapter(output))
            /\ ValidateFullModel(Complete) /\ ValidateDeployable(Complete)
            /\ model.kinds \cap {"pickle", "code", "unfit"} = {} /\ "pickle" \notin output
        BY <4>1, SoundIsValid DEF Explained
      <4>3. "code" \notin output /\ "unfit" \notin output
        BY DEF TrainingTypeOK, Explained
      <4> QED
        BY <4>2, <4>3 DEF CompletedStatus, AgentAccepts, ControlPlaneAccepts, RejectsExport,
                                   ScanTree
    <3>3. CASE poll.code \notin {-1, 0}
      BY <3>3 DEF TrainingIInv, ExitFollowsPhase, ExitHasReason
    <3> QED
      BY <3>1, <3>2, <3>3
  <2>6. Explained' = Explained
    BY <2>1 DEF Explained
  <2>7. RowHasReason' /\ ExitHasReason'
    BY <2>1, <2>4, <2>5, <2>6 DEF RowHasReason, ExitHasReason, NoPoll
  <2> QED
    BY <1>0, <2>1, <2>7
<1> QED
  BY <1>1, <1>2, <1>3, <1>4, <1>5, <1>6

\* A job on a directory that was imported is refused only for the code in it or its scan.
LEMMA LaunchHasReason ==
    ASSUME TrainingIInv, TrainingTypeOK, FailureIInv, NEW d, ImporterAccepts(d), Launch(d)
    PROVE  FailureIInv'
<1>1. /\ phase = "none" /\ group = NoGroup /\ exit = -1 /\ row.status = "queued" /\ base' = d
      /\ UNCHANGED <<flag, exit, done, state, output, staged, model, poll, desired, fault>>
  BY DEF Launch, files, TrainingIInv, GroupFollowsPhase, ExitFollowsPhase
<1>2. \/ /\ phase' = "train" /\ group' = [of |-> "train", leader |-> "up", workers |-> TRUE]
         /\ row' = [row EXCEPT !.status = "running"]
      \/ /\ {"code", "unfit"} \cap d.kinds # {} /\ UNCHANGED <<phase, group>>
         /\ row' = [row EXCEPT !.status = "refused"]
  BY ImportedIsDeployable DEF Launch
<1>3. row'.status = "running" \/ (row'.status = "refused" /\ {"code", "unfit"} \cap d.kinds # {})
  BY <1>2 DEF TrainingTypeOK
<1>4. ~poll.open
  BY <1>1 DEF FailureIInv, RowHasReason
<1>5. RowHasReason' /\ ExitHasReason'
  BY <1>1, <1>3, <1>4 DEF RowHasReason, ExitHasReason
<1>6. group'.leader # "failed" /\ phase' \in {"none", "train"} /\ group'.of \in {"none", "train"}
      /\ group'.leader # "done"
  BY <1>1, <1>2 DEF NoGroup
<1> QED
  BY <1>1, <1>5, <1>6 DEF FailureIInv, StopIsAsked, LeaderHasReason, SweptStaysClean,
       ResultIsSound, MergeIsSound, PastTraining

\* Every step of the pipeline keeps what is known of a job's end.
LEMMA NextFailure ==
    ASSUME ImportIInv, TrainingIInv, TrainingTypeOK, FailureIInv, [Next]_vars
    PROVE  FailureIInv'
<1>1. CASE Train
  BY <1>1, TrainerHasReason, SupervisorHasReason, BetweenHasReason, ControlHasReason
     DEF Train, TrainingNext, Supervise
<1>2. CASE Start
  <2>1. ImporterAccepts(origin.directory)
    BY <1>2 DEF Start, ImportIInv, AcceptedOnceChecked, PlaceFollowsThread
  <2> QED
    BY <1>2, <2>1, LaunchHasReason DEF Start
<1>3. CASE UNCHANGED trainingVars
  <2>1. Saved' = Saved
    BY <1>3, WrittenStays DEF trainingVars
  <2> QED
    BY <1>3, <2>1
       DEF trainingVars, container, files, control, FailureIInv, StopIsAsked, LeaderHasReason,
           SweptStaysClean, ResultIsSound, MergeIsSound, PastTraining, ExitHasReason, RowHasReason,
           Explained
<1> QED
  BY <1>1, <1>2, <1>3 DEF Next, Import, vars

\* A job that has not started.
LEMMA InitFailure == Init => FailureIInv
  BY DEF Init, TrainingInit, NoFlag, NoPoll, NoGroup, FailureIInv, StopIsAsked, LeaderHasReason,
         SweptStaysClean, ResultIsSound, MergeIsSound, PastTraining, ExitHasReason, RowHasReason

-----------------------------------------------------------------------------
(***************************************************************************)
(* Theorems                                                                *)
(***************************************************************************)
\* The inductive invariant of the reasons of an import (ModelImporter.run and its except clauses,
\* _run_download_process).
THEOREM ReasonInvariant == Spec => []ReasonIInv
<1>1. Init => ReasonIInv
  BY InitHasReason
<1>2. ImportIInv /\ ReasonIInv /\ [Next]_vars => ReasonIInv'
  BY NextHasReason
<1> QED
  BY <1>1, <1>2, ImportInvariant, PTL DEF Spec

\* The variables of an import and of a training keep their types.
THEOREM PipelineTypes == Spec => []TypeOK
<1>1. ReasonIInv /\ ProgressIInv => TypeOK
  BY DEF ReasonIInv, ProgressIInv, TypeOK
<1> QED
  BY <1>1, ReasonInvariant, ProgressInvariant, PTL

\* The inductive invariant of the reasons of a job (run_training, training_metadata,
\* apply_training_status).
THEOREM FailureInvariant == Spec => []FailureIInv
<1>1. Init => FailureIInv
  BY InitFailure
<1>2. ImportIInv /\ TrainingIInv /\ ProgressIInv /\ FailureIInv /\ [Next]_vars => FailureIInv'
  BY NextFailure DEF ProgressIInv
<1> QED
  BY <1>1, <1>2, ImportInvariant, TrainingInvariant, ProgressInvariant, PTL DEF Spec

\* Nothing fails for a reason of the program's own: each of its validators accepts what the
\* steps before it wrote, for any model that is imported and anything an export may write
\* (ModelImporter, run_training, training_metadata, the control plane's check of a result).
THEOREM FailuresHaveReasons == Spec => []FailuresAreExplained
<1>1. ReasonIInv /\ FailureIInv => FailuresAreExplained
  BY DEF ReasonIInv, EndingHasReason, FailureIInv, RowHasReason, Explained, FailuresAreExplained
<1> QED
  BY <1>1, ReasonInvariant, FailureInvariant, PTL
=============================================================================
