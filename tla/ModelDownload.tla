---------------------------- MODULE ModelDownload ----------------------------
(***************************************************************************)
(* The importer's thread in detail: ModelImporter.run.                     *)
(*                                                                         *)
(* A model comes from a directory of the inbox, copied by the thread, or   *)
(* from an online repository, downloaded by a child process.  The child    *)
(* resolves the requested revision to a commit, announces it, fetches the  *)
(* files of that commit and reports; the thread watches the child, hears   *)
(* its messages through a pipe and looks at the cancel event.  The staging *)
(* directory is then validated, described by a manifest and renamed.       *)
(*                                                                         *)
(* The service that owns the repository, the kernel's ending of processes  *)
(* and the event are external.  A signal ends the child, or leaves it in   *)
(* the kernel: either way it takes no further step of its own.             *)
(***************************************************************************)
EXTENDS ModelDirectory, Sequences

CONSTANTS Origins,    \* records of a source, "online" or "inbox", and the directory it holds
          Parts,      \* the pieces in which its files arrive
          Essential,  \* those without which no validator accepts the directory
          MaxCommits  \* bound: commits the branch goes through

ASSUME DownloadAssumption ==
    /\ Parts # {} /\ IsFiniteSet(Parts) /\ Essential \subseteq Parts
    /\ MaxCommits \in Nat \ {0}

VARIABLES origin,   \* the element of Origins that is imported
          head,     \* the commit of the branch
          thread,   \* what the importer's thread is doing
          ending,   \* how it will end, once an exception is on its way
          canceled, \* the event the thread checks
          child,    \* what the download process is doing
          pinned,   \* the commit the child has resolved, 0 before; whether its size is known
          pipe,     \* messages on their way to the thread
          heard,    \* what came: a "done" and its commit, an error, a size; whether it fits
          place,    \* where the directory is
          held,     \* the pieces in it, with the commit each is of
          manifest, \* the pieces the manifest lists, and its resolved revision
          trouble   \* something outside the program went wrong

watched == <<canceled, child, pinned, pipe>>
directory == <<place, held, manifest>>
downloadVars == <<origin, head, thread, ending, watched, heard, directory, trouble>>

Commits == 1..MaxCommits
Pieces == Parts \X Commits
Fetched == {piece[1] : piece \in held}
Whole(commit) == Parts \X {commit}

Online == origin.source = "online"
Ended == {"done", "canceled", "failed"}
NothingHeard == [done |-> 0, error |-> FALSE, sized |-> FALSE, fits |-> FALSE]
Unresolved == [commit |-> 0, sized |-> FALSE]
NoManifest == [lists |-> {}, revision |-> 0]

Trying == {"enter", "spawn", "watch", "copy", "validate", "describe", "move"}
Threads == {"start", "settle", "stop", "clean"} \cup Trying \cup Ended
Children == {"none", "resolve", "announce", "fetch", "report", "exit", "gone", "crashed"}
ChildAlive == child \in {"resolve", "announce", "fetch", "report", "exit"}

Message(type, resolved) ==
    [type |-> type, commit |-> resolved.commit, sized |-> resolved.sized]

DownloadInit ==
    /\ origin \in Origins /\ head = 1
    /\ thread = "start" /\ ending = "none" /\ canceled = FALSE
    /\ child = "none" /\ pinned = Unresolved /\ pipe = <<>> /\ heard = NothingHeard
    /\ place = "none" /\ held = {} /\ manifest = NoManifest
    /\ trouble = FALSE

-----------------------------------------------------------------------------
(***************************************************************************)
(* What goes on outside.                                                   *)
(***************************************************************************)
\* The branch is pushed to.
HeadMoves ==
    /\ Online /\ head < MaxCommits /\ thread \notin Ended /\ head' = head + 1
    /\ UNCHANGED <<origin, thread, ending, watched, heard, directory, trouble>>

\* After the rename nobody looks at the event any more.
Cancel ==
    /\ ~canceled /\ thread \in {"start"} \cup Trying /\ canceled' = TRUE
    /\ UNCHANGED <<origin, head, thread, ending, child, pinned, pipe, heard, directory, trouble>>

-----------------------------------------------------------------------------
(***************************************************************************)
(* The child: _download_worker.                                            *)
(***************************************************************************)
ChildGoes(from, to) == child = from /\ child' = to
OthersIdle == UNCHANGED <<origin, head, thread, ending, canceled, heard, manifest>>

\* The commit is resolved before anything else, and the sizes of the files may be unknown.
Resolve ==
    /\ ChildGoes("resolve", "announce")
    /\ pinned' \in [commit : {head}, sized : BOOLEAN]
    /\ UNCHANGED <<pipe, place, held, trouble>> /\ OthersIdle

Announce ==
    /\ ChildGoes("announce", "fetch") /\ pipe' = Append(pipe, Message("metadata", pinned))
    /\ UNCHANGED <<pinned, place, held, trouble>> /\ OthersIdle

\* Faulty variant of FetchedCommit: the snapshot is taken of the branch.
FetchedBranch == head

FetchedCommit == pinned.commit

\* The SDK makes the directories it needs, the staging directory too.
Fetch(part) ==
    /\ child = "fetch" /\ part \notin Fetched
    /\ held' = held \cup {<<part, FetchedCommit>>}
    /\ place' = IF place = "none" THEN "staging" ELSE place
    /\ child' = IF Fetched \cup {part} = Parts THEN "report" ELSE child
    /\ UNCHANGED <<pinned, pipe, trouble>> /\ OthersIdle

Report ==
    /\ ChildGoes("report", "exit") /\ pipe' = Append(pipe, Message("done", pinned))
    /\ UNCHANGED <<pinned, place, held, trouble>> /\ OthersIdle

\* An exception of the SDK, of the network or of the disk is reported; the exit code is 0.
ChildFails ==
    /\ child \in {"resolve", "announce", "fetch"} /\ child' = "exit"
    /\ pipe' = Append(pipe, Message("error", Unresolved)) /\ trouble' = TRUE
    /\ UNCHANGED <<pinned, place, held>> /\ OthersIdle

ChildExits ==
    /\ ChildGoes("exit", "gone")
    /\ UNCHANGED <<pinned, pipe, place, held, trouble>> /\ OthersIdle

\* The kernel or the interpreter kills it.
ChildCrashes ==
    /\ ChildAlive /\ child' = "crashed" /\ trouble' = TRUE
    /\ UNCHANGED <<pinned, pipe, place, held>> /\ OthersIdle

ChildNext ==
    \/ Resolve \/ Announce \/ Report \/ ChildFails \/ ChildExits \/ ChildCrashes
    \/ \E part \in Parts : Fetch(part)

-----------------------------------------------------------------------------
(***************************************************************************)
(* The thread: run, _copy_controlled_directory, _run_download_process.     *)
(***************************************************************************)
ThreadGoes(from, to) == thread = from /\ thread' = to /\ UNCHANGED <<origin, head, ending, canceled>>
ChildIdle == UNCHANGED <<child, pinned, pipe>>

\* An exception: a child is stopped first, then the staging directory is removed.
Raise(outcome) ==
    /\ thread' = "stop" /\ ending' = outcome
    /\ UNCHANGED <<origin, head, canceled, directory>>

Enter ==
    /\ ThreadGoes("start", "enter") /\ place' = "staging"
    /\ UNCHANGED <<held, manifest, heard, trouble>> /\ ChildIdle

\* The source decides what follows; a copy needs room for all files and a reserve.
Begin ==
    /\ ThreadGoes("enter", IF Online THEN "spawn" ELSE "copy") /\ ~canceled
    /\ UNCHANGED <<directory, heard, trouble>> /\ ChildIdle

\* The inbox has no versions: a piece is what was read, and may not fit the other pieces.
Copy(part) ==
    /\ thread = "copy" /\ ~canceled /\ part \notin Fetched
    /\ held' = held \cup {<<part, 1>>}
    /\ thread' = IF Fetched \cup {part} = Parts THEN "validate" ELSE thread
    /\ UNCHANGED <<origin, head, ending, canceled, place, manifest, heard, trouble>> /\ ChildIdle

Spawn ==
    /\ ThreadGoes("spawn", "watch") /\ ~canceled /\ child' = "resolve"
    /\ UNCHANGED <<pinned, pipe, directory, heard, trouble>>

\* receive_messages empties the pipe.
Said(type) == {m \in Range(pipe) : m.type = type}
Hearing ==
    [heard EXCEPT !.done = IF Said("done") = {} THEN @ ELSE (CHOOSE m \in Said("done") : TRUE).commit,
                  !.error = @ \/ Said("error") # {},
                  !.sized = @ \/ \E m \in Range(pipe) : m.sized]

\* One round of the loop: messages, the event and, when a size is known, once the room.
Watch ==
    /\ thread = "watch" /\ ChildAlive /\ ~canceled
    /\ pipe' = <<>>
    /\ heard' = [Hearing EXCEPT !.fits = Hearing.sized]
    /\ \/ UNCHANGED <<origin, head, thread, ending, canceled, directory, trouble>>
       \/ Hearing.sized /\ ~heard.fits /\ Raise("failed") /\ trouble' = TRUE
    /\ UNCHANGED <<child, pinned>>

Outcome == Hearing

\* The child has ended: its last messages and its exit code decide, the size no longer matters.
Conclude ==
    /\ thread = "watch" /\ child \in {"gone", "crashed"}
    /\ heard' = [Outcome EXCEPT !.sized = FALSE, !.fits = FALSE] /\ pipe' = <<>>
    /\ IF Outcome.error \/ child = "crashed" \/ Outcome.done = 0
       THEN Raise("failed")
       ELSE /\ thread' = "validate"
            /\ UNCHANGED <<origin, head, ending, canceled, directory>>
    /\ UNCHANGED <<child, pinned, trouble>>

\* The validator cannot tell that a piece is missing which it does not need, and may or may
\* not notice that pieces are of different versions.
Acceptable == ImporterAccepts(origin.directory) /\ Essential \subseteq Fetched
Uniform == \E commit \in Commits : held \subseteq Whole(commit)

Validate ==
    /\ thread = "validate" /\ ~canceled
    /\ \/ /\ Acceptable /\ thread' = "describe"
          /\ UNCHANGED <<origin, head, ending, canceled, directory, trouble>>
       \/ ~(Acceptable /\ Online /\ Uniform) /\ Raise("failed") /\ trouble' = TRUE
    /\ UNCHANGED heard /\ ChildIdle

\* The manifest lists what was hashed and is synced before the directory is renamed.
Describe ==
    /\ ThreadGoes("describe", "move") /\ ~canceled
    /\ manifest' = [lists |-> held, revision |-> heard.done]
    /\ UNCHANGED <<place, held, heard, trouble>> /\ ChildIdle

Move ==
    /\ ThreadGoes("move", "settle") /\ ~canceled /\ place' = "store"
    /\ UNCHANGED <<held, manifest, heard, trouble>> /\ ChildIdle

\* The store is synced and the last progress reported; a failure leaves the directory there.
Settle ==
    /\ \/ ThreadGoes("settle", "done") /\ UNCHANGED trouble
       \/ ThreadGoes("settle", "failed") /\ trouble' = TRUE
    /\ UNCHANGED <<directory, heard>> /\ ChildIdle

\* A checkpoint finds the event set; every step of the thread has one before it.
Interrupted ==
    /\ thread \in Trying /\ canceled /\ ~(thread = "watch" /\ ~ChildAlive)
    /\ Raise("canceled")
    /\ UNCHANGED <<heard, trouble>> /\ ChildIdle

\* A full disk, a file that cannot be read, a progress report that fails.
Stumble ==
    /\ thread \in Trying
    /\ Raise("failed") /\ trouble' = TRUE
    /\ UNCHANGED heard /\ ChildIdle

\* _stop_process: SIGTERM, and SIGKILL five seconds later.
Stopped == IF ChildAlive THEN "crashed" ELSE child
StopChild ==
    /\ ThreadGoes("stop", "clean") /\ child' = Stopped
    /\ UNCHANGED <<pinned, pipe, directory, heard, trouble>>

Clean ==
    /\ thread = "clean" /\ thread' = ending /\ ending' = "none"
    /\ place' = "none" /\ held' = {} /\ manifest' = NoManifest
    /\ UNCHANGED <<origin, head, canceled, heard, trouble>> /\ ChildIdle

ThreadNext ==
    \/ Enter \/ Begin \/ Spawn \/ Watch \/ Conclude \/ Validate \/ Describe \/ Move \/ Settle
    \/ Interrupted \/ Stumble \/ StopChild \/ Clean
    \/ \E part \in Parts : Copy(part)

DownloadNext == HeadMoves \/ Cancel \/ ChildNext \/ ThreadNext

DownloadTypeOK ==
    /\ origin \in Origins /\ head \in Commits /\ thread \in Threads
    /\ ending \in {"none", "canceled", "failed"}
    /\ canceled \in BOOLEAN /\ trouble \in BOOLEAN /\ child \in Children
    /\ pinned \in [commit : 0..MaxCommits, sized : BOOLEAN]
    /\ \A m \in Range(pipe) :
          m \in [type : {"metadata", "done", "error"}, commit : 0..MaxCommits, sized : BOOLEAN]
    /\ heard \in [done : 0..MaxCommits, error : BOOLEAN, sized : BOOLEAN, fits : BOOLEAN]
    /\ place \in {"none", "staging", "store"} /\ held \subseteq Pieces
    /\ manifest.lists \subseteq Pieces /\ manifest.revision \in 0..MaxCommits
=============================================================================
