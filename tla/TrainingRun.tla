---------------------------- MODULE TrainingRun ----------------------------
(***************************************************************************)
(* One training job from the inside: the container, its output directory,  *)
(* and how the agent and the reconciler read them.                         *)
(*                                                                         *)
(* Process 1 of the container supervises one process group after the       *)
(* other: the trainer, whose workers may outlive their leader, and, except *)
(* for freeze training, the export that merges the adapter into the base   *)
(* model.  It sweeps, validates and renames between them.  A stop sets a   *)
(* flag in it that it forwards to the group.  Meanwhile the agent reads    *)
(* the state files the trainer is writing, and the reconciler stores what  *)
(* it is told.  LLaMA-Factory, Docker and the kernel are external.         *)
(***************************************************************************)
EXTENDS ModelDirectory, Integers, FiniteSetsExt

CONSTANTS MaxStep,  \* steps of a training, each of which saves a checkpoint
          Keep,     \* checkpoints the trainer keeps
          Layouts   \* weights and index of the models an export may write

NoDirectory == [kinds |-> {}, weights |-> NoIndex, index |-> NoIndex, torn |-> {},
                typed |-> FALSE, remote |-> FALSE]

\* What the export writes is one file, or shards and the index that names them; it is readable
\* as long as no file is cut off, and no file is empty.
ASSUME TrainingAssumption ==
    /\ MaxStep \in Nat \ {0} /\ Keep \in Nat \ {0}
    /\ \A l \in Layouts :
          /\ DOMAIN l = {"weights", "index"} /\ {} \notin Range(l.weights)
          /\ SelectWeightFiles(l)
          /\ Loadable([NoDirectory EXCEPT !.weights = l.weights, !.index = l.index])

VARIABLES algorithm, \* "lora" (or qlora) or "freeze"
          base,      \* the directory that is trained on
          phase,     \* what process 1 is doing
          group,     \* its process group: which command, the leader, whether workers are left
          flag,      \* the signal handler's flag, and whether it was forwarded
          exit,      \* exit code of the container, -1 before
          done,      \* steps the trainer has completed
          state,     \* state files: checkpoint of a step, or 0 for the root -> condition
          output,    \* kinds of the other files in the output directory
          staged,    \* the merge that is being written, and
          model,     \*   the complete model: in merged/ or, of a freeze training, in the root
          poll,      \* the agent's reading: state files it listed, the exit code it saw
          row,       \* the job's row: status, current_step
          desired,   \* "running" or "terminated"
          fault      \* a process was killed, failed, or the container died

container == <<phase, group, flag, exit>>
files == <<done, state, output, staged, model>>
control == <<poll, row, desired>>
trainingVars == <<algorithm, base, container, files, control, fault>>

NoGroup == [of |-> "none", leader |-> "none", workers |-> FALSE]
NoFlag == [set |-> FALSE, forwarded |-> FALSE]
NoPoll == [open |-> FALSE, listed |-> {}, code |-> -1]

Phases == {"none", "train", "clear", "sweep", "check", "export", "judge", "final", "exited"}
Running == phase \notin {"none", "exited"}
Terminal == {"succeeded", "failed", "canceled"}
Steps == 1..MaxStep
States == {"none", "torn", "whole"}
Existing == {s \in DOMAIN state : state[s] # "none"}

TrainingInit ==
    /\ algorithm = "none" /\ base = NoDirectory
    /\ phase = "none" /\ group = NoGroup /\ flag = NoFlag /\ exit = -1
    /\ done = 0 /\ state = [s \in 0..MaxStep |-> "none"]
    /\ output = {} /\ staged = NoDirectory /\ model = NoDirectory
    /\ poll = NoPoll /\ row = [status |-> "queued", step |-> 0]
    /\ desired = "running" /\ fault = FALSE

\* The control plane validates the base model, the agent the (empty) output directory.
Launch(d) ==
    /\ phase = "none" /\ row.status = "queued" /\ desired = "running"
    /\ base' = d /\ algorithm' \in {"lora", "freeze"}
    /\ IF ValidateDeployable(d)
       THEN /\ phase' = "train" /\ group' = [of |-> "train", leader |-> "up", workers |-> TRUE]
            /\ row' = [row EXCEPT !.status = "running"]
       ELSE /\ row' = [row EXCEPT !.status = "refused"] /\ UNCHANGED <<phase, group>>
    /\ UNCHANGED <<flag, exit, files, poll, desired, fault>>

-----------------------------------------------------------------------------
(***************************************************************************)
(* The trainer and the export command.                                     *)
(***************************************************************************)
Working(p) == phase = p /\ group.leader = "up"
Leader(condition) == group' = [group EXCEPT !.leader = condition]
OnlyFiles == UNCHANGED <<algorithm, base, container, control, fault>>

\* A state file is not written at once.
WriteState(s) ==
    /\ Working("train") /\ state[s] \in {"none", "torn"}
    /\ s = IF done < MaxStep THEN done + 1 ELSE 0
    /\ state' = [state EXCEPT ![s] = IF @ = "none" THEN "torn" ELSE "whole"]
    /\ done' = IF s # 0 /\ state[s] = "torn" THEN s ELSE done
    /\ output' = IF s # 0 THEN output \cup {"pickle"} ELSE output
    /\ UNCHANGED <<staged, model>> /\ OnlyFiles

\* The oldest checkpoint goes when there are more than Keep of them.
Checkpoints == {s \in Steps : state[s] = "whole"}
Rotate(s) ==
    /\ Working("train") /\ s \in Checkpoints
    /\ Cardinality(Checkpoints) > Keep /\ \A k \in Checkpoints : s <= k
    /\ state' = [state EXCEPT ![s] = "none"]
    /\ UNCHANGED <<done, output, staged, model>> /\ OnlyFiles

\* A model that was saved from base: a tokenizer may be written as tokenizer.json as well.
Payloads == {"tokenizer", "sentencepiece"}
Saved ==
    {[kinds |-> {"config", "tokenizer_config"} \cup payload,
      weights |-> l.weights, index |-> l.index, torn |-> {}, typed |-> TRUE, remote |-> FALSE]
       : l \in Layouts, payload \in {base.kinds \cap Payloads, (base.kinds \cap Payloads) \cup {"tokenizer"}}}
\* A full disk may cut off a weight file unnoticed.
Damaged == {[d EXCEPT !.torn = {CHOOSE f \in DOMAIN d.weights : TRUE}] : d \in Saved}
Partial == [NoDirectory EXCEPT !.kinds = {"config"}]

Product == IF algorithm = "lora" THEN {"adapter"} ELSE {}

\* With the last of it the output may have too many files or bytes for _scan_tree.
Grown(kinds) == {kinds, kinds \cup {"unfit"}}

\* What the trainer leaves: an adapter or, of a freeze training, a model.  It exits with 0
\* after its last step, and perhaps as well when it was asked to stop before.
SaveModel ==
    /\ Working("train")
    /\ \/ done = MaxStep /\ state[0] = "whole"
       \/ flag.forwarded
    /\ LET kinds == output \cup {"pickle"} \cup Product
       IN  IF algorithm = "freeze"
           THEN model' \in Saved \cup Damaged /\ output' \in Grown(kinds)
           ELSE output' = kinds /\ UNCHANGED model
    /\ fault' = (fault \/ model' \in Damaged)
    /\ Leader("done")
    /\ UNCHANGED <<done, state, staged>>
    /\ UNCHANGED <<algorithm, base, phase, flag, exit, control>>

Export ==
    /\ Working("export")
    /\ IF staged = NoDirectory
       THEN staged' = Partial /\ UNCHANGED <<group, output>>
       ELSE staged' \in Saved \cup Damaged /\ output' \in Grown(output) /\ Leader("done")
    /\ fault' = (fault \/ staged' \in Damaged)
    /\ UNCHANGED <<done, state, model>>
    /\ UNCHANGED <<algorithm, base, phase, flag, exit, control>>

LeaderFails ==
    /\ group.leader = "up" /\ Leader("failed") /\ fault' = (fault \/ ~flag.forwarded)
    /\ UNCHANGED <<algorithm, base, phase, flag, exit, files, control>>

\* The workers of a distributed training save a state each, perhaps after the leader's end.
WorkerSaves ==
    /\ group.workers /\ output' = output \cup {"pickle"}
    /\ UNCHANGED <<done, state, staged, model>> /\ OnlyFiles

WorkersEnd ==
    /\ group.workers /\ group' = [group EXCEPT !.workers = FALSE]
    /\ UNCHANGED <<algorithm, base, phase, flag, exit, files, control, fault>>

-----------------------------------------------------------------------------
(***************************************************************************)
(* Process 1: main, run_training and the ProcessSupervisor.                *)
(***************************************************************************)
OnlyContainer == UNCHANGED <<algorithm, base, control>>
Goes(from, to) == phase = from /\ phase' = to /\ UNCHANGED <<flag, exit, fault>> /\ OnlyContainer

\* The end of process 1 ends all processes of the container.
Exits(code) ==
    /\ phase' = "exited" /\ exit' = code /\ group' = NoGroup
    /\ UNCHANGED flag /\ OnlyContainer

Forward ==
    /\ Running /\ group.leader = "up" /\ flag.set /\ ~flag.forwarded
    /\ flag' = [flag EXCEPT !.forwarded = TRUE]
    /\ UNCHANGED <<phase, group, exit, files, fault>> /\ OnlyContainer


\* The grace period may end at any time after that; then the group gets a SIGKILL.
Overdue == flag.forwarded
Escalate ==
    /\ Running /\ group.leader = "up" /\ Overdue
    /\ group' = [group EXCEPT !.leader = "failed", !.workers = FALSE]
    /\ UNCHANGED <<phase, flag, exit, files, fault>> /\ OnlyContainer

Reap ==
    /\ phase \in {"train", "export"} /\ group.leader # "up" /\ phase' = "clear"
    /\ UNCHANGED <<group, flag, exit, files, fault>> /\ OnlyContainer

\* Faulty variant of GroupExists: only the leader counts.
LeaderExists == group.leader = "up"

GroupExists == group.leader = "up" \/ group.workers

\* _cleanup_group: SIGTERM and, after five seconds, SIGKILL.
Clear ==
    /\ phase = "clear" /\ GroupExists
    /\ group' = [group EXCEPT !.workers = FALSE]
    /\ UNCHANGED <<phase, flag, exit, files, fault>> /\ OnlyContainer

\* Faulty variant of CommandInterrupted: the flag is only looked at before a command.
NeverInterrupted == FALSE

\* The flag decides before the exit code does; the staging directory of a merge is removed.
CommandInterrupted == flag.set
CommandEnds ==
    /\ phase = "clear" /\ ~GroupExists
    /\ IF CommandInterrupted \/ group.leader = "failed"
       THEN /\ Exits(IF CommandInterrupted THEN 143 ELSE 1)
            /\ staged' = NoDirectory /\ UNCHANGED <<done, state, output, model, fault>>
       ELSE /\ Goes("clear", IF group.of = "train" THEN "sweep" ELSE "judge")
            /\ UNCHANGED <<group, files>>

\* _remove_unsafe_training_files, of the root and of the checkpoints.
Sweep ==
    /\ Goes("sweep", "check") /\ output' = output \ {"pickle"}
    /\ UNCHANGED <<group, done, state, staged, model>>

InRoot(d) == [d EXCEPT !.kinds = @ \cup (output \cap {"pickle"})]
Complete == IF algorithm = "freeze" THEN InRoot(model) ELSE model

\* What the training left is validated; an adapter is merged next, unless a stop came.
Check ==
    /\ phase = "check"
    /\ CASE algorithm = "freeze" -> Exits(IF ValidateFullModel(Complete) THEN 0 ELSE 1)
         [] algorithm = "lora" /\ ValidateAdapter(output) /\ ~flag.set ->
               /\ Goes("check", "export")
               /\ group' = [of |-> "export", leader |-> "up", workers |-> FALSE]
         [] OTHER -> Exits(IF ValidateAdapter(output) THEN 143 ELSE 1)
    /\ UNCHANGED <<files, fault>>

Judge ==
    /\ phase = "judge" /\ staged' = NoDirectory
    /\ IF ValidateFullModel(staged)
       THEN Goes("judge", "final") /\ model' = staged /\ UNCHANGED group
       ELSE Exits(1) /\ UNCHANGED <<model, fault>>
    /\ UNCHANGED <<done, state, output>>

Final ==
    /\ phase = "final" /\ Exits(IF ValidateFullModel(model) THEN 0 ELSE 1)
    /\ UNCHANGED <<files, fault>>

\* A file that cannot be read, removed or renamed.
StepFails ==
    /\ phase \in {"sweep", "check", "judge", "final"} /\ Exits(1) /\ fault' = TRUE
    /\ staged' = NoDirectory /\ UNCHANGED <<done, state, output, model>>

-----------------------------------------------------------------------------
(***************************************************************************)
(* The container and a stop: SIGTERM to process 1, SIGKILL after 30 s.     *)
(***************************************************************************)
Terminate ==
    /\ desired = "running" /\ row.status \in {"queued", "running"} /\ desired' = "terminated"
    /\ row' = IF row.status = "queued" THEN [row EXCEPT !.status = "canceled"] ELSE row
    /\ UNCHANGED <<algorithm, base, container, files, poll, fault>>

Deliver ==
    /\ Running /\ desired = "terminated" /\ ~flag.set
    /\ flag' = [flag EXCEPT !.set = TRUE]
    /\ UNCHANGED <<phase, group, exit, files, fault>> /\ OnlyContainer

DockerKill ==
    /\ Running /\ desired = "terminated" /\ Exits(137)
    /\ UNCHANGED <<files, fault>>

\* Process 1 is killed, or the host goes down.
ContainerDies ==
    /\ Running /\ Exits(137) /\ fault' = TRUE
    /\ UNCHANGED files

-----------------------------------------------------------------------------
(***************************************************************************)
(* STATUS: the agent's training_metadata, and the row it leads to.         *)
(***************************************************************************)
\* The state of the container is read first, then the directory is listed.
List ==
    /\ row.status = "running" /\ ~poll.open
    /\ poll' = [open |-> TRUE, listed |-> Existing, code |-> exit]
    /\ UNCHANGED <<algorithm, base, container, files, row, desired, fault>>

\* The files that were listed, are still there and can be parsed.
Readable == {s \in poll.listed : state[s] = "whole"}

\* Faulty variant of StepOf: steps are counted from one.
StepAfter(s) == (IF s = 0 THEN done ELSE s) + 1

StepOf(s) == IF s = 0 THEN done ELSE s

\* Faulty variant of LastStep: a reading without a step is stored as well.
LastStepOrZero == IF Readable = {} THEN 0 ELSE Max({StepOf(s) : s \in Readable})

LastStep == IF Readable = {} THEN row.step ELSE Max({StepOf(s) : s \in Readable})

AgentAccepts ==
    /\ 0 \in poll.listed => state[0] = "whole"
    /\ algorithm = "lora" => ValidateAdapter(output)
    /\ ValidateFullModel(Complete)
ControlPlaneAccepts ==
    /\ ScanTree(output \cup model.kinds) /\ ~RejectsExport(output \cup model.kinds)
    /\ ValidateDeployable(Complete)

CompletedStatus == IF AgentAccepts /\ ControlPlaneAccepts THEN "succeeded" ELSE "failed"

Read ==
    /\ poll.open /\ poll' = NoPoll
    /\ row' \in [status : CASE poll.code = -1 -> {row.status}
                           [] poll.code = 0 -> {CompletedStatus}
                           [] OTHER -> IF desired = "terminated" THEN {"canceled", "failed"}
                                       ELSE {"failed"},
                  step : IF poll.code = 0 /\ ~AgentAccepts THEN {row.step} ELSE {LastStep}]
    /\ UNCHANGED <<algorithm, base, container, files, desired, fault>>

TrainerNext ==
    \/ \E s \in 0..MaxStep : WriteState(s) \/ Rotate(s)
    \/ SaveModel \/ Export \/ LeaderFails \/ WorkerSaves \/ WorkersEnd
Supervise ==
    \/ Forward \/ Escalate \/ Reap \/ Clear \/ CommandEnds
    \/ Sweep \/ Check \/ Judge \/ Final
TrainingNext ==
    \/ TrainerNext \/ Supervise \/ StepFails
    \/ Terminate \/ Deliver \/ DockerKill \/ ContainerDies \/ List \/ Read

TrainingTypeOK ==
    /\ algorithm \in {"none", "lora", "freeze"} /\ phase \in Phases
    /\ group \in [of : {"none", "train", "export"}, leader : {"none", "up", "done", "failed"},
                  workers : BOOLEAN]
    /\ flag \in [set : BOOLEAN, forwarded : BOOLEAN] /\ exit \in {-1, 0, 1, 137, 143}
    /\ done \in 0..MaxStep /\ state \in [0..MaxStep -> States]
    /\ output \subseteq {"adapter", "pickle", "unfit"}
    /\ poll \in [open : BOOLEAN, listed : SUBSET (0..MaxStep), code : {-1, 0, 1, 137, 143}]
    /\ row \in [status : Terminal \cup {"queued", "running", "refused"}, step : 0..MaxStep]
    /\ desired \in {"running", "terminated"} /\ fault \in BOOLEAN
=============================================================================
