--------------------------- MODULE ModelPipeline ---------------------------
(***************************************************************************)
(* From a repository to a trained model: a model is imported, and a job    *)
(* trains on the directory that was stored.                                *)
(***************************************************************************)
EXTENDS ModelDownload, TrainingRun

vars == <<downloadVars, trainingVars>>

Init == DownloadInit /\ TrainingInit

Import == DownloadNext /\ UNCHANGED trainingVars

\* A job is created on a model asset that is ready.
Start == thread = "done" /\ Launch(origin.directory) /\ UNCHANGED downloadVars
Train == TrainingNext /\ thread = "done" /\ UNCHANGED downloadVars

Next == Import \/ Start \/ Train

Spec == Init /\ [][Next]_vars

\* The program takes its steps; the download, the trainer and the export need not.
Fairness ==
    /\ WF_vars(ThreadNext /\ UNCHANGED trainingVars)
    /\ WF_vars(Supervise /\ thread = "done" /\ UNCHANGED downloadVars)
    /\ WF_vars(Deliver /\ thread = "done" /\ UNCHANGED downloadVars)
    /\ WF_vars((List \/ Read) /\ thread = "done" /\ UNCHANGED downloadVars)
FairSpec == Spec /\ Fairness

-----------------------------------------------------------------------------
TypeOK == DownloadTypeOK /\ TrainingTypeOK

\* An import is all or nothing.  A stored directory holds every piece, an online one those of
\* the commit its manifest names; the manifest lists what is there, and a loader can read it.
\* An import that ended leaves no staging directory and no process that would fill one.
ImportIsWhole ==
    /\ place = "store" =>
          /\ Fetched = Parts /\ manifest.lists = held
          /\ Online => held = Whole(manifest.revision)
          /\ Loadable(origin.directory)
    /\ place = "store" \/ thread \in Ended => ~ChildAlive
    /\ thread \in Ended => place # "staging"

\* A job that succeeded has trained to the end: the merge or the full model is there, it can
\* be loaded, nothing executable is beside it, and no half-written merge is left.
SuccessIsComplete ==
    row.status = "succeeded" =>
        /\ exit = 0 /\ done = MaxStep
        /\ algorithm = "lora" => "adapter" \in output
        /\ model \in Saved /\ Loadable(model)
        /\ ~RejectsExport(output \cup model.kinds) /\ staged = NoDirectory

\* Nothing fails for a reason of the program's own: an import fails when something outside
\* went wrong or its directory is refused, and is canceled when somebody asked; a job on an
\* imported model is refused only for a Python or native file in it, or a file that the scan
\* of the control plane refuses and the importer does not; it fails only when a process failed,
\* when it was stopped, when its tokenizer is one the runtime does not accept, or when its
\* output is more than that scan accepts.
FailuresAreExplained ==
    /\ thread = "failed" => trouble
    /\ thread = "canceled" => canceled
    /\ row.status = "refused" => {"code", "unfit"} \cap base.kinds # {}
    /\ row.status = "failed" =>
          \/ fault \/ desired = "terminated"
          \/ "tokenizer" \notin base.kinds \/ "unfit" \in output

\* The step the row shows never goes back, although the agent reads files while the trainer
\* writes them and removes old ones.
ProgressNeverGoesBack == [][row'.step >= row.step]_vars

=============================================================================
