------------------------- MODULE EvaluationProofs -------------------------
(***************************************************************************)
(* One evaluation run serves one model at a time, succeeds only with every *)
(* answer, and records only what some answers would give: proofs about     *)
(* Evaluation, for any data sets within the limits, any concurrency and    *)
(* any moments of death of the processes.                                  *)
(***************************************************************************)
EXTENDS Evaluation, FiniteSetTheorems, WellFoundedInduction, TLAPS

Processes == [leader : {"gone", "up", "serving"}, workers : BOOLEAN]

\* Where no process of any model is left.
AllGoneAt == {"prepare", "refused", "load", "spawn", "report", "writing", "exited"}

GroupsTyped == groups \in [Models -> Processes] /\ model \in Models

\* Only the current model has processes, and none while it is not being served.
OthersGone == \A m \in Models : m # model => groups[m] = Gone
GoneBetween == pc \in AllGoneAt => \A m \in Models : groups[m] = Gone

\* The inductive invariant: OneModelAtATime alone would allow the first model to run on while
\* the second is being started.
IInv == GroupsTyped /\ OthersGone /\ GoneBetween

-----------------------------------------------------------------------------
\* What killpg(group, 0) does not find has neither a leader nor workers (_process_group_exists).
LEMMA NoGroup ==
    ASSUME NEW m \in Models, groups[m] \in Processes, ~GroupExists(m)
    PROVE  groups[m] = Gone
  BY DEF Processes, GroupExists, Gone

\* At most one group: two models, of which one is not the current one.
LEMMA OneIsGone == IInv => OneModelAtATime
  BY DEF IInv, GroupsTyped, OthersGone, OneModelAtATime, Models

\* A container whose end is reached leaves no process.
LEMMA ExitIInv == ASSUME IInv, NEW code, Exit(code) PROVE IInv'
<1>1. groups' = [m \in Models |-> Gone] /\ model' = model /\ pc' = "exited"
  BY DEF Exit
<1>2. Gone \in Processes
  BY DEF Gone, Processes
<1> QED
  BY <1>1, <1>2 DEF IInv, GroupsTyped, OthersGone, GoneBetween

\* A step that moves on without touching processes, to a place where they may live on.
LEMMA StayIInv ==
    ASSUME IInv, UNCHANGED <<groups, model>>, pc' \in AllGoneAt => pc \in AllGoneAt
    PROVE  IInv'
  BY DEF IInv, GroupsTyped, OthersGone, GoneBetween

\* The next model is served, or the report written, once the group of this one has gone.
LEMMA ProceedIInv == ASSUME IInv, Proceed, ~GroupExists(model) PROVE IInv'
<1>1. groups[model] = Gone
  BY NoGroup DEF IInv, GroupsTyped
<1>2. \A m \in Models : groups[m] = Gone
  BY <1>1 DEF IInv, OthersGone
<1>3. CASE error
  BY <1>3, ExitIInv DEF Proceed
<1>4. CASE ~error
  <2>1. groups' = groups /\ model' \in Models
    BY <1>4 DEF Proceed, IInv, GroupsTyped, Models
  <2> QED
    BY <1>2, <2>1 DEF IInv, GroupsTyped, OthersGone, GoneBetween
<1> QED
  BY <1>3, <1>4

\* The processes of a group start and die by themselves.
LEMMA ProcessIInv ==
    ASSUME IInv, NEW m \in Models,
           LeaderServes(m) \/ LeaderExits(m) \/ WorkersExit(m)
    PROVE  IInv'
<1>1. groups[m] \in Processes /\ model \in Models
  BY DEF IInv, GroupsTyped
<1>2. groups[m] # Gone
  <2>1. CASE groups[m].leader # "gone"
    BY <2>1 DEF Gone
  <2>2. CASE WorkersExit(m)
    BY <2>2 DEF WorkersExit, Gone
  <2> QED
    BY <2>1, <2>2 DEF LeaderServes, LeaderExits
<1>3. m = model /\ pc \notin AllGoneAt
  BY <1>2 DEF IInv, OthersGone, GoneBetween
<1>4. PICK left \in Processes : groups' = [groups EXCEPT ![m] = left]
  <2>1. CASE LeaderServes(m)
    <3>1. [groups[m] EXCEPT !.leader = "serving"] \in Processes
      BY <1>1 DEF Processes
    <3> QED
      BY <2>1, <3>1 DEF LeaderServes
  <2>2. CASE LeaderExits(m)
    <3>1. [groups[m] EXCEPT !.leader = "gone"] \in Processes
      BY <1>1 DEF Processes
    <3> QED
      BY <2>2, <3>1 DEF LeaderExits
  <2>3. CASE WorkersExit(m)
    <3>1. [groups[m] EXCEPT !.workers = FALSE] \in Processes
      BY <1>1 DEF Processes
    <3> QED
      BY <2>3, <3>1 DEF WorkersExit
  <2> QED
    BY <2>1, <2>2, <2>3
<1>5. UNCHANGED <<pc, model>>
  BY DEF LeaderServes, LeaderExits, WorkersExit
<1> QED
  BY <1>3, <1>4, <1>5 DEF IInv, GroupsTyped, OthersGone, GoneBetween

\* Spawn starts the processes of the current model when there are no others.
LEMMA SpawnIInv == ASSUME IInv, Spawn PROVE IInv'
<1>1. Started \in Processes
  BY DEF Started, Processes
<1>2. /\ groups' = [groups EXCEPT ![model] = Started] /\ model' = model /\ pc' = "wait"
  BY DEF Spawn
<1> QED
  BY <1>1, <1>2 DEF IInv, GroupsTyped, OthersGone, GoneBetween, AllGoneAt

-----------------------------------------------------------------------------
\* Before the run no process exists.
LEMMA InitIInv == Init => IInv
  BY DEF Init, IInv, GroupsTyped, OthersGone, GoneBetween, Gone, Processes, Models

\* Each step of the orchestrator preserves the invariant.
LEMMA OrchestrateIInv == ASSUME IInv, Orchestrate PROVE IInv'
<1>1. CASE Prepare
  BY <1>1, StayIInv DEF Prepare, AllGoneAt
<1>2. CASE Load
  BY <1>2, StayIInv, ExitIInv DEF Load, Goto, AllGoneAt
<1>3. CASE Spawn
  BY <1>3, SpawnIInv
<1>4. CASE Ready \/ NotReady \/ Gather \/ Kill
  BY <1>4, StayIInv DEF Ready, NotReady, Gather, Kill, Goto, Stop, AllGoneAt
<1>5. ASSUME NEW s \in DOMAIN results[model],
             Send(s) \/ RequestFails(s) \/ \E outcome \in Outcomes : Answer(s, outcome)
      PROVE  IInv'
  BY <1>5, StayIInv DEF Send, RequestFails, Answer, Stop, AllGoneAt
<1>6. CASE Terminate
  BY <1>6, StayIInv, ProceedIInv DEF Terminate, Goto, AllGoneAt
<1>7. CASE GroupGone
  BY <1>7, ProceedIInv, ExitIInv DEF GroupGone
<1>8. CASE GiveUp
  BY <1>8, ExitIInv DEF GiveUp
<1>9. CASE BeginReport
  BY <1>9, StayIInv DEF BeginReport, Goto, AllGoneAt
<1>10. CASE EndReport
  BY <1>10, ExitIInv DEF EndReport
<1>11. CASE Interrupt
  BY <1>11, StayIInv, ExitIInv DEF Interrupt, Stop, AllGoneAt
<1>12. CASE Observe
  BY <1>12, StayIInv DEF Observe, container
<1> QED
  BY <1>1, <1>2, <1>3, <1>4, <1>5, <1>6, <1>7, <1>8, <1>9, <1>10, <1>11, <1>12
     DEF Orchestrate

\* So does what the processes, Docker and the control plane do.
LEMMA EnvironmentIInv == ASSUME IInv, Environment PROVE IInv'
<1>1. CASE EndOtherReport
  BY <1>1, ExitIInv DEF EndOtherReport
<1>2. CASE RequestStop
  BY <1>2, StayIInv DEF RequestStop
<1>3. CASE KillContainer
  BY <1>3, ExitIInv DEF KillContainer
<1> QED
  BY <1>1, <1>2, <1>3, ProcessIInv DEF Environment

\* Every step preserves the invariant.
LEMMA NextIInv == IInv /\ [Next]_vars => IInv'
<1> SUFFICES ASSUME IInv, [Next]_vars PROVE IInv'
  OBVIOUS
<1>1. CASE UNCHANGED vars
  BY <1>1, StayIInv DEF vars, container
<1> QED
  BY <1>1, OrchestrateIInv, EnvironmentIInv DEF Next

\* The GPUs of a run are never used by both of its models, for any data sets and whenever the
\* processes die, requests fail or the container is stopped (_stop_process_group).
THEOREM OneAtATime == Spec => []OneModelAtATime
  BY InitIInv, NextIInv, OneIsGone, PTL DEF Spec

-----------------------------------------------------------------------------
(***************************************************************************)
(* Types, open requests, and what has been answered at which point.        *)
(***************************************************************************)
Values == {"waiting", "sent", "failed"} \cup Outcomes
Points == {"prepare", "refused", "load", "spawn", "wait", "ask", "stop", "terminated",
           "killed", "report", "writing", "exited"}
AtMostOne(s) == s = <<>> \/ \E x : s = <<x>>

Typed ==
    /\ request \in Requests /\ model \in Models /\ error \in BOOLEAN /\ pc \in Points
    /\ results \in [Models -> [Samples -> Values]]
    /\ signal \in {"none", "pending", "delivered"} /\ exit \in {"none", "zero", "nonzero"}
    /\ AtMostOne(report)
    /\ row = [state |-> row.state, result |-> row.result]
    /\ row.state \in {"running", "succeeded", "failed"} /\ AtMostOne(row.result)

SendsFew == IsFiniteSet(Sent) /\ Cardinality(Sent) <= Concurrency

\* The models are asked one after the other, and only answers let a run go on without an error.
Done(m) == \A s \in Samples : results[m][s] \in Outcomes
AnsweredSoFar ==
    /\ model = "baseline" => \A s \in Samples : results["candidate"][s] = "waiting"
    /\ model = "candidate" => Done("baseline")
    /\ pc \in {"stop", "terminated", "killed"} /\ ~error => Done(model)
    /\ pc \in {"report", "writing"} => model = "candidate" /\ Done("candidate")
    /\ exit = "zero" => pc = "exited" /\ Done("baseline") /\ Done("candidate") /\ report # <<>>
    /\ pc = "prepare" => model = "baseline" /\ exit = "none" /\ row.state = "running"
RowFollows ==
    row.state = "succeeded" => exit = "zero" /\ row.result = <<Metadata(report[1])>>

AInv == Typed /\ SendsFew /\ AnsweredSoFar /\ RowFollows

-----------------------------------------------------------------------------
\* Steps that leave the samples and their requests alone.
LEMMA KeepAnswers ==
    ASSUME AInv, UNCHANGED <<request, data, model, results, row>>,
           exit' = exit, report' = report, error' \in BOOLEAN, signal' \in {"none", "pending", "delivered"},
           pc' \in Points \ {"prepare", "report", "writing"}, pc # "exited",
           pc' \in {"stop", "terminated", "killed"} /\ ~error' => Done(model)
    PROVE  AInv'
<1>1. Typed'
  BY DEF AInv, Typed, Samples, AtMostOne
<1>2. SendsFew'
  BY DEF AInv, SendsFew, Sent
<1>3. AnsweredSoFar'
  BY DEF AInv, AnsweredSoFar, Done, Samples
<1>4. RowFollows'
  BY DEF AInv, RowFollows, Metadata, AllInvalid, Summary, Models
<1> QED
  BY <1>1, <1>2, <1>3, <1>4 DEF AInv

\* The end of the container: with 0 only when everything was answered and reported.
LEMMA ExitAInv ==
    ASSUME AInv, NEW code \in {"zero", "nonzero"}, Exit(code), pc # "exited",
           code = "zero" => pc = "writing" /\ report' # <<>>, AtMostOne(report')
    PROVE  AInv'
<1>1. Typed'
  BY DEF AInv, Typed, Samples, AtMostOne, Exit, Points
<1>2. SendsFew'
  BY DEF AInv, SendsFew, Sent, Exit
<1>3. AnsweredSoFar'
  BY DEF AInv, AnsweredSoFar, Done, Samples, Exit
<1>4. RowFollows'
  BY DEF AInv, AnsweredSoFar, RowFollows, Exit
<1> QED
  BY <1>1, <1>2, <1>3, <1>4 DEF AInv

\* One request to the current model changes, within the limit.
LEMMA AskAInv ==
    ASSUME AInv, pc = "ask", NEW s \in Samples, NEW value \in Values, Set(s, value),
           value = "sent" => Cardinality(Sent) < Concurrency,
           UNCHANGED <<request, data, model, exit, report, row, signal>>, error' \in BOOLEAN,
           pc' = "ask" \/ (pc' = "stop" /\ error')
    PROVE  AInv'
<1>1. /\ results' \in [Models -> [Samples -> Values]] /\ model \in Models
      /\ \A m \in Models : m # model => results'[m] = results[m]
      /\ \A r \in Samples : results'[model][r] = IF r = s THEN value ELSE results[model][r]
  BY DEF AInv, Typed, Set
<1>2. Typed'
  BY <1>1 DEF AInv, Typed, Samples, AtMostOne, Points
<1>3. SendsFew'
  <2>1. Sent = {r \in Samples : results[model][r] = "sent"}
        /\ Sent' = {r \in Samples : results'[model][r] = "sent"}
    BY <1>1 DEF AInv, Typed, Sent
  <2>2. IsFiniteSet(Sent) /\ Cardinality(Sent) \in Nat /\ Cardinality(Sent) <= Concurrency /\ Concurrency \in Nat
    BY FS_CardinalityType, EvaluationAssumption DEF AInv, SendsFew
  <2>3. CASE value = "sent"
    <3>1. Sent' = Sent \cup {s}
      BY <1>1, <2>1, <2>3
    <3>2. IsFiniteSet(Sent') /\ Cardinality(Sent') <= Cardinality(Sent) + 1
      BY <2>2, <3>1, FS_AddElement
    <3>3. Cardinality(Sent') \in Nat
      BY <3>2, FS_CardinalityType
    <3> QED
      BY <2>2, <2>3, <3>2, <3>3 DEF SendsFew
  <2>4. CASE value # "sent"
    <3>1. Sent' \in SUBSET Sent
      BY <1>1, <2>1, <2>4
    <3>2. IsFiniteSet(Sent') /\ Cardinality(Sent') <= Cardinality(Sent) /\ Cardinality(Sent') \in Nat
      BY <2>2, <3>1, FS_Subset, FS_CardinalityType
    <3> QED
      BY <2>2, <3>2 DEF SendsFew
  <2> QED
    BY <2>3, <2>4
<1>4. AnsweredSoFar'
  BY <1>1 DEF AInv, AnsweredSoFar, Done, Samples, Models
<1>5. RowFollows'
  BY DEF AInv, AnsweredSoFar, RowFollows
<1> QED
  BY <1>2, <1>3, <1>4, <1>5 DEF AInv

\* After a model has been asked and its group has gone.
LEMMA ProceedAInv ==
    ASSUME AInv, Proceed, pc \in {"stop", "terminated", "killed"}
    PROVE  AInv'
<1>1. CASE error
  BY <1>1, ExitAInv DEF Proceed, AInv, Typed
<1>2. CASE ~error
  <2>1. /\ UNCHANGED <<request, data, groups, results, error, signal, exit, report, row>>
        /\ Done(model)
        /\ \/ model = "baseline" /\ pc' = "spawn" /\ model' = "candidate"
           \/ model = "candidate" /\ pc' = "report" /\ model' = "candidate"
    BY <1>2 DEF Proceed, AInv, Typed, Models, AnsweredSoFar
  <2>2. Typed'
    BY <2>1 DEF AInv, Typed, Models, Samples, AtMostOne, Points
  <2>3. SendsFew'
    <3>1. CASE model = "candidate"
      BY <2>1, <3>1 DEF AInv, SendsFew, Sent
    <3>2. CASE model = "baseline"
      <4>1. \A s \in Samples : results["candidate"][s] = "waiting"
        BY <3>2 DEF AInv, AnsweredSoFar
      <4>2. Sent' = {}
        BY <2>1, <3>2, <4>1 DEF AInv, Typed, Sent, Models
      <4> QED
        BY <4>2, FS_EmptySet, EvaluationAssumption DEF SendsFew
    <3> QED
      BY <2>1, <3>1, <3>2
  <2>4. AnsweredSoFar'
    BY <2>1 DEF AInv, AnsweredSoFar, Done, Samples
  <2>5. RowFollows'
    BY <2>1 DEF AInv, AnsweredSoFar, RowFollows
  <2> QED
    BY <2>2, <2>3, <2>4, <2>5 DEF AInv
<1> QED
  BY <1>1, <1>2

\* The data sets are merged, and nothing has been asked about them.
LEMMA PrepareAInv == ASSUME AInv, Prepare PROVE AInv'
<1>1. /\ pc = "prepare" /\ model = "baseline" /\ exit = "none" /\ row.state = "running"
      /\ UNCHANGED <<request, model, error, signal, exit, report>>
  BY DEF AInv, AnsweredSoFar, Prepare
<1>2. CASE Mergeable(request)
  <2>1. pc' = "load" /\ row' = row /\ results' = [m \in Models |-> [s \in DOMAIN data' |-> "waiting"]]
    BY <1>2 DEF Prepare
  <2>2. /\ results' \in [Models -> [Samples' -> Values]]
        /\ \A m \in Models : \A s \in Samples' : results'[m][s] = "waiting"
    BY <2>1 DEF Samples, Values
  <2>3. Typed'
    BY <1>1, <2>1, <2>2 DEF AInv, Typed, AtMostOne, Points
  <2>4. SendsFew'
    <3>1. Sent' = {}
      BY <1>1, <2>1, <2>2 DEF Sent, Models
    <3> QED
      BY <3>1, FS_EmptySet, EvaluationAssumption DEF SendsFew
  <2>5. AnsweredSoFar'
    BY <1>1, <2>1, <2>2 DEF AnsweredSoFar, Models
  <2>6. RowFollows'
    BY <1>1, <2>1 DEF RowFollows
  <2> QED
    BY <2>3, <2>4, <2>5, <2>6 DEF AInv
<1>3. CASE ~Mergeable(request)
  <2>1. /\ pc' = "refused" /\ UNCHANGED <<data, results>>
        /\ row' = [row EXCEPT !.state = "failed"]
    BY <1>3 DEF Prepare
  <2>2. row'.state = "failed" /\ row'.result = row.result
        /\ row' = [state |-> row'.state, result |-> row'.result]
    <3>1. row = [state |-> row.state, result |-> row.result]
      BY DEF AInv, Typed
    <3> QED
      BY <2>1, <3>1
  <2>3. Typed'
    BY <1>1, <2>1, <2>2 DEF AInv, Typed, AtMostOne, Points, Samples
  <2>4. SendsFew'
    BY <1>1, <2>1 DEF AInv, SendsFew, Sent
  <2>5. AnsweredSoFar'
    BY <1>1, <2>1 DEF AInv, AnsweredSoFar, Done, Samples
  <2>6. RowFollows'
    BY <2>2 DEF RowFollows
  <2> QED
    BY <2>3, <2>4, <2>5, <2>6 DEF AInv
<1> QED
  BY <1>2, <1>3

\* The verdict of the control plane is about the report of a container that exited with 0.
LEMMA ObserveAInv == ASSUME AInv, Observe PROVE AInv'
<1>1. /\ UNCHANGED <<request, data, pc, model, groups, results, error, signal, exit, report>>
      /\ pc = "exited"
  BY DEF Observe, container
<1>2. /\ row' = [state |-> row'.state, result |-> row'.result]
      /\ row'.state \in {"succeeded", "failed"}
      /\ row'.result = <<>> \/ row'.result = <<Metadata(report[1])>>
      /\ row'.state = "succeeded" => exit = "zero" /\ row'.result = <<Metadata(report[1])>>
  BY DEF Observe
<1>3. Typed'
  BY <1>1, <1>2 DEF AInv, Typed, AtMostOne, Samples
<1>4. SendsFew'
  BY <1>1 DEF AInv, SendsFew, Sent
<1>5. AnsweredSoFar'
  BY <1>1 DEF AInv, AnsweredSoFar, Done, Samples
<1>6. RowFollows'
  BY <1>1, <1>2 DEF RowFollows, Metadata, AllInvalid, Summary
<1> QED
  BY <1>3, <1>4, <1>5, <1>6 DEF AInv

\* The report is begun after both models; the processes of a group change nothing here.
LEMMA OtherAInv ==
    ASSUME AInv,
           \/ BeginReport \/ RequestStop \/ UNCHANGED vars
           \/ \E m \in Models : LeaderServes(m) \/ LeaderExits(m) \/ WorkersExit(m)
    PROVE  AInv'
<1>1. /\ UNCHANGED <<request, data, model, results, error, exit, report, row>>
      /\ pc' = pc \/ (pc = "report" /\ pc' = "writing")
      /\ signal' = signal \/ signal' = "pending"
  BY DEF BeginReport, Goto, RequestStop, LeaderServes, LeaderExits, WorkersExit, vars, container
<1>2. Typed'
  BY <1>1 DEF AInv, Typed, AtMostOne, Samples, Points
<1>3. SendsFew'
  BY <1>1 DEF AInv, SendsFew, Sent
<1>4. AnsweredSoFar'
  BY <1>1 DEF AInv, AnsweredSoFar, Done, Samples
<1>5. RowFollows'
  BY <1>1 DEF AInv, RowFollows, Metadata, AllInvalid, Summary
<1> QED
  BY <1>2, <1>3, <1>4, <1>5 DEF AInv

\* Before the run nothing has been asked.
LEMMA InitAInv == Init => AInv
<1> SUFFICES ASSUME Init PROVE AInv
  OBVIOUS
<1>1. data = [s \in {} |-> <<>>] /\ results = [m \in Models |-> data] /\ model = "baseline"
  BY DEF Init
<1>2. Samples = {} /\ results \in [Models -> [Samples -> Values]]
  BY <1>1 DEF Samples
<1>3. Typed
  BY <1>2 DEF Init, Typed, Models, AtMostOne, Points
<1>4. SendsFew
  <2>1. Sent = {}
    BY <1>1, <1>2 DEF Sent, Models
  <2> QED
    BY <2>1, FS_EmptySet, EvaluationAssumption DEF SendsFew
<1>5. AnsweredSoFar /\ RowFollows
  BY <1>2 DEF Init, AnsweredSoFar, RowFollows, Done
<1> QED
  BY <1>3, <1>4, <1>5 DEF AInv

\* Every step keeps it.
LEMMA NextAInv == AInv /\ [Next]_vars => AInv'
<1> SUFFICES ASSUME AInv, [Next]_vars PROVE AInv'
  OBVIOUS
<1>1. error \in BOOLEAN /\ signal \in {"none", "pending", "delivered"} /\ AtMostOne(report)
      /\ model \in Models
  BY DEF AInv, Typed
<1>2. CASE Load
  BY <1>1, <1>2, KeepAnswers, ExitAInv DEF Load, Goto, Points
<1>3. CASE Spawn \/ Ready \/ NotReady \/ Kill
  <2>1. pc \in {"stop", "terminated", "killed"} /\ ~error => Done(model)
    BY DEF AInv, AnsweredSoFar
  <2> QED
    BY <1>1, <1>3, <2>1, KeepAnswers DEF Spawn, Ready, NotReady, Kill, Goto, Stop, Points
<1>4. CASE Gather
  BY <1>1, <1>4, KeepAnswers DEF Gather, Goto, Points, Done
<1>5. ASSUME NEW s \in DOMAIN results[model],
             Send(s) \/ RequestFails(s) \/ \E outcome \in Outcomes : Answer(s, outcome)
      PROVE  AInv'
  <2>1. s \in Samples
    BY <1>1, <1>5 DEF AInv, Typed
  <2>2. pc = "ask" /\ UNCHANGED <<request, data, model, exit, report, row, signal>>
    BY <1>5 DEF Send, RequestFails, Answer, Stop
  <2>3. CASE Send(s)
    BY <1>1, <2>1, <2>2, <2>3, AskAInv DEF Send, MaySend, Values
  <2>4. CASE RequestFails(s)
    BY <1>1, <2>1, <2>2, <2>4, AskAInv DEF RequestFails, Stop, Values
  <2>5. ASSUME NEW outcome \in Outcomes, Answer(s, outcome) PROVE AInv'
    BY <1>1, <2>1, <2>2, <2>5, AskAInv DEF Answer, Values, Outcomes
  <2> QED
    BY <1>5, <2>3, <2>4, <2>5
<1>6. CASE Terminate \/ GroupGone
  <2>1. pc \in {"stop", "terminated", "killed"} /\ (~error => Done(model))
    BY <1>6 DEF Terminate, GroupGone, AInv, AnsweredSoFar
  <2> QED
    BY <1>1, <1>6, <2>1, KeepAnswers, ProceedAInv, ExitAInv DEF Terminate, GroupGone, Goto, Points
<1>7. CASE GiveUp \/ KillContainer
  BY <1>1, <1>7, ExitAInv DEF GiveUp, KillContainer
<1>8. CASE EndReport \/ EndOtherReport
  <2>1. pc = "writing" /\ AtMostOne(report') /\ report' # <<>>
    BY <1>8 DEF EndReport, EndOtherReport, AtMostOne
  <2>2. \E code \in {"zero", "nonzero"} : Exit(code)
    BY <1>8 DEF EndReport, EndOtherReport
  <2> QED
    BY <2>1, <2>2, ExitAInv
<1>9. CASE Interrupt
  BY <1>1, <1>9, KeepAnswers, ExitAInv DEF Interrupt, Stop, Points
<1> QED
  BY <1>2, <1>3, <1>4, <1>5, <1>6, <1>7, <1>8, <1>9, PrepareAInv, ObserveAInv, OtherAInv
     DEF Next, Orchestrate, Environment

\* The invariant of the answers holds in every reachable state.
LEMMA AnswersInvariant == Spec => []AInv
  BY InitAInv, NextAInv, PTL DEF Spec

\* Every variable has its type, and no model ever has more open requests than the limit, for any
\* data sets and any limit (the semaphore of evaluate()).
THEOREM EvaluationTypes == Spec => []TypeOK
<1>1. IInv /\ AInv => TypeOK
  <2> SUFFICES ASSUME IInv, AInv PROVE TypeOK
    OBVIOUS
  <2>1. Len(report) <= 1 /\ Len(row.result) <= 1
    <3>1. ASSUME NEW s, AtMostOne(s) PROVE Len(s) <= 1
      <4>1. CASE s = <<>>
        BY <4>1
      <4>2. ASSUME NEW x, s = <<x>> PROVE Len(s) = 1
        BY <4>2
      <4> QED
        BY <3>1, <4>1, <4>2 DEF AtMostOne
    <3> QED
      BY <3>1 DEF AInv, Typed
  <2>2. \A m \in Models : \A s \in DOMAIN results[m] : results[m][s] \in Values
    BY DEF AInv, Typed
  <2> QED
    BY <2>1, <2>2 DEF IInv, GroupsTyped, Processes, AInv, Typed, SendsFew, Values, Points, TypeOK,
       TypeOKRow
<1>2. IInv /\ [Next]_vars => IInv'
  BY NextIInv
<1> QED
  BY <1>1, <1>2, InitIInv, AnswersInvariant, PTL DEF Spec

\* A run that succeeded asked both models about every sample, got an answer each time, and what it
\* records of a measured report is what was counted, for any data sets and any failures.
THEOREM SuccessesAreComplete == Spec => []SuccessIsAnswered
<1>1. AInv => SuccessIsAnswered
  <2> SUFFICES ASSUME AInv, row.state = "succeeded"
               PROVE  /\ exit = "zero" /\ \A m \in Models : \A s \in Samples : results[m][s] \in Outcomes
                      /\ report = <<Measured>> => \A m \in Models : \A outcome \in {"correct", "invalid"} :
                            row.result[1][m].tally[outcome]
                                = Cardinality({s \in Samples : results[m][s] = outcome})
    BY DEF SuccessIsAnswered
  <2>1. exit = "zero" /\ row.result = <<Metadata(report[1])>>
    BY DEF AInv, RowFollows
  <2>2. \A m \in Models : \A s \in Samples : results[m][s] \in Outcomes
    BY <2>1 DEF AInv, AnsweredSoFar, Done, Models
  <2>3. ASSUME report = <<Measured>>, NEW m \in Models, NEW outcome \in {"correct", "invalid"}
        PROVE  row.result[1][m].tally[outcome] = Cardinality({s \in Samples : results[m][s] = outcome})
    <3>1. row.result[1] = Metadata(Measured)
      BY <2>1, <2>3
    <3>2. Metadata(Measured)[m].tally = Measured[m].tally
      BY DEF Metadata, Summary, Models
    <3>3. Measured[m].tally = Tally(DOMAIN data, results[m])
      BY DEF Measured, Pair, Aggregate, Models
    <3>4. Tally(DOMAIN data, results[m])[outcome] = Cardinality({s \in DOMAIN data : results[m][s] = outcome})
      BY DEF Tally
    <3> QED
      BY <3>1, <3>2, <3>3, <3>4 DEF Samples
  <2> QED
    BY <2>1, <2>2, <2>3
<1> QED
  BY <1>1, AnswersInvariant, PTL

-----------------------------------------------------------------------------
(***************************************************************************)
(* A sum over categories is the number of their units: kinds with positions. *)
(* The number of units of a partition is the number of its elements, and as *)
(* many things as units can be given kinds and positions.                  *)
(***************************************************************************)
\* number[k] units of each kind k.
Units(K, number) == UNION {{k} \X (1..number[k]) : k \in K}

\* A unit is a kind with a position.
LEMMA UnitsElements ==
    ASSUME NEW K, NEW number \in [K -> Nat]
    PROVE  Units(K, number) = {u \in K \X Nat : u[2] \in 1..number[u[1]]}
<1>1. ASSUME NEW k \in K PROVE {k} \X (1..number[k]) = {u \in K \X Nat : u[1] = k /\ u[2] \in 1..number[k]}
  OBVIOUS
<1> QED
  BY <1>1 DEF Units

LEMMA UnitsOfOne ==
    ASSUME NEW k, NEW n \in Nat
    PROVE  IsFiniteSet({k} \X (1..n)) /\ Cardinality({k} \X (1..n)) = n
<1> DEFINE A == {k}
           B == 1..n
<1>1. IsFiniteSet(A) /\ Cardinality(A) = 1
  BY FS_Singleton
<1>2. IsFiniteSet(B) /\ Cardinality(B) = n
  BY FS_Interval
<1> HIDE DEF A, B
<1>3. IsFiniteSet(A \X B) /\ Cardinality(A \X B) = Cardinality(A) * Cardinality(B)
  BY <1>1, <1>2, FS_Product
<1> QED
  BY <1>1, <1>2, <1>3 DEF A, B

\* There are finitely many units of finitely many kinds.
LEMMA UnitsFinite ==
    ASSUME NEW K, IsFiniteSet(K), NEW number \in [K -> Nat]
    PROVE  IsFiniteSet(Units(K, number))
<1> DEFINE S == {{k} \X (1..number[k]) : k \in K}
           f == [k \in K |-> {k} \X (1..number[k])]
<1>1. f \in Surjection(K, S)
  BY DEF Surjection
<1>2. \A T \in S : IsFiniteSet(T)
  BY UnitsOfOne
<1> HIDE DEF S, f
<1>3. IsFiniteSet(S)
  BY <1>1, FS_Surjection
<1>4. IsFiniteSet(UNION S)
  BY <1>2, <1>3, FS_UNION
<1> QED
  BY <1>4 DEF Units, S

\* The units of one kind are as many as its number.
LEMMA UnitsTakeOne ==
    ASSUME NEW K, IsFiniteSet(K), NEW number \in [K -> Nat], NEW k \in K,
           NEW rest \in [K \ {k} -> Nat], \A j \in K \ {k} : rest[j] = number[j]
    PROVE  Cardinality(Units(K, number)) = number[k] + Cardinality(Units(K \ {k}, rest))
<1> DEFINE A == {k} \X (1..number[k])
           B == Units(K \ {k}, rest)
<1>1. IsFiniteSet(K \ {k})
  BY FS_RemoveElement
<1>2. IsFiniteSet(A) /\ Cardinality(A) = number[k]
  BY UnitsOfOne
<1>3. IsFiniteSet(B)
  BY <1>1, UnitsFinite
<1>4. B = {u \in (K \ {k}) \X Nat : u[2] \in 1..number[u[1]]}
  <2>1. B = {u \in (K \ {k}) \X Nat : u[2] \in 1..rest[u[1]]}
    <3> DEFINE J == K \ {k}
    <3> HIDE DEF J
    <3> QED
      BY <1>1, UnitsElements DEF J
  <2> QED
    BY <2>1
<1>5. Units(K, number) = {u \in K \X Nat : u[2] \in 1..number[u[1]]}
  BY UnitsElements
<1>6. Units(K, number) = A \cup B /\ A \cap B = {}
  <2>1. A = {u \in K \X Nat : u[1] = k /\ u[2] \in 1..number[k]}
    OBVIOUS
  <2> HIDE DEF A, B
  <2> QED
    BY <1>4, <1>5, <2>1
<1> HIDE DEF A, B
<1>7. Cardinality(A \cup B) = Cardinality(A) + Cardinality(B) - Cardinality({})
  BY <1>2, <1>3, <1>6, FS_Union
<1>8. Cardinality(A) \in Nat /\ Cardinality(B) \in Nat
  BY <1>2, <1>3, FS_CardinalityType
<1>9. Cardinality({}) = 0
  BY FS_EmptySet
<1> QED
  BY <1>2, <1>6, <1>7, <1>8, <1>9 DEF B

\* The things of one kind.
OfKind(X, kind, k) == {x \in X : kind[x] = k}

\* There are as many things as units of their kinds, if each kind has the number of its things.
LEMMA UnitsOfClasses ==
    ASSUME NEW X, IsFiniteSet(X), NEW K, NEW kind \in [X -> K], NEW number \in [K -> Nat],
           \A k \in K : number[k] = Cardinality(OfKind(X, kind, k))
    PROVE  Cardinality(Units(K, number)) = Cardinality(X)
<1> DEFINE Class(k) == {x \in X : kind[x] = k}
           count == [k \in K |-> CHOOSE f : f \in Bijection(1..number[k], Class(k))]
           U == {u \in K \X Nat : u[2] \in 1..number[u[1]]}
           h == [u \in U |-> count[u[1]][u[2]]]
<1>1. ASSUME NEW k \in K PROVE count[k] \in Bijection(1..number[k], Class(k))
  <2>1. IsFiniteSet(Class(k))
    BY FS_Subset
  <2>2. ExistsBijection(1..number[k], Class(k))
    BY <2>1, FS_CardinalityType DEF OfKind
  <2> QED
    BY <2>2 DEF ExistsBijection
<1> HIDE DEF count
<1>2. \A k \in K : count[k] \in [1..number[k] -> Class(k)]
                   /\ (\A i, j \in 1..number[k] : count[k][i] = count[k][j] => i = j)
                   /\ (\A x \in Class(k) : \E i \in 1..number[k] : count[k][i] = x)
  BY <1>1 DEF Bijection, Injection, Surjection, IsInjective
<1>3. h \in [U -> X]
  BY <1>2
<1>4. ASSUME NEW u \in U, NEW v \in U, h[u] = h[v] PROVE u = v
  <2>1. u[1] = v[1]
    <3>1. kind[h[u]] = u[1] /\ kind[h[v]] = v[1]
      BY <1>2
    <3> QED
      BY <1>4, <3>1
  <2>2. u[2] = v[2]
    BY <1>2, <1>4, <2>1
  <2> QED
    BY <2>1, <2>2
<1>5. ASSUME NEW x \in X PROVE \E u \in U : h[u] = x
  <2>1. x \in Class(kind[x]) /\ kind[x] \in K
    OBVIOUS
  <2>2. PICK i \in 1..number[kind[x]] : count[kind[x]][i] = x
    BY <1>2, <2>1
  <2>3. <<kind[x], i>> \in U
    BY <2>1, <2>2
  <2>4. h[<<kind[x], i>>] = x
    BY <2>2, <2>3
  <2> QED
    BY <2>3, <2>4
<1> HIDE DEF h, U
<1>6. h \in Bijection(U, X)
  BY <1>3, <1>4, <1>5 DEF Bijection, Injection, Surjection, IsInjective
<1>7. IsFiniteSet(U)
  BY <1>6, FS_Injection DEF Bijection
<1>8. Cardinality(X) = Cardinality(U)
  BY <1>6, <1>7, FS_Bijection DEF ExistsBijection
<1> QED
  BY <1>8, UnitsElements DEF U

\* The other way round: with as many things as units, the things can be given kinds and positions.
LEMMA UnitsAssigned ==
    ASSUME NEW K, IsFiniteSet(K), NEW number \in [K -> Nat]
    PROVE  LET all == 1..Cardinality(Units(K, number))
           IN  \E unit \in [all -> Units(K, number)] : unit \in Bijection(all, Units(K, number))
<1>1. ExistsBijection(1..Cardinality(Units(K, number)), Units(K, number))
  BY UnitsFinite, FS_CardinalityType
<1> QED
  BY <1>1 DEF ExistsBijection, Bijection, Injection

\* What a bijection takes to a set is as large as this set.
Preimage(S, f, V) == {x \in S : f[x] \in V}
LEMMA PreimageSize ==
    ASSUME NEW S, NEW T, NEW f \in Bijection(S, T), NEW V \in SUBSET T, IsFiniteSet(V)
    PROVE  IsFiniteSet(Preimage(S, f, V)) /\ Cardinality(Preimage(S, f, V)) = Cardinality(V)
<1> DEFINE P == {x \in S : f[x] \in V}
           g == [x \in P |-> f[x]]
<1>1. /\ f \in [S -> T] /\ \A x, y \in S : f[x] = f[y] => x = y
      /\ \A y \in T : \E x \in S : f[x] = y
  BY DEF Bijection, Injection, Surjection, IsInjective
<1>2. g \in [P -> V] /\ (\A x, y \in P : g[x] = g[y] => x = y) /\ (\A y \in V : \E x \in P : g[x] = y)
  BY <1>1
<1> HIDE DEF g, P
<1>3. g \in Injection(P, V) /\ g \in Surjection(P, V)
  BY <1>2 DEF Injection, Surjection, IsInjective
<1>4. IsFiniteSet(P) /\ Cardinality(P) = Cardinality(V)
  BY <1>3, FS_Injection
<1> QED
  BY <1>4 DEF P, Preimage

\* The same numbers under other names of the kinds.
LEMMA UnitsRenamed ==
    ASSUME NEW C, IsFiniteSet(C), NEW K, NEW f \in Bijection(C, K), NEW m \in [C -> Nat],
           NEW n \in [K -> Nat], \A c \in C : n[f[c]] = m[c]
    PROVE  Cardinality(Units(C, m)) = Cardinality(Units(K, n))
<1> DEFINE U == {u \in C \X Nat : u[2] \in 1..m[u[1]]}
           V == {v \in K \X Nat : v[2] \in 1..n[v[1]]}
           g == [u \in U |-> <<f[u[1]], u[2]>>]
<1>1. /\ f \in [C -> K] /\ \A x, y \in C : f[x] = f[y] => x = y
      /\ \A y \in K : \E x \in C : f[x] = y
  BY DEF Bijection, Injection, Surjection, IsInjective
<1>2. g \in [U -> V]
  BY <1>1
<1>3. \A x, y \in U : g[x] = g[y] => x = y
  BY <1>1
<1>4. ASSUME NEW v \in V PROVE \E u \in U : g[u] = v
  <2>1. PICK c \in C : f[c] = v[1]
    BY <1>1
  <2>2. <<c, v[2]>> \in U /\ v = <<v[1], v[2]>>
    BY <2>1
  <2>3. g[<<c, v[2]>>] = v
    BY <2>1, <2>2
  <2> QED
    BY <2>2, <2>3
<1> HIDE DEF g, U, V
<1>5. g \in Bijection(U, V)
  BY <1>2, <1>3, <1>4 DEF Bijection, Injection, Surjection, IsInjective
<1>6. U = Units(C, m) /\ V = Units(K, n)
  BY UnitsElements DEF U, V
<1>7. IsFiniteSet(U)
  BY <1>6, UnitsFinite
<1>8. Cardinality(U) = Cardinality(V)
  BY <1>5, <1>7, FS_Bijection DEF ExistsBijection
<1> QED
  BY <1>6, <1>8

-----------------------------------------------------------------------------
\* The sum over the categories is the number of their units: both are 0 for no category and grow
\* by its number with each, and a smallest set of categories where they differ cannot exist.
LEMMA TotalIsUnits ==
    ASSUME NEW r, NEW field, IsFiniteSet(r.categories), \A c \in r.categories : c.tally[field] \in Nat
    PROVE  Total(r, field) = Cardinality(Units(r.categories, [c \in r.categories |-> c.tally[field]]))
<1> DEFINE C == r.categories
           number(s) == [c \in s |-> c.tally[field]]
           size == [s \in SUBSET C |-> Cardinality(Units(s, number(s)))]
           Fold(f) == [s \in SUBSET C |->
                         IF s = {} THEN 0
                         ELSE LET c == CHOOSE x \in s : TRUE IN c.tally[field] + f[s \ {c}]]
           iter == CHOOSE f : f = Fold(f)
<1>1. Total(r, field) = iter[C]
  BY DEF Total, MapThenSumSet, MapThenFoldSet
<1>2. ASSUME NEW s \in SUBSET C
      PROVE  IsFiniteSet(s) /\ number(s) \in [s -> Nat]
  BY FS_Subset
<1>3. ASSUME NEW s \in SUBSET C, NEW c \in s
      PROVE  size[s] = c.tally[field] + size[s \ {c}]
  <2> DEFINE n == number(s)
             rest == number(s \ {c})
  <2>1. IsFiniteSet(s) /\ n \in [s -> Nat] /\ rest \in [s \ {c} -> Nat]
    BY <1>2
  <2>2. n[c] = c.tally[field] /\ \A j \in s \ {c} : rest[j] = n[j]
    OBVIOUS
  <2>3. size[s] = Cardinality(Units(s, n)) /\ size[s \ {c}] = Cardinality(Units(s \ {c}, rest))
    OBVIOUS
  <2> HIDE DEF n, rest, size
  <2>4. Cardinality(Units(s, n)) = n[c] + Cardinality(Units(s \ {c}, rest))
    BY <2>1, <2>2, UnitsTakeOne
  <2> QED
    BY <2>2, <2>3, <2>4
<1>4. size[{}] = 0
  <2>1. Units({}, number({})) = {}
    BY DEF Units
  <2> QED
    BY <2>1, FS_EmptySet
<1>5. size = Fold(size)
  <2> HIDE DEF number
  <2>1. ASSUME NEW s \in SUBSET C PROVE size[s] = Fold(size)[s]
    <3>1. CASE s = {}
      BY <1>4, <3>1
    <3>2. CASE s # {}
      <4>1. (CHOOSE x \in s : TRUE) \in s
        BY <3>2
      <4> HIDE DEF size
      <4> QED
        BY <1>3, <3>2, <4>1
    <3> QED
      BY <3>1, <3>2
  <2> QED
    BY <2>1
<1>6. iter = Fold(iter)
  <2> HIDE DEF Fold, size
  <2> QED
    BY <1>5
<1>7. ASSUME NEW s \in SUBSET C, \A t \in SUBSET C : t \subseteq s /\ t # s => iter[t] = size[t]
      PROVE  iter[s] = size[s]
  <2>1. iter[s] = Fold(iter)[s]
    BY <1>6
  <2>2. CASE s = {}
    BY <1>4, <2>1, <2>2
  <2>3. CASE s # {}
    <3> DEFINE c == CHOOSE x \in s : TRUE
    <3>1. c \in s
      BY <2>3
    <3>2. iter[s] = c.tally[field] + iter[s \ {c}]
      BY <2>1, <2>3
    <3>3. iter[s \ {c}] = size[s \ {c}]
      <4> HIDE DEF iter, size, c
      <4> QED
        BY <1>7, <3>1
    <3>4. size[s] = c.tally[field] + size[s \ {c}]
      <4> HIDE DEF iter, size, c
      <4> QED
        BY <1>3, <3>1
    <3> QED
      BY <3>2, <3>3, <3>4
  <2> QED
    BY <2>2, <2>3
<1>8. \A s \in SUBSET C : iter[s] = size[s]
  <2> HIDE DEF iter, size
  <2> DEFINE T == {s \in SUBSET C : iter[s] # size[s]}
  <2>1. IsWellFoundedOn(StrictSubsetOrdering(C), SUBSET C)
    BY FS_FiniteSubsetsOfFinite, FS_StrictSubsetOrderingWellFounded
  <2>2. SUFFICES ASSUME T # {} PROVE FALSE
    OBVIOUS
  <2>3. T \subseteq SUBSET C
    OBVIOUS
  <2> HIDE DEF T
  <2>4. PICK s \in T : \A t \in T : ~(<<t, s>> \in StrictSubsetOrdering(C))
    BY <2>1, <2>2, <2>3, WFMin
  <2>5. \A t \in SUBSET C : t \subseteq s /\ t # s => iter[t] = size[t]
    BY <2>3, <2>4 DEF T, StrictSubsetOrdering
  <2> QED
    BY <1>7, <2>5 DEF T
<1> QED
  BY <1>1, <1>8

-----------------------------------------------------------------------------
(***************************************************************************)
(* The names of a report, and its percentages.                             *)
(***************************************************************************)
\* Distinct names tell the categories of a report apart.
LEMMA NamesTellApart ==
    ASSUME NEW r, IsFiniteSet(r.categories), DistinctNames(r)
    PROVE  /\ \A c, d \in r.categories : c.category = d.category => c = d
           /\ \A c \in r.categories : Of(r, c.category) = c.tally
           /\ [c \in r.categories |-> c.category] \in Bijection(r.categories, Names(r))
           /\ IsFiniteSet(Names(r))
<1> DEFINE C == r.categories
           f == [c \in C |-> c.category]
<1>1. f \in Surjection(C, Names(r))
  BY DEF Names, Surjection
<1> HIDE DEF f
<1>2. f \in Injection(C, Names(r)) /\ IsFiniteSet(Names(r))
  BY <1>1, FS_Surjection DEF DistinctNames
<1>3. \A c, d \in C : c.category = d.category => c = d
  BY <1>2 DEF f, Injection, IsInjective
<1>4. ASSUME NEW c \in C PROVE Of(r, c.category) = c.tally
  BY <1>3 DEF Of
<1> QED
  BY <1>1, <1>2, <1>3, <1>4 DEF f, Bijection

\* Names that tell the categories apart are distinct.
LEMMA ApartAreDistinct ==
    ASSUME NEW r, IsFiniteSet(r.categories),
           \A c, d \in r.categories : c.category = d.category => c = d
    PROVE  DistinctNames(r)
<1> DEFINE f == [c \in r.categories |-> c.category]
<1>1. f \in Surjection(r.categories, Names(r)) /\ f \in Injection(r.categories, Names(r))
  BY DEF Names, Surjection, Injection, IsInjective
<1> HIDE DEF f
<1>2. Cardinality(Names(r)) = Cardinality(r.categories)
  BY <1>1, FS_Surjection
<1> QED
  BY <1>2 DEF DistinctNames

\* The sum over the categories, by their names.
LEMMA TotalByName ==
    ASSUME NEW r, IsFiniteSet(r.categories), DistinctNames(r), NEW field,
           NEW number \in [Names(r) -> Nat],
           \A c \in r.categories : c.tally[field] = number[c.category]
    PROVE  Total(r, field) = Cardinality(Units(Names(r), number))
<1> DEFINE C == r.categories
           f == [c \in C |-> c.category]
           m == [c \in C |-> c.tally[field]]
<1>1. f \in Bijection(C, Names(r))
  BY NamesTellApart
<1>2. \A c \in C : c.category \in Names(r) /\ f[c] = c.category /\ m[c] = number[f[c]]
  BY DEF Names
<1>3. \A c \in C : c.tally[field] \in Nat
  BY <1>2
<1>4. m \in [C -> Nat]
  BY <1>3
<1>5. Total(r, field) = Cardinality(Units(C, m))
  BY <1>3, TotalIsUnits
<1> HIDE DEF f, m
<1>6. Cardinality(Units(C, m)) = Cardinality(Units(Names(r), number))
  BY <1>1, <1>2, <1>4, UnitsRenamed
<1> QED
  BY <1>5, <1>6

-----------------------------------------------------------------------------
\* Division, as the remainder defines it.
LEMMA Divide ==
    ASSUME NEW n \in Nat, NEW d \in Nat \ {0}
    PROVE  n \div d \in Nat /\ n % d \in 0..d - 1 /\ n = d * (n \div d) + (n % d)
  BY Z3

\* A rounded quotient is a number, and never above a bound of the quotient.
LEMMA RoundBounds ==
    ASSUME NEW n \in Nat, NEW d \in Nat \ {0}
    PROVE  /\ Round(n, d) \in Nat
           /\ \A most \in Nat : n <= d * most => Round(n, d) <= most
<1> DEFINE q == n \div d
           x == n % d
<1>1. q \in Nat /\ x \in 0..d - 1 /\ n = d * q + x
  BY Divide
<1>2. Round(n, d) = IF 2 * x < d \/ (2 * x = d /\ q % 2 = 0) THEN q ELSE q + 1
  BY DEF Round
<1> HIDE DEF q, x
<1>3. ASSUME NEW most \in Nat, n <= d * most PROVE Round(n, d) <= most
  <2>1. CASE q < most
    BY <1>1, <1>2, <2>1
  <2>2. CASE q = most
    <3>1. x = 0
      BY <1>1, <1>3, <2>2
    <3> QED
      BY <1>1, <1>2, <2>2, <3>1
  <2>3. CASE q > most
    <3>1. PICK e \in Nat : q = most + 1 + e
      <4>1. q - most - 1 \in Nat /\ q = most + 1 + (q - most - 1)
        BY <1>1, <2>3
      <4> QED
        BY <4>1
    <3>2. d * q = d * most + d + d * e /\ d * e >= 0
      BY <3>1
    <3> QED
      BY <1>1, <1>3, <3>2
  <2> QED
    BY <1>1, <2>1, <2>2, <2>3
<1> QED
  BY <1>1, <1>2, <1>3

\* A multiple of the divisor leaves no remainder.
LEMMA ZeroRemainder ==
    ASSUME NEW k \in Nat, NEW q \in Nat, NEW d \in Nat \ {0}, NEW x \in 0..d - 1, k * d = d * q + x
    PROVE  x = 0
<1>1. CASE k <= q
  <2>1. PICK e \in Nat : q = k + e
    <3>1. q - k \in Nat /\ q = k + (q - k)
      BY <1>1
    <3> QED
      BY <3>1
  <2>2. d * q = k * d + d * e /\ d * e >= 0
    BY <2>1
  <2> QED
    BY <2>2
<1>2. CASE k > q
  <2>1. PICK e \in Nat : k = q + 1 + e
    <3>1. k - q - 1 \in Nat /\ k = q + 1 + (k - q - 1)
      BY <1>2
    <3> QED
      BY <3>1
  <2>2. k * d = d * q + d + d * e /\ d * e >= 0
    BY <2>1
  <2> QED
    BY <2>2
<1> QED
  BY <1>1, <1>2

\* One more than the divisor rounds to more, however the halves are rounded.
LEMMA RoundGrows ==
    ASSUME NEW a \in Nat, NEW b \in Nat, NEW d \in Nat \ {0}, b >= a + d,
           b = a + d => \E k \in Nat : a = k * d
    PROVE  Round(a, d) < Round(b, d)
<1> DEFINE q == a \div d
           x == a % d
           p == b \div d
           y == b % d
<1>1. q \in Nat /\ x \in 0..d - 1 /\ a = d * q + x /\ p \in Nat /\ y \in 0..d - 1 /\ b = d * p + y
  BY Divide
<1>2. /\ Round(a, d) = IF 2 * x < d \/ (2 * x = d /\ q % 2 = 0) THEN q ELSE q + 1
      /\ Round(b, d) = IF 2 * y < d \/ (2 * y = d /\ p % 2 = 0) THEN p ELSE p + 1
  BY DEF Round
<1> HIDE DEF q, x, p, y
<1>3. p >= q + 1
  <2>1. SUFFICES ASSUME p <= q PROVE FALSE
    BY <1>1
  <2>2. PICK e \in Nat : q = p + e
    <3>1. q - p \in Nat /\ q = p + (q - p)
      BY <1>1, <2>1
    <3> QED
      BY <3>1
  <2>3. d * q = d * p + d * e /\ d * e >= 0
    BY <1>1, <2>2
  <2> QED
    BY <1>1, <2>3
<1>4. CASE p >= q + 2
  BY <1>1, <1>2, <1>4
<1>5. CASE p = q + 1
  <2>1. d * p = d * q + d
    BY <1>1, <1>5
  <2>2. y >= x /\ (y = x => b = a + d)
    BY <1>1, <2>1
  <2>3. CASE y > x \/ 2 * x < d
    BY <1>1, <1>2, <1>5, <2>2, <2>3
  <2>4. CASE y = x /\ 2 * x >= d
    <3>1. PICK k \in Nat : a = k * d
      BY <2>2, <2>4
    <3>2. x = 0
      BY <1>1, <3>1, ZeroRemainder
    <3> QED
      BY <1>1, <2>4, <3>2
  <2> QED
    BY <1>1, <2>2, <2>3, <2>4
<1> QED
  BY <1>1, <1>3, <1>4, <1>5

\* A share of the whole is between 0 and 100 %.
LEMMA PercentBounds ==
    ASSUME NEW d \in Nat \ {0}, NEW n \in 0..d
    PROVE  Percent(n, d) \in 0..100 * Scale
<1> DEFINE most == 100 * Scale
           a == n * 100 * Scale
<1>1. most \in Nat /\ a \in Nat
  BY EvaluationAssumption
<1>2. a <= d * most
  <2>1. PICK e \in Nat : d = n + e
    <3>1. d - n \in Nat /\ d = n + (d - n)
      OBVIOUS
    <3> QED
      BY <3>1
  <2>2. d * most = a + e * most /\ e * most >= 0
    BY <1>1, <2>1, EvaluationAssumption
  <2> QED
    BY <1>1, <2>2
<1>3. Percent(n, d) = Round(a, d)
  BY DEF Percent
<1> HIDE DEF a, most
<1>4. Percent(n, d) \in 0..most
  BY <1>1, <1>2, <1>3, RoundBounds
<1> QED
  BY <1>4 DEF most

\* With no more samples than units in 100 %, each further correct answer shows.
LEMMA PercentGrows ==
    ASSUME NEW d \in 1..MaxRecords, NEW n \in 0..d, NEW k \in 0..d, n < k
    PROVE  Percent(n, d) < Percent(k, d)
<1> DEFINE most == 100 * Scale
           a == n * 100 * Scale
           b == k * 100 * Scale
<1>1. most \in Nat /\ a \in Nat /\ b \in Nat /\ d \in Nat \ {0} /\ d <= most
  BY EvaluationAssumption
<1>2. b >= a + most
  <2>1. PICK e \in Nat : k = n + 1 + e
    <3>1. k - n - 1 \in Nat /\ k = n + 1 + (k - n - 1)
      OBVIOUS
    <3> QED
      BY <3>1
  <2>2. b = a + most + e * most /\ e * most >= 0
    BY <1>1, <2>1, EvaluationAssumption
  <2> QED
    BY <1>1, <2>2
<1>3. a = n * most
  BY EvaluationAssumption
<1>4. Percent(n, d) = Round(a, d) /\ Percent(k, d) = Round(b, d)
  BY <1>1 DEF Percent
<1>5. n \in Nat
  BY <1>1
<1> HIDE DEF a, b, most
<1>6. b >= a + d /\ (b = a + d => \E j \in Nat : a = j * d)
  <2>1. ASSUME b = a + d PROVE a = n * d
    <3>1. d = most
      BY <1>1, <1>2, <2>1
    <3> QED
      BY <1>3, <3>1
  <2> QED
    BY <1>1, <1>2, <1>5, <2>1
<1> QED
  BY <1>1, <1>4, <1>6, RoundGrows

-----------------------------------------------------------------------------
\* A tally of some samples has possible counts and their percentage.
LEMMA TallyCounts ==
    ASSUME NEW X, IsFiniteSet(X), X # {}, Cardinality(X) <= MaxRecords, NEW result
    PROVE  /\ Counted(Tally(X, result))
           /\ Tally(X, result).total = Cardinality(X)
           /\ \A outcome \in {"correct", "invalid"} :
                 Tally(X, result)[outcome] = Cardinality({s \in X : result[s] = outcome})
<1> DEFINE Having(outcome) == {s \in X : result[s] = outcome}
           t == Tally(X, result)
<1>1. Cardinality(X) \in Nat \ {0}
  BY FS_CardinalityType, FS_EmptySet
<1>2. \A outcome : /\ IsFiniteSet(Having(outcome)) /\ Cardinality(Having(outcome)) \in Nat
                   /\ Cardinality(Having(outcome)) <= Cardinality(X)
  <2>1. ASSUME NEW outcome PROVE Having(outcome) \in SUBSET X
    OBVIOUS
  <2> HIDE DEF Having
  <2> QED
    BY <2>1, FS_Subset, FS_CardinalityType
<1>3. Cardinality(Having("correct")) + Cardinality(Having("invalid")) <= Cardinality(X)
  <2> DEFINE A == Having("correct")
             B == Having("invalid")
  <2>1. A \cap B = {} /\ A \cup B \in SUBSET X
    OBVIOUS
  <2>2. IsFiniteSet(A) /\ IsFiniteSet(B) /\ Cardinality(A) \in Nat /\ Cardinality(B) \in Nat
    BY <1>2
  <2> HIDE DEF A, B
  <2>3. Cardinality(A \cup B) = Cardinality(A) + Cardinality(B) - 0
    BY <2>1, <2>2, FS_Union, FS_EmptySet
  <2>4. Cardinality(A \cup B) <= Cardinality(X)
    BY <2>1, FS_Subset
  <2>5. Cardinality(A) + Cardinality(B) <= Cardinality(X)
    BY <1>1, <2>2, <2>3, <2>4
  <2> QED
    BY <2>5 DEF A, B
<1>4. /\ t.total = Cardinality(X) /\ t.correct = Cardinality(Having("correct"))
      /\ t.invalid = Cardinality(Having("invalid"))
      /\ t.accuracy = Percent(t.correct, t.total)
      /\ t["correct"] = t.correct /\ t["invalid"] = t.invalid
  BY DEF Tally
<1> HIDE DEF t, Having
<1>5. Possible(t)
  BY <1>1, <1>2, <1>3, <1>4, EvaluationAssumption DEF Possible
<1> QED
  BY <1>4, <1>5 DEF Counted, t, Having

\* The values of a finite function are finite.
LEMMA RangeFinite ==
    ASSUME NEW d, IsFiniteSet(DOMAIN d)
    PROVE  IsFiniteSet(Range(d))
<1> DEFINE f == [s \in DOMAIN d |-> d[s]]
<1>1. f \in Surjection(DOMAIN d, Range(d))
  BY DEF Range, Surjection
<1> HIDE DEF f
<1> QED
  BY <1>1, FS_Surjection

\* The categories of a measured report are those of its data set, each once.
LEMMA AggregateCategories ==
    ASSUME NEW m, NEW d, IsFiniteSet(DOMAIN d), NEW result
    PROVE  LET r == Aggregate(m, d, result)
           IN  /\ IsFiniteSet(r.categories) /\ Names(r) = Range(d)
               /\ \A c \in r.categories : c.tally = Tally(OfKind(DOMAIN d, d, c.category), result)
               /\ \A b, c \in r.categories : b.category = c.category => b = c
               /\ Cardinality(r.categories) = Cardinality(Range(d)) /\ DistinctNames(r)
<1> DEFINE r == Aggregate(m, d, result)
           Row(c) == [category |-> c, tally |-> Tally(OfKind(DOMAIN d, d, c), result)]
           f == [c \in Range(d) |-> Row(c)]
<1>1. r.categories = {Row(c) : c \in Range(d)}
  BY DEF Aggregate, OfKind
<1>2. \A c : Row(c).category = c /\ Row(c).tally = Tally(OfKind(DOMAIN d, d, c), result)
  OBVIOUS
<1> HIDE DEF Row, r
<1>3. /\ \A c \in r.categories : c.tally = Tally(OfKind(DOMAIN d, d, c.category), result)
      /\ \A b, c \in r.categories : b.category = c.category => b = c
  BY <1>1, <1>2
<1>4. Names(r) = Range(d)
  BY <1>1, <1>2 DEF Names
<1>5. f \in Surjection(Range(d), r.categories) /\ f \in Injection(Range(d), r.categories)
  BY <1>1, <1>2 DEF Surjection, Injection, IsInjective
<1> HIDE DEF f
<1>6. IsFiniteSet(r.categories) /\ Cardinality(r.categories) = Cardinality(Range(d))
  BY <1>5, FS_Surjection, RangeFinite
<1>7. DistinctNames(r)
  BY <1>3, <1>6, ApartAreDistinct
<1> QED
  BY <1>3, <1>4, <1>6, <1>7 DEF r

\* A measured report adds up: every sample has one category.
LEMMA AggregateAddsUp ==
    ASSUME NEW m, NEW d, IsFiniteSet(DOMAIN d), NEW result
    PROVE  AddsUp(Aggregate(m, d, result))
<1> DEFINE r == Aggregate(m, d, result)
<1>1. SUFFICES ASSUME NEW field \in {"total", "correct", "invalid"}
               PROVE  Total(r, field) = r.tally[field]
  BY DEF AddsUp
<1> DEFINE X == {s \in DOMAIN d : field = "total" \/ result[s] = field}
           kind == [s \in X |-> d[s]]
           K == Range(d)
           number == [k \in K |-> Cardinality({s \in X : kind[s] = k})]
<1>2. IsFiniteSet(X)
  BY FS_Subset
<1>3. ASSUME NEW Y PROVE Tally(Y, result)[field]
                           = Cardinality({s \in Y : field = "total" \/ result[s] = field})
  <2>1. CASE field = "total"
    <3>1. {s \in Y : field = "total" \/ result[s] = field} = Y
      BY <2>1
    <3> QED
      BY <2>1, <3>1 DEF Tally
  <2>2. CASE field = "correct"
    <3>1. {s \in Y : field = "total" \/ result[s] = field} = {s \in Y : result[s] = "correct"}
      BY <2>2
    <3> QED
      BY <2>2, <3>1 DEF Tally
  <2>3. CASE field = "invalid"
    <3>1. {s \in Y : field = "total" \/ result[s] = field} = {s \in Y : result[s] = "invalid"}
      BY <2>3
    <3> QED
      BY <2>3, <3>1 DEF Tally
  <2> QED
    BY <2>1, <2>2, <2>3
<1>4. kind \in [X -> K]
  BY DEF Range
<1>5. \A k \in K : number[k] = Cardinality(OfKind(X, kind, k)) /\ number[k] \in Nat
  <2>1. ASSUME NEW k \in K PROVE Cardinality({s \in X : kind[s] = k}) \in Nat
    <3> DEFINE Z == {s \in X : kind[s] = k}
    <3>1. Z \in SUBSET X
      OBVIOUS
    <3> HIDE DEF Z, X
    <3>2. Cardinality(Z) \in Nat
      BY <1>2, <3>1, FS_Subset, FS_CardinalityType
    <3> QED
      BY <3>2 DEF Z
  <2> QED
    BY <2>1 DEF OfKind
<1>6. number \in [K -> Nat]
  BY <1>5
<1>7. ASSUME NEW c \in r.categories PROVE c.tally[field] = number[c.category]
  <2>1. c.tally = Tally(OfKind(DOMAIN d, d, c.category), result) /\ c.category \in K
    BY AggregateCategories DEF Names
  <2>2. {s \in OfKind(DOMAIN d, d, c.category) : field = "total" \/ result[s] = field}
          = {s \in X : kind[s] = c.category}
    BY DEF OfKind
  <2> QED
    BY <1>3, <2>1, <2>2
<1>8. r.tally[field] = Cardinality(X)
  BY <1>3 DEF Aggregate
<1> HIDE DEF r, X, kind, number, K
<1>9. Cardinality(Units(K, number)) = Cardinality(X)
  BY <1>2, <1>4, <1>5, <1>6, UnitsOfClasses
<1>10. IsFiniteSet(r.categories) /\ DistinctNames(r) /\ Names(r) = K
  BY AggregateCategories DEF r, K
<1>11. Total(r, field) = Cardinality(Units(K, number))
  BY <1>6, <1>7, <1>10, TotalByName
<1> QED
  BY <1>8, <1>9, <1>11

-----------------------------------------------------------------------------
(***************************************************************************)
(* What is measured passes both checks.                                    *)
(***************************************************************************)
\* A data set within the limits of the checks.
Fits(d) ==
    /\ IsFiniteSet(DOMAIN d) /\ DOMAIN d # {} /\ Cardinality(DOMAIN d) <= MaxRecords
    /\ Cardinality(Range(d)) <= MaxCategories

\* The report of a model, measured on such a data set, is consistent.
LEMMA AggregateIsConsistent ==
    ASSUME NEW m, NEW d, Fits(d), NEW result
    PROVE  MetricSummary(Aggregate(m, d, result))
<1> DEFINE r == Aggregate(m, d, result)
<1>1. /\ r.ids = DOMAIN d /\ r.listed = Cardinality(DOMAIN d) /\ r.tally = Tally(DOMAIN d, result)
  BY DEF Aggregate
<1>2. IsFiniteSet(DOMAIN d) /\ Cardinality(Range(d)) <= MaxCategories
  BY DEF Fits
<1>3. Counted(Tally(DOMAIN d, result)) /\ Tally(DOMAIN d, result).total = Cardinality(DOMAIN d)
  <2> DEFINE all == DOMAIN d
  <2>1. IsFiniteSet(all) /\ all # {} /\ Cardinality(all) <= MaxRecords
    BY DEF Fits
  <2> HIDE DEF all
  <2>2. Counted(Tally(all, result)) /\ Tally(all, result).total = Cardinality(all)
    BY <2>1, TallyCounts
  <2> QED
    BY <2>2 DEF all
<1>4. ASSUME NEW c \in r.categories PROVE Counted(c.tally)
  <2> DEFINE X == OfKind(DOMAIN d, d, c.category)
  <2>1. c.tally = Tally(X, result) /\ c.category \in Range(d)
    BY <1>2, AggregateCategories DEF Names
  <2>2. X # {} /\ X \in SUBSET DOMAIN d
    BY <2>1 DEF Range, OfKind
  <2> HIDE DEF X
  <2>3. IsFiniteSet(X) /\ Cardinality(X) \in Nat /\ Cardinality(X) <= Cardinality(DOMAIN d)
        /\ Cardinality(DOMAIN d) \in Nat
    BY <2>2, FS_Subset, FS_CardinalityType DEF Fits
  <2>4. Cardinality(X) <= MaxRecords
    BY <2>3, EvaluationAssumption DEF Fits
  <2>5. Counted(Tally(X, result))
    BY <2>2, <2>3, <2>4, TallyCounts
  <2> QED
    BY <2>1, <2>5
<1>5. DistinctNames(r) /\ Cardinality(r.categories) <= MaxCategories
  BY <1>2, AggregateCategories
<1>6. AddsUp(r)
  BY <1>2, AggregateAddsUp
<1> HIDE DEF r
<1>7. MetricSummary(r)
  BY <1>1, <1>3, <1>4, <1>5, <1>6 DEF MetricSummary
<1> QED
  BY <1>7 DEF r

\* The tally of a category, in a measured report.
LEMMA AggregateOf ==
    ASSUME NEW m, NEW d, Fits(d), NEW result, NEW c \in Range(d)
    PROVE  Of(Aggregate(m, d, result), c) = Tally(OfKind(DOMAIN d, d, c), result)
<1> DEFINE r == Aggregate(m, d, result)
<1>1. IsFiniteSet(r.categories) /\ DistinctNames(r) /\ c \in Names(r)
      /\ \A b \in r.categories : b.tally = Tally(OfKind(DOMAIN d, d, b.category), result)
  BY AggregateCategories DEF Fits
<1> HIDE DEF r
<1>2. PICK b \in r.categories : b.category = c
  BY <1>1 DEF Names
<1>3. Of(r, c) = b.tally
  BY <1>1, <1>2, NamesTellApart
<1> QED
  BY <1>1, <1>2, <1>3 DEF r

\* The agent accepts what was measured.
LEMMA AgentAcceptsMeasured ==
    ASSUME Fits(data), Template \in [Models -> {"base", "instruct"}]
    PROVE  AgentAccepts(Measured)
<1> DEFINE base == Aggregate("baseline", data, results["baseline"])
           cand == Aggregate("candidate", data, results["candidate"])
<1>1. MetricSummary(base) /\ MetricSummary(cand)
  BY AggregateIsConsistent
<1>2. /\ base.name = "baseline" /\ cand.name = "candidate" /\ base.ids = cand.ids
      /\ base.template = Template["baseline"] /\ cand.template = Template["candidate"]
      /\ base.digest = "merged" /\ cand.digest = "merged"
      /\ base.tally.total = Cardinality(Samples) /\ cand.tally.total = Cardinality(Samples)
  BY DEF Aggregate, Tally, Samples
<1>3. SameCategories(base, cand)
  <2>1. Names(base) = Range(data) /\ Names(cand) = Range(data)
    BY AggregateCategories DEF Fits
  <2>2. \A c \in Range(data) : Of(base, c).total = Of(cand, c).total
    <3>1. ASSUME NEW c \in Range(data)
          PROVE  Of(base, c).total = Cardinality(OfKind(DOMAIN data, data, c))
                 /\ Of(cand, c).total = Cardinality(OfKind(DOMAIN data, data, c))
      <4>1. /\ Of(base, c) = Tally(OfKind(DOMAIN data, data, c), results["baseline"])
            /\ Of(cand, c) = Tally(OfKind(DOMAIN data, data, c), results["candidate"])
        BY AggregateOf
      <4>2. \A X, result : Tally(X, result).total = Cardinality(X)
        BY DEF Tally
      <4> HIDE DEF base, cand
      <4> QED
        BY <4>1, <4>2
    <3> QED
      BY <3>1
  <2> QED
    BY <2>1, <2>2 DEF SameCategories
<1>4. Measured.baseline = base /\ Measured.candidate = cand
      /\ Measured.comparison = CompareReports(base, cand)
  BY DEF Measured, Pair
<1> HIDE DEF base, cand
<1>5. CompareReports(base, cand) = [CompareReports(base, cand) EXCEPT !.comparable = TRUE]
  <2> DEFINE q == CompareReports(base, cand)
  <2>1. q = [comparable |-> TRUE, digest |-> q.digest, names |-> q.names, overall |-> q.overall,
             relative |-> q.relative, changes |-> q.changes]
    BY <1>2 DEF CompareReports
  <2> HIDE DEF q
  <2>2. q = [q EXCEPT !.comparable = TRUE]
    BY <2>1
  <2> QED
    BY <2>2 DEF q
<1> QED
  BY <1>1, <1>2, <1>3, <1>4, <1>5 DEF AgentAccepts

-----------------------------------------------------------------------------
\* What the checks of the agent leave of a report.
LEMMA SummaryKeeps ==
    ASSUME NEW r
    PROVE  /\ Summary(r).digest = r.digest /\ Summary(r).name = r.name
           /\ Summary(r).template = r.template /\ Summary(r).tally = r.tally
           /\ Summary(r).categories = r.categories /\ Names(Summary(r)) = Names(r)
           /\ \A c : Of(Summary(r), c) = Of(r, c)
           /\ DistinctNames(Summary(r)) <=> DistinctNames(r)
           /\ \A field : Total(Summary(r), field) = Total(r, field)
           /\ AddsUp(Summary(r)) <=> AddsUp(r)
<1>1. /\ Summary(r).digest = r.digest /\ Summary(r).name = r.name
      /\ Summary(r).template = r.template /\ Summary(r).tally = r.tally
      /\ Summary(r).categories = r.categories
  BY DEF Summary
<1>2. Names(Summary(r)) = Names(r) /\ \A c : Of(Summary(r), c) = Of(r, c)
  BY <1>1 DEF Names, Of
<1>3. \A field : Total(Summary(r), field) = Total(r, field)
  BY <1>1 DEF Total
<1> QED
  BY <1>1, <1>2, <1>3 DEF DistinctNames, AddsUp

\* Counts that the agent accepts are accepted by the control plane.
LEMMA CountedIsNear ==
    ASSUME NEW t, Counted(t)
    PROVE  CountedNearly(t)
<1>1. t.total \in Nat \ {0} /\ t.correct \in 0..t.total
  BY EvaluationAssumption DEF Counted, Possible
<1>2. t.accuracy \in 0..100 * Scale /\ t.accuracy = Percent(t.correct, t.total)
  BY <1>1, PercentBounds DEF Counted
<1>3. t.accuracy \in Int
  BY <1>2, EvaluationAssumption
<1> QED
  BY <1>2, <1>3 DEF CountedNearly, Counted, InPercent, Near

\* The same for a change and for the relative change.
LEMMA ChangeIsNear ==
    ASSUME NEW category, NEW base \in 0..100 * Scale, NEW cand \in 0..100 * Scale
    PROVE  /\ ChangeNearly(Change(category, base, cand))
           /\ RelativeNearly(Relative(cand - base, base), Change(category, base, cand))
<1> DEFINE all == Change(category, base, cand)
<1>1. base \in Nat /\ cand \in Nat
  BY EvaluationAssumption
<1>2. all.baseline = base /\ all.candidate = cand /\ all.change = cand - base
  BY DEF Change
<1> HIDE DEF all
<1>3. ChangeNearly(all)
  BY <1>1, <1>2 DEF ChangeNearly, InPercent, Near
<1>4. ASSUME base # 0
      PROVE  Relative(cand - base, base) # <<>> /\ Relative(cand - base, base)[1] \in Int
  <2> DEFINE n == (cand - base) * 100 * Scale
  <2>1. n \in Int /\ base \in Nat \ {0}
    BY <1>1, <1>4, EvaluationAssumption
  <2>2. Relative(cand - base, base) = <<Ratio(n, base)>>
    BY <1>4 DEF Relative
  <2> HIDE DEF n
  <2>3. Ratio(n, base) \in Int
    <3>1. CASE n < 0
      <4>1. -n \in Nat
        BY <2>1, <3>1
      <4>2. Round(-n, base) \in Nat
        BY <2>1, <4>1, RoundBounds
      <4> QED
        BY <2>1, <3>1, <4>2 DEF Ratio
    <3>2. CASE ~(n < 0)
      <4>1. Round(n, base) \in Nat
        BY <2>1, <3>2, RoundBounds
      <4> QED
        BY <2>1, <3>2, <4>1 DEF Ratio
    <3> QED
      BY <3>1, <3>2
  <2> QED
    BY <2>2, <2>3
<1>5. RelativeNearly(Relative(cand - base, base), all)
  <2>1. CASE base = 0
    BY <1>2, <2>1 DEF RelativeNearly, Relative
  <2>2. CASE base # 0
    BY <1>2, <1>4, <2>2 DEF RelativeNearly, Near
  <2> QED
    BY <2>1, <2>2
<1> QED
  BY <1>3, <1>5 DEF all

\* The control plane refuses no report that the agent accepts.
LEMMA ControlPlaneFollows ==
    ASSUME NEW p, AgentAccepts(p), \A m \in Models : IsFiniteSet(p[m].categories),
           Template \in [Models -> {"base", "instruct"}]
    PROVE  ControlPlaneAccepts(Metadata(p))
<1> DEFINE base == p.baseline
           cand == p.candidate
           q == CompareReports(base, cand)
           meta == Metadata(p)
<1>1. /\ MetricSummary(base) /\ MetricSummary(cand)
      /\ base.name = "baseline" /\ cand.name = "candidate"
      /\ base.template = Template["baseline"] /\ cand.template = Template["candidate"]
      /\ SameCategories(base, cand) /\ base.digest = cand.digest
      /\ base.tally.total = cand.tally.total
      /\ p.comparison = [q EXCEPT !.comparable = TRUE]
  BY DEF AgentAccepts
<1>2. /\ p.comparison.comparable /\ p.comparison.digest = base.digest
      /\ p.comparison.names = <<base.name, cand.name>>
      /\ p.comparison.overall = Change("all", base.tally.accuracy, cand.tally.accuracy)
      /\ p.comparison.relative = Relative(cand.tally.accuracy - base.tally.accuracy, base.tally.accuracy)
      /\ p.comparison.changes = {Change(c, Of(base, c).accuracy, Of(cand, c).accuracy)
                                    : c \in Names(base) \cap Names(cand)}
  <2>1. p.comparison.comparable = TRUE
        /\ p.comparison.digest = q.digest /\ p.comparison.names = q.names
        /\ p.comparison.overall = q.overall /\ p.comparison.relative = q.relative
        /\ p.comparison.changes = q.changes
    <3>1. q = [comparable |-> q.comparable, digest |-> q.digest, names |-> q.names,
               overall |-> q.overall, relative |-> q.relative, changes |-> q.changes]
      BY DEF CompareReports
    <3> HIDE DEF q
    <3> QED
      BY <1>1, <3>1
  <2>2. q.digest = base.digest /\ q.names = <<base.name, cand.name>>
        /\ q.overall = Change("all", base.tally.accuracy, cand.tally.accuracy)
        /\ q.relative = Relative(cand.tally.accuracy - base.tally.accuracy, base.tally.accuracy)
        /\ q.changes = {Change(c, Of(base, c).accuracy, Of(cand, c).accuracy)
                           : c \in Names(base) \cap Names(cand)}
    BY DEF CompareReports
  <2> HIDE DEF q
  <2> QED
    BY <2>1, <2>2
<1>3. /\ meta.baseline = Summary(base) /\ meta.candidate = Summary(cand)
      /\ meta.comparison = p.comparison /\ meta.warnings = AllInvalid(p)
  BY DEF Metadata
<1>4. base = p["baseline"] /\ cand = p["candidate"] /\ meta.baseline = meta["baseline"]
      /\ meta.candidate = meta["candidate"]
  OBVIOUS
<1>5. IsFiniteSet(base.categories) /\ IsFiniteSet(cand.categories)
  BY DEF Models
<1> HIDE DEF base, cand, q, meta
<1>6. AllInvalid(meta) = AllInvalid(p)
  <2>1. \A m \in Models : meta[m].tally = p[m].tally
    BY <1>3, <1>4, SummaryKeeps DEF Models
  <2> QED
    BY <2>1 DEF AllInvalid
<1>7. ASSUME NEW r, MetricSummary(r), IsFiniteSet(r.categories)
      PROVE  /\ CountedNearly(r.tally) /\ \A c \in r.categories : CountedNearly(c.tally)
             /\ Cardinality(r.categories) \in 1..MaxCategories
             /\ DistinctNames(r) /\ AddsUp(r)
             /\ Cardinality(Names(r)) = Cardinality(r.categories) /\ IsFiniteSet(Names(r))
             /\ r.tally.accuracy \in 0..100 * Scale
             /\ \A c \in Names(r) : Of(r, c).accuracy \in 0..100 * Scale
  <2>1. Counted(r.tally) /\ (\A c \in r.categories : Counted(c.tally)) /\ DistinctNames(r) /\ AddsUp(r)
        /\ Cardinality(r.categories) <= MaxCategories
    BY <1>7 DEF MetricSummary
  <2>2. CountedNearly(r.tally) /\ \A c \in r.categories : CountedNearly(c.tally)
    BY <2>1, CountedIsNear
  <2>3. r.categories # {}
    <3>1. SUFFICES ASSUME r.categories = {} PROVE FALSE
      OBVIOUS
    <3> DEFINE number == [c \in r.categories |-> c.tally["total"]]
    <3>2. Total(r, "total") = Cardinality(Units(r.categories, number))
      BY <1>7, <3>1, TotalIsUnits
    <3>3. Units(r.categories, number) = {}
      BY <3>1 DEF Units
    <3>4. r.tally["total"] = 0
      BY <2>1, <3>2, <3>3, FS_EmptySet DEF AddsUp
    <3> QED
      BY <2>1, <3>4 DEF Counted, Possible
  <2>4. Cardinality(r.categories) \in Nat \ {0}
    BY <1>7, <2>3, FS_CardinalityType, FS_EmptySet
  <2>5. IsFiniteSet(Names(r)) /\ \A c \in r.categories : Of(r, c.category) = c.tally
    BY <1>7, <2>1, NamesTellApart
  <2>6. \A c \in Names(r) : Of(r, c).accuracy \in 0..100 * Scale
    BY <2>2, <2>5 DEF Names, CountedNearly, InPercent
  <2>7. r.tally.accuracy \in 0..100 * Scale
    BY <2>2 DEF CountedNearly, InPercent
  <2> QED
    BY <2>1, <2>2, <2>4, <2>5, <2>6, <2>7, EvaluationAssumption DEF DistinctNames
<1>8. /\ ChangeNearly(meta.comparison.overall)
      /\ RelativeNearly(meta.comparison.relative, meta.comparison.overall)
      /\ meta.comparison.overall.baseline = meta.baseline.tally.accuracy
      /\ meta.comparison.overall.candidate = meta.candidate.tally.accuracy
  <2>1. base.tally.accuracy \in 0..100 * Scale /\ cand.tally.accuracy \in 0..100 * Scale
    BY <1>1, <1>5, <1>7
  <2>2. meta.baseline.tally = base.tally /\ meta.candidate.tally = cand.tally
    BY <1>3, SummaryKeeps
  <2> QED
    BY <1>2, <1>3, <2>1, <2>2, ChangeIsNear DEF Change
<1>9. Names(base) = Names(cand) /\ Names(meta.baseline) = Names(base) /\ Names(meta.candidate) = Names(base)
  BY <1>1, <1>3, SummaryKeeps DEF SameCategories
<1> DEFINE Row(c) == Change(c, Of(base, c).accuracy, Of(cand, c).accuracy)
<1>10. meta.comparison.changes = {Row(c) : c \in Names(base)}
  BY <1>2, <1>3, <1>9
<1>11. \A c : Row(c).category = c /\ Row(c).baseline = Of(base, c).accuracy
              /\ Row(c).candidate = Of(cand, c).accuracy
  BY DEF Change
<1>12. \A c \in Names(base) : ChangeNearly(Row(c))
  <2>1. ASSUME NEW c \in Names(base)
        PROVE  Of(base, c).accuracy \in 0..100 * Scale /\ Of(cand, c).accuracy \in 0..100 * Scale
    BY <1>1, <1>5, <1>7, <1>9
  <2> QED
    BY <2>1, ChangeIsNear
<1>13. \A c : Of(meta.baseline, c) = Of(base, c) /\ Of(meta.candidate, c) = Of(cand, c)
  BY <1>3, SummaryKeeps
<1>14. Cardinality(meta.comparison.changes) = Cardinality(Names(base))
  <2> DEFINE f == [c \in Names(base) |-> Row(c)]
             T == {Row(c) : c \in Names(base)}
  <2> HIDE DEF Row
  <2>1. f \in Surjection(Names(base), T) /\ f \in Injection(Names(base), T)
    BY <1>11 DEF Surjection, Injection, IsInjective
  <2>2. IsFiniteSet(Names(base))
    BY <1>1, <1>5, <1>7
  <2>3. meta.comparison.changes = T
    BY <1>10
  <2> HIDE DEF f, T
  <2> QED
    BY <2>1, <2>2, <2>3, FS_Surjection
<1>15. {c.category : c \in meta.comparison.changes} = Names(base)
  <2> HIDE DEF Row
  <2> QED
    BY <1>10, <1>11
<1>16. \A c \in meta.comparison.changes :
          /\ ChangeNearly(c)
          /\ c.baseline = Of(meta.baseline, c.category).accuracy
          /\ c.candidate = Of(meta.candidate, c.category).accuracy
  <2> HIDE DEF Row
  <2> QED
    BY <1>10, <1>11, <1>12, <1>13
<1>17. ASSUME NEW m \in Models
       PROVE  /\ CountedNearly(meta[m].tally)
              /\ Cardinality(meta[m].categories) \in 1..MaxCategories
              /\ \A c \in meta[m].categories : CountedNearly(c.tally)
              /\ DistinctNames(meta[m]) /\ AddsUp(meta[m])
              /\ meta[m].name = m /\ meta[m].template = Template[m]
              /\ meta[m].digest = meta.comparison.digest
  <2>1. CASE m = "baseline"
    <3>1. meta[m] = Summary(base) /\ base.name = m /\ base.template = Template[m]
          /\ base.digest = meta.comparison.digest
      BY <1>1, <1>2, <1>3, <1>4, <2>1
    <3> QED
      BY <1>1, <1>5, <1>7, <3>1, SummaryKeeps
  <2>2. CASE m = "candidate"
    <3>1. meta[m] = Summary(cand) /\ cand.name = m /\ cand.template = Template[m]
          /\ cand.digest = meta.comparison.digest
      BY <1>1, <1>2, <1>3, <1>4, <2>2
    <3> QED
      BY <1>1, <1>5, <1>7, <3>1, SummaryKeeps
  <2> QED
    BY <2>1, <2>2 DEF Models
<1>18. /\ meta.baseline.tally.total = meta.candidate.tally.total
       /\ meta.comparison.comparable /\ meta.comparison.names = <<"baseline", "candidate">>
  BY <1>1, <1>2, <1>3, SummaryKeeps
<1> HIDE DEF Row
<1>19. ControlPlaneAccepts(meta)
  BY <1>3, <1>6, <1>8, <1>9, <1>14, <1>15, <1>16, <1>17, <1>18 DEF ControlPlaneAccepts
<1> QED
  BY <1>19 DEF meta

-----------------------------------------------------------------------------
(***************************************************************************)
(* What passes the checks of the agent is possible.                        *)
(***************************************************************************)
\* A change of the percentage has the direction of the change of the count.
LEMMA CountsImprove ==
    ASSUME NEW s, NEW t, Counted(s), Counted(t), s.total = t.total
    PROVE  Improves(s, t, t.accuracy - s.accuracy)
<1>1. /\ s.total \in 1..MaxRecords /\ s.correct \in 0..s.total /\ t.correct \in 0..s.total
      /\ s.accuracy = Percent(s.correct, s.total) /\ t.accuracy = Percent(t.correct, s.total)
  BY DEF Counted, Possible
<1>2. s.accuracy \in Int /\ t.accuracy \in Int
  <2>1. s.total \in Nat \ {0}
    BY <1>1, EvaluationAssumption
  <2>2. s.accuracy \in 0..100 * Scale /\ t.accuracy \in 0..100 * Scale
    BY <1>1, <2>1, PercentBounds
  <2> QED
    BY <2>2, EvaluationAssumption
<1>3. CASE t.correct > s.correct
  <2>1. s.accuracy < t.accuracy
    BY <1>1, <1>3, PercentGrows
  <2> QED
    BY <1>1, <1>2, <1>3, <2>1 DEF Improves
<1>4. CASE t.correct < s.correct
  <2>1. t.accuracy < s.accuracy
    BY <1>1, <1>4, PercentGrows
  <2> QED
    BY <1>1, <1>2, <1>4, <2>1 DEF Improves
<1>5. CASE t.correct = s.correct
  BY <1>1, <1>2, <1>5 DEF Improves
<1> QED
  BY <1>1, <1>3, <1>4, <1>5, EvaluationAssumption

\* Some positions of one kind.
Positions(k, a, n) == {k} \X (a + 1..a + n)
LEMMA PositionsOfOne ==
    ASSUME NEW k, NEW a \in Nat, NEW n \in Nat
    PROVE  IsFiniteSet(Positions(k, a, n)) /\ Cardinality(Positions(k, a, n)) = n
<1> DEFINE A == {k}
           B == a + 1..a + n
<1>1. IsFiniteSet(A) /\ Cardinality(A) = 1
  BY FS_Singleton
<1>2. IsFiniteSet(B) /\ Cardinality(B) = n
  BY FS_Interval
<1> HIDE DEF A, B
<1>3. IsFiniteSet(A \X B) /\ Cardinality(A \X B) = Cardinality(A) * Cardinality(B)
  BY <1>1, <1>2, FS_Product
<1> QED
  BY <1>1, <1>2, <1>3 DEF A, B, Positions

\* What a consistent report says of the tallies of its categories.
LEMMA TalliesOfNames ==
    ASSUME NEW r, MetricSummary(r), IsFiniteSet(r.categories)
    PROVE  /\ IsFiniteSet(Names(r)) /\ DistinctNames(r) /\ Counted(r.tally)
           /\ \A k \in Names(r) : Counted(Of(r, k))
           /\ \A k \in Names(r) :
                 /\ Of(r, k).total \in Nat \ {0} /\ Of(r, k).correct \in Nat /\ Of(r, k).invalid \in Nat
                 /\ Of(r, k).correct + Of(r, k).invalid <= Of(r, k).total
           /\ \A field \in {"total", "correct", "invalid"} : \A number \in [Names(r) -> Nat] :
                 (\A k \in Names(r) : number[k] = Of(r, k)[field])
                    => r.tally[field] = Cardinality(Units(Names(r), number))
<1>1. DistinctNames(r) /\ AddsUp(r) /\ Counted(r.tally) /\ \A c \in r.categories : Counted(c.tally)
  BY DEF MetricSummary
<1>2. IsFiniteSet(Names(r)) /\ \A c \in r.categories : Of(r, c.category) = c.tally
  BY <1>1, NamesTellApart
<1>3. \A k \in Names(r) : Counted(Of(r, k))
  BY <1>1, <1>2 DEF Names
<1>4. ASSUME NEW k \in Names(r)
      PROVE  /\ Of(r, k).total \in Nat \ {0} /\ Of(r, k).correct \in Nat /\ Of(r, k).invalid \in Nat
             /\ Of(r, k).correct + Of(r, k).invalid <= Of(r, k).total
  BY <1>3, EvaluationAssumption DEF Counted, Possible
<1>5. ASSUME NEW field \in {"total", "correct", "invalid"}, NEW number \in [Names(r) -> Nat],
             \A k \in Names(r) : number[k] = Of(r, k)[field]
      PROVE  r.tally[field] = Cardinality(Units(Names(r), number))
  <2>1. \A c \in r.categories : c.tally[field] = number[c.category]
    BY <1>2, <1>5 DEF Names
  <2>2. Total(r, field) = Cardinality(Units(Names(r), number))
    BY <1>1, <2>1, TotalByName
  <2> QED
    BY <1>1, <2>2 DEF AddsUp
<1> QED
  BY <1>1, <1>2, <1>3, <1>4, <1>5

\* Samples of the categories of a consistent report can be answered so that it counts the answers:
\* in each category first the correct, then the invalid, then the other ones.
LEMMA OutcomesExist ==
    ASSUME NEW r, MetricSummary(r), IsFiniteSet(r.categories),
           NEW K, K = Names(r),
           NEW total \in [K -> Nat], \A k \in K : total[k] = Of(r, k).total,
           NEW all, IsFiniteSet(all), NEW unit \in Bijection(all, Units(K, total)),
           NEW category \in [all -> K], \A i \in all : category[i] = unit[i][1]
    PROVE  \E outcomes \in [all -> Outcomes] :
              /\ Counts(r.tally, all, outcomes)
              /\ \A k \in K : Counts(Of(r, k), OfKind(all, category, k), outcomes)
<1> DEFINE U == Units(K, total)
           outcome(u) == IF u[2] <= Of(r, u[1]).correct THEN "correct"
                         ELSE IF u[2] <= Of(r, u[1]).correct + Of(r, u[1]).invalid THEN "invalid"
                         ELSE "wrong"
           outcomes == [i \in all |-> outcome(unit[i])]
<1>1. /\ IsFiniteSet(K)
      /\ \A k \in K : /\ Of(r, k).total \in Nat \ {0} /\ Of(r, k).correct \in Nat /\ Of(r, k).invalid \in Nat
                      /\ Of(r, k).correct + Of(r, k).invalid <= Of(r, k).total
  BY TalliesOfNames
<1>2. U = {u \in K \X Nat : u[2] \in 1..Of(r, u[1]).total}
  BY UnitsElements
<1>3. unit \in [all -> U]
  BY DEF Bijection, Injection
<1>4. outcomes \in [all -> Outcomes]
  BY DEF Outcomes
<1>5. ASSUME NEW k \in K, NEW value \in {"correct", "invalid"}
      PROVE  Cardinality({i \in OfKind(all, category, k) : outcomes[i] = value}) = Of(r, k)[value]
  <2> DEFINE a == IF value = "correct" THEN 0 ELSE Of(r, k).correct
             n == Of(r, k)[value]
             V == Positions(k, a, n)
             P == Preimage(all, unit, V)
  <2>1. a \in Nat /\ n \in Nat /\ a + n <= Of(r, k).total
    BY <1>1
  <2>2. V \in SUBSET U
    BY <1>1, <1>2, <2>1 DEF Positions
  <2>3. ASSUME NEW u \in U PROVE u \in V <=> u[1] = k /\ outcome(u) = value
    <3>1. u = <<u[1], u[2]>> /\ u[2] \in Nat \ {0}
      BY <1>2
    <3>2. u \in V <=> u[1] = k /\ u[2] \in a + 1..a + n
      BY <3>1 DEF Positions
    <3>3. ASSUME u[1] = k PROVE outcome(u) = value <=> u[2] \in a + 1..a + n
      <4>1. CASE value = "correct"
        BY <1>1, <3>1, <3>3, <4>1
      <4>2. CASE value = "invalid"
        BY <1>1, <3>1, <3>3, <4>2
      <4> QED
        BY <4>1, <4>2
    <3> QED
      BY <3>2, <3>3
  <2>4. {i \in OfKind(all, category, k) : outcomes[i] = value} = P
    <3> HIDE DEF V, outcome, U
    <3> QED
      BY <1>3, <2>3 DEF OfKind, Preimage
  <2>5. IsFiniteSet(V) /\ Cardinality(V) = n
    <3> HIDE DEF a, n
    <3> QED
      BY <2>1, PositionsOfOne
  <2> HIDE DEF V, n
  <2>6. Cardinality(P) = Cardinality(V)
    BY <2>2, <2>5, PreimageSize
  <2> QED
    BY <2>4, <2>5, <2>6 DEF n
<1>6. ASSUME NEW value \in {"correct", "invalid"}
      PROVE  Cardinality({i \in all : outcomes[i] = value}) = r.tally[value]
  <2> DEFINE X == {i \in all : outcomes[i] = value}
             kind == [i \in X |-> category[i]]
             number == [k \in K |-> Of(r, k)[value]]
  <2>1. IsFiniteSet(X)
    <3> HIDE DEF outcomes
    <3> QED
      BY FS_Subset
  <2>2. kind \in [X -> K]
    <3> HIDE DEF outcomes
    <3> QED
      OBVIOUS
  <2>3. number \in [K -> Nat]
    BY <1>1
  <2>4. \A k \in K : number[k] = Cardinality(OfKind(X, kind, k))
    <3>1. ASSUME NEW k \in K
          PROVE  OfKind(X, kind, k) = {i \in OfKind(all, category, k) : outcomes[i] = value}
      <4> HIDE DEF outcomes
      <4> QED
        BY DEF OfKind
    <3> HIDE DEF outcomes
    <3> QED
      BY <1>5, <3>1
  <2>5. \A k \in K : number[k] = Of(r, k)[value]
    OBVIOUS
  <2> HIDE DEF X, kind, number
  <2>6. Cardinality(Units(K, number)) = Cardinality(X)
    BY <2>1, <2>2, <2>3, <2>4, UnitsOfClasses
  <2>7. r.tally[value] = Cardinality(Units(K, number))
    BY <2>3, <2>5, TalliesOfNames
  <2> QED
    BY <2>6, <2>7 DEF X
<1> HIDE DEF outcomes
<1>7. Counts(r.tally, all, outcomes)
  BY <1>6 DEF Counts
<1>8. \A k \in K : Counts(Of(r, k), OfKind(all, category, k), outcomes)
  BY <1>5 DEF Counts
<1> QED
  BY <1>4, <1>7, <1>8

\* What the agent accepts is possible: there are answers to as many samples with these counts.
LEMMA AcceptedIsRealizable ==
    ASSUME NEW p, AgentAccepts(p), \A m \in Models : IsFiniteSet(p[m].categories)
    PROVE  Realizable(Metadata(p))
<1> DEFINE base == p.baseline
           cand == p.candidate
           meta == Metadata(p)
           K == Names(base)
           total == [k \in K |-> Of(base, k).total]
           U == Units(K, total)
           all == 1..Cardinality(Samples)
<1>1. /\ MetricSummary(base) /\ MetricSummary(cand) /\ SameCategories(base, cand)
      /\ base.tally.total = cand.tally.total /\ base.tally.total = Cardinality(Samples)
      /\ p.comparison = [CompareReports(base, cand) EXCEPT !.comparable = TRUE]
  BY DEF AgentAccepts
<1>2. IsFiniteSet(base.categories) /\ IsFiniteSet(cand.categories)
  BY DEF Models
<1>3. /\ p.comparison.overall = Change("all", base.tally.accuracy, cand.tally.accuracy)
      /\ p.comparison.changes = {Change(c, Of(base, c).accuracy, Of(cand, c).accuracy)
                                   : c \in Names(base) \cap Names(cand)}
  <2> DEFINE q == CompareReports(base, cand)
  <2>1. q = [comparable |-> q.comparable, digest |-> q.digest, names |-> q.names,
             overall |-> q.overall, relative |-> q.relative, changes |-> q.changes]
    BY DEF CompareReports
  <2>2. q.overall = Change("all", base.tally.accuracy, cand.tally.accuracy)
        /\ q.changes = {Change(c, Of(base, c).accuracy, Of(cand, c).accuracy)
                          : c \in Names(base) \cap Names(cand)}
    BY DEF CompareReports
  <2>3. p.comparison.overall = q.overall /\ p.comparison.changes = q.changes
    <3>1. p.comparison = [q EXCEPT !.comparable = TRUE]
      BY <1>1
    <3> HIDE DEF q
    <3> QED
      BY <2>1, <3>1
  <2> HIDE DEF q
  <2> QED
    BY <2>2, <2>3
<1>4. /\ meta["baseline"] = Summary(base) /\ meta["candidate"] = Summary(cand)
      /\ meta.baseline = Summary(base) /\ meta.candidate = Summary(cand)
      /\ meta.comparison = p.comparison
  BY DEF Metadata
<1> HIDE DEF base, cand, meta
<1>5. Names(cand) = K /\ \A k \in K : Of(cand, k).total = Of(base, k).total
  BY <1>1 DEF SameCategories
<1>6. /\ IsFiniteSet(K)
      /\ \A k \in K : Of(base, k).total \in Nat \ {0}
  BY <1>1, <1>2, TalliesOfNames
<1>7. total \in [K -> Nat] /\ \A k \in K : total[k] = Of(base, k).total
  BY <1>6
<1>8. base.tally["total"] = Cardinality(U)
  <2> HIDE DEF total
  <2> QED
    BY <1>1, <1>2, <1>7, TalliesOfNames
<1> HIDE DEF total, K
<1>9. PICK unit \in Bijection(all, U) : TRUE
  <2>1. IsFiniteSet(U)
    BY <1>6, <1>7, UnitsFinite
  <2>2. Cardinality(U) = Cardinality(Samples)
    BY <1>1, <1>8
  <2> QED
    BY <2>1, <2>2, FS_CardinalityType DEF ExistsBijection
<1>10. U = {u \in K \X Nat : u[2] \in 1..total[u[1]]}
  BY <1>7, UnitsElements
<1>11. unit \in [all -> U] /\ \A u \in U : \E i \in all : unit[i] = u
  BY DEF Bijection, Injection, Surjection
<1> DEFINE category == [i \in all |-> unit[i][1]]
<1>12. category \in [all -> K] /\ Range(category) = K
  <2>1. \A u \in U : u[1] \in K
    BY <1>10
  <2>2. \A k \in K : <<k, 1>> \in U
    BY <1>6, <1>7, <1>10
  <2> HIDE DEF U
  <2>3. category \in [all -> K]
    BY <1>11, <2>1
  <2>4. ASSUME NEW k \in K PROVE \E i \in all : category[i] = k
    <3>1. PICK i \in all : unit[i] = <<k, 1>>
      BY <1>11, <2>2
    <3> QED
      BY <3>1
  <2> HIDE DEF category
  <2> QED
    BY <2>3, <2>4 DEF Range
<1>13. IsFiniteSet(all)
  <2>1. Cardinality(Samples) \in Int
    BY <1>1, EvaluationAssumption DEF MetricSummary, Counted, Possible
  <2> QED
    BY <2>1, FS_Interval
<1>14. ASSUME NEW r, MetricSummary(r), IsFiniteSet(r.categories), Names(r) = K,
              \A k \in K : Of(r, k).total = Of(base, k).total
       PROVE  \E outcomes \in [all -> Outcomes] :
                 /\ Counts(r.tally, all, outcomes)
                 /\ \A k \in K : Counts(Of(r, k), OfKind(all, category, k), outcomes)
  <2>1. category \in [all -> K] /\ \A i \in all : category[i] = unit[i][1]
    BY <1>12
  <2> HIDE DEF all, category
  <2> QED
    BY <1>7, <1>9, <1>13, <1>14, <2>1, OutcomesExist
<1> HIDE DEF category, all
<1>15. ASSUME NEW m \in Models
       PROVE  /\ Names(meta[m]) = Range(category)
              /\ \E outcomes \in [all -> Outcomes] :
                    /\ Counts(meta[m].tally, all, outcomes)
                    /\ \A c \in Range(category) :
                          Counts(Of(meta[m], c), {i \in all : category[i] = c}, outcomes)
  <2>1. PICK r \in {base, cand} : meta[m] = Summary(r)
    BY <1>4 DEF Models
  <2>2. MetricSummary(r) /\ IsFiniteSet(r.categories) /\ Names(r) = K
        /\ \A k \in K : Of(r, k).total = Of(base, k).total
    BY <1>1, <1>2, <1>5, <2>1 DEF K
  <2>3. Names(meta[m]) = K /\ meta[m].tally = r.tally /\ \A k : Of(meta[m], k) = Of(r, k)
    BY <2>1, <2>2, SummaryKeeps
  <2> QED
    BY <1>12, <1>14, <2>2, <2>3 DEF OfKind
<1>16. Names(meta.baseline) = K
  BY <1>4, SummaryKeeps DEF K
<1>17. Improves(meta.baseline.tally, meta.candidate.tally, meta.comparison.overall.change)
  <2>1. Counted(base.tally) /\ Counted(cand.tally)
    BY <1>1 DEF MetricSummary
  <2>2. meta.baseline.tally = base.tally /\ meta.candidate.tally = cand.tally
        /\ meta.comparison.overall.change = cand.tally.accuracy - base.tally.accuracy
    BY <1>3, <1>4, SummaryKeeps DEF Change
  <2> QED
    BY <1>1, <2>1, <2>2, CountsImprove
<1>18. \A c \in meta.comparison.changes :
          Improves(Of(meta.baseline, c.category), Of(meta.candidate, c.category), c.change)
  <2>1. SUFFICES ASSUME NEW k \in K
                 PROVE  Improves(Of(meta.baseline, k), Of(meta.candidate, k),
                                 Of(cand, k).accuracy - Of(base, k).accuracy)
    BY <1>3, <1>4, <1>5 DEF Change, K
  <2>2. Counted(Of(base, k)) /\ Counted(Of(cand, k)) /\ Of(cand, k).total = Of(base, k).total
    <3>1. \A j \in Names(base) : Counted(Of(base, j))
      BY <1>1, <1>2, TalliesOfNames
    <3>2. \A j \in Names(cand) : Counted(Of(cand, j))
      BY <1>1, <1>2, TalliesOfNames
    <3> QED
      BY <1>5, <3>1, <3>2 DEF K
  <2>3. Of(meta.baseline, k) = Of(base, k) /\ Of(meta.candidate, k) = Of(cand, k)
    BY <1>4, SummaryKeeps
  <2> QED
    BY <2>2, <2>3, CountsImprove
<1>19. Realizable(meta)
  <2>1. category \in [all -> Names(meta.baseline)]
    BY <1>12, <1>16
  <2> QED
    BY <1>15, <1>17, <1>18, <2>1 DEF Realizable, all
<1> QED
  BY <1>19 DEF meta

-----------------------------------------------------------------------------
(***************************************************************************)
(* The verdict: the data set fits the limits of the checks, and what is    *)
(* recorded follows from the report.                                       *)
(***************************************************************************)
\* The lines of a file are finitely many.
LEMMA RowsFinite ==
    ASSUME NEW lines \in Seq(Lines)
    PROVE  IsFiniteSet(Rows(lines))
<1>1. DOMAIN lines = 1..Len(lines) /\ Len(lines) \in Nat
  OBVIOUS
<1>2. IsFiniteSet(1..Len(lines))
  BY <1>1, FS_Interval
<1>3. Rows(lines) \in SUBSET (1..Len(lines))
  BY <1>1 DEF Rows
<1> QED
  BY <1>2, <1>3, FS_Subset

\* What is merged fits the checks of the report: the limits are the same.
LEMMA MergedFits ==
    ASSUME NEW datasets \in Requests, Mergeable(datasets)
    PROVE  Fits(Merged(datasets))
<1> DEFINE names == DOMAIN datasets
           File(name) == {<<name, datasets[name][i]>> : i \in Rows(datasets[name])}
           named == UNION {File(name) : name \in names}
           ids == {<<x[1], x[2].id>> : x \in named}
<1>1. /\ names # {} /\ IsFiniteSet(names)
      /\ \A name \in names : datasets[name] \in Seq(Lines)
  BY EvaluationAssumption
<1>2. \A name \in names : Rows(datasets[name]) # {}
  BY DEF Mergeable
<1>3. ASSUME NEW name \in names PROVE IsFiniteSet(File(name)) /\ File(name) # {}
  <2> DEFINE R == Rows(datasets[name])
             f == [i \in R |-> <<name, datasets[name][i]>>]
  <2>1. IsFiniteSet(R) /\ R # {}
    BY <1>1, <1>2, RowsFinite
  <2>2. f \in Surjection(R, File(name))
    BY DEF Surjection
  <2>3. File(name) # {}
    BY <2>1
  <2> HIDE DEF f, R, File
  <2> QED
    BY <2>1, <2>2, <2>3, FS_Surjection
<1>4. IsFiniteSet(named) /\ named # {}
  <2> DEFINE S == {File(name) : name \in names}
             f == [name \in names |-> File(name)]
  <2> HIDE DEF File
  <2>1. f \in Surjection(names, S)
    BY DEF Surjection
  <2>2. \A T \in S : IsFiniteSet(T) /\ T # {}
    BY <1>3
  <2>3. S # {}
    BY <1>1
  <2> HIDE DEF f, S
  <2>4. IsFiniteSet(S)
    BY <1>1, <2>1, FS_Surjection
  <2>5. IsFiniteSet(UNION S) /\ UNION S # {}
    BY <2>2, <2>3, <2>4, FS_UNION
  <2> QED
    BY <2>5 DEF S
<1>5. IsFiniteSet(ids) /\ ids # {}
  <2> DEFINE f == [x \in named |-> <<x[1], x[2].id>>]
  <2> HIDE DEF named
  <2>1. f \in Surjection(named, ids) /\ ids # {}
    BY <1>4 DEF Surjection
  <2> HIDE DEF f, ids
  <2> QED
    BY <1>4, <2>1, FS_Surjection
<1>6. DOMAIN Merged(datasets) = ids
  BY DEF Merged
<1> HIDE DEF ids
<1> QED
  BY <1>5, <1>6 DEF Fits, Mergeable

-----------------------------------------------------------------------------
\* The two checks of a report that was written.
Accepted == AgentAccepts(report[1]) /\ ControlPlaneAccepts(Metadata(report[1]))

ReportFinite == \A m \in Models : IsFiniteSet(report[1][m].categories)

\* What Observe decides follows from the report and the data set, which stay.
VInv ==
    /\ pc \notin {"prepare", "refused"} => Fits(data)
    /\ report # <<>> => ReportFinite
    /\ row.state = "failed" => pc \in {"refused", "exited"}
    /\ row.state = "succeeded" => pc = "exited" /\ report # <<>> /\ Accepted
    /\ row.state = "failed" /\ exit = "zero" => ~Accepted

LEMMA AcceptedStays ==
    ASSUME UNCHANGED <<data, report>>
    PROVE  (Accepted' <=> Accepted) /\ (ReportFinite' <=> ReportFinite)
<1>1. PICK p : p = report
  OBVIOUS
<1>2. report' = p
  BY <1>1
<1>3. AgentAccepts(p[1])' <=> AgentAccepts(p[1])
  BY DEF AgentAccepts, Samples
<1>4. Accepted' <=> AgentAccepts(p[1])' /\ ControlPlaneAccepts(Metadata(p[1]))
  BY <1>2 DEF Accepted, AgentAccepts, ControlPlaneAccepts, Metadata
<1> QED
  BY <1>1, <1>2, <1>3, <1>4 DEF Accepted, ReportFinite

\* The reports of other versions differ from what was measured in their numbers or their data set,
\* and name finitely many categories as well.
LEMMA AlteredFinite ==
    ASSUME Fits(data), NEW p \in Altered(Measured), NEW m \in Models
    PROVE  IsFiniteSet(p[m].categories)
<1> DEFINE Shaped(r) == r = [digest |-> r.digest, name |-> r.name, template |-> r.template,
                             ids |-> r.ids, listed |-> r.listed, tally |-> r.tally,
                             categories |-> r.categories]
           Whole(q) == /\ q = [baseline |-> q.baseline, candidate |-> q.candidate,
                               comparison |-> q.comparison]
                       /\ Shaped(q.baseline) /\ Shaped(q.candidate)
                       /\ IsFiniteSet(q.baseline.categories) /\ IsFiniteSet(q.candidate.categories)
<1>1. ASSUME NEW n, NEW d, IsFiniteSet(DOMAIN d), NEW result
      PROVE  Shaped(Aggregate(n, d, result)) /\ IsFiniteSet(Aggregate(n, d, result).categories)
  <2>1. Shaped(Aggregate(n, d, result))
    BY DEF Aggregate
  <2>2. IsFiniteSet(Aggregate(n, d, result).categories)
    BY <1>1, AggregateCategories
  <2> QED
    BY <2>1, <2>2
<1> HIDE DEF Shaped
<1>2. ASSUME NEW a, NEW b, Shaped(a), Shaped(b), IsFiniteSet(a.categories), IsFiniteSet(b.categories)
      PROVE  Whole(Pair(a, b))
  BY <1>2 DEF Pair
<1>3. IsFiniteSet(Samples)
  BY DEF Fits, Samples
<1>4. Whole(Measured)
  BY <1>1, <1>2, <1>3 DEF Measured, Samples
<1>5. SUFFICES p[m].categories = Measured[m].categories \/ Whole(p)
  BY <1>4 DEF Models
<1>6. \/ p = [Measured EXCEPT !.candidate.tally.correct = @ + 1]
      \/ p = [Measured EXCEPT !.candidate.tally.accuracy = @ + 1]
      \/ p = [Measured EXCEPT !.baseline.tally.invalid = @ + 1]
      \/ p = [Measured EXCEPT !.baseline.digest = "other"]
      \/ p = [Measured EXCEPT !.candidate.template = "other"]
      \/ p = [Measured EXCEPT !.candidate.ids = {CHOOSE s \in @ : TRUE}]
      \/ p = [Measured EXCEPT !.comparison.overall.change = @ + 1]
      \/ p = [Measured EXCEPT !.comparison.relative = <<0>>]
      \/ p = [Measured EXCEPT !.comparison.changes = {}]
      \/ \E s \in Samples : LET d == Restrict(data, Samples \ {s})
                            IN  p = Pair(Aggregate("baseline", d, results["baseline"]),
                                         Aggregate("candidate", d, results["candidate"]))
      \/ \E s \in Samples, c \in Range(data) :
            p = Pair(Measured.baseline,
                     Aggregate("candidate", [data EXCEPT ![s] = c], results["candidate"]))
  <2> DEFINE M == Measured
  <2> HIDE DEF M
  <2>1. p \in Altered(M)
    BY DEF M
  <2> QED
    BY <2>1 DEF Altered, M
<1>7. ASSUME NEW s \in Samples, NEW c \in Range(data),
             p = Pair(Measured.baseline,
                      Aggregate("candidate", [data EXCEPT ![s] = c], results["candidate"]))
      PROVE  Whole(p)
  <2> DEFINE d == [data EXCEPT ![s] = c]
  <2>1. IsFiniteSet(DOMAIN d)
    BY <1>3 DEF Samples
  <2> HIDE DEF d
  <2>2. Shaped(Aggregate("candidate", d, results["candidate"]))
        /\ IsFiniteSet(Aggregate("candidate", d, results["candidate"]).categories)
    BY <1>1, <2>1
  <2> QED
    BY <1>2, <1>4, <1>7, <2>2 DEF d
<1>8. ASSUME NEW s \in Samples, NEW d, d = Restrict(data, Samples \ {s}),
             p = Pair(Aggregate("baseline", d, results["baseline"]),
                      Aggregate("candidate", d, results["candidate"]))
      PROVE  Whole(p)
  <2>1. IsFiniteSet(DOMAIN d)
    <3>1. DOMAIN d = Samples \ {s}
      BY <1>8 DEF Restrict
    <3> QED
      BY <1>3, <3>1, FS_RemoveElement
  <2> QED
    BY <1>1, <1>2, <1>8, <2>1
<1> HIDE DEF Whole
<1>9. \/ p[m].categories = Measured[m].categories
      \/ Whole(p)
  <2>1. Measured = [baseline |-> Measured.baseline, candidate |-> Measured.candidate,
                    comparison |-> Measured.comparison]
        /\ Shaped(Measured.baseline) /\ Shaped(Measured.candidate)
    BY <1>4 DEF Whole
  <2>2. PICK M : M = Measured
    OBVIOUS
  <2>3. PICK b, c, k : b = M.baseline /\ c = M.candidate /\ k = M.comparison
    OBVIOUS
  <2>4. M = [baseline |-> b, candidate |-> c, comparison |-> k] /\ Shaped(b) /\ Shaped(c)
    BY <2>1, <2>2, <2>3
  <2> DEFINE Same == p.baseline.categories = b.categories /\ p.candidate.categories = c.categories
  <2>5. ASSUME NEW x, x.categories = b.categories, p = [M EXCEPT !.baseline = x] PROVE Same
    <3>1. p = [baseline |-> x, candidate |-> c, comparison |-> k]
      BY <2>4, <2>5
    <3> QED
      BY <2>5, <3>1
  <2>6. ASSUME NEW x, x.categories = c.categories, p = [M EXCEPT !.candidate = x] PROVE Same
    <3>1. p = [baseline |-> b, candidate |-> x, comparison |-> k]
      BY <2>4, <2>6
    <3> QED
      BY <2>6, <3>1
  <2>7. CASE p = [M EXCEPT !.candidate.tally.correct = @ + 1]
    <3> DEFINE x == [c EXCEPT !.tally.correct = @ + 1]
    <3>1. x.categories = c.categories
      BY <2>4 DEF Shaped
    <3>2. p = [M EXCEPT !.candidate = x]
      BY <2>3, <2>7
    <3> HIDE DEF x
    <3>3. Same
      BY <2>6, <3>1, <3>2
    <3> QED
      BY <2>2, <2>3, <3>3 DEF Models
  <2>8. CASE p = [M EXCEPT !.candidate.tally.accuracy = @ + 1]
    <3> DEFINE x == [c EXCEPT !.tally.accuracy = @ + 1]
    <3>1. x.categories = c.categories
      BY <2>4 DEF Shaped
    <3>2. p = [M EXCEPT !.candidate = x]
      BY <2>3, <2>8
    <3> HIDE DEF x
    <3>3. Same
      BY <2>6, <3>1, <3>2
    <3> QED
      BY <2>2, <2>3, <3>3 DEF Models
  <2>9. CASE p = [M EXCEPT !.baseline.tally.invalid = @ + 1]
    <3> DEFINE x == [b EXCEPT !.tally.invalid = @ + 1]
    <3>1. x.categories = b.categories
      BY <2>4 DEF Shaped
    <3>2. p = [M EXCEPT !.baseline = x]
      BY <2>3, <2>9
    <3> HIDE DEF x
    <3>3. Same
      BY <2>5, <3>1, <3>2
    <3> QED
      BY <2>2, <2>3, <3>3 DEF Models
  <2>10. CASE p = [M EXCEPT !.baseline.digest = "other"]
    <3> DEFINE x == [b EXCEPT !.digest = "other"]
    <3>1. x.categories = b.categories
      BY <2>4 DEF Shaped
    <3>2. p = [M EXCEPT !.baseline = x]
      BY <2>3, <2>10
    <3> HIDE DEF x
    <3>3. Same
      BY <2>5, <3>1, <3>2
    <3> QED
      BY <2>2, <2>3, <3>3 DEF Models
  <2>11. CASE p = [M EXCEPT !.candidate.template = "other"]
    <3> DEFINE x == [c EXCEPT !.template = "other"]
    <3>1. x.categories = c.categories
      BY <2>4 DEF Shaped
    <3>2. p = [M EXCEPT !.candidate = x]
      BY <2>3, <2>11
    <3> HIDE DEF x
    <3>3. Same
      BY <2>6, <3>1, <3>2
    <3> QED
      BY <2>2, <2>3, <3>3 DEF Models
  <2>12. CASE p = [M EXCEPT !.candidate.ids = {CHOOSE s \in @ : TRUE}]
    <3> DEFINE x == [c EXCEPT !.ids = {CHOOSE s \in @ : TRUE}]
    <3>1. x.categories = c.categories
      BY <2>4 DEF Shaped
    <3>2. p = [M EXCEPT !.candidate = x]
      BY <2>3, <2>12
    <3> HIDE DEF x
    <3>3. Same
      BY <2>6, <3>1, <3>2
    <3> QED
      BY <2>2, <2>3, <3>3 DEF Models
  <2>13. CASE \/ p = [M EXCEPT !.comparison.overall.change = @ + 1]
            \/ p = [M EXCEPT !.comparison.relative = <<0>>]
            \/ p = [M EXCEPT !.comparison.changes = {}]
    <3>1. Same
      BY <2>4, <2>13
    <3> QED
      BY <2>2, <2>3, <3>1 DEF Models
  <2> QED
    BY <1>6, <1>7, <1>8, <2>2, <2>7, <2>8, <2>9, <2>10, <2>11, <2>12, <2>13
<1> QED
  BY <1>9

\* Every report that is written names finitely many categories.
LEMMA WrittenFinite ==
    ASSUME Fits(data), EndReport \/ EndOtherReport
    PROVE  ReportFinite' /\ report' # <<>>
<1>1. report' = <<Measured>> \/ \E p \in Altered(Measured) : report' = <<p>>
  BY DEF EndReport, EndOtherReport
<1>2. ASSUME NEW m \in Models PROVE IsFiniteSet(Measured[m].categories)
  <2>1. Measured[m] = Aggregate(m, data, results[m])
    BY DEF Measured, Pair, Models
  <2> QED
    BY <2>1, AggregateCategories DEF Fits
<1>3. PICK p : report' = <<p>> /\ \A m \in Models : IsFiniteSet(p[m].categories)
  BY <1>1, <1>2, AlteredFinite
<1> QED
  BY <1>3 DEF ReportFinite

\* Steps that leave the report and the data set, before the end or beside the run.
LEMMA KeepVInv ==
    ASSUME AInv, VInv, UNCHANGED <<data, report, row>>,
           \/ pc \notin {"prepare", "refused", "exited"} /\ pc' \notin {"prepare", "refused"}
           \/ UNCHANGED <<pc, exit>>
    PROVE  VInv'
<1>1. (Accepted' <=> Accepted) /\ (ReportFinite' <=> ReportFinite)
  BY AcceptedStays
<1>2. Fits(data)' <=> Fits(data)
  BY DEF Fits
<1>3. row.state \in {"running", "succeeded", "failed"}
  BY DEF AInv, Typed
<1> QED
  BY <1>1, <1>2, <1>3 DEF VInv

\* The end of the container.
LEMMA WrittenVInv == ASSUME AInv, VInv, EndReport \/ EndOtherReport PROVE VInv'
<1>1. pc = "writing" /\ pc' = "exited" /\ UNCHANGED <<data, row>>
  BY DEF EndReport, EndOtherReport, Exit
<1>2. row.state = "running" /\ Fits(data)
  BY <1>1 DEF AInv, Typed, VInv
<1>3. ReportFinite' /\ report' # <<>>
  BY <1>2, WrittenFinite
<1>4. Fits(data)'
  BY <1>1, <1>2 DEF Fits
<1> QED
  BY <1>1, <1>2, <1>3, <1>4 DEF VInv

\* The data sets are merged within the limits, or the run fails without a container.
LEMMA PrepareVInv == ASSUME AInv, VInv, Prepare PROVE VInv'
<1>1. exit = "none" /\ row.state = "running" /\ UNCHANGED <<report, exit>> /\ request \in Requests
  BY DEF AInv, Typed, AnsweredSoFar, Prepare
<1>2. ReportFinite' <=> ReportFinite
  BY <1>1 DEF ReportFinite
<1>3. CASE Mergeable(request)
  <2>1. pc' = "load" /\ row' = row /\ data' = Merged(request)
    BY <1>3 DEF Prepare
  <2>2. PICK d : d = Merged(request)
    OBVIOUS
  <2>3. Fits(d)
    BY <1>1, <1>3, <2>2, MergedFits
  <2>4. Fits(data)'
    BY <2>1, <2>2, <2>3 DEF Fits
  <2> QED
    BY <1>1, <1>2, <2>1, <2>4 DEF VInv
<1>4. CASE ~Mergeable(request)
  <2>1. pc' = "refused" /\ row' = [row EXCEPT !.state = "failed"]
    BY <1>4 DEF Prepare
  <2>2. row'.state = "failed"
    <3>1. row = [state |-> row.state, result |-> row.result]
      BY DEF AInv, Typed
    <3> QED
      BY <2>1, <3>1
  <2> QED
    BY <1>1, <1>2, <2>1, <2>2 DEF VInv
<1> QED
  BY <1>3, <1>4

\* The verdict of Observe is that of the two checks.
LEMMA ObserveVInv == ASSUME AInv, VInv, Observe PROVE VInv'
<1>1. pc = "exited" /\ UNCHANGED <<data, pc, exit, report>>
  BY DEF Observe, container
<1>2. (Accepted' <=> Accepted) /\ (ReportFinite' <=> ReportFinite) /\ (Fits(data)' <=> Fits(data))
  BY <1>1, AcceptedStays DEF Fits
<1>3. \/ row'.state = "succeeded" /\ exit = "zero" /\ Accepted
      \/ row'.state = "failed" /\ ~(exit = "zero" /\ Accepted)
  BY DEF Observe, Accepted
<1>4. exit = "zero" => report # <<>>
  BY DEF AInv, AnsweredSoFar
<1> QED
  BY <1>1, <1>2, <1>3, <1>4 DEF VInv

\* Every step keeps it.
LEMMA NextVInv == AInv /\ VInv /\ [Next]_vars => VInv'
<1> SUFFICES ASSUME AInv, VInv, [Next]_vars PROVE VInv'
  OBVIOUS
<1>1. CASE Load
  BY <1>1, KeepVInv DEF Load, Goto, Exit
<1>2. CASE Spawn \/ Ready \/ NotReady \/ Kill \/ Gather \/ BeginReport
  BY <1>2, KeepVInv DEF Spawn, Ready, NotReady, Kill, Gather, BeginReport, Goto, Stop
<1>3. ASSUME NEW s \in DOMAIN results[model],
             Send(s) \/ RequestFails(s) \/ \E outcome \in Outcomes : Answer(s, outcome)
      PROVE  VInv'
  BY <1>3, KeepVInv DEF Send, RequestFails, Answer, Stop
<1>4. CASE Terminate \/ GroupGone
  BY <1>4, KeepVInv DEF Terminate, GroupGone, Proceed, Goto, Exit
<1>5. CASE GiveUp \/ KillContainer
  BY <1>5, KeepVInv DEF GiveUp, KillContainer, Exit
<1>6. CASE Interrupt
  BY <1>6, KeepVInv DEF Interrupt, Stop, Exit
<1>7. CASE RequestStop \/ UNCHANGED vars
  BY <1>7, KeepVInv DEF RequestStop, vars, container
<1>8. ASSUME NEW m \in Models, LeaderServes(m) \/ LeaderExits(m) \/ WorkersExit(m)
      PROVE  VInv'
  BY <1>8, KeepVInv DEF LeaderServes, LeaderExits, WorkersExit
<1> QED
  BY <1>1, <1>2, <1>3, <1>4, <1>5, <1>6, <1>7, <1>8, PrepareVInv, WrittenVInv, ObserveVInv
     DEF Next, Orchestrate, Environment

LEMMA InitVInv == Init => VInv
  BY DEF Init, VInv

\* The invariant of the verdict holds in every reachable state.
LEMMA VerdictInvariant == Spec => []VInv
  BY InitAInv, NextAInv, InitVInv, NextVInv, PTL DEF Spec

\* The second check never refuses what the first has accepted: the run does not fail because the
\* agent and the control plane (load_pair_report_metadata, EvaluationSuccessMetadata) disagree.
ChecksAgree == report # <<>> /\ AgentAccepts(report[1]) => ControlPlaneAccepts(Metadata(report[1]))

\* For any data sets, templates and failures, and for altered reports too: the checks of
\* the control plane refuse nothing that those of the agent accept.
THEOREM ChecksOfTheReportAgree == Spec => []ChecksAgree
<1>1. VInv => ChecksAgree
  <2> SUFFICES ASSUME VInv, report # <<>>, AgentAccepts(report[1])
               PROVE  ControlPlaneAccepts(Metadata(report[1]))
    BY DEF ChecksAgree
  <2>1. \A m \in Models : IsFiniteSet(report[1][m].categories)
    BY DEF VInv, ReportFinite
  <2> QED
    BY <2>1, ControlPlaneFollows, EvaluationAssumption
<1> QED
  BY <1>1, VerdictInvariant, PTL

\* For any data sets within the limits, any failures, and altered reports too: a run whose
\* container reported what it measured does not fail, and a run that succeeds has every answer and
\* possible numbers, whose changes have the direction in which the counts changed
\* (load_pair_report_metadata, _comparison_summary).
THEOREM VerdictsAreRight == Spec => []VerdictIsRight
<1>1. AInv /\ VInv => MeasuredIsAccepted
  <2> SUFFICES ASSUME AInv, VInv, row.state = "failed", exit = "zero", report = <<Measured>>
               PROVE  FALSE
    BY DEF MeasuredIsAccepted
  <2>1. pc = "exited" /\ Fits(data)
    BY DEF AInv, AnsweredSoFar, VInv
  <2>2. report[1] = Measured /\ report # <<>>
    OBVIOUS
  <2>3. AgentAccepts(Measured)
    BY <2>1, AgentAcceptsMeasured, EvaluationAssumption
  <2>4. \A m \in Models : IsFiniteSet(Measured[m].categories)
    BY <2>2 DEF VInv, ReportFinite
  <2>5. ControlPlaneAccepts(Metadata(Measured))
    BY <2>3, <2>4, ControlPlaneFollows, EvaluationAssumption
  <2> QED
    BY <2>2, <2>3, <2>5 DEF VInv, Accepted
<1>2. AInv /\ VInv => SuccessIsPossible
  <2> SUFFICES ASSUME AInv, VInv, row.state = "succeeded" PROVE Realizable(row.result[1])
    BY DEF SuccessIsPossible
  <2>1. report # <<>> /\ AgentAccepts(report[1]) /\ row.result = <<Metadata(report[1])>>
    BY DEF AInv, RowFollows, VInv, Accepted
  <2>2. \A m \in Models : IsFiniteSet(report[1][m].categories)
    BY <2>1 DEF VInv, ReportFinite
  <2> QED
    BY <2>1, <2>2, AcceptedIsRealizable
<1> QED
  BY <1>1, <1>2, AnswersInvariant, VerdictInvariant, SuccessesAreComplete, PTL DEF VerdictIsRight
===========================================================================
