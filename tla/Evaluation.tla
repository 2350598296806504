---------------------------- MODULE Evaluation ----------------------------
(***************************************************************************)
(* One evaluation run, from its data sets to its recorded result.          *)
(*                                                                         *)
(* The node agent merges the data sets of a START and runs a container     *)
(* with the GPUs of the run.  The orchestrator in the container serves the *)
(* baseline and then the candidate, each by a vLLM process group of its    *)
(* own, asks each the same questions and writes a report.  The agent and   *)
(* the control plane check the report of a container that exited with 0    *)
(* before the result is recorded.  Processes die, requests fail, and the   *)
(* container is asked to stop or is killed at any time.                    *)
(***************************************************************************)
EXTENDS Integers, Sequences, FiniteSets, FiniteSetsExt, Functions

CONSTANTS Requests,     \* data sets of a START: name -> lines of the file
          Template,     \* model -> the prompt template that the run asks for
          Concurrency,  \* requests to a model at a time
          Scale,        \* units of one percent (10^4 in the code)
          MaxRecords,   \* samples of a run (200 000 in the code)
          MaxCategories \* categories of a run (4 096 in the code)

Models == {"baseline", "candidate"}
Outcomes == {"correct", "wrong", "invalid"}

\* A line of a file; blank, not an object, unusable by the container, or a sample.
Lines == [kind : {"blank", "garbage", "unusable", "sample"}, id : STRING, category : STRING]

\* A START names at least one data set; the limit of the samples is below the resolution of a
\* percentage.
ASSUME EvaluationAssumption ==
    /\ Template \in [Models -> {"base", "instruct"}]
    /\ Concurrency \in 1..64 /\ Scale \in Nat \ {0}
    /\ MaxRecords \in 1..100 * Scale /\ MaxCategories \in Nat \ {0}
    /\ \A datasets \in Requests :
          /\ DOMAIN datasets # {} /\ IsFiniteSet(DOMAIN datasets)
          /\ \A name \in DOMAIN datasets : datasets[name] \in Seq(Lines)

VARIABLES request,  \* the data sets
          data,     \* evaluation.jsonl with its manifest: the merged data set
          pc,       \* where the run is
          model,    \* the model that is served
          groups,   \* model -> its vLLM processes: the leader and its workers
          results,  \* model -> sample -> what became of its request
          error,    \* an exception or a cancellation is being propagated
          signal,   \* SIGTERM of the container: none, to be delivered, delivered
          exit,     \* how the container ended
          report,   \* pair-report.json: <<>> or <<its content>>
          row       \* the state of the run, and <<its result>>

container == <<pc, model, groups, results, error, signal, exit, report>>
vars == <<request, data, container, row>>

-----------------------------------------------------------------------------
(***************************************************************************)
(* The merged data set: sample -> category, both prefixed by the name of   *)
(* their source.  The limits are those of the checks of the report.        *)
(***************************************************************************)
Rows(lines) == {i \in DOMAIN lines : lines[i].kind # "blank"}

Merged(datasets) ==
    LET named == UNION {{<<name, datasets[name][i]>> : i \in Rows(datasets[name])}
                          : name \in DOMAIN datasets}
    IN  [sample \in {<<x[1], x[2].id>> : x \in named} |->
            LET x == CHOOSE y \in named : <<y[1], y[2].id>> = sample
            IN  <<x[1], x[2].category>>]

Mergeable(datasets) ==
    /\ \A name \in DOMAIN datasets :
          LET lines == datasets[name]
          IN  /\ Rows(lines) # {}
              /\ \A i \in Rows(lines) : lines[i].kind # "garbage"
              /\ \A i, j \in Rows(lines) : lines[i].id = lines[j].id => i = j
    /\ Cardinality(DOMAIN Merged(datasets)) <= MaxRecords
    /\ Cardinality(Range(Merged(datasets))) <= MaxCategories

Parsable(datasets) ==
    \A name \in DOMAIN datasets :
        \A i \in DOMAIN datasets[name] : datasets[name][i].kind # "unusable"

Samples == DOMAIN data

-----------------------------------------------------------------------------
(***************************************************************************)
(* Metrics.  A percentage is an integer of 1/Scale percent, rounded half   *)
(* to even.  Sample ids are a set and the length of their list.            *)
(***************************************************************************)
Round(n, d) ==
    LET q == n \div d
        r == n % d
    IN  IF 2 * r < d \/ (2 * r = d /\ q % 2 = 0) THEN q ELSE q + 1
Ratio(n, d) == IF n < 0 THEN -Round(-n, d) ELSE Round(n, d)
Percent(n, d) == IF d = 0 THEN 0 ELSE Round(n * 100 * Scale, d)

Tally(samples, result) ==
    LET Number(outcome) == Cardinality({s \in samples : result[s] = outcome})
        total == Cardinality(samples)
    IN  [total |-> total, correct |-> Number("correct"), invalid |-> Number("invalid"),
         accuracy |-> Percent(Number("correct"), total)]

Aggregate(m, dataset, result) ==
    [digest |-> "merged", name |-> m, template |-> Template[m],
     ids |-> DOMAIN dataset, listed |-> Cardinality(DOMAIN dataset),
     tally |-> Tally(DOMAIN dataset, result),
     categories |-> {[category |-> c,
                      tally |-> Tally({s \in DOMAIN dataset : dataset[s] = c}, result)]
                        : c \in Range(dataset)}]

\* The change relative to a baseline of 0 % is undefined: <<>> stands for None.
Relative(change, base) == IF base = 0 THEN <<>> ELSE <<Ratio(change * 100 * Scale, base)>>

Names(r) == {c.category : c \in r.categories}
Of(r, category) == (CHOOSE c \in r.categories : c.category = category).tally

Change(category, base, cand) ==
    [category |-> category, baseline |-> base, candidate |-> cand, change |-> cand - base]

CompareReports(base, cand) ==
    [comparable |-> base.digest = cand.digest /\ base.ids = cand.ids,
     digest |-> base.digest, names |-> <<base.name, cand.name>>,
     overall |-> Change("all", base.tally.accuracy, cand.tally.accuracy),
     relative |-> Relative(cand.tally.accuracy - base.tally.accuracy, base.tally.accuracy),
     changes |-> {Change(c, Of(base, c).accuracy, Of(cand, c).accuracy)
                    : c \in Names(base) \cap Names(cand)}]

Pair(base, cand) ==
    [baseline |-> base, candidate |-> cand, comparison |-> CompareReports(base, cand)]

Measured == Pair(Aggregate("baseline", data, results["baseline"]),
                 Aggregate("candidate", data, results["candidate"]))

-----------------------------------------------------------------------------
(***************************************************************************)
(* The checks of the report.  The agent knows the data set and the         *)
(* templates of the run, the control plane only the templates; it allows   *)
(* one unit of rounding where the agent asks for equality.                 *)
(***************************************************************************)
Total(r, field) == MapThenSumSet(LAMBDA c : c.tally[field], r.categories)
AddsUp(r) == \A field \in {"total", "correct", "invalid"} : Total(r, field) = r.tally[field]
DistinctNames(r) == Cardinality(Names(r)) = Cardinality(r.categories)

Possible(t) ==
    /\ t.total \in 1..MaxRecords /\ t.correct \in 0..t.total /\ t.invalid \in 0..t.total
    /\ t.correct + t.invalid <= t.total
Counted(t) == Possible(t) /\ t.accuracy = Percent(t.correct, t.total)

MetricSummary(r) ==
    /\ Counted(r.tally)
    /\ r.listed = r.tally.total /\ Cardinality(r.ids) = r.listed
    /\ \A c \in r.categories : Counted(c.tally)
    /\ Cardinality(r.categories) <= MaxCategories
    /\ DistinctNames(r) /\ AddsUp(r)

\* Faulty variant of SameCategories: only the names are compared.
SameNames(base, cand) == Names(base) = Names(cand)

SameCategories(base, cand) ==
    /\ Names(base) = Names(cand)
    /\ \A c \in Names(base) : Of(base, c).total = Of(cand, c).total

AgentAccepts(p) ==
    LET base == p.baseline
        cand == p.candidate
    IN  /\ MetricSummary(base) /\ MetricSummary(cand)
        /\ base.name = "baseline" /\ cand.name = "candidate"
        /\ base.template = Template["baseline"] /\ cand.template = Template["candidate"]
        /\ SameCategories(base, cand)
        /\ p.comparison = [CompareReports(base, cand) EXCEPT !.comparable = TRUE]
        /\ base.digest = cand.digest /\ base.ids = cand.ids
        /\ base.tally.total = cand.tally.total
        /\ base.digest = "merged" /\ base.tally.total = Cardinality(Samples)

AllInvalid(p) == {m \in Models : p[m].tally.invalid = p[m].tally.total}

\* What the agent sends: the report without the sample ids, and its warnings.
Summary(r) == [digest |-> r.digest, name |-> r.name, template |-> r.template,
               tally |-> r.tally, categories |-> r.categories]
Metadata(p) ==
    [baseline |-> Summary(p.baseline), candidate |-> Summary(p.candidate),
     comparison |-> p.comparison, warnings |-> AllInvalid(p)]

Near(x, y) == x - y \in -1..1
InPercent(x) == x \in 0..100 * Scale
CountedNearly(t) ==
    Possible(t) /\ InPercent(t.accuracy) /\ Near(t.accuracy, Percent(t.correct, t.total))
ChangeNearly(c) ==
    InPercent(c.baseline) /\ InPercent(c.candidate) /\ Near(c.change, c.candidate - c.baseline)
RelativeNearly(relative, all) ==
    IF all.baseline = 0 THEN relative = <<>>
    ELSE relative # <<>> /\ Near(relative[1], Relative(all.candidate - all.baseline, all.baseline)[1])

ControlPlaneAccepts(meta) ==
    LET all == meta.comparison.overall
    IN  /\ \A m \in Models :
              /\ CountedNearly(meta[m].tally)
              /\ Cardinality(meta[m].categories) \in 1..MaxCategories
              /\ \A c \in meta[m].categories : CountedNearly(c.tally)
              /\ DistinctNames(meta[m]) /\ AddsUp(meta[m])
              /\ meta[m].name = m /\ meta[m].template = Template[m]
              /\ meta[m].digest = meta.comparison.digest
        /\ meta.baseline.tally.total = meta.candidate.tally.total
        /\ meta.comparison.comparable /\ meta.comparison.names = <<"baseline", "candidate">>
        /\ ChangeNearly(all) /\ RelativeNearly(meta.comparison.relative, all)
        /\ all.baseline = meta.baseline.tally.accuracy
        /\ all.candidate = meta.candidate.tally.accuracy
        /\ Names(meta.baseline) = Names(meta.candidate)
        /\ {c.category : c \in meta.comparison.changes} = Names(meta.baseline)
        /\ Cardinality(meta.comparison.changes) = Cardinality(Names(meta.baseline))
        /\ \A c \in meta.comparison.changes :
              /\ ChangeNearly(c)
              /\ c.baseline = Of(meta.baseline, c.category).accuracy
              /\ c.candidate = Of(meta.candidate, c.category).accuracy
        /\ meta.warnings = AllInvalid(meta)

\* A report that the images of this version do not write: one number differs, a sample is
\* missing on both sides, or the candidate was evaluated on samples of other categories.
Altered(p) ==
    {[p EXCEPT !.candidate.tally.correct = @ + 1],
     [p EXCEPT !.candidate.tally.accuracy = @ + 1],
     [p EXCEPT !.baseline.tally.invalid = @ + 1],
     [p EXCEPT !.baseline.digest = "other"],
     [p EXCEPT !.candidate.template = "other"],
     [p EXCEPT !.candidate.ids = {CHOOSE s \in @ : TRUE}],
     [p EXCEPT !.comparison.overall.change = @ + 1],
     [p EXCEPT !.comparison.relative = <<0>>],
     [p EXCEPT !.comparison.changes = {}]}
    \cup {Pair(Aggregate("baseline", d, results["baseline"]),
               Aggregate("candidate", d, results["candidate"]))
            : d \in {Restrict(data, Samples \ {s}) : s \in Samples}}
    \cup {Pair(p.baseline, Aggregate("candidate", d, results["candidate"]))
            : d \in {[data EXCEPT ![s] = c] : s \in Samples, c \in Range(data)}}

-----------------------------------------------------------------------------
(***************************************************************************)
(* The container.                                                          *)
(***************************************************************************)
Gone == [leader |-> "gone", workers |-> FALSE]
Started == [leader |-> "up", workers |-> TRUE]

Init ==
    /\ request \in Requests /\ data = [s \in {} |-> <<>>]
    /\ pc = "prepare" /\ model = "baseline" /\ groups = [m \in Models |-> Gone]
    /\ results = [m \in Models |-> data]
    /\ error = FALSE /\ signal = "none" /\ exit = "none" /\ report = <<>>
    /\ row = [state |-> "running", result |-> <<>>]

\* Faulty variant of GroupExists: only the leader is waited for.
LeaderExists(m) == groups[m].leader # "gone"

GroupExists(m) == groups[m].leader # "gone" \/ groups[m].workers

Goto(next) ==
    /\ pc' = next
    /\ UNCHANGED <<request, data, model, groups, results, error, signal, exit, report, row>>

\* The end of the container ends its processes.
Exit(code) ==
    /\ pc' = "exited" /\ exit' = code /\ groups' = [m \in Models |-> Gone]
    /\ UNCHANGED <<request, data, model, results, error, signal, row>>

\* A refused START fails the run; otherwise its container is started.
Prepare ==
    /\ pc = "prepare"
    /\ IF Mergeable(request)
       THEN /\ pc' = "load" /\ data' = Merged(request) /\ UNCHANGED row
            /\ results' = [m \in Models |-> [s \in DOMAIN data' |-> "waiting"]]
       ELSE /\ pc' = "refused" /\ row' = [row EXCEPT !.state = "failed"]
            /\ UNCHANGED <<data, results>>
    /\ UNCHANGED <<request, model, groups, error, signal, exit, report>>

Load ==
    /\ pc = "load"
    /\ IF Parsable(request) THEN Goto("spawn") ELSE Exit("nonzero") /\ UNCHANGED report

Spawn ==
    /\ pc = "spawn" /\ pc' = "wait" /\ groups' = [groups EXCEPT ![model] = Started]
    /\ UNCHANGED <<request, data, model, results, error, signal, exit, report, row>>

Stop == pc' = "stop" /\ UNCHANGED <<request, data, model, groups, exit, report, row>>

Ready == pc = "wait" /\ groups[model].leader = "serving" /\ Goto("ask")
\* The leader has exited, or the time is up.
NotReady == pc = "wait" /\ error' = TRUE /\ Stop /\ UNCHANGED <<results, signal>>

Sent == {s \in DOMAIN results[model] : results[model][s] = "sent"}
Set(s, value) == results' = [results EXCEPT ![model][s] = value]

\* Faulty variant of MaySend: without the semaphore.
MaySendAny(s) == results[model][s] = "waiting"

MaySend(s) == results[model][s] = "waiting" /\ Cardinality(Sent) < Concurrency

Send(s) ==
    /\ pc = "ask" /\ MaySend(s) /\ Set(s, "sent")
    /\ UNCHANGED <<request, data, pc, model, groups, error, signal, exit, report, row>>
Answer(s, outcome) ==
    /\ pc = "ask" /\ s \in Sent /\ groups[model].leader = "serving" /\ Set(s, outcome)
    /\ UNCHANGED <<request, data, pc, model, groups, error, signal, exit, report, row>>
\* One failed request ends the evaluation; it is not a wrong answer.
RequestFails(s) ==
    /\ pc = "ask" /\ s \in Sent /\ Set(s, "failed") /\ error' = TRUE
    /\ Stop /\ UNCHANGED signal
Gather ==
    /\ pc = "ask" /\ \A s \in Samples : results[model][s] \in Outcomes
    /\ Goto("stop")

\* After the group has gone: the next model, the report, or the exception.
Proceed ==
    IF error THEN Exit("nonzero") /\ UNCHANGED report
    ELSE /\ IF model = "baseline" THEN pc' = "spawn" /\ model' = "candidate"
                                  ELSE pc' = "report" /\ UNCHANGED model
         /\ UNCHANGED <<request, data, groups, results, error, signal, exit, report, row>>

Terminate ==
    /\ pc = "stop"
    /\ IF GroupExists(model) THEN Goto("terminated") ELSE Proceed
\* The leader is reaped once its group has gone; if that takes too long, the evaluation fails.
GroupGone ==
    /\ pc \in {"terminated", "killed"} /\ ~GroupExists(model)
    /\ Proceed \/ (Exit("nonzero") /\ UNCHANGED report)
Kill == pc = "terminated" /\ GroupExists(model) /\ Goto("killed")

\* Faulty variant of GiveUp: the killed group is waited for without a limit.
KeepWaiting == FALSE

GiveUp == pc = "killed" /\ GroupExists(model) /\ Exit("nonzero") /\ UNCHANGED report

\* A signal that arrives while the report is written may find the task finished.
BeginReport == pc = "report" /\ Goto("writing")
EndReport ==
    /\ pc = "writing" /\ report' = <<Measured>>
    /\ Exit("zero") \/ (signal # "none" /\ Exit("nonzero"))
\* An image of another version.
EndOtherReport ==
    /\ pc = "writing" /\ signal = "none" /\ report' \in {<<p>> : p \in Altered(Measured)}
    /\ Exit("zero")

\* SIGTERM cancels the task at its next await.  In the cleanup of a process group it ends
\* the cleanup too; before it, the cleanup follows.
RequestStop ==
    /\ pc \notin {"prepare", "refused", "exited"} /\ signal = "none" /\ signal' = "pending"
    /\ UNCHANGED <<request, data, pc, model, groups, results, error, exit, report, row>>
Interrupt ==
    /\ signal = "pending"
    /\ \/ /\ pc \in {"wait", "ask", "stop"} /\ signal' = "delivered" /\ error' = TRUE
          /\ Stop /\ UNCHANGED results
       \/ pc \in {"spawn", "terminated", "killed"} /\ Exit("nonzero") /\ UNCHANGED report
KillContainer ==
    pc \notin {"prepare", "refused", "exited"} /\ Exit("nonzero") /\ UNCHANGED report

LeaderServes(m) ==
    /\ groups[m].leader = "up" /\ groups' = [groups EXCEPT ![m].leader = "serving"]
    /\ UNCHANGED <<request, data, pc, model, results, error, signal, exit, report, row>>
LeaderExits(m) ==
    /\ groups[m].leader # "gone" /\ groups' = [groups EXCEPT ![m].leader = "gone"]
    /\ UNCHANGED <<request, data, pc, model, results, error, signal, exit, report, row>>
WorkersExit(m) ==
    /\ groups[m].workers /\ groups' = [groups EXCEPT ![m].workers = FALSE]
    /\ UNCHANGED <<request, data, pc, model, results, error, signal, exit, report, row>>

\* A STATUS after the end, and what the reconciler makes of its answer.
Observe ==
    /\ pc = "exited" /\ row.state = "running"
    /\ row' = IF exit = "zero" /\ AgentAccepts(report[1])
                 /\ ControlPlaneAccepts(Metadata(report[1]))
              THEN [state |-> "succeeded", result |-> <<Metadata(report[1])>>]
              ELSE [state |-> "failed", result |-> <<>>]
    /\ UNCHANGED <<request, data, container>>

Orchestrate ==
    \/ Prepare \/ Load \/ Spawn \/ Ready \/ NotReady \/ Gather
    \/ \E s \in DOMAIN results[model] :
          Send(s) \/ RequestFails(s) \/ \E outcome \in Outcomes : Answer(s, outcome)
    \/ Terminate \/ GroupGone \/ Kill \/ GiveUp
    \/ BeginReport \/ EndReport \/ Interrupt \/ Observe
Environment ==
    \/ EndOtherReport \/ RequestStop \/ KillContainer
    \/ \E m \in Models : LeaderServes(m) \/ LeaderExits(m) \/ WorkersExit(m)
Next == Orchestrate \/ Environment

\* The orchestrator and its time limits, and the polls of the reconciler.
Spec == Init /\ [][Next]_vars /\ WF_vars(Orchestrate)

-----------------------------------------------------------------------------
TypeOKRow == row.state \in {"running", "succeeded", "failed"} /\ Len(row.result) <= 1

\* Every variable has its type, and the semaphore of evaluate() bounds the open requests.
TypeOK ==
    /\ request \in Requests /\ model \in Models /\ error \in BOOLEAN
    /\ pc \in {"prepare", "refused", "load", "spawn", "wait", "ask", "stop", "terminated",
               "killed", "report", "writing", "exited"}
    /\ groups \in [Models -> [leader : {"gone", "up", "serving"}, workers : BOOLEAN]]
    /\ \A m \in Models : \A s \in DOMAIN results[m] :
          results[m][s] \in {"waiting", "sent", "failed"} \cup Outcomes
    /\ signal \in {"none", "pending", "delivered"} /\ exit \in {"none", "zero", "nonzero"}
    /\ Len(report) <= 1 /\ TypeOKRow
    /\ Cardinality(Sent) <= Concurrency

\* The two models never occupy the GPUs together, however the processes of the first die:
\* _stop_process_group waits for the group and not for its leader.
OneModelAtATime ==
    \E m \in Models : groups[m] = Gone

\* Some answers to as many samples, split into categories in the same way for both models,
\* have these counts, and every change has the direction in which the counts changed.
Improves(base, cand, change) ==
    /\ cand.correct > base.correct => change > 0
    /\ cand.correct < base.correct => change < 0
    /\ cand.correct = base.correct => change = 0
Counts(t, positions, outcomes) ==
    \A outcome \in {"correct", "invalid"} :
        t[outcome] = Cardinality({i \in positions : outcomes[i] = outcome})
Realizable(meta) ==
    LET all == 1..Cardinality(Samples)
    IN  /\ \E category \in [all -> Names(meta.baseline)] : \A m \in Models :
              /\ Names(meta[m]) = Range(category)
              /\ \E outcomes \in [all -> Outcomes] :
                    /\ Counts(meta[m].tally, all, outcomes)
                    /\ \A c \in Range(category) :
                          Counts(Of(meta[m], c), {i \in all : category[i] = c}, outcomes)
        /\ Improves(meta.baseline.tally, meta.candidate.tally, meta.comparison.overall.change)
        /\ \A c \in meta.comparison.changes :
              Improves(Of(meta.baseline, c.category), Of(meta.candidate, c.category), c.change)

\* A run succeeds exactly if its container exited with 0 and an acceptable report, so a
\* report of what was measured is never refused by one of the two checks that follow.  Then
\* every sample was answered by both models, what was measured is what is recorded, and the
\* recorded numbers are possible.
MeasuredIsAccepted == row.state = "failed" /\ exit = "zero" => report # <<Measured>>
SuccessIsAnswered ==
    row.state = "succeeded" =>
        /\ exit = "zero" /\ \A m \in Models : \A s \in Samples : results[m][s] \in Outcomes
        /\ report = <<Measured>> => \A m \in Models : \A outcome \in {"correct", "invalid"} :
              row.result[1][m].tally[outcome]
                  = Cardinality({s \in Samples : results[m][s] = outcome})
SuccessIsPossible == row.state = "succeeded" => Realizable(row.result[1])
VerdictIsRight == MeasuredIsAccepted /\ SuccessIsAnswered /\ SuccessIsPossible

\* Every run ends: starting, answering, stopping and killing all have time limits.
EvaluationEnds == <>(row.state # "running")
===========================================================================
