------------------------- MODULE DockerRunnerProofs -------------------------
(***************************************************************************)
(* What the operations of the container runner can do to the containers.   *)
(*                                                                         *)
(* DispatchShape: whatever a command does, it touches the container of its *)
(* own owner only, and in one of four ways: the container is kept, gone,   *)
(* ended or newly launched.  ShapeAllocates says what that means for the   *)
(* GPUs that are held.                                                     *)
(***************************************************************************)
EXTENDS DockerRunner, TLAPS

Gone(d) == d = Absent
Ended(c, d) == /\ Exists(c)
               /\ d.gen = c.gen /\ d.gpus = c.gpus
               /\ d.status \in TerminalStatuses \cup {"removing"}
Launched(cs, cmd, d) ==
    /\ cmd.action = "start"
    /\ ~Exists(cs[cmd.owner]) \/ Replaceable(cs[cmd.owner], cmd.gen)
    /\ cmd.gpus \cap GpusOfOthers(cs, cmd.owner) = {}
    /\ d.gen = cmd.gen /\ d.gpus = cmd.gpus
    /\ d.status \in Statuses \ {"absent"}

Touches(cs, o, new) ==
    /\ new \in [Owners -> Container]
    /\ \A p \in Owners \ {o} : new[p] = cs[p]

\* The container of o, and only that, is as it was, gone or ended.
Settled(cs, o, new) ==
    /\ Touches(cs, o, new)
    /\ new[o] = cs[o] \/ Gone(new[o]) \/ Ended(cs[o], new[o])

Shape(cs, cmd, new) ==
    \/ Settled(cs, cmd.owner, new)
    \/ Touches(cs, cmd.owner, new) /\ Launched(cs, cmd, new[cmd.owner])

-----------------------------------------------------------------------------
(***************************************************************************)
(* Operators of DockerRunner.                                              *)
(***************************************************************************)
\* Changing the status of an existing container keeps everything else (container.stop).
LEMMA SetStatus ==
    ASSUME NEW cs \in [Owners -> Container], NEW o \in Owners, NEW s \in Statuses
    PROVE  /\ Touches(cs, o, Set(cs, o, s))
           /\ Set(cs, o, s)[o] = [gen |-> cs[o].gen, gpus |-> cs[o].gpus, status |-> s]
  <1>1. cs[o] \in Container
    OBVIOUS
  <1>2. [cs[o] EXCEPT !.status = s] = [gen |-> cs[o].gen, gpus |-> cs[o].gpus, status |-> s]
    BY <1>1 DEF Container
  <1>3. [gen |-> cs[o].gen, gpus |-> cs[o].gpus, status |-> s] \in Container
    BY <1>1 DEF Container
  <1>4. Set(cs, o, s) = [cs EXCEPT ![o] = [cs[o] EXCEPT !.status = s]]
    BY DEF Set
  <1> QED
    BY <1>2, <1>3, <1>4 DEF Touches

\* A container that was stopped, or whose removal has begun, is settled.
LEMMA SetSettled ==
    ASSUME NEW cs \in [Owners -> Container], NEW o \in Owners, Exists(cs[o]),
           NEW s \in TerminalStatuses \cup {"removing"}
    PROVE  Settled(cs, o, Set(cs, o, s))
  <1>1. s \in Statuses
    BY DEF Statuses
  <1>2. /\ Touches(cs, o, Set(cs, o, s))
        /\ Set(cs, o, s)[o] = [gen |-> cs[o].gen, gpus |-> cs[o].gpus, status |-> s]
    BY <1>1, SetStatus
  <1> QED
    BY <1>2 DEF Settled, Ended

\* A removed container is settled (container.remove).
LEMMA RemoveSettled ==
    ASSUME NEW cs \in [Owners -> Container], NEW o \in Owners
    PROVE  /\ Settled(cs, o, Remove(cs, o))
           /\ Remove(cs, o)[o] = Absent
  <1>1. Absent \in Container
    BY DEF Absent, Container, Statuses, TerminalStatuses, ActiveStatuses
  <1> QED
    BY <1>1 DEF Remove, Settled, Touches, Gone

\* Nothing happened: settled.
LEMMA KeptSettled ==
    ASSUME NEW cs \in [Owners -> Container], NEW o \in Owners
    PROVE  Settled(cs, o, cs)
  BY DEF Settled, Touches

\* Two things that happen to the same container, one after the other, settle it.
LEMMA SettledTransitive ==
    ASSUME NEW cs, NEW mid, NEW new, NEW o \in Owners,
           Settled(cs, o, mid), Settled(mid, o, new)
    PROVE  Settled(cs, o, new)
  <1>1. Touches(cs, o, new)
    BY DEF Settled, Touches
  <1>2. ~Exists(Absent)
    BY DEF Exists, Absent
  <1>3. new[o] = cs[o] \/ Gone(new[o]) \/ Ended(cs[o], new[o])
    BY <1>2 DEF Settled, Gone, Ended
  <1> QED
    BY <1>1, <1>3 DEF Settled

\* Reporting the state of an existing container (_response_from_info) leaves it alone, except
\* that an inference service that failed to become ready is stopped or removed.
LEMMA ReportSettled ==
    ASSUME NEW cs \in [Owners -> Container], NEW o \in Owners, Exists(cs[o]),
           NEW out \in ResponseFromInfo(cs, o)
    PROVE  Settled(cs, o, out.cs)
  <1>1. \/ out.cs = cs
        \/ out.cs = Remove(cs, o)
        \/ out.cs = Set(cs, o, "exited1")
    BY DEF ResponseFromInfo, QuiesceFailedInference, Outcome
  <1>2. "exited1" \in TerminalStatuses \cup {"removing"}
    BY DEF TerminalStatuses
  <1>3. Settled(cs, o, cs)
    BY KeptSettled
  <1>4. Settled(cs, o, Remove(cs, o))
    BY RemoveSettled
  <1>5. Settled(cs, o, Set(cs, o, "exited1"))
    BY SetSettled, <1>2
  <1> QED
    BY <1>1, <1>3, <1>4, <1>5

\* Removal settles the container whether or not the call to Docker succeeds.
LEMMA RemoveContainerSettled ==
    ASSUME NEW cs \in [Owners -> Container], NEW o \in Owners, Exists(cs[o]),
           NEW out \in RemoveContainer(cs, o)
    PROVE  Settled(cs, o, out.cs)
  <1>1. out.cs = Remove(cs, o) \/ out.cs = Set(cs, o, "removing")
    BY DEF RemoveContainer, Outcome
  <1>2. Settled(cs, o, Remove(cs, o))
    BY RemoveSettled
  <1>3. Settled(cs, o, Set(cs, o, "removing"))
    BY SetSettled
  <1> QED
    BY <1>1, <1>2, <1>3

\* A stopped job that succeeded is kept and reported, anything else is removed.
LEMMA DiscardSettled ==
    ASSUME NEW cs \in [Owners -> Container], NEW o \in Owners, Exists(cs[o]),
           NEW out \in Discard(cs, o)
    PROVE  Settled(cs, o, out.cs)
  BY ReportSettled, RemoveContainerSettled DEF Discard

\* STOP (stop_contract_workload), whatever way the container ended and Docker answered.
LEMMA StopSettled ==
    ASSUME NEW cs \in [Owners -> Container], NEW cmd \in Command,
           NEW out \in StopOutcomes(cs, cmd)
    PROVE  Settled(cs, cmd.owner, out.cs)
  <1> DEFINE o == cmd.owner
  <1>o. o \in Owners
    BY DEF Command
  <1>1. CASE ~Exists(cs[o])
    BY <1>1, <1>o, KeptSettled DEF StopOutcomes, Outcome
  <1>2. CASE Exists(cs[o]) /\ cs[o].gen # cmd.gen
    BY <1>2, <1>o, KeptSettled DEF StopOutcomes, Outcome
  <1>3. CASE Exists(cs[o]) /\ cs[o].gen = cmd.gen /\ cs[o].status \in TerminalStatuses
    <2>1. StopOutcomes(cs, cmd) = Discard(cs, o)
      BY <1>3 DEF StopOutcomes, Active, ActiveStatuses, TerminalStatuses
    <2> QED
      BY <1>3, <1>o, <2>1, DiscardSettled
  <1>4. CASE Exists(cs[o]) /\ cs[o].gen = cmd.gen /\ Active(cs[o])
    <2>1. cs[o].status \notin TerminalStatuses
      BY <1>4 DEF Active, ActiveStatuses, TerminalStatuses
    <2>2. PICK s \in AfterStop(cs[o].status) :
             \/ out = Outcome(Set(cs, o, s), Unavailable)
             \/ out \in Discard(Set(cs, o, s), o)
      BY <1>4, <2>1 DEF StopOutcomes
    <2>3. s \in Statuses /\ s # "absent"
      BY <2>2 DEF AfterStop, Statuses, ActiveStatuses, TerminalStatuses
    <2>4. /\ Touches(cs, o, Set(cs, o, s))
          /\ Set(cs, o, s)[o] = [gen |-> cs[o].gen, gpus |-> cs[o].gpus, status |-> s]
      BY <1>o, <2>3, SetStatus
    <2>5. Settled(cs, o, Set(cs, o, s))
      <3>1. CASE s \in TerminalStatuses
        BY <1>4, <1>o, <3>1, SetSettled
      <3>2. CASE s = cs[o].status
        <4>1. cs[o] = [gen |-> cs[o].gen, gpus |-> cs[o].gpus, status |-> cs[o].status]
          BY <1>o DEF Container
        <4> QED
          BY <2>4, <3>2, <4>1 DEF Settled
      <3> QED
        BY <2>2, <3>1, <3>2 DEF AfterStop
    <2>6. Set(cs, o, s) \in [Owners -> Container] /\ Exists(Set(cs, o, s)[o])
      BY <2>3, <2>4 DEF Touches, Exists
    <2>7. CASE out = Outcome(Set(cs, o, s), Unavailable)
      BY <2>5, <2>7 DEF Outcome
    <2>8. CASE out \in Discard(Set(cs, o, s), o)
      BY <1>o, <2>5, <2>6, <2>8, DiscardSettled, SettledTransitive
    <2> QED
      BY <2>2, <2>7, <2>8
  <1>5. CASE /\ Exists(cs[o]) /\ cs[o].gen = cmd.gen
             /\ cs[o].status \notin TerminalStatuses /\ ~Active(cs[o])
    BY <1>5 DEF StopOutcomes
  <1> QED
    BY <1>1, <1>2, <1>3, <1>4, <1>5

\* The cleanup (cleanup_contract_workload) removes or leaves alone.
LEMMA CleanupSettled ==
    ASSUME NEW cs \in [Owners -> Container], NEW cmd \in Command,
           NEW out \in CleanupOutcomes(cs, cmd)
    PROVE  Settled(cs, cmd.owner, out.cs)
  <1>o. cmd.owner \in Owners
    BY DEF Command
  <1>1. out.cs = cs \/ (Exists(cs[cmd.owner]) /\ out \in RemoveContainer(cs, cmd.owner))
    BY DEF CleanupOutcomes, Outcome
  <1> QED
    BY <1>o, <1>1, KeptSettled, RemoveContainerSettled

\* STATUS (_observe) reports.
LEMMA StatusSettled ==
    ASSUME NEW cs \in [Owners -> Container], NEW cmd \in Command,
           NEW out \in StatusOutcomes(cs, cmd)
    PROVE  Settled(cs, cmd.owner, out.cs)
  <1>o. cmd.owner \in Owners
    BY DEF Command
  <1>1. out.cs = cs \/ (Exists(cs[cmd.owner]) /\ out \in ResponseFromInfo(cs, cmd.owner))
    BY DEF StatusOutcomes, Outcome
  <1> QED
    BY <1>o, <1>1, KeptSettled, ReportSettled

\* A launch (launch_inference, launch_training, launch_evaluation) leaves the container
\* alone, loses it again, or leaves the new one on GPUs that nobody else uses.
LEMMA LaunchShape ==
    ASSUME NEW cs \in [Owners -> Container], NEW cmd \in Command,
           NEW out \in Launch(cs, cmd)
    PROVE  \/ Settled(cs, cmd.owner, out.cs)
           \/ /\ Touches(cs, cmd.owner, out.cs)
              /\ cmd.gpus \cap GpusOfOthers(cs, cmd.owner) = {}
              /\ out.cs[cmd.owner].gen = cmd.gen
              /\ out.cs[cmd.owner].gpus = cmd.gpus
              /\ out.cs[cmd.owner].status \in Statuses \ {"absent"}
  <1> DEFINE o == cmd.owner
             New(s) == [gen |-> cmd.gen, gpus |-> cmd.gpus, status |-> s]
             With(s) == Created(cs, cmd, s)
             Free == cmd.gpus \cap GpusOfOthers(cs, o) = {}
  <1>o. o \in Owners
    BY DEF Command
  <1>1. \/ out = Outcome(cs, Rejected)
        \/ Free /\ out \in Run(cs, cmd)
    BY DEF Launch
  <1>2. ASSUME NEW s \in AfterLaunch
        PROVE  /\ Touches(cs, o, With(s)) /\ With(s) \in [Owners -> Container]
               /\ With(s)[o] = New(s)
               /\ s \in Statuses \ {"absent"}
    <2>1. s \in Statuses \ {"absent"}
      BY DEF AfterLaunch, Statuses, ActiveStatuses, TerminalStatuses
    <2>2. New(s) \in Container
      BY <2>1 DEF Command, Container
    <2> QED
      BY <1>o, <2>1, <2>2 DEF Touches, Created
  <1>3. CASE out = Outcome(cs, Rejected)
    BY <1>3, <1>o, KeptSettled DEF Outcome
  <1>4. CASE Free /\ out \in Run(cs, cmd)
    <2>s. PICK s \in AfterLaunch : out \in RanAs(cs, cmd, s)
      BY <1>4 DEF Run
    <2>1. /\ Touches(cs, o, With(s)) /\ With(s) \in [Owners -> Container]
          /\ With(s)[o] = New(s) /\ s \in Statuses \ {"absent"}
      BY <1>2
    <2>2. CASE out = Outcome(With(s), Unavailable)
      BY <1>4, <2>1, <2>2 DEF Outcome
    <2>3. CASE out \in ResponseFromInfo(With(s), o)
      <3>1. Exists(With(s)[o])
        BY <2>1 DEF Exists
      <3>2. Settled(With(s), o, out.cs)
        BY <1>o, <2>1, <2>3, <3>1, ReportSettled
      <3>3. Touches(cs, o, out.cs)
        BY <2>1, <3>2 DEF Settled, Touches
      <3>4. \A x \in TerminalStatuses \cup {"removing"} : x \in Statuses \ {"absent"}
        BY DEF Statuses, TerminalStatuses
      <3>5. \/ Gone(out.cs[o])
            \/ /\ out.cs[o].gen = cmd.gen /\ out.cs[o].gpus = cmd.gpus
               /\ out.cs[o].status \in Statuses \ {"absent"}
        BY <2>1, <3>2, <3>4 DEF Settled, Ended
      <3> QED
        BY <1>4, <3>3, <3>5 DEF Settled
    <2> QED
      BY <2>s, <2>2, <2>3 DEF RanAs
  <1> QED
    BY <1>1, <1>3, <1>4

\* What an owner's own container is does not matter to the GPUs of the others.
LEMMA OthersUnchanged ==
    ASSUME NEW cs, NEW new, NEW o \in Owners, \A p \in Owners \ {o} : new[p] = cs[p]
    PROVE  GpusOfOthers(new, o) = GpusOfOthers(cs, o)
  BY DEF GpusOfOthers

\* START (launch_*, prepare_contract_start): a container is launched only where there was none
\* or where an older generation had ended.
LEMMA StartShape ==
    ASSUME NEW cs \in [Owners -> Container], NEW cmd \in Command, cmd.action = "start",
           NEW out \in StartOutcomes(cs, cmd)
    PROVE  Shape(cs, cmd, out.cs)
  <1> DEFINE o == cmd.owner
             c == cs[o]
  <1>o. o \in Owners
    BY DEF Command
  <1>1. CASE ~Exists(c)
    <2>1. out \in Launch(cs, cmd)
      BY <1>1 DEF StartOutcomes
    <2> QED
      BY <1>1, <2>1, LaunchShape DEF Shape, Launched
  <1>2. CASE Exists(c) /\ Replaceable(c, cmd.gen)
    <2>1. c.gen < cmd.gen /\ ~Active(c) /\ c \in Container
      BY <1>o, <1>2 DEF Replaceable, Active, ActiveStatuses, TerminalStatuses
    <2>2. c.gen # cmd.gen /\ ~(c.gen > cmd.gen)
      BY <2>1 DEF Container, Command
    <2>3. \/ out \in Launch(Remove(cs, o), cmd)
          \/ out = Outcome(Set(cs, o, "removing"), Unavailable)
      BY <1>2, <2>1, <2>2 DEF StartOutcomes
    <2>4. /\ Settled(cs, o, Remove(cs, o))
          /\ Remove(cs, o) \in [Owners -> Container]
      BY <1>o, RemoveSettled DEF Settled, Touches
    <2>5. CASE out = Outcome(Set(cs, o, "removing"), Unavailable)
      <3>1. Settled(cs, o, Set(cs, o, "removing"))
        BY <1>o, <1>2, SetSettled
      <3> QED
        BY <2>5, <3>1 DEF Shape, Outcome
    <2>6. CASE out \in Launch(Remove(cs, o), cmd)
      <3>1. CASE Settled(Remove(cs, o), o, out.cs)
        BY <1>o, <2>4, <3>1, SettledTransitive DEF Shape
      <3>2. CASE /\ Touches(Remove(cs, o), o, out.cs)
                 /\ cmd.gpus \cap GpusOfOthers(Remove(cs, o), o) = {}
                 /\ out.cs[o].gen = cmd.gen
                 /\ out.cs[o].gpus = cmd.gpus
                 /\ out.cs[o].status \in Statuses \ {"absent"}
        <4>1. GpusOfOthers(Remove(cs, o), o) = GpusOfOthers(cs, o)
          BY <1>o, <2>4, OthersUnchanged DEF Settled, Touches
        <4>2. Touches(cs, o, out.cs)
          BY <2>4, <3>2 DEF Settled, Touches
        <4> QED
          BY <1>2, <3>2, <4>1, <4>2 DEF Shape, Launched
      <3> QED
        BY <2>4, <2>6, <3>1, <3>2, LaunchShape
    <2> QED
      BY <2>3, <2>5, <2>6
  <1>3. CASE Exists(c) /\ ~Replaceable(c, cmd.gen)
    <2>1. out \in ResponseFromInfo(cs, o) \/ out = Outcome(cs, Rejected)
      <3>1. CASE c.gen = cmd.gen
        <4>1. ~(c.gen > cmd.gen) /\ ~(c.gen < cmd.gen)
          BY <1>o, <3>1 DEF Container, Command
        <4> QED
          BY <1>3, <3>1, <4>1 DEF StartOutcomes
      <3>2. CASE c.gen # cmd.gen
        BY <1>3, <3>2 DEF StartOutcomes
      <3> QED
        BY <3>1, <3>2
    <2>2. Settled(cs, o, out.cs)
      BY <1>o, <1>3, <2>1, KeptSettled, ReportSettled DEF Outcome
    <2> QED
      BY <2>2 DEF Shape
  <1> QED
    BY <1>1, <1>2, <1>3

\* Whatever a command does to the containers (_dispatch).
LEMMA DispatchShape ==
    ASSUME NEW cs \in [Owners -> Container], NEW cmd \in Command,
           NEW out \in DispatchOutcomes(cs, cmd)
    PROVE  Shape(cs, cmd, out.cs)
  <1>o. cmd.owner \in Owners
    BY DEF Command
  <1>1. CASE out = Outcome(cs, Unavailable)
    BY <1>o, <1>1, KeptSettled DEF Shape, Outcome
  <1>2. CASE cmd.action = "start" /\ out \in StartOutcomes(cs, cmd)
    BY <1>2, StartShape
  <1>3. CASE out \in StopOutcomes(cs, cmd)
    BY <1>3, StopSettled DEF Shape
  <1>4. CASE out \in CleanupOutcomes(cs, cmd)
    BY <1>4, CleanupSettled DEF Shape
  <1>5. CASE out \in StatusOutcomes(cs, cmd)
    BY <1>5, StatusSettled DEF Shape
  <1>6. \/ out = Outcome(cs, Unavailable)
        \/ cmd.action = "start" /\ out \in StartOutcomes(cs, cmd)
        \/ out \in StopOutcomes(cs, cmd)
        \/ out \in CleanupOutcomes(cs, cmd)
        \/ out \in StatusOutcomes(cs, cmd)
    BY DEF DispatchOutcomes
  <1> QED
    BY <1>1, <1>2, <1>3, <1>4, <1>5, <1>6

\* The answers that the runner gives: a refusal, an error, or the state of the container.
Answers == {Rejected, Unavailable}
           \cup {Accepted(s) : s \in {"absent", "starting", "running", "stopping", "succeeded", "failed"}}

\* Every answer is a contract reply (ContractCommandResponse), and only an error leaves the state
\* open.
LEMMA ReplyTypes ==
    /\ Rejected \in Answers /\ Unavailable \in Answers
    /\ \A s \in {"absent", "starting", "running", "stopping", "succeeded", "failed"} :
          Accepted(s) \in Answers
    /\ \A r \in Answers : r \in Reply /\ (r.state = "unknown" => r = Unavailable)
  <1>1. /\ Rejected \in Answers /\ Unavailable \in Answers
        /\ \A s \in {"absent", "starting", "running", "stopping", "succeeded", "failed"} :
              Accepted(s) \in Answers
    BY DEF Answers
  <1>2. ASSUME NEW r \in Answers PROVE r \in Reply /\ (r.state = "unknown" => r = Unavailable)
    <2>1. CASE r = Rejected \/ r = Unavailable
      <3>1. Rejected \in Reply /\ Unavailable \in Reply /\ Rejected.state = "failed"
        BY DEF Rejected, Unavailable, Reply
      <3> QED
        BY <2>1, <3>1
    <2>2. CASE \E s \in {"absent", "starting", "running", "stopping", "succeeded", "failed"} :
                 r = Accepted(s)
      BY <2>2 DEF Accepted, Reply
    <2> QED
      BY <2>1, <2>2 DEF Answers
  <1> QED
    BY <1>1, <1>2

\* So does the report of an existing container.
LEMMA ReportReplies ==
    ASSUME NEW cs, NEW o, NEW out \in ResponseFromInfo(cs, o)
    PROVE  out.reply \in Answers
  <1>1. StateFromInfo(o, cs[o]) \in {"absent", "starting", "running", "stopping", "succeeded", "failed"}
    BY DEF StateFromInfo
  <1>2. \A out2 \in QuiesceFailedInference(cs, o) : out2.reply \in Answers
    BY ReplyTypes DEF QuiesceFailedInference, Outcome
  <1> QED
    BY <1>1, <1>2, ReplyTypes DEF ResponseFromInfo, Outcome

\* And a removal.
LEMMA RemovalReplies ==
    ASSUME NEW cs, NEW o, NEW out \in RemoveContainer(cs, o)
    PROVE  out.reply \in Answers
  BY ReplyTypes DEF RemoveContainer, Outcome

\* And a dispatch, whatever the command (_dispatch).
LEMMA DispatchReplies ==
    ASSUME NEW cs, NEW cmd, NEW out \in DispatchOutcomes(cs, cmd)
    PROVE  out.reply \in Answers /\ out.reply \in Reply
  <1>1. ASSUME NEW ds, NEW l \in Launch(ds, cmd) PROVE l.reply \in Answers
    <2>1. CASE l = Outcome(ds, Rejected)
      BY <2>1, ReplyTypes DEF Outcome
    <2>2. ASSUME NEW s, l \in RanAs(ds, cmd, s) PROVE l.reply \in Answers
      BY <2>2, ReplyTypes, ReportReplies DEF RanAs, Outcome
    <2> QED
      BY <1>1, <2>1, <2>2 DEF Launch, Run
  <1>2. ASSUME NEW d \in StartOutcomes(cs, cmd) PROVE d.reply \in Answers
    BY <1>1, <1>2, ReplyTypes, ReportReplies DEF StartOutcomes, Outcome
  <1>3. ASSUME NEW ds, NEW d \in Discard(ds, cmd.owner) PROVE d.reply \in Answers
    BY <1>3, ReportReplies, RemovalReplies DEF Discard
  <1>4. ASSUME NEW d \in StopOutcomes(cs, cmd) PROVE d.reply \in Answers
    BY <1>3, <1>4, ReplyTypes DEF StopOutcomes, Outcome
  <1>5. ASSUME NEW d \in CleanupOutcomes(cs, cmd) PROVE d.reply \in Answers
    BY <1>5, ReplyTypes, RemovalReplies DEF CleanupOutcomes, Outcome
  <1>6. ASSUME NEW d \in StatusOutcomes(cs, cmd) PROVE d.reply \in Answers
    BY <1>6, ReplyTypes, ReportReplies DEF StatusOutcomes, Outcome
  <1>7. CASE out = Outcome(cs, Unavailable)
    BY <1>7, ReplyTypes DEF Outcome
  <1> QED
    BY <1>2, <1>4, <1>5, <1>6, <1>7, ReplyTypes DEF DispatchOutcomes

\* What a container does by itself: it goes on, ends, or vanishes while it is being removed.
Evolved(c, d) ==
    \/ Gone(d)
    \/ /\ Active(c)
       /\ d.gen = c.gen /\ d.gpus = c.gpus
       /\ d.status \in Statuses \ {"absent"}

\* What a container does by itself: it goes on, ends or disappears.
LEMMA ProgressShape ==
    ASSUME NEW cs \in [Owners -> Container], NEW o \in Owners, NEW s \in Progress(o, cs[o])
    PROVE  /\ Touches(cs, o, Evolve(cs, o, s))
           /\ Evolved(cs[o], Evolve(cs, o, s)[o])
           /\ cs[o].status \notin TerminalStatuses
  <1>1. /\ cs[o].status \notin TerminalStatuses
        /\ s \in Statuses
        /\ Active(cs[o]) \/ s = "absent"
    BY DEF Progress, TerminalStatuses, ActiveStatuses, Statuses, Active
  <1>2. CASE s = "absent"
    <2>1. Evolve(cs, o, s) = Remove(cs, o)
      BY <1>2 DEF Evolve
    <2>2. Settled(cs, o, Remove(cs, o)) /\ Remove(cs, o)[o] = Absent
      BY RemoveSettled
    <2> QED
      BY <1>1, <2>1, <2>2 DEF Settled, Evolved, Gone
  <1>3. CASE s # "absent"
    <2>1. Evolve(cs, o, s) = Set(cs, o, s)
      BY <1>3 DEF Evolve
    <2>2. /\ Touches(cs, o, Set(cs, o, s))
          /\ Set(cs, o, s)[o] = [gen |-> cs[o].gen, gpus |-> cs[o].gpus, status |-> s]
      BY <1>1, SetStatus
    <2> QED
      BY <1>1, <1>3, <2>1, <2>2 DEF Evolved
  <1> QED
    BY <1>2, <1>3

-----------------------------------------------------------------------------
(***************************************************************************)
(* GPUs.  A step changes what one owner holds at most: the owner gives     *)
(* everything back, or takes a group that nobody holds.                    *)
(***************************************************************************)
GivesBack(c, d) == HeldByContainer(d) = HeldByContainer(c) \/ HeldByContainer(d) = {}
Takes(cs, new, o) ==
    LET group == HeldByContainer(new[o])
    IN  /\ HeldByContainer(cs[o]) = {}
        /\ group \in SUBSET (Gpus \X Nat)
        /\ \A x, y \in group : x[2] = y[2]
        /\ \A p \in Owners : \A x \in HeldByContainer(cs[p]), y \in group : x[1] # y[1]
Allocates(cs, new, o) ==
    /\ \A p \in Owners \ {o} : HeldByContainer(new[p]) = HeldByContainer(cs[p])
    /\ GivesBack(cs[o], new[o]) \/ Takes(cs, new, o)

\* A container that is not active afterwards holds nothing; one that was and is active holds the
\* same if its label is the same.
LEMMA KeptGivesBack ==
    ASSUME NEW c, NEW d,
           \/ d = c \/ ~Active(d)
           \/ Active(c) /\ d.gen = c.gen /\ d.gpus = c.gpus
    PROVE  GivesBack(c, d)
  BY DEF GivesBack, HeldByContainer

\* A launched container takes GPUs that were free of the other owners' active containers, and its
\* owner had no active container (_assert_gpus_available, prepare_contract_start).
LEMMA LaunchTakes ==
    ASSUME NEW cs \in [Owners -> Container], NEW cmd \in Command, NEW new,
           Launched(cs, cmd, new[cmd.owner])
    PROVE  GivesBack(cs[cmd.owner], new[cmd.owner]) \/ Takes(cs, new, cmd.owner)
  <1> DEFINE o == cmd.owner
             group == HeldByContainer(new[o])
  <1>1. o \in Owners /\ cmd.gpus \in SUBSET Gpus /\ cmd.gen \in Nat
    BY DEF Command
  <1>2. ~Active(cs[o])
    BY DEF Launched, Replaceable, Active, Exists, ActiveStatuses, TerminalStatuses
  <1>3. CASE ~Active(new[o])
    BY <1>3, KeptGivesBack
  <1>4. CASE Active(new[o])
    <2>1. HeldByContainer(cs[o]) = {} /\ group = cmd.gpus \X {cmd.gen}
      BY <1>2, <1>4 DEF HeldByContainer, Launched
    <2>2. ASSUME NEW p \in Owners, NEW x \in HeldByContainer(cs[p]) PROVE x[1] \notin cmd.gpus
      <3>1. p # o /\ Active(cs[p]) /\ x[1] \in cs[p].gpus
        BY <2>1, <2>2 DEF HeldByContainer
      <3>2. x[1] \in GpusOfOthers(cs, o)
        BY <3>1 DEF GpusOfOthers
      <3> QED
        BY <3>2 DEF Launched
    <2>3. \A y \in group : y[1] \in cmd.gpus /\ y[2] = cmd.gen
      BY <2>1
    <2>4. group \in SUBSET (Gpus \X Nat)
      BY <1>1, <2>1
    <2> QED
      BY <2>1, <2>2, <2>3, <2>4 DEF Takes
  <1> QED
    BY <1>3, <1>4

\* Every command allocates whole GPUs.
LEMMA ShapeAllocates ==
    ASSUME NEW cs \in [Owners -> Container], NEW cmd \in Command, NEW new, Shape(cs, cmd, new)
    PROVE  Allocates(cs, new, cmd.owner)
  <1> DEFINE o == cmd.owner
  <1>1. \A p \in Owners \ {o} : new[p] = cs[p]
    BY DEF Shape, Settled, Touches
  <1>2. CASE Settled(cs, o, new)
    <2>1. new[o] = cs[o] \/ ~Active(new[o])
      BY <1>2 DEF Settled, Gone, Ended, Active, Absent, ActiveStatuses, TerminalStatuses
    <2> QED
      BY <1>1, <2>1, KeptGivesBack DEF Allocates
  <1>3. CASE Launched(cs, cmd, new[o])
    BY <1>1, <1>3, LaunchTakes DEF Allocates
  <1> QED
    BY <1>2, <1>3 DEF Shape

\* And so does everything a container does by itself.
LEMMA EvolutionAllocates ==
    ASSUME NEW cs, NEW new, NEW o \in Owners, Touches(cs, o, new), Evolved(cs[o], new[o])
    PROVE  Allocates(cs, new, o)
  <1>1. ~Active(new[o]) \/ (Active(cs[o]) /\ new[o].gen = cs[o].gen /\ new[o].gpus = cs[o].gpus)
    BY DEF Evolved, Gone, Active, Absent, ActiveStatuses
  <1> QED
    BY <1>1, KeptGivesBack DEF Allocates, Touches
=============================================================================
