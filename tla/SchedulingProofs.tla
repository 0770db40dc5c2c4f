--------------------------- MODULE SchedulingProofs ---------------------------
(***************************************************************************)
(* Scheduled jobs are callers of the router: what holds of its callers     *)
(* holds of them, and a task is in a lock's queue only while it goes on,   *)
(* for any number of triggers, jobs and calls of fire.                     *)
(***************************************************************************)
EXTENDS Scheduling, RouterInvariants

\* A step of a task is a step of a caller, or none for an item that is not listed.
LEMMA TaskStepsAreCalls ==
    ASSUME NEW c \in Callers, job[c] # None => job[c].item \in Objects,
           task[c] = "ready" => job[c] # None,
           Progress(c) \/ TaskRaises(c)
    PROVE  [Next]_vars
<1>1. CASE Begin(c)
  <2>1. CASE UNCHANGED vars
    BY <2>1
  <2>2. CASE ~ UNCHANGED vars
    <3>1. job[c].item \in Objects
      BY <1>1 DEF Begin
    <3>2. \/ CallResolveKnownSource(c, job[c].item)
          \/ CallDiscoverSource(c, job[c].item)
      BY <1>1, <2>2 DEF Begin
    <3> QED BY <3>1, <3>2 DEF Next, Call
  <2> QED BY <2>1, <2>2
<1>2. CASE TaskStep(c)
  BY <1>2 DEF TaskStep, Next
<1>3. CASE TaskCancelled(c)
  BY <1>3 DEF TaskCancelled, Next
<1>4. CASE TaskRaises(c)
  BY <1>4 DEF TaskRaises, Raise, Next
<1> QED BY <1>1, <1>2, <1>3, <1>4 DEF Progress

-------------------------------------------------------------------------------
(* Tasks and calls: a task is in the middle of a call while it runs, and    *)
(* keeps its job until it is over.                                          *)

\* The types of the schedulers and the router's invariant need each other.
TInv == IInv /\ SchedulingTypeOK

\* A call that begins leaves its caller suspended; one that raises has ended.
LEMMA CallAndRaise ==
    ASSUME IInv, NEW c \in Callers
    PROVE  /\ \A o \in Objects : CallResolveKnownSource(c, o) \/ CallDiscoverSource(c, o) =>
                 pc'[c] # "idle"
           /\ Raise(c) => pc'[c] = "idle"
<1>1. pc \in [Callers -> {"idle"} \cup Waiting \cup Inside]
  BY DEF IInv, TypeOK
<1> QED BY <1>1 DEF CallResolveKnownSource, CallDiscoverSource, Start, Raise, RaiseInside,
           CancelWaiting, Return, Goto

\* A task that moves keeps the schedulers' types; the others are as they were.
LEMMA TaskKeepsTypes ==
    ASSUME TInv, NEW c \in Callers, NEW state \in {"running", "done", "failed"},
           task[c] \in {"ready", "running", "doomed"}, SetTask(c, state),
           state = "running" <=> pc'[c] # "idle",
           \A d \in Callers : d # c => pc'[d] = pc[d],
           UNCHANGED <<scheduler, jobs, fire>>
    PROVE  SchedulingTypeOK'
<1>1. /\ job \in [Callers -> Jobs \cup {None}] /\ task \in [Callers -> TaskStates]
      /\ task' = [task EXCEPT ![c] = state]
      /\ job' = [job EXCEPT ![c] = IF state = "running" THEN job[c] ELSE None]
  BY DEF TInv, SchedulingTypeOK, SetTask
<1>2. job' \in [Callers -> Jobs \cup {None}] /\ task' \in [Callers -> TaskStates]
  BY <1>1 DEF TaskStates
<1>3. job[c] # None
  BY DEF TInv, SchedulingTypeOK, Over
<1>4. ASSUME NEW d \in Callers
      PROVE  /\ task'[d] \in {"running", "doomed"} <=> pc'[d] # "idle"
             /\ task'[d] \in {"none", "done", "failed"} <=> job'[d] = None
  <2>1. CASE d = c
    BY <1>1, <1>3, <2>1
  <2>2. CASE d # c
    <3>1. task'[d] = task[d] /\ job'[d] = job[d] /\ pc'[d] = pc[d]
      BY <1>1, <2>2
    <3> QED BY <3>1 DEF TInv, SchedulingTypeOK, Over
  <2> QED BY <2>1, <2>2
<1> QED BY <1>2, <1>4 DEF TInv, SchedulingTypeOK, Over

\* The steps of a task.
LEMMA TasksKeepTypes ==
    ASSUME TInv, NEW c \in Callers, Progress(c) \/ TaskRaises(c)
    PROVE  SchedulingTypeOK'
<1>1. /\ IInv /\ task \in [Callers -> TaskStates] /\ pc \in [Callers -> {"idle"} \cup Waiting \cup Inside]
      /\ task[c] \in {"running", "doomed"} <=> pc[c] # "idle"
      /\ task[c] = "ready" => job[c] \in Jobs /\ job[c].item \in Objects
  BY SchedulingAssumption DEF TInv, SchedulingTypeOK, Over, IInv, TypeOK
<1>2. task[c] \in {"ready", "running", "doomed"} /\ UNCHANGED <<scheduler, jobs, fire>>
  BY DEF Progress, Begin, TaskStep, TaskCancelled, TaskRaises
<1>3. ASSUME Call(c) \/ Step(c) \/ Raise(c)
      PROVE  \A d \in Callers : d # c => pc'[d] = pc[d]
  BY <1>1, <1>3, OthersKeep
<1>4. CASE Begin(c)
  <2> DEFINE o == job[c].item
  <2>1. task[c] = "ready" /\ o \in Objects
    BY <1>1, <1>4 DEF Begin
  <2>2. CASE /\ CallResolveKnownSource(c, o) \/ CallDiscoverSource(c, o)
             /\ SetTask(c, "running")
    <3>1. pc'[c] # "idle"
      BY <1>1, <2>1, <2>2, CallAndRaise
    <3>2. Call(c)
      BY <2>1, <2>2 DEF Call
    <3> QED BY <1>2, <1>3, <2>2, <3>1, <3>2, TaskKeepsTypes
  <2>3. CASE SetTask(c, "done") /\ UNCHANGED vars
    <3>1. pc' = pc /\ pc[c] = "idle"
      BY <1>1, <2>1, <2>3 DEF vars
    <3> QED BY <1>2, <2>3, <3>1, TaskKeepsTypes
  <2> QED BY <1>4, <2>2, <2>3 DEF Begin
<1>5. CASE TaskStep(c)
  <2> DEFINE state == IF pc'[c] # "idle" THEN "running"
                      ELSE IF frame'[c].ret = "raised" THEN "failed" ELSE "done"
  <2>1. SetTask(c, state) /\ Step(c)
    BY <1>5 DEF TaskStep
  <2>2. state \in {"running", "done", "failed"} /\ (state = "running" <=> pc'[c] # "idle")
    OBVIOUS
  <2> HIDE DEF state
  <2> QED BY <1>2, <1>3, <2>1, <2>2, TaskKeepsTypes
<1>6. CASE TaskRaises(c) \/ TaskCancelled(c)
  <2>1. SetTask(c, "failed") /\ Raise(c)
    BY <1>6 DEF TaskRaises, TaskCancelled, Raise
  <2>2. pc'[c] = "idle"
    BY <1>1, <2>1, CallAndRaise
  <2> QED BY <1>2, <1>3, <2>1, <2>2, TaskKeepsTypes
<1> QED BY <1>4, <1>5, <1>6 DEF Progress

\* A fire takes over tasks that are over and gives each a job, and none to the rest.
LEMMA LaunchKeepsTypes ==
    ASSUME TInv, NEW f \in Fires, NEW list \in Seq(Jobs), Launch(f, list)
    PROVE  SchedulingTypeOK'
<1> DEFINE created == {f} \X DOMAIN list
<1>1. /\ job' = [c \in Callers |-> IF c \in created THEN list[c[2]] ELSE job[c]]
      /\ task' = [c \in Callers |-> IF c \in created THEN "ready"
                                    ELSE IF c \in Own(f) THEN "none" ELSE task[c]]
      /\ fire' = [fire EXCEPT ![f] = "waiting"]
      /\ UNCHANGED <<vars, scheduler, jobs>>
      /\ \A c \in Own(f) : Over(c)
  BY DEF Launch
<1>2. \A c \in Callers : c \in created => list[c[2]] \in Jobs /\ c \in Own(f)
  BY DEF Own
<1> HIDE DEF created
<1>3. /\ job' \in [Callers -> Jobs \cup {None}] /\ task' \in [Callers -> TaskStates]
      /\ fire' \in [Fires -> {"waiting", "returned", "raised"}]
  BY <1>1, <1>2 DEF TInv, SchedulingTypeOK, TaskStates
<1>4. ASSUME NEW c \in Callers
      PROVE  /\ task'[c] \in {"running", "doomed"} <=> pc'[c] # "idle"
             /\ task'[c] \in {"none", "done", "failed"} <=> job'[c] = None
  <2>1. /\ pc'[c] = pc[c]
        /\ task[c] \in {"running", "doomed"} <=> pc[c] # "idle"
        /\ task[c] \in {"none", "done", "failed"} <=> job[c] = None
    BY <1>1 DEF vars, TInv, SchedulingTypeOK, Over
  <2>2. CASE c \in created
    <3>1. job'[c] \in Jobs /\ task'[c] = "ready" /\ Over(c)
      BY <1>1, <1>2, <2>2
    <3> QED BY <2>1, <3>1, SchedulingAssumption DEF Over
  <2>3. CASE c \notin created /\ c \in Own(f)
    <3>1. job'[c] = job[c] /\ task'[c] = "none" /\ Over(c)
      BY <1>1, <2>3
    <3> QED BY <2>1, <3>1 DEF Over
  <2>4. CASE c \notin created /\ c \notin Own(f)
    <3>1. job'[c] = job[c] /\ task'[c] = task[c]
      BY <1>1, <2>4
    <3> QED BY <2>1, <3>1
  <2> QED BY <2>2, <2>3, <2>4
<1> QED BY <1>1, <1>3, <1>4 DEF TInv, SchedulingTypeOK, Over

\* Cancelling a fire dooms its tasks, and those that have not begun are over at once.
LEMMA CancelKeepsTypes ==
    ASSUME TInv, NEW f \in Fires,
           task' = [c \in Callers |->
                IF c \notin Own(f) THEN task[c]
                ELSE CASE task[c] = "ready" -> "failed"
                       [] task[c] = "running" -> "doomed"
                       [] OTHER -> task[c]],
           job' = [c \in Callers |-> IF c \in Own(f) /\ task[c] = "ready" THEN None ELSE job[c]],
           UNCHANGED <<vars, scheduler, jobs, fire>>
    PROVE  SchedulingTypeOK'
<1>1. job \in [Callers -> Jobs \cup {None}] /\ task \in [Callers -> TaskStates]
  BY DEF TInv, SchedulingTypeOK
<1>2. job' \in [Callers -> Jobs \cup {None}] /\ task' \in [Callers -> TaskStates]
  BY <1>1 DEF TaskStates
<1>3. ASSUME NEW c \in Callers
      PROVE  /\ task'[c] \in {"running", "doomed"} <=> pc'[c] # "idle"
             /\ task'[c] \in {"none", "done", "failed"} <=> job'[c] = None
  <2>1. /\ pc'[c] = pc[c]
        /\ task[c] \in {"running", "doomed"} <=> pc[c] # "idle"
        /\ task[c] \in {"none", "done", "failed"} <=> job[c] = None
    BY DEF vars, TInv, SchedulingTypeOK, Over
  <2>2. CASE c \notin Own(f) \/ task[c] \notin {"ready", "running"}
    <3>1. task'[c] = task[c] /\ job'[c] = job[c]
      BY <2>2
    <3> QED BY <2>1, <3>1
  <2>3. CASE c \in Own(f) /\ task[c] = "ready"
    <3>1. task'[c] = "failed" /\ job'[c] = None
      BY <2>3
    <3> QED BY <2>1, <2>3, <3>1
  <2>4. CASE c \in Own(f) /\ task[c] = "running"
    <3>1. task'[c] = "doomed" /\ job'[c] = job[c]
      BY <2>4
    <3> QED BY <2>1, <2>4, <3>1
  <2> QED BY <2>2, <2>3, <2>4
<1> QED BY <1>2, <1>3 DEF TInv, SchedulingTypeOK, Over

LEMMA NextKeepsTypes == TInv /\ [SchedulingNext]_allVars => SchedulingTypeOK'
<1> SUFFICES ASSUME TInv, [SchedulingNext]_allVars PROVE SchedulingTypeOK'
  OBVIOUS
<1>1. ASSUME UNCHANGED <<vars, scheduler, job, task>>, jobs' \in [Triggers -> Seq(Jobs)],
             scheduler = "cron" => \A t \in Triggers : Len(jobs'[t]) <= 1,
             fire' \in [Fires -> {"waiting", "returned", "raised"}]
      PROVE  SchedulingTypeOK'
  BY <1>1 DEF vars, TInv, SchedulingTypeOK, Over
<1>2. /\ jobs \in [Triggers -> Seq(Jobs)] /\ fire \in [Fires -> {"waiting", "returned", "raised"}]
      /\ scheduler = "cron" => \A t \in Triggers : Len(jobs[t]) <= 1
  BY DEF TInv, SchedulingTypeOK
<1>3. CASE UNCHANGED allVars
  BY <1>1, <1>2, <1>3 DEF allVars, schedulingVars
<1>4. ASSUME NEW t \in Triggers, NEW j \in Jobs, CronRegister(t, j) \/ EventRegister(t, j)
      PROVE  SchedulingTypeOK'
  <2>1. CASE CronRegister(t, j)
    <3> DEFINE only == <<j>>
    <3>1. only \in Seq(Jobs) /\ Len(only) = 1
      OBVIOUS
    <3>2. jobs' = [jobs EXCEPT ![t] = only]
      BY <2>1 DEF CronRegister, Registered
    <3> HIDE DEF only
    <3>3. jobs' \in [Triggers -> Seq(Jobs)] /\ \A u \in Triggers : jobs'[u] \in {only, jobs[u]}
      BY <1>2, <3>1, <3>2
    <3>4. scheduler = "cron" => \A u \in Triggers : Len(jobs'[u]) <= 1
      <4> SUFFICES ASSUME scheduler = "cron", NEW u \in Triggers PROVE Len(jobs'[u]) <= 1
        OBVIOUS
      <4>1. Len(jobs[u]) <= 1
        BY <1>2
      <4>2. CASE jobs'[u] = only
        <5>1. Len(jobs'[u]) = 1
          BY <3>1, <4>2, Zenon
        <5> QED BY <5>1
      <4>3. CASE jobs'[u] = jobs[u]
        BY <4>1, <4>3
      <4> QED BY <3>3, <4>2, <4>3
    <3> QED BY <1>1, <1>2, <2>1, <3>3, <3>4 DEF CronRegister, Registered
  <2>2. CASE EventRegister(t, j)
    <3>1. Append(jobs[t], j) \in Seq(Jobs)
      BY <1>2
    <3>2. jobs' \in [Triggers -> Seq(Jobs)] /\ scheduler # "cron"
      BY <1>2, <2>2, <3>1 DEF EventRegister, Registered
    <3> QED BY <1>1, <1>2, <2>2, <3>2 DEF EventRegister, Registered
  <2> QED BY <1>4, <2>1, <2>2
<1>5. ASSUME NEW f \in Fires, NEW t \in Triggers, EventFire(f, t) \/ CronRun(f, t)
      PROVE  SchedulingTypeOK'
  BY <1>2, <1>5, LaunchKeepsTypes DEF EventFire, CronRun
<1>6. ASSUME NEW f \in Fires, FireEnds(f) \/ CancelFire(f) PROVE SchedulingTypeOK'
  <2>1. CASE EndFire(f, "raised") \/ EndFire(f, "returned")
    <3>1. fire' \in [Fires -> {"waiting", "returned", "raised"}]
      BY <1>2, <2>1 DEF EndFire
    <3> QED BY <1>1, <1>2, <2>1, <3>1 DEF EndFire
  <2>2. CASE ~(EndFire(f, "raised") \/ EndFire(f, "returned"))
    BY <1>6, <2>2, CancelKeepsTypes DEF FireEnds, GatherRaises, GatherReturns, CancelFire
  <2> QED BY <2>1, <2>2
<1>7. ASSUME NEW c \in Callers, Progress(c) \/ TaskRaises(c) PROVE SchedulingTypeOK'
  BY <1>7, TasksKeepTypes
<1> QED BY <1>3, <1>4, <1>5, <1>6, <1>7 DEF SchedulingNext

-------------------------------------------------------------------------------
(* The schedulers over the router.                                         *)

\* A step of a scheduler is a step of the router's callers or leaves the router alone.
LEMMA StepsAreCalls == TInv /\ [SchedulingNext]_allVars => [Next]_vars
<1> SUFFICES ASSUME TInv, [SchedulingNext]_allVars PROVE [Next]_vars
  OBVIOUS
<1>1. CASE UNCHANGED allVars
  BY <1>1 DEF allVars
<1>2. ASSUME NEW c \in Callers, Progress(c) \/ TaskRaises(c) PROVE [Next]_vars
  <2>1. /\ job[c] # None => job[c].item \in Objects
        /\ task[c] = "ready" => job[c] # None
    BY SchedulingAssumption DEF TInv, SchedulingTypeOK, Over
  <2> QED BY <1>2, <2>1, TaskStepsAreCalls
<1>3. ASSUME NEW t \in Triggers, NEW j \in Jobs, CronRegister(t, j) \/ EventRegister(t, j)
      PROVE  UNCHANGED vars
  BY <1>3 DEF CronRegister, EventRegister, Registered
<1>4. ASSUME NEW f \in Fires, NEW t \in Triggers, EventFire(f, t) \/ CronRun(f, t)
      PROVE  UNCHANGED vars
  BY <1>4 DEF EventFire, CronRun, Launch
<1>5. ASSUME NEW f \in Fires, FireEnds(f) \/ CancelFire(f) PROVE UNCHANGED vars
  BY <1>5 DEF FireEnds, GatherRaises, GatherReturns, EndFire, CancelFire
<1> QED BY <1>1, <1>2, <1>3, <1>4, <1>5 DEF SchedulingNext

LEMMA InitTInv == SchedulingInit => Init /\ TInv
<1> SUFFICES ASSUME SchedulingInit PROVE Init /\ TInv
  OBVIOUS
<1>1. jobs \in [Triggers -> Seq(Jobs)] /\ \A t \in Triggers : Len(jobs[t]) <= 1
  BY DEF SchedulingInit
<1>2. SchedulingTypeOK
  BY <1>1 DEF SchedulingInit, Init, SchedulingTypeOK, TaskStates, Over
<1>3. Init
  BY DEF SchedulingInit
<1> QED BY <1>2, <1>3, InitIInv DEF TInv

LEMMA TInvHolds == SchedulingSpec => []TInv
<1>1. TInv /\ [SchedulingNext]_allVars => TInv'
  BY StepsAreCalls, NextKeepsTypes, NextKeepsIInv DEF TInv
<1> QED BY <1>1, InitTInv, PTL DEF SchedulingSpec

LEMMA JobsAreCallers == SchedulingSpec => Spec
<1> QED BY InitTInv, TInvHolds, StepsAreCalls, PTL DEF SchedulingSpec, Spec

-------------------------------------------------------------------------------
(* The theorems.                                                           *)

\* However many jobs the schedulers run at a time, and whichever fail or are
\* cancelled, two are never inside a track for the same item id (router.py, _lock_for).
THEOREM ScheduledSingleFlight == SchedulingSpec => []SingleFlight
<1> QED BY JobsAreCallers, MutualExclusion, PTL

\* However many jobs are registered, fired, fail and are cancelled, a task is in the
\* middle of a call of the router exactly while it runs, and one that is over has
\* forgotten its job (event_adapter.py, cron_adapter.py).
THEOREM SchedulersTyped == SchedulingSpec => []SchedulingTypeOK
<1>1. TInv => SchedulingTypeOK
  BY DEF TInv
<1> QED BY <1>1, TInvHolds, PTL

\* No job that fails, is left behind by its fire or is cancelled with it, in a queue
\* or inside a track, keeps a place in the queue of a lock (event_adapter.py, fire;
\* router.py, _lock_for).
THEOREM LocksLeft == SchedulingSpec => []NoLockAbandoned
<1>1. TInv /\ QueuesAreCalls => NoLockAbandoned
  BY DEF TInv, QueuesAreCalls, SchedulingTypeOK, NoLockAbandoned
<1> QED BY <1>1, TInvHolds, JobsAreCallers, QueuesInOrder, PTL

===============================================================================
