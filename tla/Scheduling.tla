------------------------------ MODULE Scheduling ------------------------------
(***************************************************************************)
(* Jobs that call the router, and the schedulers that run them             *)
(* (scheduling/event_adapter.py, scheduling/cron_adapter.py, and the       *)
(* choice between them in factory.py, build_scheduler).                    *)
(*                                                                         *)
(* `fire` gathers the jobs of a trigger: each becomes a task of its own, a *)
(* caller of Router.  asyncio.gather ends with the first task that raises  *)
(* and leaves the others running; cancelling it cancels its tasks.  A cron *)
(* entry runs the one job of its cadence alone, which is a gather of one.  *)
(*                                                                         *)
(* A job is the project's own coroutine.  Two are modelled, one for each   *)
(* track: the fetch of an item's known source, and a discovery cycle over  *)
(* the items that are pending discovery, for one item.                     *)
(***************************************************************************)
EXTENDS Router

CONSTANTS
    Fires,     \* the calls of `fire` that may be in progress at a time
    Triggers,  \* triggers and cadences
    Jobs,      \* the jobs the project may register
    MaxJobs    \* bound: the jobs registered under one trigger

ASSUME SchedulingAssumption ==
    /\ MaxJobs \in Nat \ {0}
    /\ Callers \subseteq Fires \X (1..MaxJobs)
    /\ Jobs \subseteq [op : {"track_a", "track_b"}, item : Objects]
    /\ None \notin Jobs

VARIABLES
    scheduler,  \* which of the two was built
    jobs,       \* per trigger, the registered jobs
    fire,       \* how far each call of `fire` is
    job,        \* the job of each task that is not over
    task        \* how far each task is

schedulingVars == <<scheduler, jobs, fire, job, task>>

\* The tasks one call of `fire` may create; Callers bounds them.
Own(f) == {c \in Callers : c[1] = f}

\* A task that was cancelled while it ran is doomed: it resumes with CancelledError.
TaskStates == {"none", "ready", "running", "doomed", "done", "failed"}

Over(c) == task[c] \in {"none", "done", "failed"}

SchedulingInit ==
    /\ Init
    /\ scheduler \in {"cron", "event"}
    /\ jobs = [t \in Triggers |-> <<>>]
    /\ fire = [f \in Fires |-> "returned"]
    /\ job = [c \in Callers |-> None]
    /\ task = [c \in Callers |-> "none"]

Registered(t, list) ==
    /\ jobs' = [jobs EXCEPT ![t] = list]
    /\ UNCHANGED <<vars, scheduler, fire, job, task>>

\* Mutant: a cron entry keeps every job.
CronRegisterAll(t, j) ==
    scheduler = "cron" /\ Len(jobs[t]) < MaxJobs /\ Registered(t, Append(jobs[t], j))

\* The last job registered under a cadence replaces the one before.
CronRegister(t, j) == scheduler = "cron" /\ Registered(t, <<j>>)

EventRegister(t, j) ==
    scheduler = "event" /\ Len(jobs[t]) < MaxJobs /\ Registered(t, Append(jobs[t], j))

\* A task is created for every job there is now.
Launch(f, list) ==
    LET created == {f} \X DOMAIN list
    IN  /\ fire[f] # "waiting"
        /\ \A c \in Own(f) : Over(c)
        /\ created \subseteq Callers
        /\ job' = [c \in Callers |-> IF c \in created THEN list[c[2]] ELSE job[c]]
        /\ task' = [c \in Callers |-> IF c \in created THEN "ready"
                                      ELSE IF c \in Own(f) THEN "none" ELSE task[c]]
        /\ fire' = [fire EXCEPT ![f] = "waiting"]
        /\ UNCHANGED <<vars, scheduler, jobs>>

\* With no job under the trigger fire returns at once.
EventFire(f, t) == scheduler = "event" /\ jobs[t] # <<>> /\ Launch(f, jobs[t])

\* A cron entry starts a process, which looks its job up by cadence and runs it alone;
\* processes that overlap share no router, and are not modelled here.
CronRun(f, t) ==
    /\ scheduler = "cron"
    /\ jobs[t] # <<>>
    /\ \A c \in Callers : Over(c)
    /\ Launch(f, jobs[t])

-------------------------------------------------------------------------------
(* The tasks.                                                              *)

\* MemoryRegistry keeps the objects themselves, so the listing sees their status now.
ListPendingDiscovery == {o \in Objects : obj[o].status = "pending_discovery"}

\* A task that is over forgets its job.
SetTask(c, state) ==
    /\ task' = [task EXCEPT ![c] = state]
    /\ job' = [job EXCEPT ![c] = IF state = "running" THEN @ ELSE None]

\* Mutant: a task is put off once fire has stopped waiting for it.
BeginWhileAwaited(c) ==
    /\ task[c] = "ready"
    /\ \/ /\ fire[c[1]] = "waiting" /\ CallResolveKnownSource(c, job[c].item)
          /\ SetTask(c, "running")
       \/ fire[c[1]] # "waiting" /\ UNCHANGED <<vars, job, task>>
    /\ UNCHANGED <<scheduler, jobs, fire>>

\* The first step of a job is its call of the router; a discovery cycle makes none
\* for an item that is not listed.
Begin(c) ==
    /\ task[c] = "ready"
    /\ LET o == job[c].item
       IN  \/ /\ job[c].op = "track_a" /\ CallResolveKnownSource(c, o)
              /\ SetTask(c, "running")
           \/ /\ job[c].op = "track_b" /\ o \in ListPendingDiscovery
              /\ CallDiscoverSource(c, o)
              /\ SetTask(c, "running")
           \/ /\ job[c].op = "track_b" /\ o \notin ListPendingDiscovery
              /\ SetTask(c, "done")
              /\ UNCHANGED vars
    /\ UNCHANGED <<scheduler, jobs, fire>>

\* The call goes on; when it returns or raises, so does the job.
TaskStep(c) ==
    /\ task[c] = "running"
    /\ Step(c)
    /\ SetTask(c, IF pc'[c] # "idle" THEN "running"
                  ELSE IF frame'[c].ret = "raised" THEN "failed" ELSE "done")
    /\ UNCHANGED <<scheduler, jobs, fire>>

TaskRaises(c) ==
    /\ task[c] = "running"
    /\ RaiseInside(c)
    /\ SetTask(c, "failed")
    /\ UNCHANGED <<scheduler, jobs, fire>>

\* Mutant: a cancelled task is dropped where it stands.
TaskCancelledDropped(c) ==
    /\ task[c] = "doomed"
    /\ Goto(c, "idle")
    /\ SetTask(c, "failed")
    /\ UNCHANGED <<config, obj, stored, lock, frame, torn, scheduler, jobs, fire>>

TaskCancelled(c) ==
    /\ task[c] = "doomed"
    /\ Raise(c)
    /\ SetTask(c, "failed")
    /\ UNCHANGED <<scheduler, jobs, fire>>

-------------------------------------------------------------------------------
(* asyncio.gather.                                                         *)

\* Mutant: the failure of a job is swallowed, and fire waits on.
EndFireSwallowing(f, outcome) ==
    /\ fire' = [fire EXCEPT ![f] = IF outcome = "raised" THEN @ ELSE outcome]
    /\ UNCHANGED <<vars, scheduler, jobs, job, task>>

EndFire(f, outcome) ==
    /\ fire' = [fire EXCEPT ![f] = outcome]
    /\ UNCHANGED <<vars, scheduler, jobs, job, task>>

Raised(f) == \E c \in Own(f) : task[c] = "failed"

AllDone(f) == \A c \in Own(f) : task[c] \in {"none", "done"}

GatherRaises(f) == fire[f] = "waiting" /\ Raised(f) /\ EndFire(f, "raised")

GatherReturns(f) == fire[f] = "waiting" /\ AllDone(f) /\ EndFire(f, "returned")

\* The task that awaits fire is cancelled.  Its tasks are cancelled with it, those
\* not begun never begin, and fire ends with the first of them that has; but when
\* gather has its result already, fire alone is cancelled.
CancelFire(f) ==
    /\ fire[f] = "waiting"
    /\ \/ /\ \E c \in Own(f) : ~Over(c)
          /\ task' = [c \in Callers |->
                IF c \notin Own(f) THEN task[c]
                ELSE CASE task[c] = "ready" -> "failed"
                       [] task[c] = "running" -> "doomed"
                       [] OTHER -> task[c]]
          /\ job' = [c \in Callers |-> IF c \in Own(f) /\ task[c] = "ready" THEN None ELSE job[c]]
          /\ UNCHANGED <<vars, scheduler, jobs, fire>>
       \/ (Raised(f) \/ AllDone(f)) /\ EndFire(f, "raised")

-------------------------------------------------------------------------------

Progress(c) == Begin(c) \/ TaskStep(c) \/ TaskCancelled(c)

FireEnds(f) == GatherRaises(f) \/ GatherReturns(f)

SchedulingNext ==
    \/ \E t \in Triggers, j \in Jobs : CronRegister(t, j) \/ EventRegister(t, j)
    \/ \E f \in Fires, t \in Triggers : EventFire(f, t) \/ CronRun(f, t)
    \/ \E f \in Fires : FireEnds(f) \/ CancelFire(f)
    \/ \E c \in Callers : Progress(c) \/ TaskRaises(c)

allVars == <<vars, schedulingVars>>

SchedulingSpec == SchedulingInit /\ [][SchedulingNext]_allVars

\* The event loop runs every ready task, and every adapter answers.
FairSchedulingSpec ==
    /\ SchedulingSpec
    /\ \A c \in Callers : WF_allVars(Progress(c))
    /\ \A f \in Fires : WF_allVars(FireEnds(f))

-------------------------------------------------------------------------------

\* Every variable has its type, and a task is in the middle of a call exactly as long
\* as it is running.
SchedulingTypeOK ==
    /\ scheduler \in {"cron", "event"}
    /\ jobs \in [Triggers -> Seq(Jobs)]
    /\ scheduler = "cron" => \A t \in Triggers : Len(jobs[t]) <= 1
    /\ fire \in [Fires -> {"waiting", "returned", "raised"}]
    /\ job \in [Callers -> Jobs \cup {None}]
    /\ task \in [Callers -> TaskStates]
    /\ \A c \in Callers :
          /\ task[c] \in {"running", "doomed"} <=> pc[c] # "idle"
          /\ Over(c) <=> job[c] = None

\* However jobs fail, are left behind or are cancelled with their fire, in the queue
\* of a lock or inside it, only tasks that are still going on have a place in it.
NoLockAbandoned ==
    \A i \in Ids : \A c \in ToSet(lock[i]) : task[c] \in {"running", "doomed"}

\* A job that fire has started runs to its end, although another job of the same
\* trigger may have failed and fire have raised long before.
StartedJobsEnd == \A c \in Callers : ~Over(c) ~> Over(c)

\* fire ends: no job that fails, waits for a lock or is cancelled holds it for ever.
FiresEnd == \A f \in Fires : fire[f] = "waiting" ~> fire[f] # "waiting"

===============================================================================
