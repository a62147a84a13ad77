----------------------------- MODULE TaskQueue -----------------------------
(***************************************************************************)
(* One queue of the task queue stub: the push queue, whose tasks the       *)
(* background scheduler executes, or the pull queue, whose tasks clients   *)
(* lease.  Clients add, delete and purge through the service, the console  *)
(* of the development server deletes without leaving a tombstone.          *)
(*                                                                         *)
(* A step is what a thread does under the queue's lock, under the          *)
(* scheduler's wake-up lock, or between two of them.  A task object is a   *)
(* number, its name can be that of an earlier object.  The index by tag,   *)
(* which follows the one by eta, is left out.  The scheduler reads the     *)
(* clock with the step that follows: an older reading takes it once more   *)
(* around its loop.                                                        *)
(***************************************************************************)
EXTENDS Integers, FiniteSets

CONSTANTS Clients,     \* threads that call the service
          Consoles,    \* those of them that the console calls, too
          Names,       \* task names
          Modes,       \* the kinds of queue, of "push" and "pull"
          MaxTasks,    \* bound: how many tasks are added
          Etas,        \* etas of new tasks, which may be past when they are added
          Leases,      \* lengths of leases
          PushRetries, PullRetries, \* retry_limit of the queues, or NoLimit,
          NoLimit,     \* as by default
          Backoff,     \* what CalculateBackoffUsec returns
          MaxTime      \* bound of the clock for the pull queue

ASSUME NumberAssumption == {MaxTasks, Backoff, MaxTime} \subseteq Nat
ASSUME RetriesAssumption ==
    NoLimit \notin Nat /\ {PushRetries, PullRetries} \subseteq Nat \cup {NoLimit}
ASSUME BackoffAssumption == Backoff > 0
ASSUME TimesAssumption == Etas \cup Leases \subseteq Nat
ASSUME NamesAssumption == Names # {} /\ Modes \subseteq {"push", "pull"}
ASSUME ConsolesAssumption == Consoles \subseteq Clients

Tasks == 1 .. MaxTasks
NoTask == 0

\* INF, and the eta of nothing.
Never == -1
Sooner(time, other) == time # Never /\ (other = Never \/ time < other)

VARIABLES mode,          \* queue_mode
          now,           \* time.time()
          made,          \* how many task objects there are
          name, eta, retries, \* their attributes
          byName, byEta, \* _sorted_by_name, _sorted_by_eta
          archive,       \* task_name_archive
          call,          \* what each client is in the middle of
          told,          \* the eta a client knows of a task it leased
          spc,           \* where the scheduler is
          cur,           \* the task it executes
          nextWakeup, event, \* _next_wakeup, _event
          deadline,      \* until when it waits for the event
          runs,          \* history: executions and leases of each task
          withdrawn,     \* history: a client or the console removed a task
          freed          \* history: names that left no tombstone

storeVars == <<made, name, eta, retries, byName, byEta, archive>>
clientVars == <<call, told>>
schedulerVars == <<spc, cur, deadline>>
wakeupVars == <<nextWakeup, event>>
historyVars == <<runs, withdrawn, freed>>
vars == <<mode, now, storeVars, clientVars, schedulerVars, wakeupVars,
          historyVars>>

Idle == [step |-> "idle", arg |-> 0]

Init ==
    /\ mode \in Modes
    /\ now = 0 /\ made = 0
    /\ name = [t \in Tasks |-> CHOOSE n \in Names : TRUE]
    /\ eta = [t \in Tasks |-> 0] /\ retries = [t \in Tasks |-> 0]
    /\ byName = {} /\ byEta = {} /\ archive = {}
    /\ call = [c \in Clients |-> Idle]
    /\ told = [c \in Clients |-> [t \in Tasks |-> Never]]
    /\ spc = "reset" /\ cur = NoTask /\ deadline = Never
    /\ nextWakeup = Never /\ event = FALSE
    /\ runs = [t \in Tasks |-> 0] /\ withdrawn = FALSE /\ freed = {}
-----------------------------------------------------------------------------
\* The store of tasks.

Named(n) == {t \in byName : name[t] = n}

\* The first of the given entries, by eta; names break ties as they please.
Earliest(entries) == {e \in entries : \A f \in entries : e[1] <= f[1]}
Oldest == IF byEta = {} THEN Never ELSE (CHOOSE e \in Earliest(byEta) : TRUE)[1]

\* _DeleteNoAcquireLock and what QueryAndOwnTasks deletes.
RemoveAll(tasks) ==
    /\ byName' = byName \ tasks
    /\ byEta' = byEta \ {<<eta[t], t>> : t \in tasks}

\* Whether _RemoveTaskFromIndex finds the task where it expects it.
InIndex(t) == <<eta[t], t>> \in byEta

RetryLimit == IF mode = "push" THEN PushRetries ELSE PullRetries
CanRetryOnceMore(retryCount) == RetryLimit # NoLimit => RetryLimit + 1 >= retryCount
CanRetry(retryCount) == RetryLimit # NoLimit => RetryLimit >= retryCount

\* _PostponeTaskNoAcquireLock, for tasks that are in the index.
Postpone(tasks, newEta) ==
    /\ byEta' = (byEta \ {<<eta[t], t>> : t \in tasks}) \cup {<<newEta, t>> : t \in tasks}
    /\ eta' = [t \in Tasks |-> IF t \in tasks THEN newEta ELSE eta[t]]
CountRetry(tasks) ==
    retries' = [t \in Tasks |-> IF t \in tasks THEN retries[t] + 1 ELSE retries[t]]
CountRun(tasks) ==
    runs' = [t \in Tasks |-> IF t \in tasks THEN runs[t] + 1 ELSE runs[t]]
-----------------------------------------------------------------------------
\* Clients: adding a task takes three steps.

\* Mutant: tombstones are ignored.
IgnoresTombstone(n) == Named(n) = {}
Addable(n) == Named(n) = {} /\ n \notin archive

Add(c, n, time) ==
    /\ call[c] = Idle /\ Addable(n) /\ made < MaxTasks
    /\ made' = made + 1
    /\ name' = [name EXCEPT ![made'] = n]
    /\ eta' = [eta EXCEPT ![made'] = time]
    /\ byName' = byName \cup {made'}
    /\ byEta' = byEta \cup {<<time, made'>>}
    /\ archive' = archive \cup {n}
    /\ call' = [call EXCEPT ![c] = [step |-> IF mode = "push" THEN "added" ELSE "idle",
                                    arg |-> IF mode = "push" THEN time ELSE 0]]
    /\ UNCHANGED <<mode, now, retries, told, schedulerVars, wakeupVars,
                   historyVars>>

\* Only the adder of the oldest task tells the scheduler.
CheckOldest(c) ==
    /\ call[c].step = "added"
    /\ call' = [call EXCEPT ![c] = IF Oldest = @.arg THEN [@ EXCEPT !.step = "notify"]
                                   ELSE Idle]
    /\ UNCHANGED <<mode, now, storeVars, told, schedulerVars, wakeupVars,
                   historyVars>>

\* Mutant: the scheduler is not woken.
NotSet(time) == nextWakeup' = time /\ UNCHANGED event
SetWakeup(time) == nextWakeup' = time /\ event' = TRUE
UpdateNextEventTime(c) ==
    /\ call[c].step = "notify"
    /\ IF Sooner(call[c].arg, nextWakeup) THEN SetWakeup(call[c].arg) ELSE UNCHANGED wakeupVars
    /\ call' = [call EXCEPT ![c] = Idle]
    /\ UNCHANGED <<mode, now, storeVars, told, schedulerVars, historyVars>>

\* Delete_Rpc of a stored task.
Delete(c, n) ==
    /\ call[c] = Idle /\ Named(n) # {}
    /\ RemoveAll(Named(n))
    /\ withdrawn' = TRUE
    /\ UNCHANGED <<mode, now, made, name, eta, retries, archive, clientVars, schedulerVars,
                   wakeupVars, runs, freed>>

PurgeQueue(c) ==
    /\ call[c] = Idle /\ byName # {}
    /\ byName' = {} /\ byEta' = {}
    /\ withdrawn' = TRUE
    /\ UNCHANGED <<mode, now, made, name, eta, retries, archive, clientVars, schedulerVars,
                   wakeupVars, runs, freed>>

\* The console's DeleteTask and FlushQueue remove tasks, if there are any, and
\* then, with no lock, their tombstones.  (Without either they change nothing.)
DeleteTask(c, n) ==
    /\ c \in Consoles /\ call[c] = Idle
    /\ n \in archive \/ Named(n) # {}
    /\ RemoveAll(Named(n))
    /\ call' = [call EXCEPT ![c] = [step |-> "discard", arg |-> n]]
    /\ withdrawn' = (withdrawn \/ Named(n) # {})
    /\ UNCHANGED <<mode, now, made, name, eta, retries, archive, told, schedulerVars,
                   wakeupVars, runs, freed>>
FlushQueue(c) ==
    /\ c \in Consoles /\ call[c] = Idle /\ archive \cup byName # {}
    /\ byName' = {} /\ byEta' = {}
    /\ call' = [call EXCEPT ![c] = [step |-> "clear", arg |-> 0]]
    /\ withdrawn' = (withdrawn \/ byName # {})
    /\ UNCHANGED <<mode, now, made, name, eta, retries, archive, told, schedulerVars,
                   wakeupVars, runs, freed>>
DropTombstones(c) ==
    /\ call[c].step \in {"discard", "clear"}
    /\ LET dropped == IF call[c].step = "clear" THEN Names ELSE {call[c].arg} IN
       /\ archive' = archive \ dropped
       /\ freed' = freed \cup dropped
    /\ call' = [call EXCEPT ![c] = Idle]
    /\ UNCHANGED <<mode, now, made, name, eta, retries, byName, byEta, told, schedulerVars,
                   wakeupVars, runs, withdrawn>>
-----------------------------------------------------------------------------
\* Clients of the pull queue.

\* Mutant: a lease that ends now has ended.
EndingNow == {e \in byEta : e[1] <= now}
Leasable == {e \in byEta : e[1] < now}

\* QueryAndOwnTasks of at most max tasks: those with the oldest etas; the ones
\* that were leased too often are deleted instead.
QueryAndOwnTasks(c, max, lease) ==
    /\ mode = "pull" /\ call[c] = Idle /\ Leasable # {}
    /\ \E entries \in SUBSET Leasable :
       LET tasks == {e[2] : e \in entries}
           owned == {t \in tasks : CanRetry(retries[t] + 1)}
           spent == tasks \ owned
       IN
       /\ \/ Cardinality(entries) = max
          \/ Cardinality(entries) < max /\ entries = Leasable
       /\ \A e \in entries, f \in Leasable \ entries : e[1] <= f[1]
       /\ byName' = byName \ spent
       /\ byEta' = {e \in byEta : e[2] \notin tasks} \cup {<<now + lease, t>> : t \in owned}
       /\ eta' = [t \in Tasks |-> IF t \in owned THEN now + lease ELSE eta[t]]
       /\ CountRetry(owned) /\ CountRun(owned)
       /\ told' = [told EXCEPT ![c] =
                      [t \in Tasks |-> IF t \in owned THEN now + lease ELSE @[t]]]
    /\ UNCHANGED <<mode, now, made, name, archive, call, schedulerVars, wakeupVars, withdrawn, freed>>

\* The request has the name of a task the client leased and the eta it was told
\* of: a later task of that name that has that eta passes for it.
OwnsLease(c, leased, t) == eta[t] = told[c][leased] /\ eta[t] >= now
ModifyTaskLease(c, leased, lease) ==
    /\ mode = "pull" /\ call[c] = Idle /\ told[c][leased] # Never
    /\ \E t \in Named(name[leased]) :
          /\ OwnsLease(c, leased, t)
          /\ Postpone({t}, now + lease)
          /\ told' = [told EXCEPT ![c][t] = now + lease]
    /\ UNCHANGED <<mode, now, made, name, retries, byName, archive, call, schedulerVars,
                   wakeupVars, historyVars>>
-----------------------------------------------------------------------------
\* The scheduler thread: _BackgroundTaskScheduler.MainLoop.

ResetWakeup ==
    /\ mode = "push" /\ spc = "reset"
    /\ nextWakeup' = Never
    /\ spc' = "pick"
    /\ UNCHANGED <<mode, now, storeVars, clientVars, cur, deadline, event,
                   historyVars>>

\* GetNextPushTask and the comparison with the clock.
PickTask ==
    /\ spc = "pick"
    /\ \/ /\ byEta = {}
          /\ spc' = "wait" /\ UNCHANGED cur
       \/ \E e \in Earliest(byEta) :
             /\ cur' = e[2]
             /\ spc' = IF e[1] <= now THEN "execute" ELSE "lower"
    /\ UNCHANGED <<mode, now, storeVars, clientVars, deadline, wakeupVars,
                   historyVars>>

LowerWakeup ==
    /\ spc = "lower"
    /\ nextWakeup' = IF Sooner(eta[cur], nextWakeup) THEN eta[cur] ELSE nextWakeup
    /\ spc' = "wait" /\ cur' = NoTask
    /\ UNCHANGED <<mode, now, storeVars, clientVars, deadline, event,
                   historyVars>>

\* ExecuteTask succeeds, or fails for the last time: the task is deleted by
\* its name.
TaskDone ==
    /\ spc = "execute"
    /\ RemoveAll(Named(name[cur]))
    /\ spc' = "pick" /\ cur' = NoTask
    /\ CountRun({cur})
    /\ UNCHANGED <<mode, now, made, name, eta, retries, archive, clientVars, deadline,
                   wakeupVars, withdrawn, freed>>

\* It fails and is put off, if it is still there: PostponeTask asserts it.
PostponeTask ==
    /\ spc = "execute" /\ CanRetry(retries[cur] + 1) /\ InIndex(cur)
    /\ Postpone({cur}, now + Backoff)
    /\ CountRetry({cur}) /\ CountRun({cur})
    /\ spc' = "pick" /\ cur' = NoTask
    /\ UNCHANGED <<mode, now, made, name, byName, archive, clientVars, deadline, wakeupVars, withdrawn, freed>>

\* Nothing catches the AssertionError: the thread ends.
\* Mutant: the task is put back.
Reinserted == Postpone({cur}, now + Backoff) /\ spc' = "pick"
Dies == spc' = "dead" /\ UNCHANGED <<eta, byEta>>
PostponeFails ==
    /\ spc = "execute" /\ CanRetry(retries[cur] + 1) /\ ~InIndex(cur)
    /\ Dies
    /\ CountRetry({cur}) /\ CountRun({cur})
    /\ cur' = NoTask
    /\ UNCHANGED <<mode, now, made, name, byName, archive, clientVars, deadline, wakeupVars, withdrawn, freed>>

\* _Wait and the loop around it.
Past(time) == time # Never /\ time <= now
Wait ==
    /\ spc = "wait"
    /\ \/ Past(nextWakeup) /\ spc' = "reset" /\ UNCHANGED deadline
       \/ ~Past(nextWakeup) /\ spc' = "sleep" /\ deadline' = nextWakeup
    /\ UNCHANGED <<mode, now, storeVars, clientVars, cur, wakeupVars, historyVars>>
WakeUp ==
    /\ spc = "sleep" /\ (event \/ Past(deadline))
    /\ spc' = "clear" /\ deadline' = Never
    /\ UNCHANGED <<mode, now, storeVars, clientVars, cur, wakeupVars, historyVars>>
ClearEvent ==
    /\ spc = "clear"
    /\ event' = FALSE
    /\ spc' = "wait"
    /\ UNCHANGED <<mode, now, storeVars, clientVars, cur, deadline, nextWakeup,
                   historyVars>>

\* The clock goes on to the bound, or as long as a push task waits for its time.
Tick ==
    /\ \/ mode = "pull" /\ now < MaxTime
       \/ mode = "push" /\ \E e \in byEta : e[1] > now
    /\ now' = now + 1
    /\ UNCHANGED <<mode, storeVars, clientVars, schedulerVars, wakeupVars,
                   historyVars>>
-----------------------------------------------------------------------------
EndsCall(c) == CheckOldest(c) \/ UpdateNextEventTime(c) \/ DropTombstones(c)
ClientStep(c) ==
    \/ \E n \in Names : (\E time \in Etas : Add(c, n, time)) \/ Delete(c, n) \/ DeleteTask(c, n)
    \/ PurgeQueue(c) \/ FlushQueue(c) \/ EndsCall(c)
    \/ \E lease \in Leases :
          \/ \E max \in {1, 2} : QueryAndOwnTasks(c, max, lease)
          \/ \E t \in Tasks : ModifyTaskLease(c, t, lease)

SchedulerStep ==
    \/ ResetWakeup \/ PickTask \/ LowerWakeup
    \/ TaskDone \/ PostponeTask \/ PostponeFails
    \/ Wait \/ WakeUp \/ ClearEvent

Next == (\E c \in Clients : ClientStep(c)) \/ SchedulerStep \/ Tick

Spec == Init /\ [][Next]_vars

\* The scheduler's thread runs, requests are finished and time passes.
FairSpec ==
    /\ Spec
    /\ WF_vars(SchedulerStep) /\ WF_vars(Tick)
    /\ \A c \in Clients : WF_vars(EndsCall(c))
-----------------------------------------------------------------------------
Calls == [step : {"idle", "added", "notify", "clear"}, arg : Nat]
         \cup [step : {"discard"}, arg : Names]

RetryCounts == IF RetryLimit = NoLimit THEN Nat ELSE 0 .. RetryLimit

TypeOK ==
    /\ mode \in Modes
    /\ now \in Nat /\ made \in 0 .. MaxTasks
    /\ name \in [Tasks -> Names] /\ eta \in [Tasks -> Nat]
    /\ retries \in [Tasks -> RetryCounts]
    /\ byName \subseteq 1 .. made /\ byEta \subseteq Nat \X (1 .. made)
    /\ archive \subseteq Names
    /\ call \in [Clients -> Calls]
    /\ told \in [Clients -> [Tasks -> Nat \cup {Never}]]
    /\ spc \in {"reset", "pick", "lower", "execute", "wait", "sleep", "clear",
                "dead"}
    /\ cur \in 0 .. made
    /\ {nextWakeup, deadline} \subseteq Nat \cup {Never} /\ event \in BOOLEAN
    /\ runs \in [Tasks -> Nat] /\ withdrawn \in BOOLEAN /\ freed \subseteq Names

(***************************************************************************)
(* _Queue.VerifyIndexes: both indexes hold the same tasks, under their     *)
(* etas, no name twice; also when a task is removed while it is executed   *)
(* and the scheduler then puts it off.                                     *)
(***************************************************************************)
IndexesAgree ==
    /\ byEta = {<<eta[t], t>> : t \in byName}
    /\ \A t, u \in byName : name[t] = name[u] => t = u

(***************************************************************************)
(* No task is executed or leased more often than its retries allow, if     *)
(* they have a limit: a push task once and then RetryLimit times more, a   *)
(* pull task RetryLimit times.                                             *)
(***************************************************************************)
RunsBounded ==
    RetryLimit # NoLimit =>
        \A t \in Tasks : runs[t] <= IF mode = "push" THEN RetryLimit + 1 ELSE RetryLimit

(***************************************************************************)
(* Two clients never hold unexpired leases of the same task, whoever       *)
(* leased, extended or gave it up before, unless the console dropped the   *)
(* tombstone of its name: then a lease of an earlier task may pass for one *)
(* of this.                                                                *)
(***************************************************************************)
LeaseExclusive ==
    \A c, d \in Clients, t \in byName :
        name[t] \notin freed /\ told[c][t] >= now /\ told[d][t] >= now => c = d

(***************************************************************************)
(* When the scheduler has executed a task it deletes that task and none    *)
(* that was added under its name meanwhile, unless the console dropped the *)
(* tombstone of the name.                                                  *)
(***************************************************************************)
DeletesItsOwn ==
    [][spc = "execute" /\ spc' = "pick" =>
           byName \ byName' \subseteq {cur} \cup {t \in byName : name[t] \in freed}]_vars

(***************************************************************************)
(* A push task is executed until it succeeds or has no retries left, and   *)
(* leaves the queue: no wake-up is lost between the adders, who tell the   *)
(* scheduler of the oldest task only, and the scheduler, who forgets the   *)
(* time before it looks - unless somebody withdraws a task.                *)
(***************************************************************************)
PushTasksRun ==
    \A t \in Tasks :
        mode = "push" /\ t \in byName ~> t \notin byName \/ withdrawn

(***************************************************************************)
(* PostponeTask, taskqueue_stub.py:1491: the task must be stored in this   *)
(* queue, or an AssertionError is raised.  The scheduler keeps to that.    *)
(***************************************************************************)
SchedulerSurvives == spc # "dead"
=============================================================================
