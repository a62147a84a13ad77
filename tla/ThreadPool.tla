----------------------------- MODULE ThreadPool -----------------------------
(***************************************************************************)
(* AdaptiveThreadPool: worker threads that pass a ThreadGate, take work    *)
(* items from a ReQueue and perform them, the data source thread that      *)
(* submits the items, and the main thread that waits for them, shuts the   *)
(* pool down and joins the workers (BulkTransporterApp.Run).               *)
(*                                                                         *)
(* A step is what a thread does between two operations on a lock, a        *)
(* semaphore, a queue or an exit flag.  ReQueue's put, get and reput hold  *)
(* its lock throughout.  ThreadGate.FinishWork is one step: releasing a    *)
(* semaphore only lets others go on, so doing it with the update of the    *)
(* count before it hides no interleaving.  For the same reason the tests   *)
(* of exit_flag, which only the main thread sets, belong to the step that  *)
(* they follow.                                                            *)
(***************************************************************************)
EXTENDS Integers, Sequences, FiniteSets

CONSTANTS Threads,     \* the worker threads
          Items,       \* the work items; each is submitted at most once
          QueueSize,   \* capacity of each of the two queues of the ReQueue
          MaxRetries,  \* bound: how often items ask to be retried
          Exit,        \* _THREAD_SHOULD_EXIT
          NoItem       \* item = None

ASSUME ThreadsAssumption == IsFiniteSet(Threads) /\ Threads # {}
ASSUME SizeAssumption == QueueSize \in Nat /\ QueueSize >= Cardinality(Threads)
ASSUME MarkAssumption == Exit \notin Items /\ NoItem \notin Items \cup {Exit}
ASSUME RetriesAssumption == MaxRetries \in Nat
ASSUME SourceAssumption == Items \cap {"reading", "ended"} = {}

NumThreads == Cardinality(Threads)

VARIABLES queue, requeue,  \* ReQueue.queue and .requeue
          unfinished,      \* unfinished tasks of ReQueue.queue
          enabled,         \* ThreadGate's enabled count
          permits,         \* the value of its semaphore
          backoff,         \* whether its backoff time is above zero
          exitFlag,        \* the workers whose exit_flag is set
          pc,              \* where each worker is in WorkOnItems
          held,            \* the item it took
          result,          \* its status, instruction and whether it leaves
          retries,         \* how often items were retried
          done,            \* items performed with success
          fresh,           \* items nobody has submitted yet
          source,          \* the data source thread
          sourceExit,      \* its exit_flag
          main,            \* where the main thread is
          toStop,          \* workers Shutdown has not flagged yet
          toEnable,        \* EnableThread calls left in EnableAllThreads
          shutdowns        \* calls of Shutdown it has not finished

queueVars == <<queue, requeue, unfinished>>
gateVars == <<enabled, permits, backoff>>
workerVars == <<pc, held, result, retries, done>>
sourceVars == <<source, sourceExit>>
mainVars == <<main, toStop, toEnable, shutdowns>>
vars == <<queueVars, gateVars, exitFlag, workerVars, fresh, sourceVars, mainVars>>

Statuses == {"success", "retry", "failure"}
Instructions == {"increase", "hold", "decrease"}
Results == [status : Statuses, instruction : Instructions, leaves : BOOLEAN]

Outcome(status, instruction) ==
    [status |-> status, instruction |-> instruction, leaves |-> FALSE]
Leaving(outcome) == [outcome EXCEPT !.leaves = TRUE]

\* What PerformWork returns, or stands for when it raises.
Outcomes == {Outcome("success", i) : i \in Instructions}
            \cup {Outcome("retry", i) : i \in {"hold", "decrease"}}
            \cup {Outcome("failure", "decrease")}

TypeOK ==
    /\ queue \in Seq(Items \cup {Exit}) /\ Len(queue) <= QueueSize
    /\ requeue \in Seq(Items)
    /\ unfinished \in Nat
    /\ enabled \in Nat /\ permits \in Nat
    /\ backoff \in BOOLEAN
    /\ exitFlag \in SUBSET Threads
    /\ pc \in [Threads -> {"gate", "backoff", "get", "work", "finish",
                           "release", "dead"}]
    /\ held \in [Threads -> Items \cup {Exit, NoItem}]
    /\ result \in [Threads -> Results]
    /\ retries \in 0 .. MaxRetries
    /\ done \in SUBSET Items /\ fresh \in SUBSET Items
    /\ source \in Items \cup {"reading", "ended"}
    /\ sourceExit \in BOOLEAN
    /\ main \in {"watching", "drain", "flag", "mark", "enable", "join", "joined"}
    /\ toStop \in SUBSET Threads
    /\ toEnable \in Nat
    /\ shutdowns \in 0 .. 2

Init ==
    /\ queue = <<>> /\ requeue = <<>> /\ unfinished = 0
    /\ enabled = 1 /\ permits = 1 /\ backoff = FALSE
    /\ exitFlag = {}
    /\ pc = [t \in Threads |-> "gate"]
    /\ held = [t \in Threads |-> NoItem]
    /\ result = [t \in Threads |-> Outcome("failure", "decrease")]
    /\ retries = 0
    /\ done = {} /\ fresh = Items
    /\ source = "reading" /\ sourceExit = FALSE
    /\ main = "watching" /\ toStop = {} /\ toEnable = 0 /\ shutdowns = 0
-----------------------------------------------------------------------------
\* The work queue.

\* ReQueue.get: what was put back comes before what was submitted.
CanTake == requeue # <<>> \/ queue # <<>>
FromRequeue == requeue # <<>>
NextItem == IF FromRequeue THEN Head(requeue) ELSE Head(queue)
TakeItem ==
    IF FromRequeue
    THEN requeue' = Tail(requeue) /\ UNCHANGED queue
    ELSE queue' = Tail(queue) /\ UNCHANGED requeue

\* ReQueue.put; a caller that waits for room waits for this to be enabled.
\* Mutant: off by one.
HasRoomForOneMore == Len(queue) <= QueueSize
HasRoom == Len(queue) < QueueSize
PutItem(item) ==
    /\ HasRoom
    /\ queue' = Append(queue, item)
    /\ unfinished' = unfinished + 1
    /\ UNCHANGED requeue

\* Items differ only in their names, so new ones come in some fixed order.
NextFresh == CHOOSE item \in fresh : TRUE

\* ReQueue.reput, without waiting.
\* Mutant: off by one.
CanReputButOne == Len(requeue) + 1 < QueueSize
CanReput == Len(requeue) < QueueSize
-----------------------------------------------------------------------------
\* The worker threads: WorkerThread.WorkOnItems.

\* Past the gate the worker looks at its exit flag before it takes an item.
EnterWork(t) ==
    /\ pc' = [pc EXCEPT ![t] = IF t \in exitFlag THEN "release" ELSE "get"]
    /\ result' = [result EXCEPT ![t] =
           IF t \in exitFlag THEN Leaving(Outcome("failure", "hold")) ELSE @]

StartWork(t) ==
    /\ pc[t] = "gate" /\ permits > 0
    /\ permits' = permits - 1
    /\ IF backoff /\ t \notin exitFlag
       THEN pc' = [pc EXCEPT ![t] = "backoff"] /\ UNCHANGED result
       ELSE EnterWork(t)
    /\ UNCHANGED <<queueVars, enabled, backoff, exitFlag, held, retries, done,
                   fresh, sourceVars, mainVars>>

\* The backoff ends, after its time or as the exit flag is noticed.
BackoffEnds(t) ==
    /\ pc[t] = "backoff"
    /\ EnterWork(t)
    /\ UNCHANGED <<queueVars, gateVars, exitFlag, held, retries, done, fresh,
                   sourceVars, mainVars>>

\* A stop marker, or an item taken by a worker that is to exit: the worker
\* leaves, and the item counts as finished although nobody performed it.
Stopped(t) == NextItem = Exit \/ t \in exitFlag
Get(t) ==
    /\ pc[t] = "get" /\ CanTake
    /\ held' = [held EXCEPT ![t] = NextItem]
    /\ TakeItem
    /\ IF Stopped(t)
       THEN /\ result' = [result EXCEPT ![t] = Leaving(Outcome("success", "hold"))]
            /\ pc' = [pc EXCEPT ![t] = "finish"]
       ELSE pc' = [pc EXCEPT ![t] = "work"] /\ UNCHANGED result
    /\ UNCHANGED <<unfinished, gateVars, exitFlag, retries, done, fresh,
                   sourceVars, mainVars>>

\* Mutant: nothing to do skips FinishWork.
GetTimesOutInside(t) ==
    /\ pc[t] = "get" /\ ~CanTake
    /\ pc' = [pc EXCEPT ![t] = "gate"]
    /\ UNCHANGED <<queueVars, gateVars, exitFlag, held, result, retries, done,
                   fresh, sourceVars, mainVars>>
GetTimesOut(t) ==
    /\ pc[t] = "get" /\ ~CanTake
    /\ result' = [result EXCEPT ![t] = Outcome("failure", "hold")]
    /\ pc' = [pc EXCEPT ![t] = "release"]
    /\ UNCHANGED <<queueVars, gateVars, exitFlag, held, retries, done, fresh,
                   sourceVars, mainVars>>

PerformWork(t, outcome) ==
    /\ pc[t] = "work"
    /\ IF outcome.status = "retry"
       THEN retries < MaxRetries /\ retries' = retries + 1
       ELSE UNCHANGED retries
    /\ done' = IF outcome.status = "success" THEN done \cup {held[t]} ELSE done
    /\ result' = [result EXCEPT ![t] = outcome]
    /\ pc' = [pc EXCEPT ![t] = "finish"]
    /\ UNCHANGED <<queueVars, gateVars, exitFlag, held, fresh, sourceVars, mainVars>>

\* SubmitItem from within PerformWork, as the split of a key range does.
\* SubmitItem's default timeout of 0.0 does not wait: without room it raises
\* Queue.Full, which the work item does not catch.  (The bulk loader's own
\* downloads and mappers, which split, give their pool queues without a limit.)
SubmitFromWork(t) ==
    /\ pc[t] = "work" /\ fresh # {}
    /\ \/ /\ PutItem(NextFresh)
          /\ fresh' = fresh \ {NextFresh}
          /\ UNCHANGED <<pc, result>>
       \/ /\ ~HasRoom
          /\ result' = [result EXCEPT ![t] = Outcome("failure", "decrease")]
          /\ pc' = [pc EXCEPT ![t] = "finish"]
          /\ UNCHANGED <<queueVars, fresh>>
    /\ UNCHANGED <<gateVars, exitFlag, held, retries, done, sourceVars, mainVars>>

\* The finally clause up to FinishWork.  An item that failed, or that cannot be
\* put back, stays with the worker, which dies of the exception.
TaskDone(t) ==
    /\ result[t].status = "success"
    /\ unfinished' = unfinished - 1
    /\ held' = [held EXCEPT ![t] = NoItem]
    /\ UNCHANGED <<queue, requeue, result>>
\* Mutants: the item is not forgotten; it is counted as finished.
ReputKeepsItem(t) ==
    /\ result[t].status = "retry" /\ CanReput
    /\ requeue' = Append(requeue, held[t])
    /\ UNCHANGED <<queue, unfinished, result, held>>
ReputFinishes(t) ==
    /\ result[t].status = "retry" /\ CanReput
    /\ requeue' = Append(requeue, held[t])
    /\ unfinished' = unfinished - 1
    /\ held' = [held EXCEPT ![t] = NoItem]
    /\ UNCHANGED <<queue, result>>
Reput(t) ==
    /\ result[t].status = "retry" /\ CanReput
    /\ requeue' = Append(requeue, held[t])
    /\ held' = [held EXCEPT ![t] = NoItem]
    /\ UNCHANGED <<queue, unfinished, result>>
Fails(t) ==
    /\ result[t].status = "failure" \/ (result[t].status = "retry" /\ ~CanReput)
    /\ result' = [result EXCEPT ![t] = Leaving(@)]
    /\ UNCHANGED <<queueVars, held>>
FinishItem(t) ==
    /\ pc[t] = "finish"
    /\ TaskDone(t) \/ Reput(t) \/ Fails(t)
    /\ pc' = [pc EXCEPT ![t] = "release"]
    /\ UNCHANGED <<gateVars, exitFlag, retries, done, fresh, sourceVars, mainVars>>

\* ThreadGate.FinishWork
Hold(t) ==
    /\ result[t].instruction = "hold"
    /\ permits' = permits + 1
    /\ UNCHANGED <<enabled, backoff>>
Increase(t) ==
    /\ result[t].instruction = "increase"
    /\ backoff' = FALSE
    /\ IF NumThreads > enabled
       THEN enabled' = enabled + 1 /\ permits' = permits + 2
       ELSE permits' = permits + 1 /\ UNCHANGED enabled
\* Mutant: the last permit is taken away too.
DecreaseToZero(t) ==
    /\ result[t].instruction = "decrease"
    /\ IF enabled > 0
       THEN enabled' = enabled - 1 /\ UNCHANGED <<permits, backoff>>
       ELSE backoff' = TRUE /\ permits' = permits + 1 /\ UNCHANGED enabled
Decrease(t) ==
    /\ result[t].instruction = "decrease"
    /\ IF enabled > 1
       THEN enabled' = enabled - 1 /\ UNCHANGED <<permits, backoff>>
       ELSE backoff' = TRUE /\ permits' = permits + 1 /\ UNCHANGED enabled
FinishWork(t) ==
    /\ pc[t] = "release"
    /\ Hold(t) \/ Increase(t) \/ Decrease(t)
    /\ pc' = [pc EXCEPT ![t] =
           IF result[t].leaves \/ t \in exitFlag THEN "dead" ELSE "gate"]
    /\ result' = [result EXCEPT ![t] = Outcome("failure", "decrease")]
    /\ UNCHANGED <<queueVars, exitFlag, held, retries, done, fresh, sourceVars,
                   mainVars>>
-----------------------------------------------------------------------------
\* The data source thread: DataSourceThread.PerformWork.

SourceRead ==
    /\ source = "reading" /\ ~sourceExit /\ fresh # {}
    /\ source' = NextFresh
    /\ fresh' = fresh \ {NextFresh}
    /\ UNCHANGED <<queueVars, gateVars, exitFlag, workerVars, sourceExit, mainVars>>

SourceSubmit ==
    /\ source \in Items
    /\ PutItem(source)
    /\ source' = "reading"
    /\ UNCHANGED <<gateVars, exitFlag, workerVars, fresh, sourceExit, mainVars>>

\* There is no more to read, or the exit flag is noticed, perhaps with an item
\* in hand that it could not submit within a second.
SourceEnds ==
    /\ source = "reading" \/ (source \in Items /\ sourceExit)
    /\ source' = "ended"
    /\ UNCHANGED <<queueVars, gateVars, exitFlag, workerVars, fresh, sourceExit,
                   mainVars>>
-----------------------------------------------------------------------------
\* The main thread: BulkTransporterApp.Run from the start of the threads on.

\* The data source is through and ReQueue.join returned.
WaitEnds ==
    /\ main = "watching" /\ source = "ended" /\ unfinished = 0
    /\ main' = "drain" /\ shutdowns' = 1
    /\ UNCHANGED <<queueVars, gateVars, exitFlag, workerVars, fresh, sourceVars,
                   toStop, toEnable>>

\* A thread died or the user interrupts: ShutdownThreads, which stops the data
\* source and the pool; Run then shuts the pool down once more.
GiveUp ==
    /\ main = "watching"
    /\ main' = "drain" /\ shutdowns' = 2
    /\ sourceExit' = TRUE
    /\ UNCHANGED <<queueVars, gateVars, exitFlag, workerVars, fresh, source,
                   toStop, toEnable>>
SomeWorkerDied == \E t \in Threads : pc[t] = "dead"

\* AdaptiveThreadPool.Shutdown
\* Mutant: drained items stay unfinished.
DrainOneUncounted ==
    /\ main = "drain" /\ CanTake
    /\ TakeItem
    /\ UNCHANGED <<unfinished, gateVars, exitFlag, workerVars, fresh, sourceVars,
                   mainVars>>
DrainOne ==
    /\ main = "drain" /\ CanTake
    /\ TakeItem
    /\ unfinished' = unfinished - 1
    /\ UNCHANGED <<gateVars, exitFlag, workerVars, fresh, sourceVars, mainVars>>

Drained ==
    /\ main = "drain" /\ ~CanTake
    /\ main' = "flag" /\ toStop' = Threads
    /\ UNCHANGED <<queueVars, gateVars, exitFlag, workerVars, fresh, sourceVars,
                   toEnable, shutdowns>>

\* The workers are flagged in the order of their list.
NextToStop == CHOOSE t \in toStop : TRUE
SetExitFlag ==
    /\ main = "flag"
    /\ exitFlag' = exitFlag \cup {NextToStop}
    /\ toStop' = toStop \ {NextToStop}
    /\ main' = "mark"
    /\ UNCHANGED <<queueVars, gateVars, workerVars, fresh, sourceVars, toEnable,
                   shutdowns>>

\* The blocking put of the stop marker; after the last one EnableAllThreads
\* reads how many calls of EnableThread it will make.
PutMarker ==
    /\ main = "mark"
    /\ PutItem(Exit)
    /\ IF toStop # {}
       THEN main' = "flag" /\ UNCHANGED toEnable
       ELSE /\ main' = "enable"
            /\ toEnable' = IF NumThreads > enabled THEN NumThreads - enabled ELSE 0
    /\ UNCHANGED <<gateVars, exitFlag, workerVars, fresh, sourceVars, toStop,
                   shutdowns>>

EnableThread ==
    /\ main = "enable" /\ toEnable > 0
    /\ enabled' = enabled + 1 /\ permits' = permits + 1
    /\ toEnable' = toEnable - 1
    /\ UNCHANGED <<queueVars, backoff, exitFlag, workerVars, fresh, sourceVars,
                   main, toStop, shutdowns>>

ShutdownReturns ==
    /\ main = "enable" /\ toEnable = 0
    /\ shutdowns' = shutdowns - 1
    /\ main' = IF shutdowns > 1 THEN "drain" ELSE "join"
    /\ UNCHANGED <<queueVars, gateVars, exitFlag, workerVars, fresh, sourceVars,
                   toStop, toEnable>>

JoinThreads ==
    /\ main = "join" /\ \A t \in Threads : pc[t] = "dead"
    /\ main' = "joined"
    /\ UNCHANGED <<queueVars, gateVars, exitFlag, workerVars, fresh, sourceVars,
                   toStop, toEnable, shutdowns>>
-----------------------------------------------------------------------------
WorkerStep(t) ==
    \/ StartWork(t) \/ BackoffEnds(t) \/ Get(t) \/ GetTimesOut(t)
    \/ \E outcome \in Outcomes : PerformWork(t, outcome)
    \/ SubmitFromWork(t) \/ FinishItem(t) \/ FinishWork(t)

SourceStep == SourceRead \/ SourceSubmit \/ SourceEnds

MainStep ==
    \/ WaitEnds \/ DrainOne \/ Drained \/ SetExitFlag \/ PutMarker
    \/ EnableThread \/ ShutdownReturns \/ JoinThreads

Next == (\E t \in Threads : WorkerStep(t)) \/ SourceStep \/ MainStep \/ GiveUp

Spec == Init /\ [][Next]_vars

\* Threads are scheduled; the main thread looks for dead workers every half
\* second while it waits.
FairSpec ==
    /\ Spec
    /\ \A t \in Threads : WF_vars(WorkerStep(t))
    /\ WF_vars(SourceStep) /\ WF_vars(MainStep)
    /\ WF_vars(SomeWorkerDied /\ GiveUp)
-----------------------------------------------------------------------------
\* Threads between StartWork and the end of FinishWork.
Inside == {t \in Threads : pc[t] \notin {"gate", "dead"}}
Holding == {t \in Threads : held[t] # NoItem}

(***************************************************************************)
(* The permits of the gate and the threads inside it are as many as the    *)
(* gate counts enabled, at least one: whatever mix of outcomes and dying   *)
(* workers, the gate never shuts for good, and it never lets more threads  *)
(* work than it was told to.                                               *)
(***************************************************************************)
GateConserved ==
    /\ permits + Cardinality(Inside) = enabled
    /\ enabled >= 1

(***************************************************************************)
(* A worker that puts its item back always finds room, so the error        *)
(* 'Failed to reput work item' is never raised: ReQueue hands out what was *)
(* put back before anything new, and each worker holds one item.           *)
(***************************************************************************)
ReputFits ==
    \A t \in Threads :
        pc[t] = "finish" /\ result[t].status = "retry" => CanReput

(***************************************************************************)
(* What Wait counts down is what is queued, put back, in a worker's hands  *)
(* or lost with a worker that died, each item once.                        *)
(***************************************************************************)
UnfinishedCounts ==
    unfinished = Len(queue) + Len(requeue) + Cardinality(Holding)

(***************************************************************************)
(* No item is in two places: a retried item is never performed by two      *)
(* workers at once, and an item that was performed is not queued again.    *)
(***************************************************************************)
Queued == {queue[n] : n \in DOMAIN queue} \cup {requeue[n] : n \in DOMAIN requeue}
InOnePlace ==
    /\ \A t, u \in Threads : held[t] = held[u] /\ held[t] \in Items => t = u
    /\ \A t \in Threads : held[t] \in Items => held[t] \notin Queued \cup fresh
    /\ \A n \in DOMAIN queue, m \in DOMAIN requeue : queue[n] # requeue[m]
    /\ done \cap (Queued \cup fresh) = {}

(***************************************************************************)
(* When the main thread stops waiting because the queue was joined, every  *)
(* item that anyone submitted was performed with success, those included   *)
(* that workers submitted while they worked.                               *)
(***************************************************************************)
WaitMeansDone ==
    [][main = "watching" /\ main' # "watching" /\ ~sourceExit' =>
           Items \ fresh \subseteq done]_vars

(***************************************************************************)
(* The program ends: items finish or a worker dies, the pool is shut down  *)
(* and all workers exit, whoever holds the gate's permits.  The exception  *)
(* is a main thread that waits for room for the last stop marker when all  *)
(* workers are gone.                                                       *)
(***************************************************************************)
MarkerStuck ==
    main = "mark" /\ ~HasRoom /\ \A t \in Threads : pc[t] = "dead"
PoolEnds == <>(main = "joined" \/ MarkerStuck)
=============================================================================
