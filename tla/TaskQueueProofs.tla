-------------------------- MODULE TaskQueueProofs --------------------------
(***************************************************************************)
(* Theorems about TaskQueue, for any clients, names, numbers of tasks,     *)
(* leases, retry limits and times.                                         *)
(***************************************************************************)
EXTENDS TaskQueue, TLAPS

\* The scheduler is at work on a task, and only for a push queue.
SchedulerAt ==
    /\ spc \in {"lower", "execute"} => cur \in 1 .. made
    /\ spc # "reset" => mode = "push"

\* Leases are of tasks in the pull queue, and the eta a client was told of is
\* that of the task or an older one, unless its name was freed.
ToldBelow ==
    /\ \A c \in Clients, t \in Tasks : mode = "push" \/ t > made => told[c][t] = Never
    /\ \A c \in Clients, t \in byName :
           name[t] \notin freed /\ told[c][t] >= now => told[c][t] <= eta[t]

\* Only a push task that was executed for the last time, or deleted while it
\* was, has run more often than it was retried.
RunsCounted ==
    \A t \in Tasks :
        /\ runs[t] <= retries[t] + (IF mode = "push" THEN 1 ELSE 0)
        /\ mode = "pull" \/ t \in byName \/ t > made \/ (spc = "execute" /\ t = cur)
              => runs[t] = retries[t]

\* A name is used once, unless the console freed it.
NamesUsedOnce ==
    /\ \A t \in 1 .. made : name[t] \in archive \cup freed
    /\ \A t, u \in 1 .. made : name[t] = name[u] => t = u \/ name[t] \in freed

TypeInv == TypeOK /\ SchedulerAt
StoreInv == TypeInv /\ IndexesAgree
-----------------------------------------------------------------------------
\* What the constants give.
LEMMA Numbers ==
  /\ MaxTasks \in Nat /\ Backoff \in Nat /\ Backoff > 0
  /\ RetryLimit \in Nat \cup {NoLimit} /\ NoLimit \notin Nat
  /\ RetryCounts \subseteq Nat /\ 0 \in RetryCounts
  /\ \A d \in Etas \cup Leases : d \in Nat
  <1>1. RetryLimit \in Nat \cup {NoLimit} /\ NoLimit \notin Nat
    BY RetriesAssumption DEF RetryLimit
  <1>2. RetryCounts \subseteq Nat /\ 0 \in RetryCounts
    BY <1>1 DEF RetryCounts
  <1> QED BY <1>1, <1>2, NumberAssumption, BackoffAssumption, TimesAssumption

LEMMA TypeInit == Init => TypeInv
  <1> SUFFICES ASSUME Init PROVE TypeInv
    OBVIOUS
  <1>1. /\ mode \in Modes /\ now \in Nat /\ made \in 0 .. MaxTasks
        /\ byName \subseteq 1 .. made /\ byEta \subseteq Nat \X (1 .. made)
        /\ archive \subseteq Names /\ freed \subseteq Names
    BY Numbers DEF Init
  <1>2. name \in [Tasks -> Names]
    BY NamesAssumption DEF Init
  <1>3. /\ eta \in [Tasks -> Nat] /\ retries \in [Tasks -> RetryCounts]
        /\ runs \in [Tasks -> Nat]
    BY Numbers DEF Init
  <1>4. call \in [Clients -> Calls]
    BY DEF Init, Calls, Idle
  <1>5. told \in [Clients -> [Tasks -> Nat \cup {Never}]]
    BY DEF Init
  <1>6. /\ spc \in {"reset", "pick", "lower", "execute", "wait", "sleep", "clear", "dead"}
        /\ cur \in 0 .. made
        /\ {nextWakeup, deadline} \subseteq Nat \cup {Never}
        /\ SchedulerAt
    BY DEF Init, NoTask, SchedulerAt
  <1>7. event \in BOOLEAN /\ withdrawn \in BOOLEAN
    BY DEF Init
  <1> QED BY <1>1, <1>2, <1>3, <1>4, <1>5, <1>6, <1>7, Zenon DEF TypeOK, TypeInv

\* Removing tasks leaves the rest of the store as it was.
LEMMA RemoveAllTypes ==
  ASSUME TypeOK, NEW tasks, RemoveAll(tasks)
  PROVE  byName' \subseteq 1 .. made /\ byEta' \subseteq Nat \X (1 .. made)
  BY DEF TypeOK, RemoveAll

LEMMA PostponeTypes ==
  ASSUME TypeOK, NEW tasks \in SUBSET (1 .. made), NEW e \in Nat, Postpone(tasks, e)
  PROVE  byEta' \subseteq Nat \X (1 .. made) /\ eta' \in [Tasks -> Nat]
  BY DEF TypeOK, Postpone

LEMMA CountTypes ==
  ASSUME TypeOK, NEW tasks
  PROVE  /\ CountRun(tasks) => runs' \in [Tasks -> Nat]
         /\ CountRetry(tasks) /\ mode' = mode /\ (\A t \in tasks : CanRetry(retries[t] + 1))
              => retries' \in [Tasks -> RetryCounts']
  <1>1. CountRun(tasks) => runs' \in [Tasks -> Nat]
    BY DEF TypeOK, CountRun
  <1>2. ASSUME CountRetry(tasks), mode' = mode, \A t \in tasks : CanRetry(retries[t] + 1)
        PROVE  retries' \in [Tasks -> RetryCounts']
    <2>1. RetryCounts' = RetryCounts
      BY <1>2 DEF RetryCounts, RetryLimit
    <2>2. \A t \in Tasks : retries[t] \in RetryCounts
      BY DEF TypeOK
    <2>3. \A t \in tasks \cap Tasks : retries[t] + 1 \in RetryCounts
      BY <1>2, <2>2, Numbers DEF CanRetry, RetryCounts
    <2> QED BY <1>2, <2>1, <2>2, <2>3 DEF CountRetry
  <1> QED BY <1>1, <1>2

LEMMA TypeNext == TypeInv /\ [Next]_vars => TypeInv'
  <1> SUFFICES ASSUME TypeInv, [Next]_vars PROVE TypeInv'
    OBVIOUS
  <1> USE DEF TypeInv, SchedulerAt
  <1>0. /\ \A c \in Clients : call[c] \in Calls
        /\ \A t \in Tasks : retries[t] \in RetryCounts
        /\ mode' = mode => RetryCounts' = RetryCounts
    BY DEF TypeOK, RetryCounts, RetryCounts, RetryLimit
  <1>1. ASSUME NEW c \in Clients, NEW n \in Names, NEW time \in Etas, Add(c, n, time)
        PROVE  TypeInv'
    <2>0. made' = made + 1 /\ made < MaxTasks /\ made \in Nat /\ now \in Nat
      BY <1>1 DEF Add, TypeOK
    <2>1. made + 1 \in Tasks /\ made' = made + 1 /\ time \in Nat
      BY <2>0, Numbers DEF Tasks
    <2>2. /\ name' \in [Tasks -> Names] /\ eta' \in [Tasks -> Nat]
          /\ byName' \subseteq 1 .. made' /\ byEta' \subseteq Nat \X (1 .. made')
          /\ archive' \subseteq Names
      BY <1>1, <2>1 DEF Add, TypeOK
    <2>3. call' \in [Clients -> Calls]
      <3>1. [step |-> IF mode = "push" THEN "added" ELSE "idle",
             arg |-> IF mode = "push" THEN time ELSE 0] \in Calls
        BY <2>1 DEF Calls
      <3> QED BY <1>1, <3>1 DEF Add, TypeOK
    <2>4. /\ made' \in 0 .. MaxTasks /\ cur' \in 0 .. made' /\ SchedulerAt'
      BY <1>1, <2>1 DEF Add, TypeOK, Tasks, schedulerVars
    <2>5. UNCHANGED <<mode, now, retries, told, schedulerVars, wakeupVars, historyVars, RetryCounts>>
      BY <1>1 DEF Add, RetryCounts, RetryLimit
    <2> QED BY <2>2, <2>3, <2>4, <2>5 DEF TypeOK, schedulerVars, wakeupVars, historyVars
  <1>2. ASSUME NEW c \in Clients, CheckOldest(c)
        PROVE  TypeInv'
    <2>1. call[c] \in [step : {"idle", "added", "notify", "clear"}, arg : Nat]
      BY <1>0, <1>2 DEF CheckOldest, Calls
    <2>2. call' \in [Clients -> Calls]
      BY <1>2, <2>1 DEF CheckOldest, Calls, Idle, TypeOK
    <2> QED BY <1>2, <2>2 DEF CheckOldest, TypeOK, storeVars, schedulerVars, wakeupVars, historyVars, RetryCounts, RetryLimit
  <1>3. ASSUME NEW c \in Clients, UpdateNextEventTime(c)
        PROVE  TypeInv'
    <2>1. call[c].arg \in Nat
      BY <1>0, <1>3 DEF UpdateNextEventTime, Calls
    <2>2. {nextWakeup', deadline'} \subseteq Nat \cup {Never} /\ event' \in BOOLEAN
      BY <1>3, <2>1 DEF UpdateNextEventTime, SetWakeup, TypeOK, wakeupVars, schedulerVars
    <2>3. call' \in [Clients -> Calls]
      BY <1>3 DEF UpdateNextEventTime, Calls, Idle, TypeOK
    <2> QED BY <1>3, <2>2, <2>3 DEF UpdateNextEventTime, TypeOK, storeVars, schedulerVars, historyVars, RetryCounts, RetryLimit
  <1>4. ASSUME NEW c \in Clients, NEW n \in Names, Delete(c, n) \/ DeleteTask(c, n)
        PROVE  TypeInv'
    <2>1. RemoveAll(Named(n))
      BY <1>4 DEF Delete, DeleteTask
    <2>2. call' \in [Clients -> Calls]
      BY <1>4 DEF Delete, DeleteTask, Calls, TypeOK, clientVars
    <2>5. withdrawn' \in BOOLEAN
      BY <1>4, Zenon DEF Delete, DeleteTask, TypeOK
    <2>3. /\ UNCHANGED <<mode, now, made, name, eta, retries, archive, told,
                         schedulerVars, wakeupVars, runs, freed, RetryCounts>>
      BY <1>4 DEF Delete, DeleteTask, clientVars, RetryCounts, RetryLimit
    <2> QED BY <2>1, <2>2, <2>3, <2>5, RemoveAllTypes DEF TypeOK, schedulerVars, wakeupVars
  <1>5. ASSUME NEW c \in Clients, PurgeQueue(c) \/ FlushQueue(c)
        PROVE  TypeInv'
    <2>1. call' \in [Clients -> Calls]
      BY <1>5 DEF PurgeQueue, FlushQueue, Calls, TypeOK, clientVars
    <2>5. withdrawn' \in BOOLEAN
      BY <1>5, Zenon DEF PurgeQueue, FlushQueue, TypeOK
    <2>2. /\ byName' = {} /\ byEta' = {}
          /\ UNCHANGED <<mode, now, made, name, eta, retries, archive, told,
                         schedulerVars, wakeupVars, runs, freed, RetryCounts>>
      BY <1>5 DEF PurgeQueue, FlushQueue, clientVars, RetryCounts, RetryLimit
    <2> QED BY <2>1, <2>2, <2>5 DEF TypeOK, schedulerVars, wakeupVars
  <1>6. ASSUME NEW c \in Clients, DropTombstones(c)
        PROVE  TypeInv'
    <2>1. call[c].step = "clear" \/ call[c].arg \in Names
      BY <1>0, <1>6 DEF DropTombstones, Calls
    <2>2. archive' \subseteq Names /\ freed' \subseteq Names /\ call' \in [Clients -> Calls]
      BY <1>6, <2>1 DEF DropTombstones, Idle, Calls, TypeOK
    <2> QED BY <1>6, <2>2 DEF DropTombstones, TypeOK, schedulerVars, wakeupVars, RetryCounts, RetryLimit
  <1>7. ASSUME NEW c \in Clients, NEW max, NEW lease \in Leases, QueryAndOwnTasks(c, max, lease)
        PROVE  TypeInv'
    <2>1. PICK entries \in SUBSET Leasable :
            LET tasks == {e[2] : e \in entries}
                owned == {t \in tasks : CanRetry(retries[t] + 1)}
                spent == tasks \ owned
            IN  /\ byName' = byName \ spent
                /\ byEta' = {e \in byEta : e[2] \notin tasks} \cup {<<now + lease, t>> : t \in owned}
                /\ eta' = [t \in Tasks |-> IF t \in owned THEN now + lease ELSE eta[t]]
                /\ CountRetry(owned) /\ CountRun(owned)
                /\ told' = [told EXCEPT ![c] =
                               [t \in Tasks |-> IF t \in owned THEN now + lease ELSE @[t]]]
      BY <1>7, Zenon DEF QueryAndOwnTasks
    <2> DEFINE tasks == {e[2] : e \in entries}
               owned == {t \in tasks : CanRetry(retries[t] + 1)}
    <2>2. tasks \subseteq 1 .. made /\ owned \subseteq 1 .. made /\ now + lease \in Nat
      BY Numbers DEF Leasable, TypeOK
    <2>3. \A t \in owned : CanRetry(retries[t] + 1)
      OBVIOUS
    <2>4. /\ UNCHANGED <<mode, now, made, name, archive, call, schedulerVars, wakeupVars,
                         withdrawn, freed, RetryCounts>>
      BY <1>7 DEF QueryAndOwnTasks, RetryCounts, RetryLimit
    <2>5. /\ CountRetry(owned) /\ CountRun(owned)
          /\ byName' = byName \ (tasks \ owned)
          /\ byEta' = {e \in byEta : e[2] \notin tasks} \cup {<<now + lease, t>> : t \in owned}
          /\ eta' = [t \in Tasks |-> IF t \in owned THEN now + lease ELSE eta[t]]
          /\ told' = [told EXCEPT ![c] =
                         [t \in Tasks |-> IF t \in owned THEN now + lease ELSE @[t]]]
      BY <2>1
    <2> HIDE DEF tasks, owned
    <2>6. retries' \in [Tasks -> RetryCounts'] /\ runs' \in [Tasks -> Nat]
      BY <2>3, <2>4, <2>5, CountTypes
    <2>7. byName' \subseteq 1 .. made /\ byEta' \subseteq Nat \X (1 .. made)
      BY <2>2, <2>5 DEF TypeOK
    <2>8. eta' \in [Tasks -> Nat]
      BY <2>2, <2>5 DEF TypeOK
    <2>9. told' \in [Clients -> [Tasks -> Nat \cup {Never}]]
      <3>1. \A t \in Tasks : told[c][t] \in Nat \cup {Never}
        BY DEF TypeOK
      <3> DEFINE row == [t \in Tasks |-> IF t \in owned THEN now + lease ELSE told[c][t]]
      <3>2. row \in [Tasks -> Nat \cup {Never}]
        BY <2>2, <3>1
      <3>3. told' = [told EXCEPT ![c] = row]
        BY <2>5
      <3> HIDE DEF row
      <3> QED BY <3>2, <3>3 DEF TypeOK
    <2> QED BY <2>4, <2>6, <2>7, <2>8, <2>9 DEF TypeOK, schedulerVars, wakeupVars
  <1>8. ASSUME NEW c \in Clients, NEW held \in Tasks, NEW lease \in Leases, ModifyTaskLease(c, held, lease)
        PROVE  TypeInv'
    <2>0. PICK t \in byName : /\ Postpone({t}, now + lease)
                              /\ told' = [told EXCEPT ![c][t] = now + lease]
      BY <1>8 DEF ModifyTaskLease, Named
    <2>1. now + lease \in Nat /\ {t} \in SUBSET (1 .. made) /\ Postpone({t}, now + lease)
      BY <2>0, Numbers DEF TypeOK
    <2>2. byEta' \subseteq Nat \X (1 .. made) /\ eta' \in [Tasks -> Nat]
      BY <2>1, PostponeTypes
    <2>3. told' \in [Clients -> [Tasks -> Nat \cup {Never}]]
      BY <2>0, <2>1 DEF TypeOK
    <2> QED BY <1>8, <2>2, <2>3 DEF ModifyTaskLease, TypeOK, schedulerVars, wakeupVars, historyVars, RetryCounts, RetryLimit
  <1>9. ASSUME ResetWakeup \/ PickTask \/ LowerWakeup
        PROVE  TypeInv'
    <2>1. CASE ResetWakeup
      BY <2>1 DEF ResetWakeup, TypeOK, storeVars, clientVars, historyVars, RetryCounts, RetryLimit
    <2>2. CASE PickTask
      <3>1. \A e \in Earliest(byEta) : e[2] \in 1 .. made
        BY DEF Earliest, TypeOK
      <3> QED BY <2>2, <3>1 DEF PickTask, TypeOK, storeVars, clientVars, wakeupVars, historyVars, RetryCounts, RetryLimit
    <2>3. CASE LowerWakeup
      <3>1. eta[cur] \in Nat
        BY <2>3, Numbers DEF LowerWakeup, TypeOK, Tasks
      <3>2. nextWakeup' \in Nat \cup {Never}
        BY <2>3, <3>1 DEF LowerWakeup, Sooner, TypeOK
      <3>3. /\ spc = "lower" /\ spc' = "wait" /\ cur' = 0
            /\ UNCHANGED <<mode, now, storeVars, clientVars, deadline, event, historyVars>>
        BY <2>3 DEF LowerWakeup, NoTask
      <3> QED BY <3>2, <3>3 DEF TypeOK, storeVars, clientVars, historyVars, RetryCounts, RetryLimit
    <2> QED BY <1>9, <2>1, <2>2, <2>3
  <1>10. ASSUME TaskDone
         PROVE  TypeInv'
    <2>1. RemoveAll(Named(name[cur])) /\ CountRun({cur})
      BY <1>10 DEF TaskDone
    <2>2. byName' \subseteq 1 .. made /\ byEta' \subseteq Nat \X (1 .. made)
      BY <2>1, RemoveAllTypes
    <2>3. runs' \in [Tasks -> Nat]
      BY <2>1, CountTypes
    <2> QED BY <1>10, <2>2, <2>3 DEF TaskDone, NoTask, TypeOK, clientVars, wakeupVars, RetryCounts, RetryLimit
  <1>11. ASSUME PostponeTask
         PROVE  TypeInv'
    <2>1. /\ now + Backoff \in Nat /\ {cur} \in SUBSET (1 .. made)
          /\ Postpone({cur}, now + Backoff) /\ CountRun({cur}) /\ CountRetry({cur})
          /\ mode' = mode /\ \A t \in {cur} : CanRetry(retries[t] + 1)
      BY <1>11, Numbers DEF PostponeTask, TypeOK
    <2>2. byEta' \subseteq Nat \X (1 .. made) /\ eta' \in [Tasks -> Nat]
      BY <2>1, PostponeTypes
    <2>3. runs' \in [Tasks -> Nat] /\ retries' \in [Tasks -> RetryCounts']
      BY <2>1, CountTypes
    <2> QED BY <1>11, <2>2, <2>3 DEF PostponeTask, NoTask, TypeOK, clientVars, wakeupVars
  <1>12. ASSUME PostponeFails
         PROVE  TypeInv'
    <2>1. /\ CountRun({cur}) /\ CountRetry({cur})
          /\ mode' = mode /\ \A t \in {cur} : CanRetry(retries[t] + 1)
      BY <1>12 DEF PostponeFails
    <2>2. runs' \in [Tasks -> Nat] /\ retries' \in [Tasks -> RetryCounts']
      BY <2>1, CountTypes
    <2> QED BY <1>12, <2>2 DEF PostponeFails, Dies, NoTask, TypeOK, clientVars, wakeupVars
  <1>13. ASSUME Wait \/ WakeUp \/ ClearEvent
         PROVE  TypeInv'
    BY <1>13 DEF Wait, WakeUp, ClearEvent, TypeOK, storeVars, clientVars, wakeupVars, historyVars, RetryCounts, RetryLimit
  <1>14. ASSUME Tick
         PROVE  TypeInv'
    BY <1>14 DEF Tick, TypeOK, storeVars, clientVars, wakeupVars, schedulerVars, historyVars, RetryCounts, RetryLimit
  <1>15. ASSUME UNCHANGED vars
         PROVE  TypeInv'
    BY <1>15 DEF vars, TypeOK, storeVars, clientVars, wakeupVars, schedulerVars, historyVars, RetryCounts, RetryLimit
  <1> QED
    BY <1>1, <1>2, <1>3, <1>4, <1>5, <1>6, <1>7, <1>8, <1>9, <1>10, <1>11, <1>12, <1>13,
       <1>14, <1>15 DEF Next, ClientStep, EndsCall, SchedulerStep

(***************************************************************************)
(* The variables keep their types, whatever clients, console and scheduler *)
(* do.                                                                     *)
(***************************************************************************)
THEOREM QueueTypes == Spec => []TypeOK
  <1>1. TypeInv => TypeOK
    BY DEF TypeInv
  <1> QED BY TypeInit, TypeNext, <1>1, PTL DEF Spec
-----------------------------------------------------------------------------
\* The two indexes.

EtaIndex == byEta = {<<eta[t], t>> : t \in byName}
OneOfAName == \A t, u \in byName : name[t] = name[u] => t = u

LEMMA IndexesAre == IndexesAgree <=> EtaIndex /\ OneOfAName
  BY DEF IndexesAgree, EtaIndex, OneOfAName

\* What is stored is a task, and what is in the index is stored.
LEMMA Stored ==
  ASSUME TypeOK
  PROVE  /\ byName \subseteq Tasks /\ byName \subseteq 1 .. made
         /\ made + 1 \notin byName
         /\ EtaIndex => \A t : InIndex(t) => t \in byName
  BY Numbers DEF TypeOK, EtaIndex, InIndex, Tasks

LEMMA IndexesNext == StoreInv /\ [Next]_vars => IndexesAgree'
  <1> SUFFICES ASSUME StoreInv, [Next]_vars PROVE IndexesAgree'
    OBVIOUS
  <1>0. TypeOK /\ SchedulerAt /\ EtaIndex /\ OneOfAName
    BY IndexesAre DEF StoreInv, TypeInv
  <1>a. ASSUME UNCHANGED <<name, eta, byName, byEta>>
        PROVE  IndexesAgree'
    BY <1>0, <1>a DEF IndexesAgree, EtaIndex, OneOfAName
  <1>b. ASSUME NEW tasks, RemoveAll(tasks), UNCHANGED <<name, eta>>
        PROVE  IndexesAgree'
    <2>1. EtaIndex'
      BY <1>0, <1>b DEF EtaIndex, RemoveAll
    <2>2. OneOfAName'
      BY <1>0, <1>b DEF OneOfAName, RemoveAll
    <2> QED BY <2>1, <2>2 DEF IndexesAgree, EtaIndex, OneOfAName
  <1>c. ASSUME NEW t \in byName, NEW e, Postpone({t}, e), UNCHANGED <<name, byName>>
        PROVE  IndexesAgree'
    <2>1. EtaIndex'
      BY <1>0, <1>c, Stored DEF EtaIndex, Postpone
    <2>2. OneOfAName'
      BY <1>0, <1>c DEF OneOfAName
    <2> QED BY <2>1, <2>2 DEF IndexesAgree, EtaIndex, OneOfAName
  <1>1. ASSUME NEW c \in Clients, NEW n \in Names, NEW time \in Etas, Add(c, n, time)
        PROVE  IndexesAgree'
    <2>1. made' = made + 1 /\ made + 1 \in Tasks /\ made + 1 \notin byName
      BY <1>0, <1>1, Numbers DEF Add, TypeOK, Tasks
    <2>2. /\ name' = [name EXCEPT ![made + 1] = n]
          /\ eta' = [eta EXCEPT ![made + 1] = time]
          /\ byName' = byName \cup {made + 1}
          /\ byEta' = byEta \cup {<<time, made + 1>>}
          /\ \A t \in byName : name[t] # n
      BY <1>1, <2>1 DEF Add, Addable, Named
    <2>3. /\ \A t \in byName : t # made + 1 /\ eta'[t] = eta[t] /\ name'[t] = name[t]
          /\ eta'[made + 1] = time /\ name'[made + 1] = n
      BY <1>0, <2>1, <2>2 DEF TypeOK
    <2>4. EtaIndex'
      BY <1>0, <2>2, <2>3 DEF EtaIndex
    <2>5. OneOfAName'
      BY <1>0, <2>2, <2>3 DEF OneOfAName
    <2> QED BY <2>4, <2>5 DEF IndexesAgree, EtaIndex, OneOfAName
  <1>2. ASSUME NEW c \in Clients, CheckOldest(c) \/ UpdateNextEventTime(c)
        PROVE  IndexesAgree'
    BY <1>2, <1>a DEF CheckOldest, UpdateNextEventTime, storeVars
  <1>3. ASSUME NEW c \in Clients, NEW n \in Names, Delete(c, n) \/ DeleteTask(c, n)
        PROVE  IndexesAgree'
    BY <1>3, <1>b DEF Delete, DeleteTask
  <1>4. ASSUME NEW c \in Clients, PurgeQueue(c) \/ FlushQueue(c)
        PROVE  IndexesAgree'
    BY <1>4 DEF PurgeQueue, FlushQueue, IndexesAgree
  <1>5. ASSUME NEW c \in Clients, DropTombstones(c)
        PROVE  IndexesAgree'
    BY <1>5, <1>a DEF DropTombstones
  <1>6. ASSUME NEW c \in Clients, NEW max, NEW lease \in Leases, QueryAndOwnTasks(c, max, lease)
        PROVE  IndexesAgree'
    <2>1. PICK tasks, owned :
            /\ owned \subseteq tasks /\ tasks \subseteq {e[2] : e \in byEta}
            /\ byName' = byName \ (tasks \ owned)
            /\ byEta' = {e \in byEta : e[2] \notin tasks} \cup {<<now + lease, t>> : t \in owned}
            /\ eta' = [t \in Tasks |-> IF t \in owned THEN now + lease ELSE eta[t]]
      <3>1. PICK entries \in SUBSET Leasable :
              LET tasks == {e[2] : e \in entries}
                  owned == {t \in tasks : CanRetry(retries[t] + 1)}
              IN  /\ byName' = byName \ (tasks \ owned)
                  /\ byEta' = {e \in byEta : e[2] \notin tasks} \cup {<<now + lease, t>> : t \in owned}
                  /\ eta' = [t \in Tasks |-> IF t \in owned THEN now + lease ELSE eta[t]]
        BY <1>6, Zenon DEF QueryAndOwnTasks
      <3> DEFINE all == {e[2] : e \in entries}
                 some == {t \in all : CanRetry(retries[t] + 1)}
      <3>2. some \subseteq all /\ all \subseteq {e[2] : e \in byEta}
        BY DEF Leasable
      <3> QED BY <3>1, <3>2
    <2>2. tasks \subseteq byName /\ name' = name
      BY <1>0, <1>6, <2>1 DEF EtaIndex, QueryAndOwnTasks
    <2>3. \A t \in byName : eta'[t] = IF t \in owned THEN now + lease ELSE eta[t]
      BY <1>0, <2>1, Stored
    <2>4. EtaIndex'
      <3>1. {e \in byEta : e[2] \notin tasks} = {<<eta[t], t>> : t \in byName \ tasks}
        BY <1>0 DEF EtaIndex
      <3>2. byName' = (byName \ tasks) \cup owned /\ owned \subseteq tasks
        BY <2>1, <2>2
      <3>3. /\ \A t \in byName \ tasks : eta'[t] = eta[t]
            /\ \A t \in owned : eta'[t] = now + lease
        BY <2>2, <2>3, <3>2
      <3>4. byEta' = {<<eta[t], t>> : t \in byName \ tasks} \cup {<<now + lease, t>> : t \in owned}
        BY <2>1, <3>1
      <3> QED BY <3>2, <3>3, <3>4 DEF EtaIndex
    <2>5. OneOfAName'
      BY <1>0, <2>1, <2>2 DEF OneOfAName
    <2> QED BY <2>4, <2>5 DEF IndexesAgree, EtaIndex, OneOfAName
  <1>7. ASSUME NEW c \in Clients, NEW held \in Tasks, NEW lease \in Leases,
               ModifyTaskLease(c, held, lease)
        PROVE  IndexesAgree'
    <2>1. PICK t \in byName : Postpone({t}, now + lease)
      BY <1>7 DEF ModifyTaskLease, Named
    <2>2. UNCHANGED <<name, byName>>
      BY <1>7 DEF ModifyTaskLease
    <2> QED BY <2>1, <2>2, <1>c
  <1>8. ASSUME ResetWakeup \/ PickTask \/ LowerWakeup \/ Wait \/ WakeUp \/ ClearEvent \/ Tick
        PROVE  IndexesAgree'
    BY <1>8, <1>a DEF ResetWakeup, PickTask, LowerWakeup, Wait, WakeUp, ClearEvent, Tick, storeVars
  <1>9. ASSUME TaskDone
        PROVE  IndexesAgree'
    BY <1>9, <1>b DEF TaskDone
  <1>10. ASSUME PostponeTask
         PROVE  IndexesAgree'
    <2>1. cur \in byName
      BY <1>0, <1>10, Stored DEF PostponeTask
    <2> QED BY <1>10, <2>1, <1>c DEF PostponeTask
  <1>11. ASSUME PostponeFails
         PROVE  IndexesAgree'
    BY <1>11, <1>a DEF PostponeFails, Dies
  <1>12. ASSUME UNCHANGED vars
         PROVE  IndexesAgree'
    BY <1>12, <1>a DEF vars, storeVars
  <1> QED
    BY <1>1, <1>2, <1>3, <1>4, <1>5, <1>6, <1>7, <1>8, <1>9, <1>10, <1>11, <1>12
       DEF Next, ClientStep, EndsCall, SchedulerStep

LEMMA StoreInit == Init => StoreInv
  <1> SUFFICES ASSUME Init PROVE StoreInv
    OBVIOUS
  <1>1. IndexesAgree
    BY DEF Init, IndexesAgree
  <1> QED BY <1>1, TypeInit DEF StoreInv

LEMMA StoreNext == StoreInv /\ [Next]_vars => StoreInv'
  BY TypeNext, IndexesNext DEF StoreInv

(***************************************************************************)
(* The indexes by name and by eta hold the same tasks, each under its eta  *)
(* and no two of one name, in every interleaving with the scheduler.       *)
(***************************************************************************)
THEOREM IndexesMatch == Spec => []IndexesAgree
  <1>1. StoreInv => IndexesAgree
    BY DEF StoreInv
  <1> QED BY StoreInit, StoreNext, <1>1, PTL DEF Spec
-----------------------------------------------------------------------------
\* Names.

NameInv == StoreInv /\ NamesUsedOnce

LEMMA NameInit == Init => NameInv
  <1> SUFFICES ASSUME Init PROVE NameInv
    OBVIOUS
  <1>1. 1 .. made = {}
    BY DEF Init
  <1> QED BY <1>1, StoreInit DEF NameInv, NamesUsedOnce

LEMMA NameNext == NameInv /\ [Next]_vars => NameInv'
  <1> SUFFICES ASSUME NameInv, [Next]_vars PROVE NamesUsedOnce'
    BY StoreNext DEF NameInv
  <1>0. StoreInv /\ TypeOK /\ NamesUsedOnce /\ made \in Nat
    BY DEF NameInv, StoreInv, TypeInv, TypeOK
  <1>1. ASSUME NEW c \in Clients, NEW n \in Names, NEW time \in Etas, Add(c, n, time)
        PROVE  NamesUsedOnce'
    <2>1. /\ made' = made + 1 /\ made + 1 \in Tasks
          /\ name' = [name EXCEPT ![made + 1] = n]
          /\ n \notin archive /\ archive' = archive \cup {n} /\ freed' = freed
      BY <1>0, <1>1, Numbers DEF Add, Addable, TypeOK, Tasks, historyVars
    <2>2. \A t \in 1 .. made : t # made + 1 /\ name'[t] = name[t]
      BY <1>0, <2>1 DEF TypeOK
    <2>3. name'[made + 1] = n
      BY <1>0, <2>1 DEF TypeOK
    <2>5. \A t \in 1 .. made' : t \in 1 .. made \/ t = made + 1
      BY <1>0, <2>1
    <2>4. \A t \in 1 .. made : name[t] = n => n \in freed
      BY <1>0, <2>1 DEF NamesUsedOnce
    <2> QED BY <1>0, <2>1, <2>2, <2>3, <2>4, <2>5 DEF NamesUsedOnce
  <1>2. ASSUME NEW c \in Clients, DropTombstones(c)
        PROVE  NamesUsedOnce'
    <2>1. /\ UNCHANGED <<made, name>> /\ freed \subseteq freed'
          /\ archive \cup freed \subseteq archive' \cup freed'
      BY <1>2 DEF DropTombstones
    <2> QED BY <1>0, <2>1 DEF NamesUsedOnce
  <1>3. ASSUME UNCHANGED <<made, name, archive, freed>>
        PROVE  NamesUsedOnce'
    BY <1>0, <1>3 DEF NamesUsedOnce
  <1>4. ASSUME NEW c \in Clients,
               \/ CheckOldest(c) \/ UpdateNextEventTime(c) \/ PurgeQueue(c) \/ FlushQueue(c)
               \/ \E n \in Names : Delete(c, n) \/ DeleteTask(c, n)
               \/ \E lease \in Leases : \/ \E max \in {1, 2} : QueryAndOwnTasks(c, max, lease)
                                         \/ \E t \in Tasks : ModifyTaskLease(c, t, lease)
        PROVE  NamesUsedOnce'
    BY <1>3, <1>4 DEF CheckOldest, UpdateNextEventTime, PurgeQueue, FlushQueue, Delete, DeleteTask,
                      QueryAndOwnTasks, ModifyTaskLease, storeVars, historyVars
  <1>5. ASSUME SchedulerStep \/ Tick \/ UNCHANGED vars
        PROVE  NamesUsedOnce'
    BY <1>3, <1>5 DEF SchedulerStep, ResetWakeup, PickTask, LowerWakeup, TaskDone, PostponeTask,
                      PostponeFails, Dies, Wait, WakeUp, ClearEvent, Tick, vars, storeVars, historyVars
  <1> QED BY <1>1, <1>2, <1>4, <1>5 DEF Next, ClientStep, EndsCall
-----------------------------------------------------------------------------
\* Leases.

LeaseInv == NameInv /\ ToldBelow /\ LeaseExclusive

\* What a request does to the tasks it finds, of which it leases some and gives
\* up the others as spent: all are stored and their etas are past.
LeasesOf(c, lease, tasks, owned) ==
    /\ owned \subseteq tasks
    /\ \A t \in tasks : eta[t] < now
    /\ byName' = byName \ (tasks \ owned)
    /\ eta' = [t \in Tasks |-> IF t \in owned THEN now + lease ELSE eta[t]]
    /\ CountRetry(owned) /\ CountRun(owned)
    /\ told' = [told EXCEPT ![c] =
                   [t \in Tasks |-> IF t \in owned THEN now + lease ELSE @[t]]]

LEMMA Leased ==
  ASSUME StoreInv, NEW c, NEW max, NEW lease, QueryAndOwnTasks(c, max, lease)
  PROVE  \E tasks \in SUBSET byName, owned \in SUBSET byName : LeasesOf(c, lease, tasks, owned)
  <1>0. EtaIndex
    BY IndexesAre DEF StoreInv
  <1>1. PICK entries \in SUBSET Leasable :
          LET tasks == {e[2] : e \in entries}
              owned == {t \in tasks : CanRetry(retries[t] + 1)}
          IN  /\ byName' = byName \ (tasks \ owned)
              /\ eta' = [t \in Tasks |-> IF t \in owned THEN now + lease ELSE eta[t]]
              /\ CountRetry(owned) /\ CountRun(owned)
              /\ told' = [told EXCEPT ![c] =
                             [t \in Tasks |-> IF t \in owned THEN now + lease ELSE @[t]]]
    BY Zenon DEF QueryAndOwnTasks
  <1> DEFINE all == {e[2] : e \in entries}
             some == {t \in all : CanRetry(retries[t] + 1)}
  <1>3. all \in SUBSET byName /\ \A t \in all : eta[t] < now
    BY <1>0 DEF EtaIndex, Leasable
  <1>2. some \subseteq all /\ some \in SUBSET byName
    BY <1>3
  <1> HIDE DEF all
  <1> QED BY <1>1, <1>2, <1>3, Zenon DEF all, LeasesOf

LEMMA LeaseInit == Init => LeaseInv
  <1> SUFFICES ASSUME Init PROVE LeaseInv
    OBVIOUS
  <1>1. \A c \in Clients, t \in Tasks : told[c][t] = Never
    BY DEF Init
  <1>2. byName = {}
    BY DEF Init
  <1> QED BY <1>1, <1>2, NameInit DEF LeaseInv, ToldBelow, LeaseExclusive

LEMMA LeaseNext == LeaseInv /\ [Next]_vars => LeaseInv'
  <1> SUFFICES ASSUME LeaseInv, [Next]_vars PROVE ToldBelow' /\ LeaseExclusive'
    BY NameNext DEF LeaseInv
  <1>0. /\ StoreInv /\ TypeOK /\ SchedulerAt /\ ToldBelow /\ LeaseExclusive /\ EtaIndex
        /\ NamesUsedOnce
        /\ byName \subseteq Tasks /\ byName \subseteq 1 .. made
        /\ now \in Nat /\ made \in Nat
        /\ \A t \in Tasks : eta[t] \in Nat
        /\ \A c \in Clients, t \in Tasks : told[c][t] \in Nat \cup {Never}
    BY Stored, IndexesAre DEF LeaseInv, NameInv, StoreInv, TypeInv, TypeOK
  \* A step that gives no lease keeps what clients know.
  <1>a. ASSUME UNCHANGED <<mode, told, name>>, freed \subseteq freed', now' = now \/ now' = now + 1,
               made' = made, eta' = eta, byName' \subseteq byName
        PROVE  ToldBelow' /\ LeaseExclusive'
    <2>1. \A c \in Clients, t \in byName : told[c][t] \in Nat \cup {Never} /\ eta[t] \in Nat
      BY <1>0
    <2>2. \A c \in Clients, t \in byName' : told[c][t] >= now' => told[c][t] >= now
      <3>1. \A c \in Clients, t \in byName : told[c][t] \in Int
        BY <2>1 DEF Never
      <3>2. \A i \in Int : i >= now' => i >= now
        BY <1>0, <1>a
      <3> QED BY <1>a, <3>1, <3>2
    <2>3. LeaseExclusive'
      BY <1>0, <1>a, <2>2 DEF LeaseExclusive
    <2>4. \A c \in Clients, t \in byName' :
            name[t] \notin freed' /\ told[c][t] >= now' => told[c][t] <= eta[t]
      BY <1>0, <1>a, <2>2 DEF ToldBelow
    <2> QED BY <1>0, <1>a, <2>3, <2>4 DEF ToldBelow
  <1>1. ASSUME NEW c \in Clients, NEW n \in Names, NEW time \in Etas, Add(c, n, time)
        PROVE  ToldBelow' /\ LeaseExclusive'
    <2>1. /\ made' = made + 1 /\ made + 1 \in Tasks
          /\ byName' = byName \cup {made + 1}
          /\ UNCHANGED <<mode, now, told, freed>>
          /\ \A t \in byName : eta'[t] = eta[t] /\ name'[t] = name[t]
      BY <1>0, <1>1, Numbers DEF Add, TypeOK, Tasks, historyVars
    <2>2. \A d \in Clients : told[d][made + 1] = Never
      BY <1>0, <2>1 DEF ToldBelow
    <2>3. \A d \in Clients : ~(told[d][made + 1] >= now)
      BY <1>0, <2>2 DEF Never
    <2> QED BY <1>0, <2>1, <2>3 DEF ToldBelow, LeaseExclusive
  <1>3. ASSUME NEW c \in Clients, NEW max, NEW lease \in Leases, QueryAndOwnTasks(c, max, lease)
        PROVE  ToldBelow' /\ LeaseExclusive'
    <2>0. PICK tasks \in SUBSET byName, owned \in SUBSET byName : LeasesOf(c, lease, tasks, owned)
      BY <1>0, <1>3, Leased
    <2>1. /\ owned \subseteq tasks
          /\ \A t \in tasks : eta[t] < now
          /\ byName' = byName \ (tasks \ owned)
          /\ eta' = [t \in Tasks |-> IF t \in owned THEN now + lease ELSE eta[t]]
          /\ CountRetry(owned) /\ CountRun(owned)
          /\ told' = [told EXCEPT ![c] =
                         [t \in Tasks |-> IF t \in owned THEN now + lease ELSE @[t]]]
      BY <2>0 DEF LeasesOf
    <2>2. mode = "pull" /\ UNCHANGED <<mode, now, made, name, freed>>
      BY <1>3 DEF QueryAndOwnTasks
    <2>3. \A d \in Clients, t \in Tasks :
            told'[d][t] = IF d = c /\ t \in owned THEN now + lease ELSE told[d][t]
      BY <1>0, <2>1 DEF TypeOK
    <2>4. \A t \in byName' : eta'[t] = IF t \in owned THEN now + lease ELSE eta[t]
      BY <1>0, <2>1
    <2>5. \A d \in Clients, t \in owned : name[t] \notin freed => ~(told[d][t] >= now)
      BY <1>0, <2>1 DEF ToldBelow, Never
    <2>6. now + lease \in Nat /\ owned \subseteq 1 .. made /\ owned \subseteq Tasks /\ byName' \subseteq byName
      BY <1>0, <2>1, Numbers
    <2>7. LeaseExclusive'
      <3> SUFFICES ASSUME NEW d \in Clients, NEW e \in Clients, NEW t \in byName',
                          name[t] \notin freed, told'[d][t] >= now, told'[e][t] >= now
                   PROVE  d = e
        BY <2>2 DEF LeaseExclusive
      <3>1. t \in byName /\ t \in Tasks
        BY <1>0, <2>6
      <3>2. CASE t \in owned
        BY <2>3, <2>5, <3>1, <3>2
      <3>3. CASE t \notin owned
        BY <1>0, <2>3, <3>1, <3>3 DEF LeaseExclusive
      <3> QED BY <3>2, <3>3
    <2>8. \A d \in Clients, t \in Tasks : t > made' => told'[d][t] = Never
      <3>1. \A t \in owned : ~(t > made)
        BY <1>0, <2>6
      <3>2. \A d \in Clients, t \in Tasks : t > made => told[d][t] = Never
        BY <1>0 DEF ToldBelow
      <3> QED BY <2>2, <2>3, <3>1, <3>2
    <2>9. \A d \in Clients, t \in byName' :
            name'[t] \notin freed' /\ told'[d][t] >= now' => told'[d][t] <= eta'[t]
      <3> SUFFICES ASSUME NEW d \in Clients, NEW t \in byName',
                          name[t] \notin freed, told'[d][t] >= now
                   PROVE  told'[d][t] <= eta'[t]
        BY <2>2
      <3>1. t \in byName /\ t \in Tasks
        BY <1>0, <2>6
      <3>2. CASE t \in owned
        <4>1. ~(told[d][t] >= now)
          BY <2>5, <3>2
        <4>2. told'[d][t] = now + lease /\ eta'[t] = now + lease
          BY <2>3, <2>4, <3>1, <3>2, <4>1
        <4> QED BY <2>6, <4>2
      <3>3. CASE t \notin owned
        BY <1>0, <2>3, <2>4, <3>1, <3>3 DEF ToldBelow
      <3> QED BY <3>2, <3>3
    <2> QED BY <2>2, <2>7, <2>8, <2>9 DEF ToldBelow
  <1>4. ASSUME NEW c \in Clients, NEW held \in Tasks, NEW lease \in Leases,
               ModifyTaskLease(c, held, lease)
        PROVE  ToldBelow' /\ LeaseExclusive'
    <2>0. PICK t \in Named(name[held]) :
            /\ OwnsLease(c, held, t)
            /\ Postpone({t}, now + lease)
            /\ told' = [told EXCEPT ![c][t] = now + lease]
      BY <1>4 DEF ModifyTaskLease
    <2>1. /\ mode = "pull" /\ UNCHANGED <<mode, now, made, name, byName, freed>>
          /\ t \in byName /\ name[t] = name[held] /\ now + lease \in Nat
          /\ told[c][held] # Never /\ told[c][held] >= now
          /\ eta' = [u \in Tasks |-> IF u \in {t} THEN now + lease ELSE eta[u]]
          /\ told' = [told EXCEPT ![c][t] = now + lease]
      <3>1. now + lease \in Nat
        BY <1>0, Numbers
      <3>2. /\ mode = "pull" /\ UNCHANGED <<mode, now, made, name, byName, freed>>
            /\ told[c][held] # Never
        BY <1>4 DEF ModifyTaskLease, historyVars
      <3>3. t \in byName /\ name[t] = name[held]
        BY <2>0 DEF Named
      <3>4. told[c][held] >= now
        BY <2>0 DEF OwnsLease
      <3>5. eta' = [u \in Tasks |-> IF u \in {t} THEN now + lease ELSE eta[u]]
        BY <2>0 DEF Postpone
      <3> QED BY <2>0, <3>1, <3>2, <3>3, <3>4, <3>5
    <2>2. \A d \in Clients, u \in Tasks :
            told'[d][u] = IF d = c /\ u = t THEN now + lease ELSE told[d][u]
      BY <1>0, <2>1 DEF TypeOK
    <2>6. held \in 1 .. made
      BY <1>0, <2>1 DEF ToldBelow, Tasks
    <2>7. name[t] \notin freed => held = t
      BY <1>0, <2>1, <2>6 DEF NamesUsedOnce
    <2>3. name[t] \notin freed => \A d \in Clients : d # c => ~(told[d][t] >= now)
      BY <1>0, <2>1, <2>7 DEF LeaseExclusive
    <2>4. LeaseExclusive'
      BY <1>0, <2>1, <2>2, <2>3 DEF LeaseExclusive
    <2>5. ToldBelow'
      BY <1>0, <2>1, <2>2, <2>3 DEF ToldBelow
    <2> QED BY <2>4, <2>5
  <1>5. ASSUME NEW c \in Clients,
               CheckOldest(c) \/ UpdateNextEventTime(c) \/ DropTombstones(c) \/ PurgeQueue(c)
               \/ FlushQueue(c) \/ \E n \in Names : Delete(c, n) \/ DeleteTask(c, n)
        PROVE  ToldBelow' /\ LeaseExclusive'
    <2>1. /\ UNCHANGED <<mode, told, now, made, name, eta>> /\ byName' \subseteq byName
          /\ freed \subseteq freed'
      BY <1>5 DEF CheckOldest, UpdateNextEventTime, DropTombstones, PurgeQueue, FlushQueue,
                  Delete, DeleteTask, RemoveAll, storeVars, clientVars, historyVars
    <2> QED BY <1>0, <1>a, <2>1
  <1>6. ASSUME ResetWakeup \/ PickTask \/ LowerWakeup \/ Wait \/ WakeUp \/ ClearEvent \/ Tick
               \/ TaskDone \/ PostponeFails \/ UNCHANGED vars
        PROVE  ToldBelow' /\ LeaseExclusive'
    <2>1. /\ UNCHANGED <<mode, told, made, name, eta, freed>> /\ byName' \subseteq byName
          /\ now' = now \/ now' = now + 1
      BY <1>6 DEF ResetWakeup, PickTask, LowerWakeup, Wait, WakeUp, ClearEvent, Tick, TaskDone,
                  PostponeFails, Dies, RemoveAll, vars, storeVars, clientVars, historyVars
    <2> QED BY <1>0, <1>a, <2>1
  <1>7. ASSUME PostponeTask
        PROVE  ToldBelow' /\ LeaseExclusive'
    <2>1. /\ UNCHANGED <<mode, told, now, made, byName>> /\ mode = "push"
      BY <1>0, <1>7 DEF PostponeTask, SchedulerAt, clientVars
    <2>2. \A c \in Clients, t \in Tasks : told'[c][t] = Never /\ ~(told'[c][t] >= now')
      BY <1>0, <2>1 DEF ToldBelow, Never
    <2> QED BY <1>0, <2>1, <2>2 DEF ToldBelow, LeaseExclusive
  <1> QED
    BY <1>1, <1>3, <1>4, <1>5, <1>6, <1>7 DEF Next, ClientStep, EndsCall, SchedulerStep

(***************************************************************************)
(* Two clients never hold unexpired leases of one task: a lease is taken   *)
(* only when the eta of the task is past, so whatever another client was   *)
(* told of is past, too.  A lease of an earlier task passes for one of     *)
(* this only when the console dropped the tombstone of the name.           *)
(***************************************************************************)
THEOREM LeasesExclude == Spec => []LeaseExclusive
  <1>1. LeaseInv => LeaseExclusive
    BY DEF LeaseInv
  <1> QED BY LeaseInit, LeaseNext, <1>1, PTL DEF Spec
-----------------------------------------------------------------------------
\* Executions and leases.

RunInv == StoreInv /\ RunsCounted

LEMMA RunInit == Init => RunInv
  <1> SUFFICES ASSUME Init PROVE RunInv
    OBVIOUS
  <1>1. \A t \in Tasks : runs[t] = 0 /\ retries[t] = 0
    BY DEF Init
  <1> QED BY <1>1, StoreInit DEF RunInv, RunsCounted

LEMMA RunNext == RunInv /\ [Next]_vars => RunInv'
  <1> SUFFICES ASSUME RunInv, [Next]_vars PROVE RunsCounted'
    BY StoreNext DEF RunInv
  <1>0. /\ StoreInv /\ SchedulerAt /\ RunsCounted /\ EtaIndex
        /\ mode \in {"push", "pull"} /\ made \in Nat
        /\ \A t \in Tasks : runs[t] \in Nat /\ retries[t] \in Nat
        /\ byName \subseteq Tasks
    <2>1. \A t \in Tasks : retries[t] \in RetryCounts
      BY DEF RunInv, StoreInv, TypeInv, TypeOK
    <2>2. \A t \in Tasks : retries[t] \in Nat
      BY <2>1, Numbers
    <2> QED BY <2>2, Stored, IndexesAre, NamesAssumption DEF RunInv, StoreInv, TypeInv, TypeOK
  \* The counts stay, and no task comes into the store or into execution.
  <1>a. ASSUME UNCHANGED <<mode, made, runs, retries>>, byName' \subseteq byName,
               spc' = "execute" => cur' \in byName \/ (spc = "execute" /\ cur' = cur)
        PROVE  RunsCounted'
    BY <1>0, <1>a DEF RunsCounted
  \* A task is counted both as run and as retried.
  <1>b. ASSUME UNCHANGED <<mode, made>>, byName' \subseteq byName, spc' # "execute",
               NEW tasks, CountRun(tasks), CountRetry(tasks),
               \A t \in tasks : t \in Tasks => runs[t] = retries[t]
        PROVE  RunsCounted'
    <2>1. \A t \in Tasks :
            /\ runs'[t] = IF t \in tasks THEN runs[t] + 1 ELSE runs[t]
            /\ retries'[t] = IF t \in tasks THEN retries[t] + 1 ELSE retries[t]
      BY <1>b DEF CountRun, CountRetry
    <2> QED BY <1>0, <1>b, <2>1 DEF RunsCounted
  <1>1. ASSUME NEW c \in Clients, NEW n \in Names, NEW time \in Etas, Add(c, n, time)
        PROVE  RunsCounted'
    <2>1. /\ made' = made + 1 /\ byName' = byName \cup {made + 1}
          /\ UNCHANGED <<mode, runs, retries, spc, cur>>
      BY <1>1 DEF Add, schedulerVars, historyVars
    <2>2. \A t \in Tasks : t \in byName' \/ t > made' => t \in byName \/ t > made
      BY <1>0, <2>1, Numbers DEF Tasks
    <2> QED BY <1>0, <2>1, <2>2 DEF RunsCounted
  <1>2. ASSUME NEW c \in Clients, NEW max, NEW lease \in Leases, QueryAndOwnTasks(c, max, lease)
        PROVE  RunsCounted'
    <2>1. PICK tasks \in SUBSET byName, owned \in SUBSET byName : LeasesOf(c, lease, tasks, owned)
      BY <1>0, <1>2, Leased
    <2>2. /\ CountRun(owned) /\ CountRetry(owned) /\ byName' \subseteq byName
          /\ UNCHANGED <<mode, made, spc>> /\ mode = "pull"
      BY <1>2, <2>1 DEF LeasesOf, QueryAndOwnTasks, schedulerVars
    <2>3. spc' # "execute" /\ \A t \in owned : t \in Tasks => runs[t] = retries[t]
      BY <1>0, <2>2 DEF RunsCounted, SchedulerAt
    <2> QED BY <1>b, <2>2, <2>3
  <1>3. ASSUME NEW c \in Clients,
               \/ CheckOldest(c) \/ UpdateNextEventTime(c) \/ DropTombstones(c)
               \/ PurgeQueue(c) \/ FlushQueue(c)
               \/ \E n \in Names : Delete(c, n) \/ DeleteTask(c, n)
               \/ \E t \in Tasks, lease \in Leases : ModifyTaskLease(c, t, lease)
        PROVE  RunsCounted'
    <2>1. UNCHANGED <<mode, made, runs, retries, spc, cur>> /\ byName' \subseteq byName
      BY <1>3 DEF CheckOldest, UpdateNextEventTime, DropTombstones, PurgeQueue, FlushQueue,
                  Delete, DeleteTask, ModifyTaskLease, RemoveAll, storeVars, schedulerVars, historyVars
    <2> QED BY <1>a, <2>1
  <1>4. ASSUME ResetWakeup \/ LowerWakeup \/ Wait \/ WakeUp \/ ClearEvent \/ Tick \/ UNCHANGED vars
        PROVE  RunsCounted'
    <2>1. /\ UNCHANGED <<mode, made, runs, retries, byName>>
          /\ spc' # "execute" \/ UNCHANGED <<spc, cur>>
      BY <1>4 DEF ResetWakeup, LowerWakeup, Wait, WakeUp, ClearEvent, Tick, vars, storeVars,
                  schedulerVars, historyVars
    <2> QED BY <1>a, <2>1
  <1>5. ASSUME PickTask
        PROVE  RunsCounted'
    <2>1. \A e \in Earliest(byEta) : e[2] \in byName
      BY <1>0 DEF Earliest, EtaIndex
    <2>2. /\ UNCHANGED <<mode, made, runs, retries, byName>>
          /\ spc' = "execute" => cur' \in byName
      BY <1>5, <2>1 DEF PickTask, storeVars, historyVars
    <2> QED BY <1>a, <2>2
  <1>6. ASSUME TaskDone
        PROVE  RunsCounted'
    <2>1. /\ UNCHANGED <<mode, made, retries>> /\ mode = "push" /\ spc' # "execute"
          /\ byName' = byName \ Named(name[cur]) /\ CountRun({cur})
      BY <1>0, <1>6 DEF TaskDone, SchedulerAt, RemoveAll
    <2>2. cur \in 1 .. made /\ cur \notin byName' /\ byName' \subseteq byName /\ ~(cur > made)
      BY <1>0, <1>6, <2>1 DEF TaskDone, SchedulerAt, Named
    <2>3. \A t \in Tasks : runs'[t] = IF t = cur THEN runs[t] + 1 ELSE runs[t]
      BY <2>1 DEF CountRun
    <2>4. cur \in Tasks => runs[cur] = retries[cur]
      BY <1>0, <1>6 DEF RunsCounted, TaskDone
    <2> QED BY <1>0, <2>1, <2>2, <2>3, <2>4 DEF RunsCounted
  <1>7. ASSUME PostponeTask \/ PostponeFails
        PROVE  RunsCounted'
    <2>1. /\ UNCHANGED <<mode, made, byName>> /\ spc = "execute" /\ spc' # "execute"
          /\ CountRun({cur}) /\ CountRetry({cur})
      BY <1>7 DEF PostponeTask, PostponeFails, Dies
    <2>2. \A t \in {cur} : t \in Tasks => runs[t] = retries[t]
      BY <1>0, <2>1 DEF RunsCounted
    <2> QED BY <1>b, <2>1, <2>2
  <1> QED
    BY <1>1, <1>2, <1>3, <1>4, <1>5, <1>6, <1>7 DEF Next, ClientStep, EndsCall, SchedulerStep

(***************************************************************************)
(* No task is executed or leased more often than its retries allow.        *)
(***************************************************************************)
THEOREM RunsAreBounded == Spec => []RunsBounded
  <1>1. ASSUME RunInv PROVE RunsBounded
    <2>1. \A t \in Tasks : runs[t] \in Nat /\ retries[t] \in RetryCounts
      BY <1>1 DEF RunInv, StoreInv, TypeInv, TypeOK
    <2> SUFFICES ASSUME RetryLimit # NoLimit, NEW t \in Tasks
                 PROVE  runs[t] <= IF mode = "push" THEN RetryLimit + 1 ELSE RetryLimit
      BY DEF RunsBounded
    <2>2. RetryLimit \in Nat /\ retries[t] \in 0 .. RetryLimit
      BY <2>1, Numbers DEF RetryCounts
    <2>3. runs[t] <= retries[t] + (IF mode = "push" THEN 1 ELSE 0)
      BY <1>1 DEF RunInv, RunsCounted
    <2>4. CASE mode = "push"
      BY <2>1, <2>2, <2>3, <2>4
    <2>5. CASE mode # "push"
      BY <2>1, <2>2, <2>3, <2>5
    <2> QED BY <2>4, <2>5
  <1> QED BY RunInit, RunNext, <1>1, PTL DEF Spec
-----------------------------------------------------------------------------
\* What the scheduler deletes.

(***************************************************************************)
(* When the scheduler has executed a task, what it deletes is that task    *)
(* and no later one of the same name, unless the console freed the name.   *)
(***************************************************************************)
THEOREM DeletesOnlyItsOwn == Spec => DeletesItsOwn
  <1>1. ASSUME NameInv, [Next]_vars
        PROVE  [spc = "execute" /\ spc' = "pick" =>
                  byName \ byName' \subseteq {cur} \cup {t \in byName : name[t] \in freed}]_vars
    <2>1. SUFFICES ASSUME spc = "execute", spc' = "pick", ~UNCHANGED vars
                   PROVE  byName \ byName' \subseteq {cur} \cup {t \in byName : name[t] \in freed}
      OBVIOUS
    <2>2. StoreInv /\ SchedulerAt /\ NamesUsedOnce /\ byName \subseteq 1 .. made
      BY <1>1, Stored DEF NameInv, StoreInv, TypeInv
    <2>3. TaskDone \/ PostponeTask
      BY <1>1, <2>1 DEF Next, ClientStep, EndsCall, Add, CheckOldest, UpdateNextEventTime, Delete,
           DeleteTask, PurgeQueue, FlushQueue, DropTombstones, QueryAndOwnTasks, ModifyTaskLease,
           SchedulerStep, ResetWakeup, PickTask, LowerWakeup, PostponeFails, Dies, Wait, WakeUp,
           ClearEvent, Tick, schedulerVars
    <2>4. CASE PostponeTask
      BY <2>4 DEF PostponeTask
    <2>5. CASE TaskDone
      <3>1. byName \ byName' \subseteq Named(name[cur]) /\ cur \in 1 .. made
        BY <2>1, <2>2, <2>5 DEF TaskDone, RemoveAll, SchedulerAt
      <3>2. \A t \in Named(name[cur]) : t = cur \/ name[t] \in freed
        BY <2>2, <3>1 DEF Named, NamesUsedOnce
      <3> QED BY <3>1, <3>2 DEF Named
    <2> QED BY <2>3, <2>4, <2>5
  <1> QED BY NameInit, NameNext, <1>1, PTL DEF Spec, DeletesItsOwn
=============================================================================
