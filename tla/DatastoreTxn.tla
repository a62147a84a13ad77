---------------------------- MODULE DatastoreTxn ----------------------------
(***************************************************************************)
(* The transactions of the local datastore: LiveTxn, EntityGroupTracker,   *)
(* EntityGroupMetaData, the consistency policies and the transaction       *)
(* manager of google/appengine/datastore/datastore_stub_util.py.           *)
(*                                                                         *)
(* Every RPC runs on the caller's thread.  A transaction serialises its    *)
(* own calls with its lock (_SynchronizeTxn), so a transaction is a        *)
(* process: call[t] is the API call in progress and pc[t] where it stands. *)
(* The processes of Queries are the threads that run a global query        *)
(* (Groom) or write the datastore out (Flush).  Steps are cut wherever the *)
(* code takes a lock or lets another thread see the store.                 *)
(*                                                                         *)
(* An entity is identified with the transaction that put it.               *)
(***************************************************************************)
EXTENDS Integers, Sequences, FiniteSets

CONSTANTS
  Txns,         \* the LiveTxn objects
  Queries,      \* threads that run Groom or Flush
  Keys,         \* entity keys
  Groups,       \* entity groups; their order is the lock order (line 2032)
  GroupOf,      \* the entity group of a key
  Global,       \* the group of Key('__global__', 1)
  Policy,       \* "MasterSlave" or "HighReplication"
  MaxEG,        \* _MAX_EG_PER_TXN
  MaxActions,   \* _MAX_ACTIONS_PER_TXN
  MaxWrites,    \* bound of the model: keys a transaction writes
  CrossGroup,   \* values of allow_multiple_eg the clients use
  Inserts,      \* values of insert the clients use
  VersionReads, \* whether clients Get the __entity_group__ pseudo-kind
  NoValue,      \* no such entity
  NoView,       \* no snapshot
  Free          \* nobody holds the lock

Procs == Txns \cup Queries
Val == Txns \cup {NoValue}
KeysOf(g) == {k \in Keys : GroupOf[k] = g}

\* What a snapshot of a group holds, and what a tracker remembers of a read.
Snapshot(g) == [KeysOf(g) -> Val]
Data == UNION {Snapshot(g) : g \in Groups}
View == [pos : Int, data : Data]

ASSUME ConstantsAssumption ==
  /\ Groups \subseteq Nat
  /\ GroupOf \in [Keys -> Groups]
  /\ Global \in Groups
  /\ Policy \in {"MasterSlave", "HighReplication"}
  /\ MaxEG \in Nat \ {0} /\ MaxActions \in Nat /\ MaxWrites \in Nat
  /\ CrossGroup \subseteq BOOLEAN /\ Inserts \subseteq BOOLEAN
  /\ VersionReads \in BOOLEAN
  /\ Txns \cap Queries = {}
  /\ NoValue \notin Txns
  /\ Free \notin Txns \cup Queries
  /\ NoView \notin Data \cup View

VARIABLES
  state,    \* LiveTxn._state
  xg,       \* LiveTxn._allow_multiple_eg
  view,     \* EntityGroupTracker._read_pos and ._snapshot, per group
  put,      \* keys of the trackers' _put
  ins,      \* those of them put with insert set
  del,      \* keys of the trackers' _delete
  acts,     \* length of LiveTxn._actions
  logPos,   \* EntityGroupMetaData._log_pos
  queue,    \* EntityGroupMetaData._apply_queue
  cache,    \* EntityGroupMetaData._snapshot
  done,     \* writes of the head of the queue that are in the store already
  wlock,    \* EntityGroupMetaData._write_lock
  mdlock,   \* BaseTransactionManager._meta_data_lock
  store,    \* the entities of the backing store
  tasks,    \* transactional tasks the task queue has accepted
  call,     \* the API call a process is executing
  pc,       \* where it stands in that call
  cur,      \* the group it works on (Global when it works on none)
  todo,     \* the groups it still has to visit
  db,       \* history: the entities as the committed transactions leave them
  hist      \* history: the transactions in commit order

txnVars == <<state, xg, view, put, ins, del, acts>>
metaVars == <<logPos, queue, cache, done, wlock>>
procVars == <<call, pc, cur, todo>>
histVars == <<db, hist>>
vars == <<txnVars, metaVars, mdlock, store, tasks, procVars, histVars>>

-----------------------------------------------------------------------------
\* EntityGroupTracker.APPLIED
Applied == -2

Writes(t) == put[t] \cup del[t]
WritesIn(t, g) == Writes(t) \cap KeysOf(g)
Effect(t, k) == IF k \in put[t] THEN t ELSE NoValue

\* The groups that have a tracker in _entity_groups.
Trackers(t) == {g \in Groups : view[t][g] # NoView \/ WritesIn(t, g) # {}}

\* _GetTracker: the limit on the entity groups of one transaction.
CanTrack(t, g) ==
  \/ g \in Trackers(t)
  \/ Cardinality(Trackers(t)) < (IF xg[t] THEN MaxEG ELSE 1)

\* The entities of a group as the store has them.
StoreIn(g) == [k \in KeysOf(g) |-> store[k]]

\* A cached snapshot is used only if it is a non-empty dict (line 2014).
Usable(s) == s # NoView /\ \E k \in DOMAIN s : s[k] # NoValue

\* The other groups whose position _GrabSnapshot checks for contention.
Candidates(t) == {g \in Groups \ {cur[t]} : view[t][g] # NoView}

\* The write locks a process holds, told by where it stands.
Holds(p) ==
  CASE pc[p] \in {"snap", "masterHold", "sweepHold"} -> {cur[p]}
    [] pc[p] = "others" -> Candidates(p) \ todo[p]
    [] pc[p] = "lock" -> Trackers(p) \ todo[p]
    [] pc[p] \in {"log", "send"} -> Trackers(p)
    [] OTHER -> {}

Acquire(p, g) == wlock[g] = Free /\ wlock' = [wlock EXCEPT ![g] = p]
Release(p) ==
  wlock' = [g \in Groups |-> IF g \in Holds(p) THEN Free ELSE wlock[g]]

AnyOrder(g, S) == g \in S

\* sorted(meta_data_list): g is the next of the groups S to be locked.
NextInOrder(g, S) == g \in S /\ \A h \in S : g <= h

\* The entities of a group as the committed transactions leave them.
DbIn(g) == [k \in KeysOf(g) |-> db[k]]

-----------------------------------------------------------------------------
Init ==
  /\ state = [t \in Txns |-> "NONE"]
  /\ xg = [t \in Txns |-> FALSE]
  /\ view = [t \in Txns |-> [g \in Groups |-> NoView]]
  /\ put = [t \in Txns |-> {}]
  /\ ins = [t \in Txns |-> {}]
  /\ del = [t \in Txns |-> {}]
  /\ acts = [t \in Txns |-> 0]
  /\ logPos = [g \in Groups |-> -1]
  /\ queue = [g \in Groups |-> << >>]
  /\ cache = [g \in Groups |-> NoView]
  /\ done = [g \in Groups |-> {}]
  /\ wlock = [g \in Groups |-> Free]
  /\ mdlock = Free
  /\ store = [k \in Keys |-> NoValue]
  /\ tasks = {}
  /\ call = [p \in Procs |-> "none"]
  /\ pc = [p \in Procs |-> "idle"]
  /\ cur = [p \in Procs |-> Global]
  /\ todo = [p \in Procs |-> {}]
  /\ db = [k \in Keys |-> NoValue]
  /\ hist = << >>

\* The process goes on in its call, or returns from it.
Goto(p, place) == pc' = [pc EXCEPT ![p] = place] /\ UNCHANGED call
Return(p) ==
  /\ pc' = [pc EXCEPT ![p] = "idle"]
  /\ call' = [call EXCEPT ![p] = "none"]
  /\ cur' = [cur EXCEPT ![p] = Global]
  /\ todo' = [todo EXCEPT ![p] = {}]

\* _SynchronizeTxn: the transaction is open and no other call is inside it.
Open(t) == state[t] = "ACTIVE" /\ call[t] = "none"

-----------------------------------------------------------------------------
(* Calls that only touch the transaction.                                  *)

\* BeginTransaction; cross-group transactions need High Replication.
Begin(t) ==
  /\ state[t] = "NONE"
  /\ state' = [state EXCEPT ![t] = "ACTIVE"]
  /\ \E multiple \in CrossGroup :
       /\ multiple => Policy = "HighReplication"
       /\ xg' = [xg EXCEPT ![t] = multiple]
  /\ UNCHANGED <<view, put, ins, del, acts, metaVars, mdlock, store, tasks,
                 procVars, histVars>>

\* LiveTxn.Put: buffers the entity and cancels a buffered delete of it.
Put(t, k, insert) ==
  /\ Open(t)
  /\ CanTrack(t, GroupOf[k])
  /\ Cardinality(Writes(t) \cup {k}) <= MaxWrites
  /\ put' = [put EXCEPT ![t] = @ \cup {k}]
  /\ ins' = [ins EXCEPT ![t] = IF insert THEN @ \cup {k} ELSE @ \ {k}]
  /\ del' = [del EXCEPT ![t] = @ \ {k}]
  /\ UNCHANGED <<state, xg, view, acts, metaVars, mdlock, store, tasks,
                 procVars, histVars>>

\* LiveTxn.Delete: buffers the delete and cancels a buffered put of the key.
Delete(t, k) ==
  /\ Open(t)
  /\ CanTrack(t, GroupOf[k])
  /\ Cardinality(Writes(t) \cup {k}) <= MaxWrites
  /\ del' = [del EXCEPT ![t] = @ \cup {k}]
  /\ put' = [put EXCEPT ![t] = @ \ {k}]
  /\ ins' = [ins EXCEPT ![t] = @ \ {k}]
  /\ UNCHANGED <<state, xg, view, acts, metaVars, mdlock, store, tasks,
                 procVars, histVars>>

RoomForOneMore(t) == acts[t] <= MaxActions

\* AddActions: at most max_actions tasks.
RoomForAction(t) == acts[t] < MaxActions

\* LiveTxn.AddActions with one task.
AddAction(t) ==
  /\ Open(t)
  /\ RoomForAction(t)
  /\ acts' = [acts EXCEPT ![t] = @ + 1]
  /\ UNCHANGED <<state, xg, view, put, ins, del, metaVars, mdlock, store,
                 tasks, procVars, histVars>>

\* LiveTxn.Rollback, allowed to an open transaction and to a failed one.
Rollback(t) ==
  /\ state[t] \in {"ACTIVE", "FAILED"}
  /\ call[t] = "none"
  /\ state' = [state EXCEPT ![t] = "ROLLEDBACK"]
  /\ UNCHANGED <<xg, view, put, ins, del, acts, metaVars, mdlock, store,
                 tasks, procVars, histVars>>

-----------------------------------------------------------------------------
(* Reads: LiveTxn._GrabSnapshot and BaseTransactionManager._GrabSnapshot.  *)

\* The process asks the manager for a snapshot of g.  _GetMetaData takes and
\* drops _meta_data_lock, so it waits for a Groom or a Flush to end.
Grab(t, g) ==
  /\ mdlock = Free
  /\ pc' = [pc EXCEPT ![t] = "grab"]
  /\ cur' = [cur EXCEPT ![t] = g]

\* LiveTxn.Get and .GetQueryCursor on a group not read before; on a group
\* already read they answer from the snapshot and change nothing.
Read(t, g) ==
  /\ Open(t)
  /\ view[t][g] = NoView
  /\ CanTrack(t, g)
  /\ Grab(t, g)
  /\ call' = [call EXCEPT ![t] = "read"]
  /\ UNCHANGED <<txnVars, metaVars, mdlock, store, tasks, todo, histVars>>

\* EntityGroupPseudoKind.Get: grabs the snapshot through the tracker, without
\* _SynchronizeTxn, so a failed transaction may do it too.
ReadVersion(t, g) ==
  /\ VersionReads /\ Policy = "HighReplication"
  /\ state[t] \in {"ACTIVE", "FAILED"} /\ call[t] = "none"
  /\ view[t][g] = NoView
  /\ CanTrack(t, g)
  /\ Grab(t, g)
  /\ call' = [call EXCEPT ![t] = "version"]
  /\ UNCHANGED <<txnVars, metaVars, mdlock, store, tasks, todo, histVars>>

\* meta_data._write_lock.acquire()
LockForSnapshot(t) ==
  /\ pc[t] = "grab"
  /\ Acquire(t, cur[t])
  /\ Goto(t, "snap")
  /\ UNCHANGED <<txnVars, logPos, queue, cache, done, mdlock, store, tasks,
                 cur, todo, histVars>>

SnapshotAtOnce(g) == TRUE

\* A snapshot of g can be taken: there is one, or CatchUp is done.
SnapshotReady(g) == Usable(cache[g]) \/ queue[g] = << >>

\* The cached snapshot, or a copy of the group once it has caught up.
TakeSnapshot(t) ==
  LET g == cur[t]
      data == IF Usable(cache[g]) THEN cache[g] ELSE StoreIn(g)
  IN /\ pc[t] = "snap"
     /\ SnapshotReady(g)
     /\ cache' = [cache EXCEPT ![g] = data]
     /\ view' = [view EXCEPT ![t][g] = [pos |-> logPos[g], data |-> data]]
     /\ Release(t)
     /\ \/ /\ call[t] = "read" /\ Candidates(t) # {}
           /\ Goto(t, "others")
           /\ todo' = [todo EXCEPT ![t] = Candidates(t)]
           /\ UNCHANGED cur
        \/ /\ \/ call[t] = "version"
              \/ call[t] = "read" /\ Candidates(t) = {}
           /\ Return(t)
        \/ /\ call[t] = "commit"
           /\ Goto(t, "check")
           /\ cur' = [cur EXCEPT ![t] = Global]
           /\ UNCHANGED todo
     /\ UNCHANGED <<state, xg, put, ins, del, acts, logPos, queue, done,
                    mdlock, store, tasks, histVars>>

\* _AcquireWriteLocks on the groups read before.
LockOther(t) ==
  /\ pc[t] = "others"
  /\ \E g \in Groups :
       /\ NextInOrder(g, todo[t])
       /\ Acquire(t, g)
       /\ todo' = [todo EXCEPT ![t] = @ \ {g}]
  /\ UNCHANGED <<txnVars, logPos, queue, cache, done, mdlock, store, tasks,
                 call, pc, cur, histVars>>

NotContended(t) == FALSE

\* A group read before was logged to since.
Contended(t) == \E g \in Candidates(t) : logPos[g] # view[t][g].pos

\* The transaction fails if a group it has read was logged to since.
CheckOthers(t) ==
  /\ pc[t] = "others"
  /\ todo[t] = {}
  /\ state' = IF Contended(t) THEN [state EXCEPT ![t] = "FAILED"] ELSE state
  /\ Release(t)
  /\ Return(t)
  /\ UNCHANGED <<xg, view, put, ins, del, acts, logPos, queue, cache, done,
                 mdlock, store, tasks, histVars>>

-----------------------------------------------------------------------------
(* Applying: LiveTxn._Apply, under the group's write lock, from            *)
(* _GrabSnapshot (catching up), MasterSlave _OnCommit, Groom and Flush.    *)

\* p is where it applies the head of the queue of its group.
Applying(p) ==
  /\ pc[p] \in {"snap", "masterHold", "sweepHold"}
  /\ pc[p] = "snap" => ~ Usable(cache[cur[p]])
  /\ queue[cur[p]] # << >>

RemainingPuts(t, g) == (put[t] \cap KeysOf(g)) \ done[g]

\* The writes of the transaction to g that are still to be done.
Remaining(t, g) == WritesIn(t, g) \ done[g]

\* _Put or _Delete of one key; the puts come before the deletes.
ApplyKey(p) ==
  LET g == cur[p]
      t == Head(queue[g])
      rest == Remaining(t, g)
  IN /\ Applying(p)
     /\ \E k \in rest :
          /\ k \in del[t] => rest \cap put[t] = {}
          /\ store' = [store EXCEPT ![k] = Effect(t, k)]
          /\ done' = [done EXCEPT ![g] = @ \cup {k}]
     /\ UNCHANGED <<txnVars, logPos, queue, cache, wlock, mdlock, tasks,
                    procVars, histVars>>

\* The tracker is marked applied and the transaction leaves the queue (Unlog).
EndApply(p) ==
  LET g == cur[p]
      t == Head(queue[g])
  IN /\ Applying(p)
     /\ Remaining(t, g) = {}
     /\ done' = [done EXCEPT ![g] = {}]
     /\ queue' = [queue EXCEPT ![g] = Tail(@)]
     /\ view' = [view EXCEPT ![t][g].pos = Applied]
     /\ UNCHANGED <<state, xg, put, ins, del, acts, logPos, cache, wlock,
                    mdlock, store, tasks, procVars, histVars>>

-----------------------------------------------------------------------------
(* LiveTxn.Commit                                                          *)

\* _GetAllTrackers: with no tracker, one for the global group.
Commit(t) ==
  /\ Open(t)
  /\ call' = [call EXCEPT ![t] = "commit"]
  /\ pc' = [pc EXCEPT ![t] = "check"]
  /\ todo' = [todo EXCEPT ![t] = IF Trackers(t) = {} THEN {Global}
                                                     ELSE Trackers(t)]
  /\ UNCHANGED <<txnVars, metaVars, mdlock, store, tasks, cur, histVars>>

\* A tracker with no snapshot takes one now.
GrabForCommit(t) ==
  /\ pc[t] = "check"
  /\ \E g \in todo[t] : view[t][g] = NoView /\ Grab(t, g)
  /\ UNCHANGED <<txnVars, metaVars, mdlock, store, tasks, call, todo,
                 histVars>>

\* The ways a commit ends without logging anything.
Abandon(t) ==
  /\ state' = [state EXCEPT ![t] = "ROLLEDBACK"]
  /\ Release(t)
  /\ Return(t)
  /\ UNCHANGED <<xg, view, put, ins, del, acts, logPos, queue, cache, done,
                 mdlock, store, tasks, histVars>>

NoCollisions(t, g) == {}

\* The keys the transaction inserts that its snapshot of g holds already.
Collisions(t, g) ==
  {k \in ins[t] \cap KeysOf(g) : view[t][g].data[k] # NoValue}

\* An entity to insert is in the snapshot: the commit fails.
InsertCollides(t) ==
  /\ pc[t] = "check"
  /\ \E g \in todo[t] : view[t][g] # NoView /\ Collisions(t, g) # {}
  /\ Abandon(t)

\* The inserts of one tracker are all new.
CheckTracker(t) ==
  /\ pc[t] = "check"
  /\ \E g \in todo[t] :
       /\ view[t][g] # NoView
       /\ Collisions(t, g) = {}
       /\ todo' = [todo EXCEPT ![t] = @ \ {g}]
  /\ UNCHANGED <<txnVars, metaVars, mdlock, store, tasks, call, pc, cur,
                 histVars>>

\* Nothing was written and no action added: Rollback, and success.
CommitEmpty(t) ==
  /\ pc[t] = "check" /\ todo[t] = {}
  /\ Writes(t) = {} /\ acts[t] = 0
  /\ Abandon(t)

StartLocking(t) ==
  /\ pc[t] = "check" /\ todo[t] = {}
  /\ Writes(t) # {} \/ acts[t] > 0
  /\ pc' = [pc EXCEPT ![t] = "lock"]
  /\ todo' = [todo EXCEPT ![t] = Trackers(t)]
  /\ UNCHANGED <<txnVars, metaVars, mdlock, store, tasks, call, cur, histVars>>

\* _AcquireWriteLocks on all the groups of the transaction.
LockTracker(t) ==
  /\ pc[t] = "lock"
  /\ \E g \in Groups :
       /\ NextInOrder(g, todo[t])
       /\ Acquire(t, g)
       /\ todo' = [todo EXCEPT ![t] = @ \ {g}]
  /\ UNCHANGED <<txnVars, logPos, queue, cache, done, mdlock, store, tasks,
                 call, pc, cur, histVars>>

NoneMoved(t) == {}
WrittenMoved(t) ==
  {g \in Trackers(t) : WritesIn(t, g) # {} /\ logPos[g] # view[t][g].pos}

\* The groups that were logged to since the transaction read them.
Moved(t) == {g \in Trackers(t) : logPos[g] # view[t][g].pos}

\* CONCURRENT_TRANSACTION: a group moved since its snapshot.
CommitConflict(t) ==
  /\ pc[t] = "lock" /\ todo[t] = {}
  /\ Moved(t) # {}
  /\ Abandon(t)

\* One more transaction in the queues, and the next position, of its groups.
QueueWith(t) == [g \in Groups |->
  IF g \in Trackers(t) THEN Append(queue[g], t) ELSE queue[g]]
NextPos(t) == [g \in Groups |->
  IF g \in Trackers(t) THEN logPos[g] + 1 ELSE logPos[g]]
NoCache(t) == [g \in Groups |-> IF g \in Trackers(t) THEN NoView ELSE cache[g]]

LogKeepsCache(t) ==
  queue' = QueueWith(t) /\ logPos' = NextPos(t) /\ UNCHANGED cache
LogKeepsPosition(t) ==
  queue' = QueueWith(t) /\ UNCHANGED logPos /\ cache' = NoCache(t)

\* EntityGroupMetaData.Log on every group of the transaction.
Log(t) == queue' = QueueWith(t) /\ logPos' = NextPos(t) /\ cache' = NoCache(t)

\* No group moved, nor will: all are locked.
Validate(t) ==
  /\ pc[t] = "lock" /\ todo[t] = {}
  /\ Moved(t) = {}
  /\ Goto(t, "log")
  /\ UNCHANGED <<txnVars, metaVars, mdlock, store, tasks, cur, todo, histVars>>

\* The transaction is logged in all its groups and so has committed.
CommitLog(t) ==
  /\ pc[t] = "log"
  /\ Log(t)
  /\ state' = [state EXCEPT ![t] = "COMMITED"]
  /\ db' = [k \in Keys |-> IF k \in Writes(t) THEN Effect(t, k) ELSE db[k]]
  /\ hist' = Append(hist, t)
  /\ Goto(t, "send")
  /\ UNCHANGED <<xg, view, put, ins, del, acts, done, wlock, mdlock, store,
                 tasks, cur, todo>>

MaySendEarly(t) == pc[t] \in {"lock", "log", "send"}

\* Actions are sent once the transaction is logged.
MaySend(t) == pc[t] = "send"

\* taskqueue.Add of one action; if it fails the action is dropped.
SendAction(t) ==
  /\ MaySend(t)
  /\ acts[t] > 0
  /\ acts' = [acts EXCEPT ![t] = @ - 1]
  /\ tasks' \in {tasks, tasks \cup {<<t, acts[t]>>}}
  /\ UNCHANGED <<state, xg, view, put, ins, del, metaVars, mdlock, store,
                 procVars, histVars>>

\* Any other error than an ApplicationError leaves the commit: the action and
\* those after it are not sent, and the policy is not told.
SendFails(t) ==
  /\ pc[t] = "send"
  /\ acts[t] > 0
  /\ Release(t)
  /\ Return(t)
  /\ UNCHANGED <<txnVars, logPos, queue, cache, done, mdlock, store, tasks,
                 histVars>>

OnCommitLater(t) == Return(t)

\* _OnCommit: Master/Slave applies the transaction now.
OnCommit(t) ==
  \/ Policy = "HighReplication" /\ Return(t)
  \/ /\ Policy = "MasterSlave"
     /\ Goto(t, "master")
     /\ todo' = [todo EXCEPT ![t] = Trackers(t)]
     /\ UNCHANGED cur

\* The actions are sent: the locks are released and the policy is told.
CommitRelease(t) ==
  /\ pc[t] = "send"
  /\ acts[t] = 0
  /\ Release(t)
  /\ OnCommit(t)
  /\ UNCHANGED <<txnVars, logPos, queue, cache, done, mdlock, store, tasks,
                 histVars>>

-----------------------------------------------------------------------------
(* MasterSlaveConsistencyPolicy._OnCommit                                  *)

LockToCatchUp(t) ==
  /\ pc[t] = "master"
  /\ \E g \in todo[t] :
       /\ Acquire(t, g)
       /\ cur' = [cur EXCEPT ![t] = g]
       /\ todo' = [todo EXCEPT ![t] = @ \ {g}]
  /\ Goto(t, "masterHold")
  /\ UNCHANGED <<txnVars, logPos, queue, cache, done, mdlock, store, tasks,
                 histVars>>

StaysLocked(t) ==
  /\ pc[t] = "masterHold"
  /\ queue[cur[t]] = << >>
  /\ Goto(t, "master")
  /\ cur' = [cur EXCEPT ![t] = Global]
  /\ UNCHANGED <<txnVars, metaVars, mdlock, store, tasks, todo, histVars>>

\* Nothing is left to apply in the group.
CaughtUp(t) ==
  /\ pc[t] = "masterHold"
  /\ queue[cur[t]] = << >>
  /\ Release(t)
  /\ Goto(t, "master")
  /\ cur' = [cur EXCEPT ![t] = Global]
  /\ UNCHANGED <<txnVars, logPos, queue, cache, done, mdlock, store, tasks,
                 todo, histVars>>

-----------------------------------------------------------------------------
(* Groom and Flush: one thread at a time visits every group.               *)

StartSweep(p) ==
  /\ mdlock = Free
  /\ mdlock' = p
  /\ pc' = [pc EXCEPT ![p] = "sweep"]
  /\ todo' = [todo EXCEPT ![p] = Groups]
  /\ UNCHANGED <<txnVars, metaVars, store, tasks, cur, histVars>>

\* Write() at the end of a Master/Slave commit.
FlushAfterCommit(t) ==
  /\ pc[t] = "master" /\ todo[t] = {}
  /\ StartSweep(t)
  /\ UNCHANGED call

\* Write, or SetConsistencyPolicy, called by another thread.
Flush(q) ==
  /\ pc[q] = "idle"
  /\ StartSweep(q)
  /\ call' = [call EXCEPT ![q] = "flush"]

\* A global query; only the High Replication policy has an _OnGroom.
Groom(q) ==
  /\ Policy = "HighReplication"
  /\ pc[q] = "idle"
  /\ StartSweep(q)
  /\ call' = [call EXCEPT ![q] = "groom"]

\* The next group of the sweep: one with nothing queued is passed over.
VisitGroup(p) ==
  /\ pc[p] = "sweep"
  /\ \E g \in todo[p] :
       /\ todo' = [todo EXCEPT ![p] = @ \ {g}]
       /\ IF queue[g] = << >>
          THEN UNCHANGED <<pc, cur>>
          ELSE /\ pc' = [pc EXCEPT ![p] = "sweepWait"]
               /\ cur' = [cur EXCEPT ![p] = g]
  /\ UNCHANGED <<txnVars, metaVars, mdlock, store, tasks, call, histVars>>

SweepUnlocked(p) ==
  /\ pc[p] = "sweepWait"
  /\ Goto(p, "sweepHold")
  /\ UNCHANGED <<txnVars, metaVars, mdlock, store, tasks, cur, todo, histVars>>

\* meta_data._write_lock.acquire()
LockForSweep(p) ==
  /\ pc[p] = "sweepWait"
  /\ Acquire(p, cur[p])
  /\ Goto(p, "sweepHold")
  /\ UNCHANGED <<txnVars, logPos, queue, cache, done, mdlock, store, tasks,
                 cur, todo, histVars>>

\* Nothing is left to apply, or _ShouldApply says not yet.
LeaveGroup(p) ==
  /\ pc[p] = "sweepHold"
  /\ \/ queue[cur[p]] = << >>
     \/ call[p] = "groom" /\ done[cur[p]] = {}
  /\ Release(p)
  /\ Goto(p, "sweep")
  /\ cur' = [cur EXCEPT ![p] = Global]
  /\ UNCHANGED <<txnVars, logPos, queue, cache, done, mdlock, store, tasks,
                 todo, histVars>>

EndSweepLocked(p) ==
  /\ pc[p] = "sweep" /\ todo[p] = {}
  /\ Return(p)
  /\ UNCHANGED <<txnVars, metaVars, mdlock, store, tasks, histVars>>

\* Every group was visited: _meta_data_lock is released.
EndSweep(p) ==
  /\ pc[p] = "sweep" /\ todo[p] = {}
  /\ mdlock' = Free
  /\ Return(p)
  /\ UNCHANGED <<txnVars, metaVars, store, tasks, histVars>>

-----------------------------------------------------------------------------
\* What the client of a transaction asks of it.
Client(t) ==
  \/ Begin(t)
  \/ \E k \in Keys, insert \in Inserts : Put(t, k, insert)
  \/ \E k \in Keys : Delete(t, k)
  \/ AddAction(t)
  \/ Rollback(t)
  \/ \E g \in Groups : Read(t, g) \/ ReadVersion(t, g)
  \/ Commit(t)

\* The steps of a call in progress.
Step(p) ==
  \/ ApplyKey(p)
  \/ EndApply(p)
  \/ VisitGroup(p)
  \/ LockForSweep(p)
  \/ LeaveGroup(p)
  \/ EndSweep(p)

TxnStep(t) ==
  \/ Step(t)
  \/ LockForSnapshot(t)
  \/ TakeSnapshot(t)
  \/ LockOther(t)
  \/ CheckOthers(t)
  \/ GrabForCommit(t)
  \/ InsertCollides(t)
  \/ CheckTracker(t)
  \/ CommitEmpty(t)
  \/ StartLocking(t)
  \/ LockTracker(t)
  \/ CommitConflict(t)
  \/ Validate(t)
  \/ CommitLog(t)
  \/ SendAction(t)
  \/ SendFails(t)
  \/ CommitRelease(t)
  \/ LockToCatchUp(t)
  \/ CaughtUp(t)
  \/ FlushAfterCommit(t)

Next ==
  \/ \E t \in Txns : Client(t) \/ TxnStep(t)
  \/ \E q \in Queries : Flush(q) \/ Groom(q) \/ Step(q)

Spec == Init /\ [][Next]_vars

\* Every thread inside a call is scheduled, and so are its steps.
FairSpec ==
  /\ Spec
  /\ \A t \in Txns : WF_vars(TxnStep(t))
  /\ \A q \in Queries : WF_vars(Step(q))

\* Global queries keep coming, and a groom that could apply a transaction again
\* and again does so in the end: the time-based policy only waits for a time.
GroomedSpec ==
  /\ FairSpec
  /\ \A q \in Queries : WF_vars(Groom(q)) /\ SF_vars(ApplyKey(q) \/ EndApply(q))

-----------------------------------------------------------------------------
Calls == {"none", "read", "version", "commit", "flush", "groom"}
Places == {"idle", "grab", "snap", "others", "check", "lock", "log", "send",
           "master", "masterHold", "sweep", "sweepWait", "sweepHold"}

\* The variables have the types the code gives them.
TypeOK ==
  /\ state \in [Txns -> {"NONE", "ACTIVE", "FAILED", "COMMITED", "ROLLEDBACK"}]
  /\ xg \in [Txns -> BOOLEAN]
  /\ view \in [Txns -> [Groups -> View \cup {NoView}]]
  /\ put \in [Txns -> SUBSET Keys]
  /\ ins \in [Txns -> SUBSET Keys]
  /\ del \in [Txns -> SUBSET Keys]
  /\ acts \in [Txns -> 0 .. MaxActions]
  /\ logPos \in [Groups -> Int]
  /\ queue \in [Groups -> Seq(Txns)]
  /\ cache \in [Groups -> Data \cup {NoView}]
  /\ done \in [Groups -> SUBSET Keys]
  /\ wlock \in [Groups -> Procs \cup {Free}]
  /\ mdlock \in Procs \cup {Free}
  /\ store \in [Keys -> Val]
  /\ tasks \subseteq Txns \X (1 .. MaxActions)
  /\ call \in [Procs -> Calls]
  /\ pc \in [Procs -> Places]
  /\ cur \in [Procs -> Groups]
  /\ todo \in [Procs -> SUBSET Groups]
  /\ db \in [Keys -> Val]
  /\ hist \in Seq(Txns)

-----------------------------------------------------------------------------
(* Locks                                                                   *)

Sweeping(p) == pc[p] \in {"sweep", "sweepWait", "sweepHold"}

\* The write locks are held by exactly the processes that stand where the code
\* holds them, and _meta_data_lock by the process inside Groom or Flush.
LocksHeld ==
  /\ \A g \in Groups, p \in Procs : (wlock[g] = p) <=> (g \in Holds(p))
  /\ \A p \in Procs : (mdlock = p) <=> Sweeping(p)

\* The groups whose write lock a process will wait for next.
WaitsFor(p) ==
  CASE pc[p] \in {"grab", "sweepWait"} -> {cur[p]}
    [] pc[p] \in {"others", "lock"} -> {g \in Groups : NextInOrder(g, todo[p])}
    [] pc[p] = "master" -> todo[p]
    [] OTHER -> {}

\* A process that holds write locks asks only for those of later groups, and
\* never for _meta_data_lock, which a Groom or Flush holds while it waits for
\* write locks: there is no circle of waiting processes.
LocksOrdered ==
  \A p \in Procs, h \in Groups : wlock[h] = p =>
    /\ \A g \in WaitsFor(p) : h < g
    /\ pc[p] \notin {"idle", "check", "master"}

-----------------------------------------------------------------------------
(* The store, the apply queues and the snapshots                           *)

\* EntityGroupMetaData._snapshot, when there is one, is what the commits so far
\* have left of the group, nothing of which is waiting to be applied.
CacheCurrent ==
  \A g \in Groups :
    cache[g] # NoView => queue[g] = << >> /\ cache[g] = DbIn(g)

\* A tracker whose position is the group's log position has an up-to-date
\* snapshot: that is what lets Commit compare positions and not entities.
PositionTellsChange ==
  \A t \in Txns, g \in Groups :
    view[t][g] # NoView =>
      /\ view[t][g].pos <= logPos[g]
      /\ view[t][g].pos = logPos[g] => view[t][g].data = DbIn(g)

\* The store and the apply queue of a group add up to its committed state: a
\* key shows the last queued write of it or, if none is queued, the store; the
\* writes done so far of the transaction being applied are in the store.
StorePlusQueue ==
  \A k \in Keys :
    LET q == queue[GroupOf[k]]
        pending == {i \in DOMAIN q : k \in Writes(q[i])}
    IN /\ pending = {} => store[k] = db[k]
       /\ \A i \in pending :
            (\A j \in pending : j <= i) => db[k] = Effect(q[i], k)
       /\ k \in done[GroupOf[k]] =>
            q # << >> /\ store[k] = Effect(Head(q), k)

\* What _Apply and Unlog assert, and more: a group has at most one transaction
\* queued, for whoever commits to it has a snapshot and so saw it caught up.
\* That transaction is committed, not yet applied, and the last logged.
QueuedOnce ==
  \A g \in Groups :
    /\ Len(queue[g]) <= 1
    /\ \A i \in DOMAIN queue[g] :
         LET t == queue[g][i]
         IN /\ state[t] = "COMMITED"
            /\ view[t][g] # NoView
            /\ view[t][g].pos = logPos[g] - 1

\* Under Master/Slave a commit returns with its writes in the store, unless an
\* error left it with actions to send.
MasterSlaveApplied ==
  Policy = "MasterSlave" =>
    \A t \in Txns : state[t] = "COMMITED" /\ call[t] = "none" /\ acts[t] = 0 =>
      \A g \in Trackers(t) : view[t][g].pos = Applied

\* The groups an open transaction has read were all, at one moment, as it read
\* them: every position is the one the group had after some prefix of commits.
ConsistentSnapshots ==
  \A t \in Txns : state[t] = "ACTIVE" /\ call[t] = "none" =>
    \E n \in 0 .. Len(hist) : \A g \in Groups :
      view[t][g] # NoView =>
        view[t][g].pos =
          Cardinality({i \in 1 .. n : g \in Trackers(hist[i])}) - 1

\* Only a committed transaction has tasks in the task queue.
TasksOnlyOfCommitted ==
  \A task \in tasks : state[task[1]] = "COMMITED"

\* The step of a commit finds every group it read as the transaction saw it.
NoLostUpdate ==
  [][\A t \in Txns : state[t] = "ACTIVE" /\ state'[t] = "COMMITED" =>
       \A g \in Groups : view[t][g] # NoView => view[t][g].data = DbIn(g)]_vars

\* An entity put as an insert never replaces a stored one: the check of
\* Commit, made long before the entity is applied, still holds then.
InsertNeverOverwrites ==
  [][\A t \in Txns, k \in Keys :
       k \in ins[t] /\ store[k] # t /\ store'[k] = t => store[k] = NoValue]_vars

\* Every call returns: no transaction waits for ever for a lock or for another
\* transaction.
CallsReturn == \A t \in Txns : call[t] # "none" ~> call[t] = "none"

\* With global queries coming, what is committed is in the store in the end.
EventuallyApplied ==
  \A t \in Txns : state[t] = "COMMITED" ~>
    \A g \in Groups : \A i \in DOMAIN queue[g] : queue[g][i] # t

\* What the clients see is a TransactionalStore.
Seen(t, g) == IF view[t][g] = NoView THEN NoView ELSE view[t][g].data
Promise == INSTANCE TransactionalStore WITH
  status <- state,
  seen <- [t \in Txns |-> [g \in Groups |-> Seen(t, g)]]
Serializable == Promise!StoreSpec

=============================================================================
