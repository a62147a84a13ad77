----------------------- MODULE DatastoreCommitProofs -----------------------
(***************************************************************************)
(* What a commit of DatastoreTxn leaves behind, for any transactions,      *)
(* groups and keys: the tasks it sends, the inserts it makes and, under    *)
(* Master/Slave, the writes it has applied when it returns; and what the   *)
(* reads of a transaction see of the commits of others.                    *)
(***************************************************************************)
EXTENDS DatastoreDataProofs, FiniteSetTheorems

\* Where a transaction stands between its log and the end of its commit.
Late == {"send", "master", "masterHold"}
LatePlace ==
  \A t \in Txns : pc[t] \in Late \/ Sweeping(t) => state[t] = "COMMITED"

IsApplied(t, g) == view[t][g].pos = Applied
InQueue(t, g) == \E i \in DOMAIN queue[g] : queue[g][i] = t

\* The tracker of a committed transaction is applied unless it waits for it.
Reaches ==
  \A t \in Txns : state[t] = "COMMITED" =>
    \A g \in Trackers(t) :
      view[t][g] # NoView /\ (IsApplied(t, g) \/ InQueue(t, g))

\* How far _OnCommit of the Master/Slave policy has come.
Progress(t) ==
  /\ pc[t] = "master" => \A g \in Trackers(t) \ todo[t] : IsApplied(t, g)
  /\ pc[t] = "masterHold" =>
       \A g \in Trackers(t) \ (todo[t] \cup {cur[t]}) : IsApplied(t, g)
  /\ pc[t] \notin Late => acts[t] > 0 \/ \A g \in Trackers(t) : IsApplied(t, g)
MasterProgress ==
  Policy = "MasterSlave" => \A t \in Txns : state[t] = "COMMITED" => Progress(t)

-----------------------------------------------------------------------------
\* Only SendAction puts tasks in the task queue.
LEMMA OnlySends ==
  ASSUME NEW p \in Procs, ProcStep(p), ~ (p \in Txns /\ SendAction(p))
  PROVE  UNCHANGED tasks
  <1>1. CASE p \in Txns /\ Client(p)
    BY <1>1
    DEF Client, Begin, Put, Delete, AddAction, Rollback, Read, ReadVersion,
        Commit
  <1>2. CASE Step(p)
    BY <1>2
    DEF Step, ApplyKey, EndApply, VisitGroup, LockForSweep, LeaveGroup, EndSweep
  <1>3. CASE p \in Txns /\ TxnStep(p)
    BY <1>2, <1>3
    DEF TxnStep, LockForSnapshot, TakeSnapshot, LockOther, CheckOthers,
        GrabForCommit, InsertCollides, CheckTracker, CommitEmpty, StartLocking,
        LockTracker, CommitConflict, Validate, CommitLog, SendFails, CommitRelease,
        LockToCatchUp, CaughtUp, FlushAfterCommit, StartSweep, Abandon
  <1>4. CASE p \in Queries /\ (Flush(p) \/ Groom(p))
    BY <1>4 DEF Flush, Groom, StartSweep
  <1> QED BY <1>1, <1>2, <1>3, <1>4 DEF ProcStep

\* A committed transaction stays so and keeps its trackers; what is applied
\* stays applied.
LEMMA CommittedStays ==
  ASSUME Inv, NEW p \in Procs, ProcStep(p), NEW t \in Txns,
         state[t] = "COMMITED"
  PROVE  /\ state'[t] = "COMMITED"
         /\ Trackers(t)' = Trackers(t)
         /\ \A g \in Groups :
              /\ view'[t][g] = NoView <=> view[t][g] = NoView
              /\ view[t][g] # NoView /\ IsApplied(t, g) => IsApplied(t, g)'
  <1> USE DEF Inv, BaseInv, DataInv, TypeInv
  <1>0. StatePlace(t) /\ TypeOK
    BY DEF PlaceInv
  <1>1. /\ state'[t] = "COMMITED" /\ put'[t] = put[t] /\ del'[t] = del[t]
        /\ view'[t] = view[t] \/ EndApply(p)
    <2>1. CASE p # t
      BY <2>1, FrameTxn
    <2>2. CASE p = t /\ (ApplyKey(t) \/ EndApply(t))
      BY <2>2 DEF ApplyKey, EndApply, txnVars
    <2>3. CASE p = t /\ (TakeSnapshot(t) \/ CommitLog(t))
      BY <1>0, <2>3 DEF TakeSnapshot, CommitLog, StatePlace, Early
    <2>4. CASE p = t /\ ~ ApplyKey(t) /\ ~ EndApply(t)
               /\ ~ TakeSnapshot(t) /\ ~ CommitLog(t)
      BY <2>4, MostAreQuiet DEF Quiet
    <2> QED BY <2>1, <2>2, <2>3, <2>4
  <1>2. \A g \in Groups :
          /\ view'[t][g] = NoView <=> view[t][g] = NoView
          /\ view[t][g] # NoView /\ IsApplied(t, g) => IsApplied(t, g)'
    <2>1. CASE EndApply(p)
      BY <2>1, EndApplyViews DEF IsApplied
    <2>2. CASE ~ EndApply(p)
      BY <1>1, <2>2 DEF IsApplied
    <2> QED BY <2>1, <2>2
  <1>3. Trackers(t)' = Trackers(t)
    BY <1>1, <1>2 DEF Trackers, WritesIn, Writes
  <1> QED BY <1>1, <1>2, <1>3

\* A transaction leaves a queue only as it is marked applied.
LEMMA QueueKeeps ==
  ASSUME Inv, NEW p \in Procs, ProcStep(p), NEW t \in Txns, NEW g \in Groups,
         view[t][g] # NoView, InQueue(t, g)
  PROVE  InQueue(t, g)' \/ IsApplied(t, g)'
  <1> USE DEF Inv, BaseInv, DataInv, TypeInv, InQueue
  <1>1. CASE queue'[g] = queue[g]
    BY <1>1
  <1>2. CASE EndApply(p) /\ g = cur[p]
    <2>1. queue[g] \in Seq(Txns) /\ queue[g] # << >> /\ queue'[g] = Tail(queue[g])
      BY <1>2 DEF EndApply, Applying, TypeOK
    <2>2. CASE t = Head(queue[g])
      BY <1>2, <2>2, EndApplyViews DEF IsApplied
    <2>3. CASE t # Head(queue[g])
      <3>1. PICK i \in DOMAIN queue[g] : queue[g][i] = t
        OBVIOUS
      <3>2. i # 1
        BY <2>1, <2>3, <3>1, TailCovers
      <3>3. i - 1 \in DOMAIN queue'[g] /\ queue'[g][i - 1] = t
        BY <2>1, <3>1, <3>2, TailCovers
      <3> QED BY <3>3
    <2> QED BY <2>2, <2>3
  <1>3. CASE p \in Txns /\ CommitLog(p) /\ g \in Trackers(p)
    <2>1. queue[g] \in Seq(Txns) /\ queue'[g] = Append(queue[g], p)
      BY <1>3 DEF CommitLog, Log, QueueWith, TypeOK
    <2> QED BY <1>3, <2>1, AppendCovers
  <1>4. \/ queue'[g] = queue[g]
        \/ EndApply(p) /\ g = cur[p]
        \/ p \in Txns /\ CommitLog(p) /\ g \in Trackers(p)
    <2>1. CASE EndApply(p)
      BY <2>1 DEF EndApply, TypeOK
    <2>2. CASE p \in Txns /\ CommitLog(p)
      BY <2>2 DEF CommitLog, Log, QueueWith
    <2>3. CASE ApplyKey(p) \/ (p \in Txns /\ TakeSnapshot(p))
      BY <2>3 DEF ApplyKey, TakeSnapshot
    <2>4. CASE ~ ApplyKey(p) /\ ~ EndApply(p)
               /\ ~ (p \in Txns /\ (TakeSnapshot(p) \/ CommitLog(p)))
      BY <2>4, MostAreQuiet DEF Quiet
    <2> QED BY <2>1, <2>2, <2>3, <2>4
  <1> QED BY <1>1, <1>2, <1>3, <1>4

\* Once a transaction is out of its commit, its actions stay.
LEMMA CommittedActs ==
  ASSUME Inv, NEW p \in Procs, ProcStep(p), NEW t \in Txns,
         state[t] = "COMMITED", pc[t] \notin Late
  PROVE  acts'[t] = acts[t]
  <1> USE DEF Inv, BaseInv, DataInv, TypeInv, Late
  <1>0. StatePlace(t)
    BY DEF PlaceInv
  <1>1. CASE p # t
    BY <1>1, FrameTxn
  <1>2. CASE p = t /\ Client(t)
    BY <1>2
    DEF Client, Begin, Put, Delete, AddAction, Rollback, Read, ReadVersion,
        Commit, Open, txnVars
  <1>3. CASE Step(t)
    BY <1>3
    DEF Step, ApplyKey, EndApply, VisitGroup, LockForSweep, LeaveGroup, EndSweep,
        txnVars
  <1>4. CASE p = t /\ TxnStep(t)
    BY <1>3, <1>4
    DEF TxnStep, LockForSnapshot, TakeSnapshot, LockOther, CheckOthers,
        GrabForCommit, InsertCollides, CheckTracker, CommitEmpty, StartLocking,
        LockTracker, CommitConflict, Validate, CommitLog, SendAction, MaySend,
        SendFails, CommitRelease, LockToCatchUp, CaughtUp, FlushAfterCommit,
        StartSweep, Abandon, txnVars
  <1> QED BY <1>1, <1>2, <1>3, <1>4, ConstantsAssumption DEF ProcStep

\* How a transaction moves once it has committed.
LEMMA CommittedMoves ==
  ASSUME Inv, NEW t \in Txns, Client(t) \/ TxnStep(t), state[t] = "COMMITED",
         Policy = "MasterSlave"
  PROVE  \/ pc'[t] = pc[t] /\ todo'[t] = todo[t] /\ cur'[t] = cur[t]
         \/ pc'[t] \in {"send", "master"} /\ todo'[t] = Trackers(t)
         \/ /\ pc[t] = "master" /\ pc'[t] = "masterHold"
            /\ todo'[t] \cup {cur'[t]} = todo[t]
         \/ /\ pc[t] = "masterHold" /\ pc'[t] = "master"
            /\ todo'[t] = todo[t] /\ queue[cur[t]] = << >>
         \/ pc[t] = "master" /\ pc'[t] \notin Late /\ todo[t] = {}
         \/ pc[t] \notin Late /\ pc'[t] \notin Late
         \/ pc'[t] \notin Late /\ acts'[t] > 0
  <1> USE DEF Inv, BaseInv, DataInv, TypeInv, Late
  <1>0. StatePlace(t) /\ CommitPlace(t) /\ TypeOK /\ t \in Procs
    BY DEF PlaceInv, CommitViewed, Procs
  <1>1. ~ Client(t)
    <2>1. ~ Begin(t) /\ ~ AddAction(t) /\ ~ Rollback(t) /\ ~ Commit(t)
      BY DEF Begin, AddAction, Rollback, Commit, Open
    <2>2. \A k \in Keys, i \in Inserts : ~ Put(t, k, i)
      BY DEF Put, Open
    <2>3. \A k \in Keys : ~ Delete(t, k)
      BY DEF Delete, Open
    <2>4. \A g \in Groups : ~ Read(t, g) /\ ~ ReadVersion(t, g)
      BY DEF Read, ReadVersion, Open
    <2> QED BY <2>1, <2>2, <2>3, <2>4 DEF Client
  <1>2. CASE ApplyKey(t) \/ EndApply(t) \/ SendAction(t)
    BY <1>2 DEF ApplyKey, EndApply, SendAction, procVars
  <1>3. CASE VisitGroup(t) \/ LockForSweep(t) \/ LeaveGroup(t) \/ EndSweep(t)
    <2>1. /\ pc[t] \in {"sweep", "sweepWait", "sweepHold"}
          /\ pc'[t] \in {"sweep", "sweepWait", "sweepHold", "idle"}
      BY <1>0, <1>3
      DEF VisitGroup, LockForSweep, LeaveGroup, EndSweep, Goto, Return, TypeOK
    <2> QED BY <2>1
  <1>4. CASE \/ LockForSnapshot(t) \/ TakeSnapshot(t) \/ LockOther(t)
             \/ CheckOthers(t) \/ GrabForCommit(t) \/ InsertCollides(t)
             \/ CheckTracker(t) \/ CommitEmpty(t) \/ StartLocking(t)
             \/ LockTracker(t) \/ CommitConflict(t) \/ Validate(t)
             \/ CommitLog(t)
    <2>1. pc[t] \in Early
      BY <1>4
      DEF Early, LockForSnapshot, TakeSnapshot, LockOther, CheckOthers,
          GrabForCommit, InsertCollides, CheckTracker, CommitEmpty,
          StartLocking, LockTracker, CommitConflict, Validate, CommitLog
    <2> QED BY <1>0, <2>1 DEF StatePlace
  <1>5. CASE CommitRelease(t)
    <2>1. pc'[t] = "master" /\ todo'[t] = Trackers(t)
      BY <1>0, <1>5 DEF SendFails, CommitRelease, OnCommit, Goto, TypeOK
    <2> QED BY <2>1
  <1>9. CASE SendFails(t)
    BY <1>0, <1>9 DEF SendFails, Return, TypeOK, txnVars
  <1>6. CASE LockToCatchUp(t)
    <2>1. PICK g \in todo[t] : cur' = [cur EXCEPT ![t] = g]
                               /\ todo' = [todo EXCEPT ![t] = @ \ {g}]
      BY <1>6 DEF LockToCatchUp
    <2>2. todo'[t] \cup {cur'[t]} = todo[t]
      BY <1>0, <2>1 DEF TypeOK
    <2>3. pc[t] = "master" /\ pc'[t] = "masterHold"
      BY <1>0, <1>6 DEF LockToCatchUp, Goto, TypeOK
    <2> QED BY <2>2, <2>3
  <1>7. CASE CaughtUp(t)
    BY <1>0, <1>7 DEF CaughtUp, Goto, TypeOK
  <1>8. CASE FlushAfterCommit(t)
    BY <1>0, <1>8 DEF FlushAfterCommit, StartSweep, TypeOK
  <1> QED
    BY <1>1, <1>2, <1>3, <1>4, <1>5, <1>6, <1>7, <1>8, <1>9 DEF TxnStep, Step

-----------------------------------------------------------------------------
LEMMA LatePlaceStep ==
  ASSUME Inv, LatePlace, NEW p \in Procs, ProcStep(p)
  PROVE  LatePlace'
  <1> USE DEF Inv, BaseInv, DataInv, TypeInv, Late
  <1> SUFFICES ASSUME NEW t \in Txns, pc'[t] \in Late \/ Sweeping(t)'
               PROVE  state'[t] = "COMMITED"
    BY DEF LatePlace
  <1>0. TypeOK /\ t \in Procs /\ StatePlace(t) /\ CommitPlace(t)
    BY DEF Procs, PlaceInv, CommitViewed
  <1>1. CASE pc[t] \in Late \/ Sweeping(t)
    BY <1>1, CommittedStays DEF LatePlace
  <1>2. CASE ~ (pc[t] \in Late \/ Sweeping(t))
    <2>1. p = t
      BY <1>0, <1>2, FrameProc DEF Sweeping
    <2>2. ~ Step(t)
      BY <1>0, <1>2
      DEF Step, ApplyKey, EndApply, VisitGroup, LockForSweep, LeaveGroup,
          EndSweep, Sweeping, Goto, Return, procVars, TypeOK
    <2>3. ~ Client(t)
      BY <1>0, <1>2
      DEF Client, Begin, Put, Delete, AddAction, Rollback, Read, ReadVersion,
          Commit, Grab, Sweeping, procVars, TypeOK
    <2>4. TxnStep(t)
      BY <2>1, <2>3, ConstantsAssumption DEF ProcStep
    <2>5. CommitLog(t)
      <3>1. ~ InsertCollides(t) /\ ~ CommitEmpty(t) /\ ~ CommitConflict(t)
        BY <1>0, <1>2
        DEF InsertCollides, CommitEmpty, CommitConflict, Abandon, Return,
            Sweeping, TypeOK
      <3>2. ~ TakeSnapshot(t) /\ ~ CheckOthers(t)
        BY <1>0, <1>2 DEF TakeSnapshot, CheckOthers, Goto, Return, Sweeping, TypeOK
      <3>3. ~ LockForSnapshot(t) /\ ~ Validate(t) /\ ~ GrabForCommit(t)
            /\ ~ StartLocking(t) /\ ~ LockOther(t) /\ ~ LockTracker(t)
            /\ ~ CheckTracker(t)
        BY <1>0, <1>2
        DEF LockForSnapshot, Validate, GrabForCommit, Grab, StartLocking,
            LockOther, LockTracker, CheckTracker, Goto, Sweeping, TypeOK
      <3>4. ~ SendAction(t) /\ ~ SendFails(t) /\ ~ CommitRelease(t)
            /\ ~ LockToCatchUp(t)
            /\ ~ CaughtUp(t) /\ ~ FlushAfterCommit(t)
        BY <1>2
        DEF SendAction, MaySend, SendFails, CommitRelease, LockToCatchUp, CaughtUp,
            FlushAfterCommit
      <3> QED BY <2>2, <2>4, <3>1, <3>2, <3>3, <3>4 DEF TxnStep
    <2> QED BY <1>0, <2>5 DEF CommitLog, TypeOK
  <1> QED BY <1>1, <1>2

LEMMA ReachesStep ==
  ASSUME Inv, Reaches, NEW p \in Procs, ProcStep(p)
  PROVE  Reaches'
  <1> USE DEF Inv, BaseInv, DataInv, TypeInv
  <1> SUFFICES ASSUME NEW t \in Txns, state'[t] = "COMMITED",
                      NEW g \in Trackers(t)'
               PROVE  view'[t][g] # NoView /\ (IsApplied(t, g)' \/ InQueue(t, g)')
    BY DEF Reaches
  <1>1. g \in Groups
    BY DEF Trackers
  <1>2. CASE state[t] = "COMMITED"
    <2>1. g \in Trackers(t) /\ view[t][g] # NoView
      BY <1>2, CommittedStays DEF Reaches
    <2> QED
      BY <1>1, <1>2, <2>1, CommittedStays, QueueKeeps DEF Reaches
  <1>3. CASE state[t] # "COMMITED"
    <2>1. CommitLog(t)
      BY <1>3, OnlyLogCommits
    <2>2. UNCHANGED <<view, put, del>>
      BY <2>1 DEF CommitLog
    <2>3. g \in Trackers(t)
      BY <2>2 DEF Trackers, WritesIn, Writes
    <2>4. view[t][g] # NoView
      BY <2>1, <2>3 DEF CommitLog, CommitViewed, CommitPlace
    <2>5. queue[g] \in Seq(Txns) /\ queue'[g] = Append(queue[g], t)
      BY <1>1, <2>1, <2>3 DEF CommitLog, Log, QueueWith, TypeOK
    <2>6. InQueue(t, g)'
      BY <2>5, AppendCovers DEF InQueue
    <2> QED BY <2>2, <2>4, <2>6
  <1> QED BY <1>2, <1>3

LEMMA MasterProgressStep ==
  ASSUME Inv, LatePlace, Reaches, MasterProgress, NEW p \in Procs, ProcStep(p)
  PROVE  MasterProgress'
  <1> USE DEF Inv, BaseInv, DataInv, TypeInv
  <1> SUFFICES ASSUME Policy = "MasterSlave", NEW t \in Txns,
                      state'[t] = "COMMITED"
               PROVE  Progress(t)'
    BY DEF MasterProgress
  <1>0. TypeOK /\ t \in Procs /\ \A g \in Trackers(t) : g \in Groups
    BY DEF Procs, Trackers
  <1>1. CASE state[t] # "COMMITED"
    <2>1. pc'[t] = "send"
      BY <1>0, <1>1, OnlyLogCommits DEF CommitLog, Goto, TypeOK
    <2> QED BY <2>1 DEF Progress, Late
  <1>2. CASE state[t] = "COMMITED"
    <2>1. Progress(t) /\ Trackers(t)' = Trackers(t)
      BY <1>2, CommittedStays DEF MasterProgress
    <2>2. \A g \in Trackers(t) : IsApplied(t, g) => IsApplied(t, g)'
      BY <1>0, <1>2, CommittedStays DEF Reaches
    <2>6. pc[t] \notin Late => acts'[t] = acts[t]
      BY <1>2, CommittedActs
    <2>3. CASE pc'[t] = pc[t] /\ todo'[t] = todo[t] /\ cur'[t] = cur[t]
      BY <2>1, <2>2, <2>3, <2>6 DEF Progress
    <2>4. CASE p # t
      BY <1>0, <2>3, <2>4, FrameProc
    <2>5. CASE p = t
      <3>1. Client(t) \/ TxnStep(t)
        BY <2>5, ConstantsAssumption DEF ProcStep
      <3>2. CASE pc'[t] \in {"send", "master"} /\ todo'[t] = Trackers(t)
        BY <2>1, <3>2 DEF Progress, Late
      <3>3. CASE /\ pc[t] = "master" /\ pc'[t] = "masterHold"
                 /\ todo'[t] \cup {cur'[t]} = todo[t]
        BY <2>1, <2>2, <3>3 DEF Progress, Late
      <3>4. CASE /\ pc[t] = "masterHold" /\ pc'[t] = "master"
                 /\ todo'[t] = todo[t] /\ queue[cur[t]] = << >>
        <4>1. cur[t] \in Trackers(t) => IsApplied(t, cur[t])
          BY <1>2, <3>4, EmptySeq DEF Reaches, InQueue
        <4> QED BY <2>1, <2>2, <3>4, <4>1 DEF Progress, Late
      <3>5. CASE pc[t] = "master" /\ pc'[t] \notin Late /\ todo[t] = {}
        BY <2>1, <2>2, <3>5 DEF Progress, Late
      <3>6. CASE pc[t] \notin Late /\ pc'[t] \notin Late
        BY <2>1, <2>2, <2>6, <3>6 DEF Progress, Late
      <3>7. CASE pc'[t] \notin Late /\ acts'[t] > 0
        BY <3>7 DEF Progress, Late
      <3> QED
        BY <1>2, <2>3, <3>1, <3>2, <3>3, <3>4, <3>5, <3>6, <3>7, CommittedMoves
    <2> QED BY <2>4, <2>5
  <1> QED BY <1>1, <1>2

LEMMA TasksStep ==
  ASSUME Inv, LatePlace, TasksOnlyOfCommitted, NEW p \in Procs, ProcStep(p)
  PROVE  TasksOnlyOfCommitted'
  <1> SUFFICES ASSUME NEW task \in tasks'
               PROVE  state'[task[1]] = "COMMITED"
    BY DEF TasksOnlyOfCommitted
  <1>1. CASE task \in tasks
    <2>1. task[1] \in Txns /\ state[task[1]] = "COMMITED"
      BY <1>1 DEF TasksOnlyOfCommitted, Inv, BaseInv, TypeInv, TypeOK
    <2> QED BY <2>1, CommittedStays
  <1>2. CASE task \notin tasks
    <2>1. p \in Txns /\ SendAction(p)
      BY <1>2, OnlySends
    <2>2. task[1] = p /\ state[p] = "COMMITED"
      BY <1>2, <2>1 DEF SendAction, MaySend, LatePlace, Late
    <2> QED BY <2>1, <2>2, CommittedStays
  <1> QED BY <1>1, <1>2

-----------------------------------------------------------------------------
CommitInv == LatePlace /\ Reaches /\ MasterProgress /\ TasksOnlyOfCommitted

LEMMA InitCommitInv == ASSUME Init PROVE CommitInv
  <1>1. \A t \in Txns : t \in Procs /\ pc[t] = "idle" /\ state[t] = "NONE"
    BY DEF Init, Procs
  <1>2. tasks = {}
    BY DEF Init
  <1> QED
    BY <1>1, <1>2
    DEF CommitInv, LatePlace, Late, Sweeping, Reaches, MasterProgress,
        TasksOnlyOfCommitted

LEMMA CommitInvStep == ASSUME Inv, CommitInv, [Next]_vars PROVE CommitInv'
  <1>1. CASE UNCHANGED vars
    BY <1>1
    DEF CommitInv, LatePlace, Sweeping, Reaches, MasterProgress, TasksOnlyOfCommitted,
        Progress, IsApplied, InQueue, Trackers, WritesIn, Writes, vars, txnVars,
        metaVars, procVars
  <1>2. CASE Next
    <2>1. PICK p \in Procs : ProcStep(p)
      BY <1>2 DEF Next, ProcStep, Procs
    <2> QED
      BY <2>1, LatePlaceStep, ReachesStep, MasterProgressStep, TasksStep
      DEF CommitInv
  <1> QED BY <1>1, <1>2

LEMMA CommitInvariance == Spec => [](Inv /\ CommitInv)
  <1>1. Init => CommitInv
    BY InitCommitInv
  <1>2. Inv /\ CommitInv /\ [Next]_vars => CommitInv'
    BY CommitInvStep
  <1> QED BY <1>1, <1>2, Invariance, PTL DEF Spec

\* The actions of a transaction are sent once it is logged, and no step takes
\* the log back: a task in the queue belongs to a committed transaction.
THEOREM TasksAreCommitted == Spec => []TasksOnlyOfCommitted
  <1>1. CommitInv => TasksOnlyOfCommitted
    BY DEF CommitInv
  <1> QED BY <1>1, CommitInvariance, PTL

\* Under Master/Slave a commit has applied every group of its transaction when
\* it returns, whichever thread did the applying, unless an error left it with
\* actions to send.
THEOREM MasterSlaveReturnsApplied == Spec => []MasterSlaveApplied
  <1>1. Inv /\ CommitInv => MasterSlaveApplied
    <2> SUFFICES ASSUME Inv, CommitInv, Policy = "MasterSlave", NEW t \in Txns,
                        state[t] = "COMMITED", call[t] = "none", acts[t] = 0,
                        NEW g \in Trackers(t)
                 PROVE  view[t][g].pos = Applied
      BY DEF MasterSlaveApplied
    <2>1. pc[t] = "idle"
      BY DEF Inv, BaseInv, TypeInv, CommitViewed, CommitPlace
    <2> QED BY <2>1 DEF CommitInv, MasterProgress, Progress, Late, IsApplied
  <1> QED BY <1>1, CommitInvariance, PTL

-----------------------------------------------------------------------------
(* Inserts.                                                                *)

\* Nothing of what the transaction inserts in a group is in its snapshot.
AllNew(t, g) == \A k \in ins[t] \cap KeysOf(g) : view[t][g].data[k] = NoValue

\* How far a commit has come with the check of its inserts.
Checked(t) ==
  /\ pc[t] \in {"check", "grab", "snap"} /\ call[t] = "commit" =>
       /\ pc[t] # "check" => cur[t] \in todo[t]
       /\ \A g \in Trackers(t) \ todo[t] : AllNew(t, g)
  /\ pc[t] \in {"lock", "log"} => \A g \in Trackers(t) : AllNew(t, g)

\* An entity to be inserted and not yet applied is not in the store.
Vacant(g) ==
  \A i \in DOMAIN queue[g] :
    \A k \in ins[queue[g][i]] \cap KeysOf(g) :
      k \notin done[g] => store[k] = NoValue

InsertInv ==
  /\ \A t \in Txns : ins[t] \subseteq put[t] /\ Checked(t)
  /\ \A g \in Groups : Vacant(g)

\* The trackers of a transaction know what they insert: ins goes with put.
LEMMA InsertsArePuts ==
  ASSUME Inv, NEW p \in Procs, ProcStep(p), NEW t \in Txns,
         ins[t] \subseteq put[t]
  PROVE  /\ ins'[t] \subseteq put'[t]
         /\ call[t] # "none" \/ state[t] # "ACTIVE" =>
              ins'[t] = ins[t] /\ put'[t] = put[t] /\ del'[t] = del[t]
  <1> USE DEF Inv, BaseInv, TypeInv
  <1>1. CASE p # t
    BY <1>1, FrameTxn
  <1>2. CASE p = t /\ Client(t)
    <2>1. CASE \E k \in Keys, insert \in Inserts : Put(t, k, insert)
      BY <2>1 DEF Put, Open, TypeOK
    <2>2. CASE \E k \in Keys : Delete(t, k)
      BY <2>2 DEF Delete, Open, TypeOK
    <2>3. CASE \/ Begin(t) \/ AddAction(t) \/ Rollback(t) \/ Commit(t)
               \/ \E g \in Groups : Read(t, g) \/ ReadVersion(t, g)
      BY <2>3
      DEF Begin, AddAction, Rollback, Commit, Read, ReadVersion, txnVars
    <2> QED BY <1>2, <2>1, <2>2, <2>3 DEF Client
  <1>3. CASE p = t /\ Step(t)
    BY <1>3
    DEF Step, ApplyKey, EndApply, VisitGroup, LockForSweep, LeaveGroup,
        EndSweep, txnVars
  <1>4. CASE p = t /\ TxnStep(t)
    BY <1>3, <1>4
    DEF TxnStep, LockForSnapshot, TakeSnapshot, LockOther, CheckOthers,
        GrabForCommit, InsertCollides, CheckTracker, CommitEmpty, StartLocking,
        LockTracker, CommitConflict, Validate, CommitLog, SendAction,
        SendFails, CommitRelease, LockToCatchUp, CaughtUp, FlushAfterCommit, StartSweep,
        Abandon, txnVars
  <1> QED BY <1>1, <1>2, <1>3, <1>4, ConstantsAssumption DEF ProcStep

\* The check stands while the transaction's views and buffers do.
LEMMA CheckedStays ==
  ASSUME Inv, NEW t \in Txns, Checked(t), Trackers(t)' = Trackers(t),
         ins'[t] = ins[t],
         \A g \in Groups : view[t][g] # NoView =>
           view'[t][g].data = view[t][g].data,
         pc'[t] = pc[t] /\ call'[t] = call[t] /\ cur'[t] = cur[t],
         todo'[t] = todo[t]
  PROVE  Checked(t)'
  <1>1. CommitPlace(t) /\ \A g \in Trackers(t) : g \in Groups
    BY DEF Inv, BaseInv, TypeInv, CommitViewed, Trackers
  <1>2. \A g \in Groups : view[t][g] # NoView /\ AllNew(t, g) => AllNew(t, g)'
    BY DEF AllNew
  <1> QED BY <1>1, <1>2 DEF Checked, CommitPlace

LEMMA CheckedOther ==
  ASSUME Inv, InsertInv, NEW p \in Procs, ProcStep(p), NEW t \in Txns, t # p
  PROVE  Checked(t)'
  <1>1. /\ Trackers(t)' = Trackers(t) /\ ins'[t] = ins[t]
        /\ pc'[t] = pc[t] /\ call'[t] = call[t] /\ cur'[t] = cur[t]
        /\ todo'[t] = todo[t]
    BY FrameProc, FrameTxn, FrameTrackers DEF Inv, BaseInv, Procs
  <1>2. \A g \in Groups : view[t][g] # NoView =>
          view'[t][g].data = view[t][g].data
    BY FrameTxn, EndApplyViews DEF Inv, BaseInv
  <1> QED BY <1>1, <1>2, CheckedStays DEF InsertInv

LEMMA CheckedOwn ==
  ASSUME Inv, InsertInv, NEW t \in Txns, Client(t) \/ TxnStep(t)
  PROVE  Checked(t)'
  <1> USE DEF Inv, BaseInv, TypeInv
  <1>0. /\ TypeOK /\ StatePlace(t) /\ CommitPlace(t) /\ Checked(t)
        /\ t \in Procs /\ ProcStep(t)
    BY DEF DataInv, PlaceInv, CommitViewed, InsertInv, Procs, ProcStep
  <1>1. CASE Commit(t)
    <2>1. pc'[t] = "check" /\ Trackers(t)' = Trackers(t)
      BY <1>0, <1>1 DEF Commit, TypeOK, txnVars, Trackers, WritesIn, Writes
    <2>2. Trackers(t) \subseteq todo'[t]
      BY <1>0, <1>1 DEF Commit, TypeOK
    <2> QED BY <2>1, <2>2 DEF Checked
  <1>2. CASE Client(t) /\ ~ Commit(t)
    <2>1. \/ pc'[t] = "idle"
          \/ pc'[t] = "grab" /\ call'[t] \in {"read", "version"}
      <3>1. CASE Begin(t) \/ AddAction(t) \/ Rollback(t)
        BY <1>0, <3>1
        DEF Begin, AddAction, Rollback, Open, procVars, CommitPlace
      <3>2. CASE \/ \E k \in Keys, insert \in Inserts : Put(t, k, insert)
                 \/ \E k \in Keys : Delete(t, k)
        BY <1>0, <3>2 DEF Put, Delete, Open, procVars, CommitPlace
      <3>3. CASE \E g \in Groups : Read(t, g) \/ ReadVersion(t, g)
        BY <1>0, <3>3 DEF Read, ReadVersion, Grab, TypeOK
      <3> QED BY <1>2, <3>1, <3>2, <3>3 DEF Client
    <2> QED BY <2>1 DEF Checked
  <1>3. CASE ApplyKey(t) \/ SendAction(t)
    <2>1. UNCHANGED <<view, put, del, ins, pc, call, cur, todo>>
      BY <1>3 DEF ApplyKey, SendAction, txnVars, procVars
    <2>2. Trackers(t)' = Trackers(t)
      BY <2>1 DEF Trackers, WritesIn, Writes
    <2> QED BY <1>0, <2>1, <2>2, CheckedStays
  <1>4. CASE EndApply(t)
    <2>1. UNCHANGED <<put, del, ins, pc, call, cur, todo>>
      BY <1>4 DEF EndApply, procVars
    <2>2. \A g \in Groups : /\ view'[t][g] = NoView <=> view[t][g] = NoView
                            /\ view[t][g] # NoView =>
                                 view'[t][g].data = view[t][g].data
      BY <1>0, <1>4, EndApplyViews
    <2>3. Trackers(t)' = Trackers(t)
      BY <2>1, <2>2 DEF Trackers, WritesIn, Writes
    <2> QED BY <1>0, <2>1, <2>2, <2>3, CheckedStays
  <1>5. CASE TakeSnapshot(t)
    <2>1. \/ pc'[t] \in {"others", "idle"}
          \/ call[t] = "commit" /\ pc'[t] = "check" /\ UNCHANGED <<call, todo>>
      BY <1>0, <1>5 DEF TakeSnapshot, Goto, Return, TypeOK
    <2>2. CASE pc'[t] \in {"others", "idle"}
      BY <2>2 DEF Checked
    <2>3. CASE call[t] = "commit" /\ pc'[t] = "check" /\ UNCHANGED <<call, todo>>
      <3>1. cur[t] \in todo[t] /\ UNCHANGED <<ins, put, del>>
        BY <1>0, <1>5, <2>3 DEF TakeSnapshot, Checked
      <3>2. ASSUME NEW g \in Trackers(t)' \ todo'[t]
            PROVE  AllNew(t, g)'
        <4>1. g \in Groups /\ g # cur[t]
          BY <2>3, <3>1, <3>2 DEF Trackers
        <4>2. view'[t][g] = view[t][g]
          BY <1>0, <1>5, <4>1, TakeSnapshotViews
        <4>3. g \in Trackers(t) \ todo[t]
          BY <2>3, <3>1, <3>2, <4>2 DEF Trackers, WritesIn, Writes
        <4>4. AllNew(t, g)
          BY <1>0, <1>5, <2>3, <4>3 DEF Checked, TakeSnapshot
        <4> QED BY <3>1, <4>2, <4>4 DEF AllNew
      <3> QED BY <2>3, <3>2 DEF Checked
    <2> QED BY <2>1, <2>2, <2>3
  <1>6. CASE \/ LockForSnapshot(t) \/ GrabForCommit(t) \/ CheckTracker(t)
             \/ StartLocking(t) \/ LockTracker(t) \/ Validate(t)
    <2>1. UNCHANGED <<view, put, del, ins, call>>
      BY <1>6
      DEF LockForSnapshot, GrabForCommit, CheckTracker, StartLocking,
          LockTracker, Validate, Goto, txnVars
    <2>2. Trackers(t)' = Trackers(t) /\ \A g : AllNew(t, g) => AllNew(t, g)'
      BY <2>1 DEF Trackers, WritesIn, Writes, AllNew
    <2>3. CASE LockForSnapshot(t)
      <3>1. pc[t] = "grab" /\ pc'[t] = "snap" /\ UNCHANGED <<todo, cur>>
        BY <1>0, <2>3 DEF LockForSnapshot, Goto, TypeOK
      <3> QED BY <1>0, <2>1, <2>2, <3>1 DEF Checked
    <2>4. CASE GrabForCommit(t)
      <3>1. /\ pc[t] = "check" /\ pc'[t] = "grab" /\ cur'[t] \in todo[t]
            /\ UNCHANGED todo
        BY <1>0, <2>4 DEF GrabForCommit, Grab, TypeOK
      <3> QED BY <1>0, <2>1, <2>2, <3>1 DEF Checked, CommitPlace
    <2>5. CASE CheckTracker(t)
      <3>1. PICK g \in todo[t] : Collisions(t, g) = {}
                                 /\ todo' = [todo EXCEPT ![t] = @ \ {g}]
        BY <2>5 DEF CheckTracker
      <3>2. AllNew(t, g)
        BY <3>1 DEF Collisions, AllNew
      <3>3. pc[t] = "check" /\ UNCHANGED pc /\ todo'[t] = todo[t] \ {g}
        BY <1>0, <2>5, <3>1 DEF CheckTracker, TypeOK
      <3> QED BY <1>0, <2>1, <2>2, <3>2, <3>3 DEF Checked, CommitPlace
    <2>6. CASE StartLocking(t)
      <3>1. pc[t] = "check" /\ todo[t] = {} /\ pc'[t] = "lock"
        BY <1>0, <2>6 DEF StartLocking, TypeOK
      <3> QED BY <1>0, <2>2, <3>1 DEF Checked, CommitPlace
    <2>7. CASE LockTracker(t) \/ Validate(t)
      <3>1. pc[t] = "lock" /\ pc'[t] \in {"lock", "log"}
        BY <1>0, <2>7 DEF LockTracker, Validate, Goto, TypeOK
      <3> QED BY <1>0, <2>2, <3>1 DEF Checked
    <2> QED BY <1>6, <2>3, <2>4, <2>5, <2>6, <2>7
  <1>7. CASE InsertCollides(t) \/ CommitEmpty(t) \/ CommitConflict(t)
    <2>1. pc'[t] = "idle"
      BY <1>0, <1>7
      DEF InsertCollides, CommitEmpty, CommitConflict, Abandon, Return, TypeOK
    <2> QED BY <2>1 DEF Checked
  <1>8. CASE \/ LockOther(t) \/ CheckOthers(t) \/ CommitLog(t)
             \/ SendFails(t) \/ CommitRelease(t) \/ LockToCatchUp(t) \/ CaughtUp(t)
             \/ FlushAfterCommit(t)
    <2>1. pc'[t] \in {"others", "idle", "send", "master", "masterHold", "sweep"}
      BY <1>0, <1>8
      DEF LockOther, CheckOthers, CommitLog, SendFails, CommitRelease, OnCommit,
          LockToCatchUp, CaughtUp, FlushAfterCommit, StartSweep, Goto, Return,
          TypeOK
    <2> QED BY <2>1 DEF Checked
  <1>9. CASE VisitGroup(t) \/ LockForSweep(t) \/ LeaveGroup(t) \/ EndSweep(t)
    <2>1. pc'[t] \in {"sweep", "sweepWait", "sweepHold", "idle"}
      BY <1>0, <1>9
      DEF VisitGroup, LockForSweep, LeaveGroup, EndSweep, Goto, Return, TypeOK
    <2> QED BY <2>1 DEF Checked
  <1> QED
    BY <1>1, <1>2, <1>3, <1>4, <1>5, <1>6, <1>7, <1>8, <1>9 DEF TxnStep, Step

\* The place of an insert stays empty until the insert is applied.
LEMMA VacantStep ==
  ASSUME Inv, QueueInv, InsertInv, NEW p \in Procs, ProcStep(p),
         NEW g \in Groups
  PROVE  Vacant(g)'
  <1> USE DEF Inv, BaseInv, TypeInv, DataInv
  <1>1. queue[g] \in Seq(Txns) /\ Vacant(g)
    BY DEF TypeOK, InsertInv
  <1>2. \A i \in DOMAIN queue[g] : /\ queue[g][i] \in Txns
                                   /\ ins'[queue[g][i]] = ins[queue[g][i]]
    <2> SUFFICES ASSUME NEW i \in DOMAIN queue[g]
                 PROVE  /\ queue[g][i] \in Txns
                        /\ ins'[queue[g][i]] = ins[queue[g][i]]
      OBVIOUS
    <2>1. queue[g][i] \in Txns /\ state[queue[g][i]] = "COMMITED"
      BY <1>1 DEF QueuedCommitted
    <2> QED BY <2>1, InsertsArePuts DEF InsertInv
  <1>3. ASSUME queue'[g] = queue[g], done[g] \subseteq done'[g],
               \A k \in KeysOf(g) : k \notin done'[g] => store'[k] = store[k]
        PROVE  Vacant(g)'
    BY <1>1, <1>2, <1>3 DEF Vacant
  <1>4. CASE ApplyKey(p)
    <2>1. PICK k : /\ store' = [store EXCEPT ![k] = Effect(Head(queue[cur[p]]), k)]
                   /\ done' = [done EXCEPT ![cur[p]] = @ \cup {k}]
                   /\ k \in KeysOf(cur[p])
      BY <1>4 DEF ApplyKey, Remaining, WritesIn
    <2>2. queue'[g] = queue[g] /\ k \in done'[cur[p]] /\ k \in Keys
      BY <1>4, <2>1 DEF ApplyKey, TypeOK, KeysOf
    <2>3. done[g] \subseteq done'[g]
      BY <2>1 DEF TypeOK
    <2>4. \A j \in KeysOf(g) : j \notin done'[g] => store'[j] = store[j]
      BY <2>1, <2>2 DEF TypeOK, KeysOf
    <2> QED BY <1>3, <2>2, <2>3, <2>4
  <1>5. CASE EndApply(p)
    <2>1. CASE g = cur[p]
      <3>1. queue'[g] = Tail(queue[g]) /\ queue[g] # << >>
        BY <1>5, <2>1 DEF EndApply, Applying, TypeOK
      <3>2. queue'[g] = << >>
        BY <1>1, <3>1, EmptyTail DEF QueueInv, LastLogged
      <3> QED BY <3>2, EmptySeq DEF Vacant
    <2>2. CASE g # cur[p]
      BY <1>3, <1>5, <2>2 DEF EndApply, TypeOK
    <2> QED BY <2>1, <2>2
  <1>6. CASE p \in Txns /\ TakeSnapshot(p)
    BY <1>3, <1>6 DEF TakeSnapshot
  <1>7. CASE p \in Txns /\ CommitLog(p)
    <2>1. CASE g \in Trackers(p)
      <3>1. view[p][g] # NoView /\ view[p][g].pos = logPos[g] /\ AllNew(p, g)
        BY <1>7, <2>1
        DEF CommitLog, PlaceInv, LogReady, CommitViewed, CommitPlace,
            InsertInv, Checked
      <3>2. queue[g] = << >> /\ view[p][g].data = DbIn(g)
        BY <1>7, <3>1 DEF QueueInv, Behind, PositionTellsChange, TypeOK
      <3>3. /\ UNCHANGED <<store, ins>> /\ p \in Txns
            /\ \A i \in DOMAIN queue'[g] : queue'[g][i] = p
        <4>1. queue'[g] = Append(queue[g], p)
          BY <1>7, <2>1 DEF CommitLog, Log, QueueWith
        <4>2. \A i \in DOMAIN queue'[g] :
                i \in DOMAIN queue[g] \/ queue'[g][i] = p
          BY <1>1, <1>7, <4>1, AppendElement
        <4> QED BY <1>7, <3>2, <4>2, EmptySeq DEF CommitLog
      <3>4. ASSUME NEW k \in ins[p] \cap KeysOf(g)
            PROVE  store[k] = NoValue
        <4>1. k \in Keys /\ GroupOf[k] = g /\ KeyAdds(k)
          BY DEF KeysOf
        <4>2. store[k] = db[k]
          BY <3>2, <4>1, EmptySeq DEF KeyAdds, Adds
        <4>3. db[k] = NoValue
          BY <3>1, <3>2 DEF AllNew, DbIn
        <4> QED BY <4>2, <4>3
      <3> QED BY <3>3, <3>4 DEF Vacant
    <2>2. CASE g \notin Trackers(p)
      BY <1>3, <1>7, <2>2 DEF CommitLog, Log, QueueWith
    <2> QED BY <2>1, <2>2
  <1>8. CASE ~ ApplyKey(p) /\ ~ EndApply(p)
             /\ ~ (p \in Txns /\ (TakeSnapshot(p) \/ CommitLog(p)))
    BY <1>3, <1>8, MostAreQuiet DEF Quiet
  <1> QED BY <1>4, <1>5, <1>6, <1>7, <1>8

LEMMA InsertInvStep ==
  ASSUME Inv, QueueInv, InsertInv, [Next]_vars PROVE InsertInv'
  <1>1. CASE UNCHANGED vars
    BY <1>1
    DEF InsertInv, Checked, AllNew, Vacant, Trackers, WritesIn, Writes, vars,
        txnVars, metaVars, procVars
  <1>2. CASE Next
    <2>1. PICK p \in Procs : ProcStep(p)
      BY <1>2 DEF Next, ProcStep, Procs
    <2>2. ASSUME NEW t \in Txns
          PROVE  Checked(t)'
      <3>1. CASE t = p
        BY <2>1, <3>1, CheckedOwn, ConstantsAssumption DEF ProcStep
      <3>2. CASE t # p
        BY <2>1, <3>2, CheckedOther
      <3> QED BY <3>1, <3>2
    <2> QED BY <2>1, <2>2, InsertsArePuts, VacantStep DEF InsertInv
  <1> QED BY <1>1, <1>2

\* A step that stores an inserted entity applies it from the queue, where its
\* place was kept.
LEMMA StoresInVacancy ==
  ASSUME Inv, InsertInv, NEW p \in Procs, ProcStep(p), NEW t \in Txns,
         NEW k \in Keys, k \in ins[t], store[k] # t, store'[k] = t
  PROVE  store[k] = NoValue
  <1> USE DEF Inv, BaseInv, TypeInv, DataInv
  <1>1. ApplyKey(p)
    <2>1. CASE EndApply(p)
      BY <2>1 DEF EndApply
    <2>2. CASE p \in Txns /\ (TakeSnapshot(p) \/ CommitLog(p))
      BY <2>2 DEF TakeSnapshot, CommitLog
    <2>3. CASE ~ ApplyKey(p) /\ ~ EndApply(p)
               /\ ~ (p \in Txns /\ (TakeSnapshot(p) \/ CommitLog(p)))
      BY <2>3, MostAreQuiet DEF Quiet
    <2> QED BY <2>1, <2>2, <2>3
  <1> DEFINE g == cur[p]
             u == Head(queue[g])
  <1>2. g \in Groups /\ queue[g] \in Seq(Txns) /\ queue[g] # << >>
    BY <1>1 DEF ApplyKey, Applying, TypeOK
  <1>3. k \in Remaining(u, g) /\ store'[k] = Effect(u, k)
    BY <1>1 DEF ApplyKey, TypeOK
  <1>4. u = t /\ k \in KeysOf(g) /\ k \notin done[g]
    BY <1>3, ConstantsAssumption DEF Effect, Remaining, WritesIn
  <1>5. 1 \in DOMAIN queue[g] /\ queue[g][1] = t
    BY <1>2, <1>4, TailCovers
  <1> QED BY <1>2, <1>4, <1>5 DEF InsertInv, Vacant

\* The check of Commit that an entity to be inserted is new still holds when
\* the entity reaches the store, however long it was queued.
THEOREM InsertsFindNothing == Spec => InsertNeverOverwrites
  <1> DEFINE Fresh == \A t \in Txns, k \in Keys :
                k \in ins[t] /\ store[k] # t /\ store'[k] = t => store[k] = NoValue
  <1>1. Init => QueueInv /\ InsertInv
    <2> SUFFICES ASSUME Init
                 PROVE  QueueInv /\ InsertInv
      OBVIOUS
    <2>1. \A g \in Groups : queue[g] = << >> /\ DOMAIN queue[g] = {}
      BY EmptySeq DEF Init
    <2>2. \A t \in Txns : ins[t] = {} /\ pc[t] = "idle"
      BY DEF Init, Procs
    <2> QED
      BY <2>1, <2>2, EmptyQueue DEF QueueInv, Behind, InsertInv, Checked, Vacant
  <1>2. Inv /\ QueueInv /\ [Next]_vars => QueueInv'
    BY QueueStep
  <1>3. Inv /\ QueueInv /\ InsertInv /\ [Next]_vars => InsertInv'
    BY InsertInvStep
  <1>4. Inv /\ InsertInv /\ [Next]_vars => [Fresh]_vars
    <2> SUFFICES ASSUME Inv, InsertInv, Next, NEW t \in Txns, NEW k \in Keys,
                        k \in ins[t], store[k] # t, store'[k] = t
                 PROVE  store[k] = NoValue
      OBVIOUS
    <2>1. PICK p \in Procs : ProcStep(p)
      BY DEF Next, ProcStep, Procs
    <2> QED BY <2>1, StoresInVacancy
  <1> QED
    BY <1>1, <1>2, <1>3, <1>4, Invariance, PTL DEF Spec, InsertNeverOverwrites

(***************************************************************************)
(* The reads of a transaction: its snapshots are of one moment, provided   *)
(* that it does not read the __entity_group__ pseudo-kind, which skips the *)
(* check of _GrabSnapshot.                                                 *)
(***************************************************************************)

\* Those of the first n commits that logged to g, and how many they are.
Commits(n, g) == {i \in 1 .. n : g \in Trackers(hist[i])}
Count(n, g) == Cardinality(Commits(n, g))

\* The history holds committed transactions and numbers the log positions.
HistInv ==
  /\ \A i \in 1 .. Len(hist) : state[hist[i]] = "COMMITED"
  /\ \A g \in Groups : logPos[g] = Count(Len(hist), g) - 1

\* The group just read was at its position after n commits, and the others
\* had then come at least as far as the positions they were read at.
CutAt(t, n) ==
  /\ view[t][cur[t]] # NoView => view[t][cur[t]].pos = Count(n, cur[t]) - 1
  /\ \A g \in Candidates(t) : view[t][g].pos <= Count(n, g) - 1

SeenAt(t, n) ==
  \A g \in Groups : view[t][g] # NoView => view[t][g].pos = Count(n, g) - 1

\* A transaction in its reads: one moment explains all its snapshots, or will
\* if the check of _GrabSnapshot passes.
Reading(t) ==
  /\ call[t] # "version"
  /\ state[t] \in {"NONE", "ACTIVE"} /\ call[t] # "commit" =>
       \E n \in 0 .. Len(hist) :
         IF pc[t] = "others" THEN CutAt(t, n) ELSE SeenAt(t, n)
ReadInv == HistInv /\ \A t \in Txns : Reading(t)

-----------------------------------------------------------------------------
LEMMA CountOfNone == \A g : Count(0, g) = 0
  <1> SUFFICES ASSUME NEW g PROVE Count(0, g) = 0
    OBVIOUS
  <1>1. Commits(0, g) = {}
    BY DEF Commits
  <1> QED BY <1>1, FS_EmptySet DEF Count

LEMMA CountIsNat ==
  ASSUME NEW n \in Nat, NEW g PROVE Count(n, g) \in Nat /\ IsFiniteSet(Commits(n, g))
  <1>1. IsFiniteSet(1 .. n) /\ Commits(n, g) \in SUBSET (1 .. n)
    BY FS_Interval DEF Commits
  <1> QED BY <1>1, FS_Subset, FS_CardinalityType DEF Count

\* Later moments have counted at least as many commits.
LEMMA CountGrows ==
  ASSUME NEW n \in Nat, NEW m \in Nat, n <= m, NEW g
  PROVE  Count(n, g) <= Count(m, g)
  <1>1. Commits(n, g) \in SUBSET Commits(m, g)
    BY DEF Commits
  <1> QED BY <1>1, CountIsNat, FS_Subset DEF Count

\* A step that lengthens the history, if at all, keeps the earlier counts.
LEMMA HistKeeps ==
  ASSUME Inv, HistInv, NEW p \in Procs, ProcStep(p)
  PROVE  /\ Len(hist) \in Nat /\ Len(hist)' \in Nat /\ Len(hist) <= Len(hist)'
         /\ \A n \in 0 .. Len(hist) : \A g : Count(n, g)' = Count(n, g)
  <1> USE DEF Inv, BaseInv, TypeInv
  <1>1. hist \in Seq(Txns) /\ Len(hist) \in Nat
    BY LenProperties DEF TypeOK
  <1>2. /\ Len(hist)' \in Nat /\ Len(hist) <= Len(hist)'
        /\ \A i \in 1 .. Len(hist) : hist'[i] = hist[i]
    <2>1. CASE p \in Txns /\ CommitLog(p)
      BY <1>1, <2>1, AppendProperties DEF CommitLog
    <2>2. CASE ~ (p \in Txns /\ CommitLog(p))
      <3>1. hist' = hist
        BY <2>2, OnlyCommitLogs
      <3> QED BY <1>1, <3>1
    <2> QED BY <2>1, <2>2
  <1>3. ASSUME NEW i \in 1 .. Len(hist)
        PROVE  Trackers(hist[i])' = Trackers(hist[i])
    <2>1. hist[i] \in Txns /\ state[hist[i]] = "COMMITED"
      BY <1>1, LenProperties DEF HistInv
    <2>2. \A t \in Txns : state[t] = "COMMITED" => Trackers(t)' = Trackers(t)
      BY CommittedStays
    <2>3. hist'[i] = hist[i]
      BY <1>2
    <2> DEFINE w == hist[i]
    <2>4. PICK u \in Txns : u = w /\ state[u] = "COMMITED"
      BY <2>1
    <2> QED BY <2>2, <2>3, <2>4 DEF Trackers, WritesIn, Writes
  <1>4. ASSUME NEW n \in 0 .. Len(hist), NEW g
        PROVE  Count(n, g)' = Count(n, g)
    <2>1. Commits(n, g)' = Commits(n, g)
      BY <1>1, <1>3 DEF Commits
    <2> QED BY <2>1 DEF Count
  <1> QED BY <1>1, <1>2, <1>4

LEMMA HistInvStep ==
  ASSUME Inv, HistInv, NEW p \in Procs, ProcStep(p)
  PROVE  HistInv'
  <1> USE DEF Inv, BaseInv, TypeInv
  <1>1. hist \in Seq(Txns) /\ Len(hist) \in Nat
    BY LenProperties DEF TypeOK
  <1>2. ASSUME NEW i \in 1 .. Len(hist)
        PROVE  state'[hist[i]] = "COMMITED"
    <2>1. hist[i] \in Txns /\ state[hist[i]] = "COMMITED"
      BY <1>1, LenProperties DEF HistInv
    <2> QED BY <2>1, CommittedStays
  <1>3. CASE p \in Txns /\ CommitLog(p)
    <2>1. /\ Len(hist)' = Len(hist) + 1 /\ hist'[Len(hist) + 1] = p
          /\ \A i \in 1 .. Len(hist) : hist'[i] = hist[i]
          /\ state'[p] = "COMMITED"
      BY <1>1, <1>3, AppendProperties DEF CommitLog, TypeOK
    <2>2. \A i \in 1 .. Len(hist)' : state'[hist'[i]] = "COMMITED"
      <3> SUFFICES ASSUME NEW i \in 1 .. Len(hist)'
                   PROVE  state'[hist'[i]] = "COMMITED"
        OBVIOUS
      <3>1. i \in 1 .. Len(hist) \/ i = Len(hist) + 1
        BY <1>1, <2>1
      <3> QED BY <1>2, <2>1, <3>1
    <2>3. ASSUME NEW g \in Groups
          PROVE  logPos'[g] = Count(Len(hist), g)' - 1
      <3>0. PICK n \in Nat : n = Len(hist)
        BY <1>1
      <3>1. n \in Nat /\ n \in 0 .. n /\ n + 1 \in Nat
        BY <3>0
      <3>2. logPos[g] = Count(n, g) - 1 /\ IsFiniteSet(Commits(n, g))
            /\ Count(n, g) \in Nat
        BY <3>0, <3>1, CountIsNat DEF HistInv
      <3>3. Trackers(p)' = Trackers(p)
        BY <1>3 DEF CommitLog, Trackers, WritesIn, Writes
      <3>4. \A i \in 1 .. n : Trackers(hist[i])' = Trackers(hist[i])
        <4> SUFFICES ASSUME NEW i \in 1 .. n
                     PROVE  Trackers(hist[i])' = Trackers(hist[i])
          OBVIOUS
        <4>1. hist'[i] = hist[i]
          BY <2>1, <3>0
        <4> QED BY <1>3, <4>1 DEF CommitLog, Trackers, WritesIn, Writes
      <3>5. Commits(Len(hist), g)' =
              IF g \in Trackers(p) THEN Commits(n, g) \cup {n + 1}
                                   ELSE Commits(n, g)
        <4>1. \A i : i \in 1 .. n + 1 <=> i \in 1 .. n \/ i = n + 1
          BY <3>1
        <4>2. g \in Trackers(hist[n + 1])' <=> g \in Trackers(p)
          BY <2>1, <3>0, <3>3 DEF Trackers, WritesIn, Writes
        <4>3. \A i : i \in Commits(Len(hist), g)' <=>
                      i \in 1 .. n + 1 /\ g \in Trackers(hist[i])'
          BY <2>1, <3>0 DEF Commits
        <4>4. \A i : i \in Commits(Len(hist), g)' <=>
                      \/ i \in Commits(n, g)
                      \/ i = n + 1 /\ g \in Trackers(p)
          BY <3>1, <3>4, <4>1, <4>2, <4>3 DEF Commits
        <4>5. CASE g \in Trackers(p)
          BY <4>4, <4>5, Zenon
        <4>6. CASE g \notin Trackers(p)
          BY <4>4, <4>6, Zenon
        <4> QED BY <4>5, <4>6
      <3>6. n + 1 \notin Commits(n, g)
        BY <3>1 DEF Commits
      <3>7. Count(Len(hist), g)' =
              IF g \in Trackers(p) THEN Count(n, g) + 1 ELSE Count(n, g)
        BY <3>2, <3>5, <3>6, FS_AddElement DEF Count
      <3>8. logPos'[g] = IF g \in Trackers(p) THEN logPos[g] + 1 ELSE logPos[g]
        BY <1>3 DEF CommitLog, Log, NextPos
      <3> QED BY <3>2, <3>7, <3>8
    <2> QED BY <2>2, <2>3 DEF HistInv
  <1>4. CASE ~ (p \in Txns /\ CommitLog(p))
    <2>1. UNCHANGED <<logPos, hist>>
      BY <1>4, OnlyCommitLogs
    <2>2. Len(hist) \in 0 .. Len(hist) /\ Len(hist)' = Len(hist)
      BY <1>1, <2>1
    <2>3. \A g \in Groups : Count(Len(hist), g)' = Count(Len(hist), g)
      <3>1. \A g \in Groups : Commits(Len(hist), g)' = Commits(Len(hist), g)
        <4> SUFFICES ASSUME NEW i \in 1 .. Len(hist)
                     PROVE  Trackers(hist[i])' = Trackers(hist[i])
          BY <2>1 DEF Commits
        <4>1. PICK u \in Txns : u = hist[i] /\ state[u] = "COMMITED"
          BY <1>1, LenProperties DEF HistInv
        <4>2. Trackers(u)' = Trackers(u)
          BY <4>1, CommittedStays
        <4> QED BY <2>1, <4>1, <4>2 DEF Trackers, WritesIn, Writes
      <3> QED BY <3>1 DEF Count
    <2> QED BY <1>2, <2>1, <2>2, <2>3 DEF HistInv
  <1> QED BY <1>3, <1>4

-----------------------------------------------------------------------------
\* The end of an apply does not touch a transaction that has not committed.
LEMMA UncommittedViews ==
  ASSUME Inv, NEW p \in Procs, EndApply(p), NEW t \in Txns,
         state[t] # "COMMITED"
  PROVE  view'[t] = view[t]
  <1> USE DEF Inv, BaseInv, TypeInv
  <1>1. cur[p] \in Groups /\ queue[cur[p]] \in Seq(Txns) /\ queue[cur[p]] # << >>
    BY DEF EndApply, Applying, TypeOK
  <1>2. t # Head(queue[cur[p]])
    BY <1>1, TailCovers DEF DataInv, QueuedCommitted
  <1> QED BY <1>1, <1>2 DEF EndApply, TypeOK

\* A transaction that does not read, or only starts to, keeps its moment.
LEMMA ReadingStays ==
  ASSUME Inv, HistInv, NEW p \in Procs, ProcStep(p), NEW t \in Txns,
         Reading(t), view'[t] = view[t], call'[t] # "version",
         state'[t] \in {"NONE", "ACTIVE"} /\ call'[t] # "commit" =>
           /\ state[t] \in {"NONE", "ACTIVE"} /\ call[t] # "commit"
           /\ pc'[t] = "others" <=> pc[t] = "others"
           /\ pc[t] = "others" => cur'[t] = cur[t]
  PROVE  Reading(t)'
  <1> SUFFICES ASSUME state'[t] \in {"NONE", "ACTIVE"}, call'[t] # "commit"
               PROVE  \E n \in 0 .. Len(hist)' :
                 IF pc'[t] = "others" THEN CutAt(t, n)' ELSE SeenAt(t, n)'
    BY DEF Reading
  <1>1. PICK n \in 0 .. Len(hist) :
          IF pc[t] = "others" THEN CutAt(t, n) ELSE SeenAt(t, n)
    BY DEF Reading
  <1>2. n \in 0 .. Len(hist)' /\ \A g : Count(n, g)' = Count(n, g)
    BY HistKeeps
  <1>3. pc[t] = "others" => CutAt(t, n)'
    BY <1>1, <1>2 DEF CutAt, Candidates
  <1>4. pc[t] # "others" => SeenAt(t, n)'
    BY <1>1, <1>2 DEF SeenAt
  <1> QED BY <1>2, <1>3, <1>4

LEMMA ReadingOther ==
  ASSUME Inv, HistInv, NEW p \in Procs, ProcStep(p),
         NEW t \in Txns, t # p, Reading(t)
  PROVE  Reading(t)'
  <1>1. /\ pc'[t] = pc[t] /\ call'[t] = call[t] /\ cur'[t] = cur[t]
        /\ state'[t] = state[t]
    BY FrameProc, FrameTxn DEF Procs, Inv, BaseInv
  <1>2. CASE state[t] \in {"NONE", "ACTIVE"}
    <2>1. view'[t] = view[t]
      BY <1>2, FrameTxn, UncommittedViews DEF Inv, BaseInv
    <2> QED BY <1>1, <2>1, ReadingStays DEF Reading
  <1>3. CASE state[t] \notin {"NONE", "ACTIVE"}
    BY <1>1, <1>3 DEF Reading
  <1> QED BY <1>2, <1>3

\* The snapshot just taken is of this moment, and the others are of earlier
\* ones.
LEMMA ReadingSnapshot ==
  ASSUME Inv, HistInv, NEW t \in Txns, TakeSnapshot(t), Reading(t)
  PROVE  Reading(t)'
  <1> USE DEF Inv, BaseInv, TypeInv
  <1>0. ProcStep(t) /\ t \in Procs /\ TypeOK /\ StatePlace(t)
    BY DEF ProcStep, TxnStep, Procs, DataInv, PlaceInv
  <1>1. /\ cur[t] \in Groups /\ pc[t] = "snap" /\ call[t] \in {"read", "commit"}
        /\ view[t][cur[t]] = NoView
    BY <1>0 DEF TakeSnapshot, TypeOK, StatePlace, Early, Reading
  <1>2. /\ view'[t][cur[t]].pos = logPos[cur[t]]
        /\ \A g \in Groups : g # cur[t] => view'[t][g] = view[t][g]
        /\ UNCHANGED <<hist, logPos>>
    <2>1. PICK data : view' = [view EXCEPT ![t][cur[t]] =
                                 [pos |-> logPos[cur[t]], data |-> data]]
      BY DEF TakeSnapshot
    <2>2. view[t] \in [Groups -> View \cup {NoView}]
      BY <1>0 DEF TypeOK
    <2>3. view'[t][cur[t]] = [pos |-> logPos[cur[t]], data |-> data]
      BY <1>0, <1>1, <2>1, <2>2 DEF TypeOK
    <2>4. UNCHANGED <<hist, logPos>>
      BY DEF TakeSnapshot, histVars
    <2> QED BY <1>0, <2>3, <2>4, TakeSnapshotViews
  <1>3. PICK n \in 0 .. Len(hist) : n = Len(hist)
    BY <1>0, LenProperties DEF TypeOK
  <1>4. n \in 0 .. Len(hist)' /\ \A g : Count(n, g)' = Count(n, g)
    BY <1>0, <1>3, HistKeeps
  <1>5. \A g \in Groups : /\ logPos[g] = Count(n, g) - 1
                          /\ view[t][g] # NoView => view[t][g].pos <= logPos[g]
    BY <1>3 DEF HistInv, DataInv, PositionTellsChange
  <1>6. CASE call[t] = "commit"
    BY <1>0, <1>6 DEF TakeSnapshot, Goto, Reading
  <1>7. CASE call[t] = "read" /\ Candidates(t) # {}
    <2>1. pc'[t] = "others" /\ call'[t] = "read" /\ cur'[t] = cur[t]
      BY <1>0, <1>7 DEF TakeSnapshot, Goto, TypeOK
    <2>2. CutAt(t, n)'
      BY <1>1, <1>2, <1>4, <1>5, <2>1 DEF CutAt, Candidates
    <2> QED BY <1>4, <2>1, <2>2 DEF Reading
  <1>8. CASE call[t] = "read" /\ Candidates(t) = {}
    <2>1. pc'[t] = "idle" /\ call'[t] = "none"
      BY <1>0, <1>8 DEF TakeSnapshot, Return, TypeOK
    <2>2. \A g \in Groups : g # cur[t] => view'[t][g] = NoView
      BY <1>2, <1>8 DEF Candidates
    <2>3. SeenAt(t, n)'
      BY <1>2, <1>4, <1>5, <2>2 DEF SeenAt
    <2> QED BY <1>4, <2>1, <2>3 DEF Reading
  <1> QED BY <1>1, <1>6, <1>7, <1>8

\* The check finds that the others have not moved since they were read, so
\* that they were there when the last snapshot was taken.
LEMMA ReadingCheck ==
  ASSUME Inv, HistInv, NEW t \in Txns, CheckOthers(t), Reading(t)
  PROVE  Reading(t)'
  <1> USE DEF Inv, BaseInv, TypeInv
  <1>0. ProcStep(t) /\ t \in Procs /\ TypeOK /\ StatePlace(t)
    BY DEF ProcStep, TxnStep, Procs, DataInv, PlaceInv
  <1>1. /\ pc'[t] = "idle" /\ call'[t] = "none" /\ UNCHANGED <<view, logPos>>
        /\ pc[t] = "others" /\ call[t] = "read" /\ state[t] = "ACTIVE"
    BY <1>0 DEF CheckOthers, Return, TypeOK, StatePlace, Early
  <1>2. CASE Contended(t)
    <2>1. state'[t] = "FAILED"
      BY <1>0, <1>2 DEF CheckOthers, TypeOK
    <2> QED BY <1>1, <2>1 DEF Reading
  <1>3. CASE ~ Contended(t)
    <2>1. PICK n \in 0 .. Len(hist) : CutAt(t, n)
      BY <1>1 DEF Reading
    <2>2. /\ n \in 0 .. Len(hist)' /\ \A g : Count(n, g)' = Count(n, g)
          /\ n \in Nat /\ Len(hist) \in Nat /\ n <= Len(hist)
      BY <1>0, HistKeeps
    <2>3. ASSUME NEW g \in Candidates(t)
          PROVE  view[t][g].pos = Count(n, g) - 1
      <3>1. g \in Groups /\ view[t][g] \in View
        BY <1>0, <2>3 DEF Candidates, TypeOK
      <3>2. /\ view[t][g].pos = logPos[g]
            /\ logPos[g] = Count(Len(hist), g) - 1
            /\ view[t][g].pos <= Count(n, g) - 1
        BY <1>3, <2>1, <2>3, <3>1 DEF Contended, HistInv, CutAt
      <3>3. /\ Count(n, g) <= Count(Len(hist), g)
            /\ Count(n, g) \in Nat /\ Count(Len(hist), g) \in Nat
        BY <2>2, CountGrows, CountIsNat
      <3> QED BY <3>2, <3>3
    <2>4. SeenAt(t, n)
      BY <2>1, <2>3 DEF SeenAt, CutAt, Candidates
    <2>5. SeenAt(t, n)'
      BY <1>1, <2>2, <2>4 DEF SeenAt
    <2> QED BY <1>1, <2>2, <2>5 DEF Reading
  <1> QED BY <1>2, <1>3

\* Without the pseudo-kind, no step of a transaction loses its moment.
LEMMA ReadingOwn ==
  ASSUME Inv, CommitInv, HistInv, VersionReads = FALSE,
         NEW t \in Txns, Client(t) \/ TxnStep(t), Reading(t)
  PROVE  Reading(t)'
  <1> USE DEF Inv, BaseInv, TypeInv, CommitInv
  <1>0. /\ ProcStep(t) /\ t \in Procs /\ TypeOK /\ StatePlace(t)
        /\ CommitPlace(t) /\ call[t] # "version"
    BY DEF ProcStep, Procs, DataInv, PlaceInv, CommitViewed, Reading
  <1>1. CASE Client(t)
    <2>1. CASE Begin(t) \/ Rollback(t)
      <3>1. /\ view'[t] = view[t] /\ call'[t] = call[t] /\ pc'[t] = pc[t]
            /\ cur'[t] = cur[t]
            /\ state'[t] \in {"NONE", "ACTIVE"} => state[t] \in {"NONE", "ACTIVE"}
        BY <1>0, <2>1 DEF Begin, Rollback, procVars, TypeOK
      <3> QED BY <1>0, <3>1, ReadingStays
    <2>2. CASE \/ \E k \in Keys, insert \in Inserts : Put(t, k, insert)
               \/ \E k \in Keys : Delete(t, k)
               \/ AddAction(t)
      <3>1. UNCHANGED <<state, view, call, pc, cur>>
        BY <2>2 DEF Put, Delete, AddAction, procVars
      <3> QED BY <1>0, <3>1, ReadingStays
    <2>3. CASE \E g \in Groups : Read(t, g)
      <3>1. /\ view'[t] = view[t] /\ state'[t] = state[t]
            /\ call'[t] = "read" /\ call[t] = "none" /\ pc'[t] = "grab"
            /\ pc[t] = "idle"
        BY <1>0, <2>3 DEF Read, Open, Grab, txnVars, TypeOK, CommitPlace
      <3> QED BY <1>0, <3>1, ReadingStays
    <2>4. CASE Commit(t)
      BY <1>0, <2>4 DEF Commit, Reading, TypeOK
    <2>5. \A g \in Groups : ~ ReadVersion(t, g)
      BY DEF ReadVersion
    <2> QED BY <1>1, <2>1, <2>2, <2>3, <2>4, <2>5 DEF Client
  <1>2. CASE ApplyKey(t) \/ SendAction(t) \/ LockOther(t)
    <2>1. UNCHANGED <<state, view, call, pc, cur>>
      BY <1>2 DEF ApplyKey, SendAction, LockOther, txnVars, procVars
    <2> QED BY <1>0, <2>1, ReadingStays
  <1>3. CASE EndApply(t)
    <2>1. UNCHANGED <<state, call, pc, cur>>
      BY <1>3 DEF EndApply, procVars
    <2>2. CASE state[t] \in {"NONE", "ACTIVE"}
      <3>1. view'[t] = view[t]
        BY <1>0, <1>3, <2>2, UncommittedViews
      <3> QED BY <1>0, <2>1, <3>1, ReadingStays
    <2>3. CASE state[t] \notin {"NONE", "ACTIVE"}
      BY <1>0, <2>1, <2>3 DEF Reading
    <2> QED BY <2>2, <2>3
  <1>4. CASE LockForSnapshot(t)
    <2>1. /\ UNCHANGED <<state, view, call>>
          /\ pc[t] = "grab" /\ pc'[t] = "snap"
      BY <1>0, <1>4 DEF LockForSnapshot, Goto, txnVars, TypeOK
    <2> QED BY <1>0, <2>1, ReadingStays
  <1>5. CASE TakeSnapshot(t) \/ CheckOthers(t)
    BY <1>5, ReadingSnapshot, ReadingCheck
  <1>6. CASE \/ GrabForCommit(t) \/ CheckTracker(t) \/ StartLocking(t)
             \/ LockTracker(t) \/ Validate(t) \/ CommitLog(t)
    <2>1. call[t] = "commit" /\ UNCHANGED call
      BY <1>0, <1>6
      DEF GrabForCommit, CheckTracker, StartLocking, LockTracker, Validate,
          CommitLog, Goto, CommitPlace, StatePlace
    <2> QED BY <2>1 DEF Reading
  <1>7. CASE InsertCollides(t) \/ CommitEmpty(t) \/ CommitConflict(t)
    <2>1. state'[t] = "ROLLEDBACK" /\ call'[t] = "none"
      BY <1>0, <1>7
      DEF InsertCollides, CommitEmpty, CommitConflict, Abandon, Return, TypeOK
    <2> QED BY <2>1 DEF Reading
  <1>8. CASE \/ VisitGroup(t) \/ LockForSweep(t) \/ LeaveGroup(t)
             \/ EndSweep(t) \/ SendFails(t) \/ CommitRelease(t) \/ LockToCatchUp(t)
             \/ CaughtUp(t) \/ FlushAfterCommit(t)
    <2>1. pc[t] \in Late \/ Sweeping(t)
      BY <1>8
      DEF VisitGroup, LockForSweep, LeaveGroup, EndSweep, SendFails, CommitRelease,
          LockToCatchUp, CaughtUp, FlushAfterCommit, Late, Sweeping
    <2>2. state'[t] = "COMMITED"
      BY <1>0, <2>1, CommittedStays DEF LatePlace
    <2>3. call'[t] \in {call[t], "none"}
      BY <1>0, <1>8
      DEF VisitGroup, LockForSweep, LeaveGroup, EndSweep, SendFails, CommitRelease,
          OnCommit, LockToCatchUp, CaughtUp, FlushAfterCommit, Goto, Return,
          TypeOK
    <2> QED BY <1>0, <2>2, <2>3 DEF Reading
  <1> QED
    BY <1>1, <1>2, <1>3, <1>4, <1>5, <1>6, <1>7, <1>8 DEF TxnStep, Step

-----------------------------------------------------------------------------
LEMMA InitReadInv == ASSUME Init PROVE ReadInv
  <1>1. hist = << >> /\ Len(hist) = 0
    BY EmptySeq, LenProperties DEF Init
  <1>2. HistInv
    BY <1>1, CountOfNone DEF HistInv, Init
  <1>3. ASSUME NEW t \in Txns
        PROVE  Reading(t)
    <2>1. call[t] = "none" /\ pc[t] = "idle" /\ \A g \in Groups : view[t][g] = NoView
      BY DEF Init, Procs
    <2>2. 0 \in 0 .. Len(hist) /\ SeenAt(t, 0)
      BY <1>1, <2>1 DEF SeenAt
    <2> QED BY <2>1, <2>2 DEF Reading
  <1> QED BY <1>2, <1>3 DEF ReadInv

LEMMA ReadInvStep ==
  ASSUME VersionReads = FALSE, Inv, CommitInv, ReadInv, [Next]_vars
  PROVE  ReadInv'
  <1>1. CASE UNCHANGED vars
    <2>1. UNCHANGED <<state, view, put, del, logPos, call, pc, cur, hist>>
      BY <1>1 DEF vars, txnVars, metaVars, procVars, histVars
    <2>2. \A n, g : Count(n, g)' = Count(n, g)
      <3>1. \A t : Trackers(t)' = Trackers(t)
        BY <2>1 DEF Trackers, WritesIn, Writes
      <3> QED BY <2>1, <3>1 DEF Count, Commits, Trackers, WritesIn, Writes
    <2>3. HistInv'
      BY <2>1, <2>2 DEF ReadInv, HistInv
    <2>4. \A t \in Txns : Reading(t)'
      BY <2>1, <2>2 DEF ReadInv, Reading, CutAt, SeenAt, Candidates
    <2> QED BY <2>3, <2>4 DEF ReadInv
  <1>2. CASE Next
    <2>1. PICK p \in Procs : ProcStep(p)
      BY <1>2 DEF Next, ProcStep, Procs
    <2>2. HistInv'
      BY <2>1, HistInvStep DEF ReadInv
    <2>3. ASSUME NEW t \in Txns
          PROVE  Reading(t)'
      <3>1. CASE t = p
        <4>1. Client(t) \/ TxnStep(t)
          BY <2>1, <3>1, ConstantsAssumption DEF ProcStep
        <4> QED BY <4>1, ReadingOwn DEF ReadInv
      <3>2. CASE t # p
        BY <2>1, <3>2, ReadingOther DEF ReadInv
      <3> QED BY <3>1, <3>2
    <2> QED BY <2>2, <2>3 DEF ReadInv
  <1> QED BY <1>1, <1>2

\* The groups an open transaction has read are as they all were after some
\* prefix of the commits, if the __entity_group__ pseudo-kind is not read.
THEOREM SnapshotsAreConsistent ==
  VersionReads = FALSE => (Spec => []ConsistentSnapshots)
  <1> SUFFICES ASSUME VersionReads = FALSE
               PROVE  Spec => []ConsistentSnapshots
    OBVIOUS
  <1>1. Init => ReadInv
    BY InitReadInv
  <1>2. Inv /\ CommitInv /\ ReadInv /\ [Next]_vars => ReadInv'
    BY ReadInvStep
  <1>3. Inv /\ ReadInv => ConsistentSnapshots
    <2> SUFFICES ASSUME Inv, ReadInv, NEW t \in Txns,
                        state[t] = "ACTIVE", call[t] = "none"
                 PROVE  \E n \in 0 .. Len(hist) : SeenAt(t, n)
      BY DEF ConsistentSnapshots, SeenAt, Count, Commits
    <2>1. pc[t] = "idle"
      BY DEF Inv, BaseInv, TypeInv, CommitViewed, CommitPlace
    <2> QED BY <2>1 DEF ReadInv, Reading
  <1> QED BY <1>1, <1>2, <1>3, CommitInvariance, PTL DEF Spec
=============================================================================
