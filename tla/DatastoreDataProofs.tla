------------------------ MODULE DatastoreDataProofs ------------------------
(***************************************************************************)
(* The data of DatastoreTxn: the store with its apply queues, the cached   *)
(* snapshots and those the transactions hold, for any transactions, groups *)
(* and keys.  What transactions see follows from them.                     *)
(***************************************************************************)
EXTENDS DatastoreTxnProofs

\* What becomes of a transaction before it reaches the log.
Early == {"grab", "snap", "others", "check", "lock", "log"}
StatePlace(t) ==
  /\ pc[t] \in Early =>
       /\ state[t] \in {"ACTIVE", "FAILED"}
       /\ call[t] \in {"read", "version", "commit"}
       /\ call[t] \in {"read", "commit"} => state[t] = "ACTIVE"
  /\ pc[t] \in {"check", "lock", "log"} => call[t] = "commit"
  /\ pc[t] = "others" => call[t] = "read"
  /\ pc[t] \in {"grab", "snap"} => view[t][cur[t]] = NoView

\* A transaction about to be logged finds its groups as it read them.
LogReady(t) ==
  pc[t] = "log" => \A g \in Trackers(t) : view[t][g].pos = logPos[g]

\* A group's log position is never the one of an applied tracker.
Positions == \A g \in Groups : logPos[g] > Applied

QueuedCommitted ==
  \A g \in Groups : \A i \in DOMAIN queue[g] : state[queue[g][i]] = "COMMITED"

\* StorePlusQueue, for one key.
Adds(k, q, d) ==
  /\ (\A i \in DOMAIN q : k \notin Writes(q[i])) => store[k] = db[k]
  /\ \A i \in DOMAIN q :
       /\ k \in Writes(q[i])
       /\ \A j \in DOMAIN q : k \in Writes(q[j]) => j <= i
       => db[k] = Effect(q[i], k)
  /\ k \in d => q # << >> /\ store[k] = Effect(Head(q), k)
KeyAdds(k) == Adds(k, queue[GroupOf[k]], done[GroupOf[k]])

PlaceInv == \A t \in Txns : StatePlace(t) /\ LogReady(t)
DataInv ==
  /\ PlaceInv /\ Positions /\ QueuedCommitted
  /\ CacheCurrent /\ PositionTellsChange /\ \A k \in Keys : KeyAdds(k)

BaseInv == TypeInv /\ LockInv

-----------------------------------------------------------------------------
LEMMA TailCovers ==
  ASSUME NEW s \in Seq(Txns), s # << >>
  PROVE  /\ 1 \in DOMAIN s /\ s[1] = Head(s) /\ Head(s) \in Txns
         /\ Tail(s) \in Seq(Txns)
         /\ \A i \in DOMAIN s :
              i = 1 \/ (i - 1 \in DOMAIN Tail(s) /\ Tail(s)[i - 1] = s[i])
  <1>1. DOMAIN Tail(s) = 1 .. Len(s) - 1 /\ DOMAIN s = 1 .. Len(s)
    BY HeadTailProperties, LenProperties
  <1>2. Len(s) \in Nat /\ Len(s) > 0
    BY EmptySeq, LenProperties
  <1>3. Head(s) = s[1] /\ Head(s) \in Txns /\ Tail(s) \in Seq(Txns)
    BY HeadTailProperties, <1>1, <1>2
  <1>4. ASSUME NEW i \in DOMAIN s, i # 1
        PROVE  i - 1 \in DOMAIN Tail(s) /\ Tail(s)[i - 1] = s[i]
    <2>1. i - 1 \in 1 .. Len(s) - 1
      BY <1>1, <1>2, <1>4
    <2> QED BY <1>1, <1>2, <2>1, HeadTailProperties
  <1> QED BY <1>1, <1>2, <1>3, <1>4

LEMMA AppendCovers ==
  ASSUME NEW s \in Seq(Txns), NEW t \in Txns
  PROVE  /\ Len(s) + 1 \in DOMAIN Append(s, t) /\ Append(s, t)[Len(s) + 1] = t
         /\ \A i \in DOMAIN s :
              /\ i \in DOMAIN Append(s, t) /\ Append(s, t)[i] = s[i]
              /\ i <= Len(s)
         /\ Len(s) \in Nat
         /\ s # << >> => Head(Append(s, t)) = Head(s)
         /\ Append(s, t) # << >>
  <1>1. DOMAIN Append(s, t) = 1 .. Len(s) + 1 /\ DOMAIN s = 1 .. Len(s)
    BY AppendProperties, LenProperties
  <1>2. Len(s) \in Nat
    BY LenProperties
  <1> QED BY <1>1, <1>2, AppendProperties, HeadTailProperties, EmptySeq

LEMMA SameSum == TypeOK => (StorePlusQueue <=> \A k \in Keys : KeyAdds(k))
  BY DEF StorePlusQueue, KeyAdds, Adds

\* Only the log of a commit moves a group's position.
LEMMA OnlyCommitLogs ==
  ASSUME NEW p \in Procs, ProcStep(p), ~ (p \in Txns /\ CommitLog(p))
  PROVE  UNCHANGED <<logPos, db, hist>>
  <1>1. CASE p \in Txns /\ Client(p)
    BY <1>1
    DEF Client, Begin, Put, Delete, AddAction, Rollback, Read, ReadVersion,
        Commit, metaVars, histVars
  <1>2. CASE Step(p)
    BY <1>2
    DEF Step, ApplyKey, EndApply, VisitGroup, LockForSweep, LeaveGroup,
        EndSweep, metaVars, histVars
  <1>3. CASE p \in Txns /\ TxnStep(p)
    BY <1>2, <1>3
    DEF TxnStep, LockForSnapshot, TakeSnapshot, LockOther, CheckOthers,
        GrabForCommit, InsertCollides, CheckTracker, CommitEmpty, StartLocking,
        LockTracker, CommitConflict, Validate, SendAction, SendFails, CommitRelease,
        LockToCatchUp, CaughtUp, FlushAfterCommit, StartSweep, Abandon,
        metaVars, histVars
  <1>4. CASE p \in Queries /\ (Flush(p) \/ Groom(p))
    BY <1>4 DEF Flush, Groom, StartSweep, metaVars, histVars
  <1> QED BY <1>1, <1>2, <1>3, <1>4 DEF ProcStep

-----------------------------------------------------------------------------
(* The places of a transaction.                                            *)

\* A step of a process leaves the place of another transaction as it is.
LEMMA PlaceOther ==
  ASSUME BaseInv, DataInv, NEW p \in Procs, ProcStep(p), NEW r \in Txns, r # p
  PROVE  StatePlace(r)' /\ LogReady(r)'
  <1> USE DEF BaseInv
  <1>1. StatePlace(r) /\ LogReady(r)
    BY DEF DataInv, PlaceInv
  <1>2. /\ pc'[r] = pc[r] /\ call'[r] = call[r] /\ cur'[r] = cur[r]
        /\ state'[r] = state[r] /\ Trackers(r)' = Trackers(r)
    BY FrameProc, FrameTxn, FrameTrackers DEF Procs
  <1>3. \A g \in Groups : view'[r][g] = NoView <=> view[r][g] = NoView
    BY FrameTxn, EndApplyViews
  <1>4. cur[r] \in Groups
    BY DEF TypeInv, TypeOK, Procs
  <1>5. StatePlace(r)'
    BY <1>1, <1>2, <1>3, <1>4 DEF StatePlace
  <1>6. ASSUME pc[r] = "log", NEW g \in Trackers(r)
        PROVE  view'[r][g].pos = logPos'[g]
    <2>1. g \in Groups /\ g \in Holds(r) /\ view[r][g] # NoView
      BY <1>6 DEF Holds, Trackers, TypeInv, CommitViewed, CommitPlace
    <2>2. g \notin Holds(p)
      BY <2>1 DEF LockInv, LocksHeld, Procs
    <2>3. view'[r][g].pos = view[r][g].pos
      <3>1. CASE EndApply(p)
        <4>1. g # cur[p]
          BY <2>2, <3>1 DEF EndApply, Applying, Holds
        <4> QED BY <2>1, <3>1, <4>1, EndApplyViews
      <3>2. CASE ~ EndApply(p)
        BY <3>2, FrameTxn
      <3> QED BY <3>1, <3>2
    <2>4. logPos'[g] = logPos[g]
      <3>1. CASE p \in Txns /\ CommitLog(p)
        <4>1. g \notin Trackers(p)
          BY <2>2, <3>1 DEF CommitLog, Holds
        <4> QED BY <2>1, <3>1, <4>1 DEF CommitLog, Log, NextPos
      <3>2. CASE ~ (p \in Txns /\ CommitLog(p))
        BY <3>2, OnlyCommitLogs
      <3> QED BY <3>1, <3>2
    <2> QED BY <1>1, <1>6, <2>3, <2>4 DEF LogReady
  <1> QED BY <1>2, <1>5, <1>6 DEF LogReady

\* The step of a process keeps to the places of its own transaction.
LEMMA PlaceOwn ==
  ASSUME BaseInv, DataInv, NEW t \in Txns, Client(t) \/ TxnStep(t)
  PROVE  StatePlace(t)' /\ LogReady(t)'
  <1> USE DEF BaseInv, StatePlace, LogReady, Early
  <1>0. /\ StatePlace(t) /\ LogReady(t) /\ CommitPlace(t) /\ t \in Procs
        /\ TypeOK
    BY DEF DataInv, PlaceInv, TypeInv, CommitViewed, Procs
  <1>1. CASE Client(t)
    <2>1. CASE Begin(t)
      BY <1>0, <2>1 DEF Begin, procVars, CommitPlace
    <2>2. CASE \E k \in Keys, insert \in Inserts : Put(t, k, insert)
      BY <1>0, <2>2 DEF Put, Open, procVars, CommitPlace
    <2>3. CASE \E k \in Keys : Delete(t, k)
      BY <1>0, <2>3 DEF Delete, Open, procVars, CommitPlace
    <2>4. CASE AddAction(t)
      BY <1>0, <2>4 DEF AddAction, Open, procVars, CommitPlace
    <2>5. CASE Rollback(t)
      BY <1>0, <2>5 DEF Rollback, procVars, CommitPlace
    <2>6. CASE \E g \in Groups : Read(t, g) \/ ReadVersion(t, g)
      <3>1. PICK g \in Groups : Read(t, g) \/ ReadVersion(t, g)
        BY <2>6
      <3>2. /\ pc'[t] = "grab" /\ cur'[t] = g /\ view[t][g] = NoView
            /\ UNCHANGED <<view, state>>
            /\ \/ call'[t] = "read" /\ state[t] = "ACTIVE"
               \/ call'[t] = "version" /\ state[t] \in {"ACTIVE", "FAILED"}
        BY <1>0, <3>1 DEF Read, ReadVersion, Open, Grab, txnVars, TypeOK
      <3> QED BY <3>2
    <2>7. CASE Commit(t)
      <3>1. /\ pc'[t] = "check" /\ call'[t] = "commit"
            /\ state'[t] = "ACTIVE"
        BY <1>0, <2>7 DEF Commit, Open, txnVars, TypeOK
      <3> QED BY <3>1
    <2> QED BY <1>1, <2>1, <2>2, <2>3, <2>4, <2>5, <2>6, <2>7 DEF Client
  <1>2. CASE Step(t)
    <2>1. CASE EndApply(t)
      <3>1. view[t][cur[t]] = NoView => view'[t][cur[t]] = NoView
        BY <1>0, <2>1, EndApplyViews DEF TypeOK
      <3>2. pc[t] # "log" /\ UNCHANGED <<pc, call, cur, state>>
        BY <2>1 DEF EndApply, Applying, procVars
      <3> QED BY <1>0, <3>1, <3>2
    <2>2. CASE ApplyKey(t)
      BY <1>0, <2>2 DEF ApplyKey, Applying, txnVars, procVars
    <2>3. CASE VisitGroup(t) \/ LockForSweep(t) \/ LeaveGroup(t) \/ EndSweep(t)
      <3>1. pc'[t] \in {"sweep", "sweepWait", "sweepHold", "idle"}
        BY <1>0, <2>3
        DEF VisitGroup, LockForSweep, LeaveGroup, EndSweep, Goto, Return, TypeOK
      <3> QED BY <3>1
    <2> QED BY <1>2, <2>1, <2>2, <2>3 DEF Step
  <1>3. CASE LockForSnapshot(t)
    BY <1>0, <1>3 DEF LockForSnapshot, Goto, txnVars, TypeOK
  <1>4. CASE TakeSnapshot(t)
    <2>1. /\ pc[t] = "snap" /\ state'[t] = state[t]
          /\ \/ pc'[t] = "others" /\ call'[t] = "read" /\ call[t] = "read"
             \/ pc'[t] = "idle"
             \/ pc'[t] = "check" /\ call'[t] = "commit" /\ call[t] = "commit"
      BY <1>0, <1>4 DEF TakeSnapshot, Goto, Return, TypeOK
    <2> QED BY <1>0, <2>1
  <1>5. CASE LockOther(t)
    BY <1>0, <1>5 DEF LockOther, txnVars
  <1>6. CASE CheckOthers(t)
    BY <1>0, <1>6 DEF CheckOthers, Return, TypeOK
  <1>7. CASE GrabForCommit(t)
    <2>1. PICK g \in todo[t] : view[t][g] = NoView /\ Grab(t, g)
      BY <1>7 DEF GrabForCommit
    <2>2. /\ pc[t] = "check" /\ pc'[t] = "grab" /\ cur'[t] = g
          /\ UNCHANGED <<view, state, call>>
      BY <1>0, <1>7, <2>1 DEF GrabForCommit, Grab, txnVars, TypeOK
    <2> QED BY <1>0, <2>1, <2>2
  <1>8. CASE InsertCollides(t) \/ CommitEmpty(t) \/ CommitConflict(t)
    <2>1. pc'[t] = "idle"
      BY <1>0, <1>8
      DEF InsertCollides, CommitEmpty, CommitConflict, Abandon, Return, TypeOK
    <2> QED BY <2>1
  <1>9. CASE CheckTracker(t) \/ StartLocking(t) \/ LockTracker(t)
    <2>1. /\ pc[t] \in {"check", "lock"} /\ pc'[t] \in {"check", "lock"}
          /\ UNCHANGED <<state, call>>
      BY <1>0, <1>9
      DEF CheckTracker, StartLocking, LockTracker, txnVars, TypeOK
    <2> QED BY <1>0, <2>1
  <1>10. CASE Validate(t)
    <2>1. /\ pc[t] = "lock" /\ pc'[t] = "log" /\ Moved(t) = {}
          /\ UNCHANGED <<state, call, view, logPos>> /\ Trackers(t)' = Trackers(t)
      BY <1>0, <1>10
      DEF Validate, Goto, txnVars, metaVars, TypeOK, Trackers, WritesIn, Writes
    <2> QED BY <1>0, <2>1 DEF Moved
  <1>11. CASE CommitLog(t) \/ SendFails(t) \/ CommitRelease(t) \/ LockToCatchUp(t)
               \/ CaughtUp(t) \/ FlushAfterCommit(t)
    <2>1. pc'[t] \in {"send", "idle", "master", "masterHold", "sweep"}
      BY <1>0, <1>11
      DEF CommitLog, SendFails, CommitRelease, OnCommit, LockToCatchUp, CaughtUp,
          FlushAfterCommit, StartSweep, Goto, Return, TypeOK
    <2> QED BY <2>1
  <1>12. CASE SendAction(t)
    BY <1>0, <1>12 DEF SendAction, MaySend, procVars
  <1> QED
    BY <1>1, <1>2, <1>3, <1>4, <1>5, <1>6, <1>7, <1>8, <1>9, <1>10, <1>11,
       <1>12
    DEF TxnStep

-----------------------------------------------------------------------------
(* The data.                                                               *)

DataSum ==
  /\ Positions /\ QueuedCommitted
  /\ CacheCurrent /\ PositionTellsChange /\ \A k \in Keys : KeyAdds(k)

\* What a step that does not touch the data leaves alone.
Quiet ==
  /\ UNCHANGED <<logPos, queue, cache, done, store, db, view>>
  /\ \A t \in Txns : state[t] = "COMMITED" =>
       state'[t] = "COMMITED" /\ put'[t] = put[t] /\ del'[t] = del[t]

LEMMA QuietKeepsData == ASSUME TypeInv, DataSum, Quiet PROVE DataSum'
  <1> USE DEF DataSum
  <1>1. \A g \in Groups : \A i \in DOMAIN queue[g] :
          /\ queue[g][i] \in Txns
          /\ state[queue[g][i]] = "COMMITED"
          /\ put'[queue[g][i]] = put[queue[g][i]]
          /\ Writes(queue[g][i])' = Writes(queue[g][i])
    BY DEF TypeInv, TypeOK, QueuedCommitted, Quiet, Writes
  <1>2. Positions' /\ QueuedCommitted'
    BY <1>1 DEF Positions, QueuedCommitted, Quiet
  <1>3. CacheCurrent' /\ PositionTellsChange'
    BY DEF CacheCurrent, PositionTellsChange, DbIn, Quiet
  <1>4. ASSUME NEW k \in Keys
        PROVE  KeyAdds(k)'
    <2> DEFINE q == queue[GroupOf[k]]
    <2>1. GroupOf[k] \in Groups /\ KeyAdds(k)
      BY ConstantsAssumption
    <2>2. \A i \in DOMAIN q : /\ Writes(q[i])' = Writes(q[i])
                              /\ Effect(q[i], k)' = Effect(q[i], k)
      BY <1>1, <2>1 DEF Effect, Quiet
    <2>3. q # << >> => Effect(Head(q), k)' = Effect(Head(q), k)
      <3>1. q # << >> => 1 \in DOMAIN q /\ q[1] = Head(q)
        BY <2>1, TailCovers DEF TypeInv, TypeOK
      <3> QED BY <2>2, <3>1 DEF Quiet
    <2>4. /\ q' = q /\ done'[GroupOf[k]] = done[GroupOf[k]]
          /\ store'[k] = store[k] /\ db'[k] = db[k]
      BY DEF Quiet
    <2> QED BY <2>1, <2>2, <2>3, <2>4 DEF KeyAdds, Adds
  <1> QED BY <1>2, <1>3, <1>4

\* All but four actions are quiet.
LEMMA MostAreQuiet ==
  ASSUME BaseInv, PlaceInv, NEW p \in Procs, ProcStep(p),
         ~ ApplyKey(p), ~ EndApply(p),
         ~ (p \in Txns /\ (TakeSnapshot(p) \/ CommitLog(p)))
  PROVE  Quiet
  <1> USE DEF BaseInv
  <1>1. UNCHANGED <<logPos, queue, cache, done, store, db, view>>
    <2>1. CASE p \in Txns /\ Client(p)
      BY <2>1
      DEF Client, Begin, Put, Delete, AddAction, Rollback, Read, ReadVersion,
          Commit, txnVars, metaVars, histVars
    <2>2. CASE Step(p)
      BY <2>2
      DEF Step, VisitGroup, LockForSweep, LeaveGroup, EndSweep, txnVars,
          metaVars, histVars
    <2>3. CASE p \in Txns /\ TxnStep(p)
      BY <2>2, <2>3
      DEF TxnStep, LockForSnapshot, LockOther, CheckOthers, GrabForCommit,
          InsertCollides, CheckTracker, CommitEmpty, StartLocking, LockTracker,
          CommitConflict, Validate, SendAction, SendFails, CommitRelease, LockToCatchUp,
          CaughtUp, FlushAfterCommit, StartSweep, Abandon, txnVars, metaVars,
          histVars
    <2>4. CASE p \in Queries /\ (Flush(p) \/ Groom(p))
      BY <2>4 DEF Flush, Groom, StartSweep, txnVars, metaVars, histVars
    <2> QED BY <2>1, <2>2, <2>3, <2>4 DEF ProcStep
  <1>2. ASSUME p \in Txns, state[p] = "COMMITED"
        PROVE  UNCHANGED <<state, put, del>>
    <2>0. StatePlace(p)
      BY <1>2 DEF PlaceInv
    <2>1. CASE Client(p)
      BY <1>2, <2>1
      DEF Client, Begin, Put, Delete, AddAction, Rollback, Read, ReadVersion,
          Commit, Open, txnVars
    <2>2. CASE Step(p)
      BY <2>2
      DEF Step, VisitGroup, LockForSweep, LeaveGroup, EndSweep, txnVars
    <2>3. CASE \/ CheckOthers(p) \/ InsertCollides(p) \/ CommitEmpty(p)
               \/ CommitConflict(p)
      BY <1>2, <2>0, <2>3
      DEF CheckOthers, InsertCollides, CommitEmpty, CommitConflict, StatePlace,
          Early
    <2>4. CASE TxnStep(p) /\ ~ Step(p) /\ ~ CheckOthers(p)
               /\ ~ InsertCollides(p) /\ ~ CommitEmpty(p) /\ ~ CommitConflict(p)
      BY <1>2, <2>4
      DEF TxnStep, LockForSnapshot, LockOther, GrabForCommit, CheckTracker,
          StartLocking, LockTracker, Validate, SendAction, SendFails, CommitRelease,
          LockToCatchUp, CaughtUp, FlushAfterCommit, StartSweep, txnVars
    <2> QED
      BY <1>2, <2>1, <2>2, <2>3, <2>4, ConstantsAssumption DEF ProcStep
  <1>3. ASSUME NEW t \in Txns, state[t] = "COMMITED"
        PROVE  state'[t] = "COMMITED" /\ put'[t] = put[t] /\ del'[t] = del[t]
    BY <1>2, <1>3, FrameTxn
  <1> QED BY <1>1, <1>3 DEF Quiet

\* The writes of a transaction in the store, one by one.
LEMMA ApplyKeyData ==
  ASSUME TypeInv, DataSum, NEW p \in Procs, ApplyKey(p)
  PROVE  DataSum'
  <1> USE DEF DataSum
  <1> DEFINE g == cur[p]
             u == Head(queue[g])
  <1>1. g \in Groups /\ queue[g] # << >> /\ queue[g] \in Seq(Txns)
    BY DEF ApplyKey, Applying, TypeInv, TypeOK
  <1>2. PICK k \in Remaining(u, g) :
          /\ store' = [store EXCEPT ![k] = Effect(u, k)]
          /\ done' = [done EXCEPT ![g] = @ \cup {k}]
    BY DEF ApplyKey
  <1>3. UNCHANGED <<logPos, queue, cache, db, view, state, put, del>>
    BY DEF ApplyKey, txnVars, histVars
  <1>4. k \in Keys /\ GroupOf[k] = g /\ k \in Writes(u)
    BY <1>2 DEF Remaining, WritesIn, KeysOf
  <1>5. 1 \in DOMAIN queue[g] /\ queue[g][1] = u
    BY <1>1, TailCovers
  <1>6. Positions' /\ QueuedCommitted' /\ CacheCurrent' /\ PositionTellsChange'
    BY <1>3 DEF Positions, QueuedCommitted, CacheCurrent, PositionTellsChange, DbIn
  <1>7. ASSUME NEW j \in Keys
        PROVE  KeyAdds(j)'
    <2>1. GroupOf[j] \in Groups /\ KeyAdds(j)
      BY ConstantsAssumption
    <2>2. \A w : Writes(w)' = Writes(w) /\ Effect(w, j)' = Effect(w, j)
      BY <1>3 DEF Writes, Effect
    <2>3. CASE j = k
      <3>1. store'[j] = Effect(u, j)
        BY <1>2, <1>4, <2>3 DEF TypeInv, TypeOK
      <3> QED
        BY <1>1, <1>3, <1>4, <1>5, <2>1, <2>2, <2>3, <3>1 DEF KeyAdds, Adds
    <2>4. CASE j # k
      <3>1. /\ store'[j] = store[j]
            /\ j \in done'[GroupOf[j]] <=> j \in done[GroupOf[j]]
        BY <1>2, <1>1, <2>1, <2>4 DEF TypeInv, TypeOK
      <3> QED BY <1>3, <2>1, <2>2, <3>1 DEF KeyAdds, Adds
    <2> QED BY <2>3, <2>4
  <1> QED BY <1>6, <1>7

\* The end of an apply takes the head off the queue: its writes are all in the
\* store, and those of the transactions behind it are still to come.
LEMMA EndApplyData ==
  ASSUME TypeInv, DataSum, NEW p \in Procs, EndApply(p)
  PROVE  DataSum'
  <1> USE DEF DataSum
  <1> DEFINE g == cur[p]
             s == queue[g]
             u == Head(s)
  <1>1. g \in Groups /\ s # << >> /\ s \in Seq(Txns) /\ u \in Txns
    BY TailCovers DEF EndApply, Applying, TypeInv, TypeOK
  <1>2. /\ done'[g] = {} /\ queue'[g] = Tail(s)
        /\ \A h \in Groups : h # g => queue'[h] = queue[h] /\ done'[h] = done[h]
    BY <1>1 DEF EndApply, TypeInv, TypeOK
  <1>3. UNCHANGED <<logPos, cache, db, store, state, put, del>>
    BY DEF EndApply, histVars
  <1>4. WritesIn(u, g) \subseteq done[g]
    BY DEF EndApply, Remaining
  <1>5. Positions'
    BY <1>3 DEF Positions
  <1>6. QueuedCommitted'
    <2> SUFFICES ASSUME NEW h \in Groups, NEW i \in DOMAIN queue'[h]
                 PROVE  state[queue'[h][i]] = "COMMITED"
      BY <1>3 DEF QueuedCommitted
    <2>1. CASE h = g
      <3>1. queue'[h] = Tail(s) /\ i \in DOMAIN Tail(s)
        BY <1>2, <2>1
      <3>2. i + 1 \in DOMAIN s /\ Tail(s)[i] = s[i + 1]
        BY <1>1, <3>1, TailElement
      <3> QED BY <1>1, <3>1, <3>2 DEF QueuedCommitted
    <2>2. CASE h # g
      BY <1>2, <2>2 DEF QueuedCommitted
    <2> QED BY <2>1, <2>2
  <1>7. CacheCurrent'
    <2>1. cache[g] = NoView
      BY <1>1 DEF CacheCurrent
    <2> QED BY <1>2, <1>3, <2>1 DEF CacheCurrent, DbIn
  <1>8. PositionTellsChange'
    <2> SUFFICES ASSUME NEW t \in Txns, NEW h \in Groups, view'[t][h] # NoView
                 PROVE  /\ view'[t][h].pos <= logPos[h]
                        /\ view'[t][h].pos = logPos[h] =>
                             view'[t][h].data = DbIn(h)'
      BY <1>3 DEF PositionTellsChange
    <2>1. /\ view[t][h] # NoView /\ view'[t][h].data = view[t][h].data
          /\ \/ view'[t][h].pos = view[t][h].pos
             \/ view'[t][h].pos = Applied
      BY EndApplyViews
    <2>2. logPos[h] \in Int /\ logPos[h] > Applied /\ Applied \in Int
      BY DEF Positions, TypeInv, TypeOK, Applied
    <2>3. DbIn(h)' = DbIn(h)
      BY <1>3 DEF DbIn
    <2> QED BY <2>1, <2>2, <2>3 DEF PositionTellsChange
  <1>9. ASSUME NEW k \in Keys
        PROVE  KeyAdds(k)'
    <2>1. GroupOf[k] \in Groups /\ KeyAdds(k)
      BY ConstantsAssumption
    <2>2. \A w : Writes(w)' = Writes(w) /\ Effect(w, k)' = Effect(w, k)
      BY <1>3 DEF Writes, Effect
    <2>3. CASE GroupOf[k] # g
      BY <1>2, <1>3, <2>1, <2>2, <2>3 DEF KeyAdds, Adds
    <2>4. CASE GroupOf[k] = g
      <3>1. Adds(k, s, done[g])
        BY <2>1, <2>4 DEF KeyAdds
      <3>2. /\ \A i \in DOMAIN Tail(s) :
                 /\ i \in Nat \ {0} /\ i + 1 \in DOMAIN s
                 /\ Tail(s)[i] = s[i + 1]
            /\ 1 \in DOMAIN s /\ s[1] = u
            /\ \A i \in DOMAIN s :
                 i = 1 \/ (i - 1 \in DOMAIN Tail(s) /\ Tail(s)[i - 1] = s[i])
            /\ DOMAIN s \subseteq Nat
        BY <1>1, TailElement, TailCovers, LenProperties
      <3>3. ASSUME \A i \in DOMAIN Tail(s) : k \notin Writes(Tail(s)[i])
            PROVE  store[k] = db[k]
        <4>1. \A i \in DOMAIN s : i = 1 \/ k \notin Writes(s[i])
          BY <3>2, <3>3
        <4>2. CASE k \in Writes(u)
          <5>1. k \in done[g]
            BY <1>4, <2>4, <4>2 DEF WritesIn, KeysOf
          <5>2. \A i \in DOMAIN s : k \in Writes(s[i]) => i <= 1
            BY <3>2, <4>1
          <5> QED BY <3>1, <3>2, <4>2, <5>1, <5>2 DEF Adds
        <4>3. CASE k \notin Writes(u)
          BY <3>1, <3>2, <4>1, <4>3 DEF Adds
        <4> QED BY <4>2, <4>3
      <3>4. ASSUME NEW i \in DOMAIN Tail(s), k \in Writes(Tail(s)[i]),
                   \A j \in DOMAIN Tail(s) : k \in Writes(Tail(s)[j]) => j <= i
            PROVE  db[k] = Effect(Tail(s)[i], k)
        <4>1. i + 1 \in DOMAIN s /\ Tail(s)[i] = s[i + 1] /\ i \in Nat
          BY <3>2, <3>4
        <4>2. ASSUME NEW j \in DOMAIN s, k \in Writes(s[j])
              PROVE  j <= i + 1
          <5>1. j \in Nat /\ (j = 1 \/ j - 1 <= i)
            BY <3>2, <3>4, <4>2
          <5> QED BY <4>1, <5>1
        <4> QED BY <3>1, <3>4, <4>1, <4>2 DEF Adds
      <3>5. queue'[GroupOf[k]] = Tail(s) /\ done'[GroupOf[k]] = {}
        BY <1>2, <2>4
      <3> QED BY <1>3, <2>2, <3>3, <3>4, <3>5 DEF KeyAdds, Adds
    <2> QED BY <2>3, <2>4
  <1> QED BY <1>5, <1>6, <1>7, <1>8, <1>9

\* A group with nothing queued has its committed state in the store.
LEMMA StoreIsCommitted ==
  ASSUME TypeInv, DataSum, NEW g \in Groups, queue[g] = << >>
  PROVE  StoreIn(g) = DbIn(g)
  <1>1. ASSUME NEW k \in KeysOf(g)
        PROVE  store[k] = db[k]
    <2>1. k \in Keys /\ GroupOf[k] = g
      BY DEF KeysOf
    <2>2. DOMAIN queue[g] = {}
      BY EmptySeq, LenProperties DEF TypeInv, TypeOK
    <2> QED BY <2>1, <2>2 DEF DataSum, KeyAdds, Adds
  <1> QED BY <1>1 DEF StoreIn, DbIn

\* What a transaction takes as its snapshot is what the commits have left.
LEMMA TakeSnapshotData ==
  ASSUME TypeInv, DataSum, NEW t \in Txns, TakeSnapshot(t)
  PROVE  /\ DataSum'
         /\ view'[t][cur[t]].data = DbIn(cur[t])
         /\ view'[t][cur[t]].pos = logPos[cur[t]]
  <1> USE DEF DataSum
  <1> DEFINE g == cur[t]
             data == IF Usable(cache[g]) THEN cache[g] ELSE StoreIn(g)
             taken == [pos |-> logPos[g], data |-> data]
  <1>1. g \in Groups /\ t \in Procs
    BY DEF TypeInv, TypeOK, Procs
  <1>2. queue[g] = << >> /\ data = DbIn(g)
    <2>1. CASE Usable(cache[g])
      BY <1>1, <2>1 DEF CacheCurrent, Usable
    <2>2. CASE ~ Usable(cache[g])
      BY <1>1, <2>2, StoreIsCommitted DEF TakeSnapshot, SnapshotReady
    <2> QED BY <2>1, <2>2
  <1>3. /\ view' = [view EXCEPT ![t] = [view[t] EXCEPT ![g] = taken]]
        /\ cache' = [cache EXCEPT ![g] = data]
    BY DEF TakeSnapshot
  <1>4. UNCHANGED <<logPos, queue, done, store, db, state, put, del>>
    BY DEF TakeSnapshot, histVars
  <1>5. view'[t][g] = taken
    BY <1>1, <1>3 DEF TypeInv, TypeOK
  <1> HIDE DEF data, taken
  <1>6. Positions' /\ QueuedCommitted'
    BY <1>4 DEF Positions, QueuedCommitted
  <1>7. CacheCurrent'
    BY <1>1, <1>2, <1>3, <1>4 DEF CacheCurrent, DbIn, TypeInv, TypeOK
  <1>8. taken.pos = logPos[g] /\ taken.data = DbIn(g) /\ logPos[g] \in Int
    BY <1>1, <1>2 DEF taken, TypeInv, TypeOK
  <1>9. PositionTellsChange'
    <2> SUFFICES ASSUME NEW u \in Txns, NEW h \in Groups, view'[u][h] # NoView
                 PROVE  /\ view'[u][h].pos <= logPos[h]
                        /\ view'[u][h].pos = logPos[h] =>
                             view'[u][h].data = DbIn(h)
      BY <1>4 DEF PositionTellsChange, DbIn
    <2>1. CASE u = t /\ h = g
      BY <1>5, <1>8, <2>1
    <2>2. CASE u # t \/ h # g
      BY <2>2, TakeSnapshotViews DEF PositionTellsChange, TypeInv
    <2> QED BY <2>1, <2>2
  <1>10. \A k \in Keys : KeyAdds(k)'
    BY <1>4 DEF KeyAdds, Adds, Writes, Effect
  <1> QED BY <1>5, <1>6, <1>7, <1>8, <1>9, <1>10

\* The log of a commit puts the transaction behind the others in the queues of
\* its groups, and makes their snapshots old.
LEMMA CommitLogData ==
  ASSUME TypeInv, DataSum, NEW t \in Txns, CommitLog(t)
  PROVE  DataSum'
  <1> USE DEF DataSum
  <1>1. /\ \A g \in Trackers(t) : /\ queue'[g] = Append(queue[g], t)
                                  /\ logPos'[g] = logPos[g] + 1
                                  /\ cache'[g] = NoView
        /\ \A g \in Groups \ Trackers(t) :
             queue'[g] = queue[g] /\ logPos'[g] = logPos[g] /\ cache'[g] = cache[g]
        /\ Trackers(t) \subseteq Groups
    BY DEF CommitLog, Log, QueueWith, NextPos, NoCache, Trackers
  <1>2. /\ UNCHANGED <<view, put, del, done, store>>
        /\ state' = [state EXCEPT ![t] = "COMMITED"]
        /\ db' = [k \in Keys |-> IF k \in Writes(t) THEN Effect(t, k) ELSE db[k]]
    BY DEF CommitLog
  <1>3. \A g \in Groups : logPos[g] \in Int /\ queue[g] \in Seq(Txns)
    BY DEF TypeInv, TypeOK
  <1>4. \A k \in Writes(t) : k \in Keys => GroupOf[k] \in Trackers(t)
    BY ConstantsAssumption DEF Trackers, WritesIn, KeysOf
  <1>5. \A g \in Groups \ Trackers(t) : DbIn(g)' = DbIn(g)
    <2> SUFFICES ASSUME NEW g \in Groups \ Trackers(t), NEW k \in KeysOf(g)
                 PROVE  db'[k] = db[k]
      BY DEF DbIn
    <2>1. k \in Keys /\ k \notin Writes(t)
      BY <1>4 DEF KeysOf
    <2> QED BY <1>2, <2>1
  <1>6. Positions'
    BY <1>1, <1>3 DEF Positions, Applied
  <1>7. QueuedCommitted'
    <2> SUFFICES ASSUME NEW g \in Groups, NEW i \in DOMAIN queue'[g]
                 PROVE  state'[queue'[g][i]] = "COMMITED"
      BY DEF QueuedCommitted
    <2>1. \/ queue'[g][i] = t
          \/ i \in DOMAIN queue[g] /\ queue'[g][i] = queue[g][i]
      <3>1. CASE g \in Trackers(t)
        <4>1. i \in DOMAIN Append(queue[g], t)
          BY <1>1, <3>1
        <4> QED BY <1>1, <1>3, <3>1, <4>1, AppendElement
      <3>2. CASE g \notin Trackers(t)
        BY <1>1, <3>2
      <3> QED BY <3>1, <3>2
    <2>2. queue'[g][i] \in Txns
      BY <1>3, <2>1
    <2> QED BY <1>2, <2>1, <2>2 DEF QueuedCommitted, TypeInv, TypeOK
  <1>8. CacheCurrent'
    BY <1>1, <1>5 DEF CacheCurrent
  <1>9. PositionTellsChange'
    <2> SUFFICES ASSUME NEW u \in Txns, NEW g \in Groups, view[u][g] # NoView
                 PROVE  /\ view[u][g].pos <= logPos'[g]
                        /\ view[u][g].pos = logPos'[g] =>
                             view[u][g].data = DbIn(g)'
      BY <1>2 DEF PositionTellsChange
    <2>1. view[u][g].pos \in Int /\ view[u][g].pos <= logPos[g]
      BY DEF PositionTellsChange, TypeInv, TypeOK, View
    <2>2. CASE g \in Trackers(t)
      BY <1>1, <1>3, <2>1, <2>2
    <2>3. CASE g \notin Trackers(t)
      BY <1>1, <1>5, <2>3 DEF PositionTellsChange
    <2> QED BY <2>2, <2>3
  <1>10. ASSUME NEW k \in Keys
         PROVE  KeyAdds(k)'
    <2> DEFINE g == GroupOf[k]
               s == queue[g]
    <2>1. g \in Groups /\ KeyAdds(k) /\ s \in Seq(Txns) /\ g' = g
      BY <1>3, ConstantsAssumption
    <2>2. \A w : Writes(w)' = Writes(w) /\ Effect(w, k)' = Effect(w, k)
      BY <1>2 DEF Writes, Effect
    <2>3. store'[k] = store[k] /\ done'[g] = done[g]
      BY <1>2
    <2>4. db'[k] = IF k \in Writes(t) THEN Effect(t, k) ELSE db[k]
      BY <1>2
    <2>5. CASE g \notin Trackers(t)
      <3>1. queue'[g] = s /\ db'[k] = db[k]
        BY <1>1, <1>4, <2>1, <2>4, <2>5
      <3> QED BY <2>1, <2>2, <2>3, <3>1 DEF KeyAdds, Adds
    <2>6. CASE g \in Trackers(t)
      <3> DEFINE n == Len(s) + 1
                 r == Append(s, t)
      <3>1. queue'[g] = r
        BY <1>1, <2>6
      <3>2. /\ n \in DOMAIN r /\ r[n] = t /\ n \in Nat
            /\ \A i \in DOMAIN s : i \in DOMAIN r /\ r[i] = s[i] /\ i < n
            /\ r # << >> /\ (s # << >> => Head(r) = Head(s))
        BY <2>1, AppendCovers, LenProperties
      <3>3. \A i \in DOMAIN r : i = n \/ (i \in DOMAIN s /\ r[i] = s[i])
        BY <2>1, AppendElement
      <3>4. Adds(k, s, done[g])
        BY <2>1 DEF KeyAdds
      <3> HIDE DEF n, r
      <3>5. ASSUME \A i \in DOMAIN r : k \notin Writes(r[i])
            PROVE  store[k] = db'[k]
        <4>1. k \notin Writes(t) /\ \A i \in DOMAIN s : k \notin Writes(s[i])
          BY <3>2, <3>5
        <4> QED BY <2>4, <3>4, <4>1 DEF Adds
      <3>6. ASSUME NEW i \in DOMAIN r, k \in Writes(r[i]),
                   \A j \in DOMAIN r : k \in Writes(r[j]) => j <= i
            PROVE  db'[k] = Effect(r[i], k)
        <4>1. CASE k \in Writes(t)
          <5>1. n <= i
            BY <3>2, <3>6, <4>1
          <5>2. i = n
            <6>1. CASE i \in DOMAIN s
              <7>1. i \in Nat /\ i < n
                BY <2>1, <3>2, <6>1, LenProperties
              <7> QED BY <3>2, <5>1, <7>1
            <6> QED BY <3>3, <6>1
          <5> QED BY <2>4, <3>2, <4>1, <5>2
        <4>2. CASE k \notin Writes(t)
          <5>1. i \in DOMAIN s /\ r[i] = s[i]
            BY <3>2, <3>3, <3>6, <4>2
          <5>2. \A j \in DOMAIN s : k \in Writes(s[j]) => j <= i
            BY <3>2, <3>6
          <5> QED BY <2>4, <3>4, <3>6, <4>2, <5>1, <5>2 DEF Adds
        <4> QED BY <4>1, <4>2
      <3>7. k \in done[g] => r # << >> /\ store[k] = Effect(Head(r), k)
        BY <3>2, <3>4 DEF Adds
      <3> QED BY <2>1, <2>2, <2>3, <3>1, <3>5, <3>6, <3>7 DEF KeyAdds, Adds
    <2> QED BY <2>5, <2>6
  <1> QED BY <1>6, <1>7, <1>8, <1>9, <1>10

-----------------------------------------------------------------------------
Inv == BaseInv /\ DataInv

LEMMA InitInv == ASSUME Init PROVE Inv
  <1>1. BaseInv
    BY InitTypeInv, InitLockInv DEF BaseInv
  <1>2. PlaceInv
    BY DEF Init, PlaceInv, StatePlace, LogReady, Early, Procs
  <1>3. \A g \in Groups : DOMAIN queue[g] = {} /\ queue[g] = << >>
    BY EmptySeq, LenProperties DEF Init
  <1>4. Positions /\ QueuedCommitted /\ CacheCurrent /\ PositionTellsChange
    BY <1>3
    DEF Init, Positions, Applied, QueuedCommitted, CacheCurrent,
        PositionTellsChange
  <1>5. \A k \in Keys : KeyAdds(k)
    BY <1>3, ConstantsAssumption DEF Init, KeyAdds, Adds
  <1> QED BY <1>1, <1>2, <1>4, <1>5 DEF Inv, DataInv

LEMMA InvStep == ASSUME Inv, [Next]_vars PROVE Inv'
  <1> USE DEF Inv
  <1>1. BaseInv'
    BY TypeInvStep, LockInvStep DEF BaseInv
  <1>2. CASE UNCHANGED vars
    <2>1. Quiet
      BY <1>2 DEF Quiet, vars, txnVars, metaVars, histVars
    <2>2. DataSum'
      BY <2>1, QuietKeepsData DEF DataInv, DataSum, BaseInv
    <2>3. PlaceInv'
      BY <1>2
      DEF DataInv, PlaceInv, StatePlace, LogReady, Trackers, WritesIn, Writes,
          vars, txnVars, metaVars, procVars
    <2> QED BY <1>1, <2>2, <2>3 DEF DataInv, DataSum
  <1>3. CASE Next
    <2>1. PICK p \in Procs : ProcStep(p)
      BY <1>3 DEF Next, ProcStep, Procs
    <2>2. PlaceInv'
      <3> SUFFICES ASSUME NEW r \in Txns
                   PROVE  StatePlace(r)' /\ LogReady(r)'
        BY DEF PlaceInv
      <3>1. CASE r = p
        BY <2>1, <3>1, PlaceOwn, ConstantsAssumption DEF ProcStep
      <3>2. CASE r # p
        BY <2>1, <3>2, PlaceOther
      <3> QED BY <3>1, <3>2
    <2>3. DataSum'
      BY <2>1, ApplyKeyData, EndApplyData, TakeSnapshotData, CommitLogData,
         MostAreQuiet, QuietKeepsData
      DEF DataInv, DataSum, BaseInv
    <2> QED BY <1>1, <2>2, <2>3 DEF DataInv, DataSum
  <1> QED BY <1>2, <1>3

LEMMA Invariance == Spec => []Inv
  <1>1. Init => Inv
    BY InitInv
  <1>2. Inv /\ [Next]_vars => Inv'
    BY InvStep
  <1> QED BY <1>1, <1>2, PTL DEF Spec

\* The store and the apply queues together hold the committed state, however
\* the applies of different threads interleave.
THEOREM QueuesAddUp == Spec => []StorePlusQueue
  <1>1. Inv => StorePlusQueue
    BY SameSum DEF Inv, BaseInv, TypeInv, DataInv
  <1> QED BY <1>1, Invariance, PTL

\* A cached snapshot of a group is never out of date.
THEOREM CacheIsCurrent == Spec => []CacheCurrent
  <1>1. Inv => CacheCurrent
    BY DEF Inv, DataInv
  <1> QED BY <1>1, Invariance, PTL

\* Comparing log positions tells Commit whether its snapshots are up to date.
THEOREM PositionsTell == Spec => []PositionTellsChange
  <1>1. Inv => PositionTellsChange
    BY DEF Inv, DataInv
  <1> QED BY <1>1, Invariance, PTL

-----------------------------------------------------------------------------
(* The apply queues never grow.                                            *)

\* Nobody who has a snapshot of a group with a queue is up to date there.
Behind(g) ==
  queue[g] # << >> =>
    \A t \in Txns : view[t][g] # NoView => view[t][g].pos < logPos[g]
LastLogged(g) ==
  /\ Len(queue[g]) <= 1
  /\ \A i \in DOMAIN queue[g] : view[queue[g][i]][g].pos = logPos[g] - 1
QueueInv == \A g \in Groups : Behind(g) /\ LastLogged(g)

LEMMA EmptyQueue == ASSUME NEW g \in Groups, queue[g] = << >> PROVE LastLogged(g)
  <1>1. Len(queue[g]) = 0 /\ DOMAIN queue[g] = {}
    BY EmptySeq, LenProperties
  <1> QED BY <1>1 DEF LastLogged

LEMMA EmptyTail ==
  ASSUME NEW s \in Seq(Txns), Len(s) <= 1, s # << >> PROVE Tail(s) = << >>
  <1>1. Len(s) = 1
    <2>1. Len(s) \in Nat /\ Len(s) # 0
      BY EmptySeq, LenProperties
    <2>2. \A n \in Nat : n # 0 /\ n <= 1 => n = 1
      OBVIOUS
    <2> QED BY <2>1, <2>2, Zenon
  <1>2. Tail(s) \in Seq(Txns) /\ Len(Tail(s)) = 0
    BY <1>1, HeadTailProperties
  <1> QED BY <1>2, EmptySeq

\* A transaction reads a group only when nothing is queued there.
LEMMA TakeSnapshotQueue ==
  ASSUME Inv, QueueInv, NEW t \in Txns, TakeSnapshot(t)
  PROVE  QueueInv'
  <1> USE DEF Inv, BaseInv, DataInv
  <1>1. cur[t] \in Groups /\ queue[cur[t]] = << >>
    <2>1. cur[t] \in Groups
      BY DEF TypeInv, TypeOK, Procs
    <2> QED BY <2>1 DEF TakeSnapshot, SnapshotReady, CacheCurrent, Usable
  <1>2. UNCHANGED <<queue, logPos>>
    BY DEF TakeSnapshot
  <1>3. ASSUME NEW g \in Groups
        PROVE  Behind(g)' /\ LastLogged(g)'
    <2>1. CASE g = cur[t]
      <3>1. Len(queue'[g]) = 0 /\ DOMAIN queue'[g] = {} /\ queue'[g] = << >>
        BY <1>1, <1>2, <2>1, EmptySeq, LenProperties
      <3> QED BY <3>1 DEF Behind, LastLogged
    <2>2. CASE g # cur[t]
      <3>1. \A u \in Txns : view'[u][g] = view[u][g]
        BY <2>2, TakeSnapshotViews DEF TypeInv
      <3>2. \A i \in DOMAIN queue[g] : queue[g][i] \in Txns
        BY DEF TypeInv, TypeOK
      <3> QED BY <1>2, <3>1, <3>2 DEF QueueInv, Behind, LastLogged
    <2> QED BY <2>1, <2>2
  <1> QED BY <1>3 DEF QueueInv

\* The end of an apply leaves the queue of its group empty.
LEMMA EndApplyQueue ==
  ASSUME Inv, QueueInv, NEW p \in Procs, EndApply(p)
  PROVE  QueueInv'
  <1> USE DEF Inv, BaseInv
  <1>1. cur[p] \in Groups /\ queue[cur[p]] \in Seq(Txns)
    BY DEF TypeInv, TypeOK
  <1>2. UNCHANGED logPos /\ queue' = [queue EXCEPT ![cur[p]] = Tail(@)]
    BY DEF EndApply
  <1>3. queue'[cur[p]] = << >>
    <2>1. Tail(queue[cur[p]]) = << >>
      BY <1>1, EmptyTail DEF EndApply, Applying, QueueInv, LastLogged
    <2> QED BY <1>1, <1>2, <2>1 DEF TypeInv, TypeOK
  <1>4. ASSUME NEW g \in Groups
        PROVE  Behind(g)' /\ LastLogged(g)'
    <2>1. CASE g = cur[p]
      <3>1. Len(queue'[g]) = 0 /\ DOMAIN queue'[g] = {} /\ queue'[g] = << >>
        BY <1>3, <2>1, EmptySeq, LenProperties
      <3> QED BY <3>1 DEF Behind, LastLogged
    <2>2. CASE g # cur[p]
      <3>1. \A u \in Txns : /\ view'[u][g] = NoView <=> view[u][g] = NoView
                            /\ view[u][g] # NoView =>
                                 view'[u][g].pos = view[u][g].pos
        BY <2>2, EndApplyViews
      <3>2. \A i \in DOMAIN queue[g] :
              queue[g][i] \in Txns /\ view[queue[g][i]][g] # NoView
        BY DEF TypeInv, TypeOK, QueueViewed
      <3>3. queue'[g] = queue[g]
        BY <1>2, <2>2 DEF TypeInv, TypeOK
      <3> QED BY <1>2, <3>1, <3>2, <3>3 DEF QueueInv, Behind, LastLogged
    <2> QED BY <2>1, <2>2
  <1> QED BY <1>4 DEF QueueInv

\* A transaction is logged alone: its positions are the groups', so that
\* nothing is queued there.
LEMMA CommitLogQueue ==
  ASSUME Inv, QueueInv, NEW t \in Txns, CommitLog(t)
  PROVE  QueueInv'
  <1> USE DEF Inv, BaseInv, DataInv
  <1>1. /\ \A g \in Trackers(t) : /\ queue'[g] = Append(queue[g], t)
                                  /\ logPos'[g] = logPos[g] + 1
        /\ \A g \in Groups \ Trackers(t) :
             queue'[g] = queue[g] /\ logPos'[g] = logPos[g]
        /\ UNCHANGED view
    BY DEF CommitLog, Log, QueueWith, NextPos, Trackers
  <1>2. ASSUME NEW g \in Groups
        PROVE  Behind(g)' /\ LastLogged(g)'
    <2>1. CASE g \in Trackers(t)
      <3>1. view[t][g] # NoView /\ view[t][g].pos = logPos[g] /\ logPos[g] \in Int
        BY <2>1
        DEF CommitLog, PlaceInv, LogReady, TypeInv, TypeOK, CommitViewed,
            CommitPlace
      <3>2. queue[g] = << >>
        BY <3>1 DEF QueueInv, Behind
      <3>3. queue'[g] = <<t>>
        BY <1>1, <2>1, <3>2
      <3>4. \A u \in Txns : view[u][g] # NoView => view[u][g].pos <= logPos[g]
        BY DEF PositionTellsChange
      <3>5. \A u \in Txns : view[u][g] # NoView => view[u][g].pos \in Int
        BY DEF TypeInv, TypeOK, View
      <3>6. Behind(g)'
        BY <1>1, <2>1, <3>1, <3>4, <3>5 DEF Behind
      <3>7. LastLogged(g)'
        BY <1>1, <2>1, <3>1, <3>3 DEF LastLogged
      <3> QED BY <3>6, <3>7
    <2>2. CASE g \notin Trackers(t)
      BY <1>1, <2>2 DEF QueueInv, Behind, LastLogged
    <2> QED BY <2>1, <2>2
  <1> QED BY <1>2 DEF QueueInv

LEMMA QueueStep == ASSUME Inv, QueueInv, [Next]_vars PROVE QueueInv'
  <1>1. ASSUME UNCHANGED <<queue, logPos, view>>
        PROVE  QueueInv'
    BY <1>1 DEF QueueInv, Behind, LastLogged
  <1>2. CASE Next
    <2>1. PICK p \in Procs : ProcStep(p)
      BY <1>2 DEF Next, ProcStep, Procs
    <2>2. CASE ApplyKey(p)
      BY <1>1, <2>2 DEF ApplyKey, txnVars
    <2>3. CASE ~ ApplyKey(p) /\ ~ EndApply(p)
               /\ ~ (p \in Txns /\ (TakeSnapshot(p) \/ CommitLog(p)))
      BY <1>1, <2>1, <2>3, MostAreQuiet DEF Quiet, Inv, DataInv
    <2> QED
      BY <2>1, <2>2, <2>3, TakeSnapshotQueue, EndApplyQueue, CommitLogQueue
  <1> QED BY <1>1, <1>2 DEF vars, txnVars, metaVars

\* Unlog never meets another transaction: at most one is queued in a group, it
\* has committed, is not applied yet and was the last to be logged.
THEOREM AtMostOneQueued == Spec => []QueuedOnce
  <1>1. Init => QueueInv
    <2> SUFFICES ASSUME Init, NEW g \in Groups
                 PROVE  Behind(g) /\ LastLogged(g)
      BY DEF QueueInv
    <2>1. queue[g] = << >>
      BY DEF Init
    <2> QED BY <2>1, EmptyQueue DEF Behind
  <1>2. Inv /\ QueueInv /\ [Next]_vars => QueueInv'
    BY QueueStep
  <1>3. Inv /\ QueueInv => QueuedOnce
    BY DEF Inv, BaseInv, TypeInv, QueueViewed, DataInv, QueuedCommitted,
           QueueInv, LastLogged, QueuedOnce
  <1> QED BY <1>1, <1>2, <1>3, Invariance, PTL DEF Spec

-----------------------------------------------------------------------------
(* What the transactions see.                                              *)

LEMMA LogSeesCurrent ==
  ASSUME Inv, NEW t \in Txns, CommitLog(t), NEW g \in Groups, view[t][g] # NoView
  PROVE  view[t][g].data = DbIn(g)
  <1>1. g \in Trackers(t) /\ pc[t] = "log"
    BY DEF CommitLog, Trackers
  <1> QED BY <1>1 DEF Inv, DataInv, PlaceInv, LogReady, PositionTellsChange

LEMMA OnlyLogCommits ==
  ASSUME Inv, NEW p \in Procs, ProcStep(p), NEW t \in Txns,
         state[t] # "COMMITED", state'[t] = "COMMITED"
  PROVE  p = t /\ CommitLog(t)
  <1> USE DEF Inv, BaseInv, TypeInv, TypeOK, txnVars
  <1>1. p = t
    BY FrameTxn
  <1>2. ~ Client(t)
    BY DEF Client, Begin, Put, Delete, AddAction, Rollback, Read, ReadVersion,
           Commit
  <1>3. ~ Step(t)
    BY DEF Step, ApplyKey, EndApply, VisitGroup, LockForSweep, LeaveGroup, EndSweep
  <1>4. TxnStep(t)
    BY <1>1, <1>2, ConstantsAssumption DEF ProcStep
  <1> QED
    BY <1>1, <1>3, <1>4
    DEF TxnStep, LockForSnapshot, TakeSnapshot, LockOther, CheckOthers,
        GrabForCommit, InsertCollides, CheckTracker, CommitEmpty, StartLocking,
        LockTracker, CommitConflict, Validate, SendAction, SendFails, CommitRelease,
        LockToCatchUp, CaughtUp, FlushAfterCommit, StartSweep, Abandon

\* No update is lost: a transaction commits only while every group it has a
\* snapshot of is as the snapshot says, whatever was committed in between.
THEOREM NoUpdateLost == Spec => NoLostUpdate
  <1> DEFINE Kept == \A t \in Txns : state[t] = "ACTIVE" /\ state'[t] = "COMMITED" =>
                \A g \in Groups : view[t][g] # NoView => view[t][g].data = DbIn(g)
  <1>1. Inv /\ [Next]_vars => [Kept]_vars
    <2> SUFFICES ASSUME Inv, Next, NEW t \in Txns, state[t] = "ACTIVE",
                        state'[t] = "COMMITED", NEW g \in Groups,
                        view[t][g] # NoView
                 PROVE  view[t][g].data = DbIn(g)
      OBVIOUS
    <2>1. PICK p \in Procs : ProcStep(p)
      BY DEF Next, ProcStep, Procs
    <2> QED BY <2>1, OnlyLogCommits, LogSeesCurrent
  <1> QED BY <1>1, Invariance, PTL DEF Spec, NoLostUpdate

-----------------------------------------------------------------------------
(* The refinement of TransactionalStore.                                   *)

SeenBy == [t \in Txns |-> [g \in Groups |-> Seen(t, g)]]

\* A step that leaves what clients see of each transaction is a stutter.
LEMMA Stutter ==
  ASSUME UNCHANGED <<db, state>>,
         \A t \in Txns, g \in Groups : Seen(t, g)' = Seen(t, g)
  PROVE  UNCHANGED Promise!storeVars
  BY DEF Promise!storeVars

LEMMA SeesGroup ==
  ASSUME Inv, NEW t \in Txns, TakeSnapshot(t)
  PROVE  Promise!See(t, cur[t])
  <1> DEFINE g == cur[t]
  <1>1. /\ pc[t] = "snap" /\ view[t][g] = NoView /\ g \in Groups
        /\ state[t] \in {"ACTIVE", "FAILED"}
    BY DEF TakeSnapshot, Inv, BaseInv, DataInv, PlaceInv, StatePlace, Early,
           TypeInv, TypeOK, Procs
  <1>2. /\ view'[t][g].data = DbIn(g) /\ view'[t][g] # NoView
        /\ \A u \in Txns, h \in Groups :
             u # t \/ h # g => view'[u][h] = view[u][h]
    BY TakeSnapshotData, TakeSnapshotViews
    DEF Inv, BaseInv, DataInv, DataSum, TypeInv
  <1>3. Promise!GroupState(g) = DbIn(g)
    BY DEF Promise!GroupState, Promise!GroupKeys, DbIn, KeysOf
  <1>4. SeenBy' = [SeenBy EXCEPT ![t] = [SeenBy[t] EXCEPT ![g] = DbIn(g)]]
    <2> DEFINE grp == DbIn(g)
    <2>1. \A u \in Txns, h \in Groups :
            Seen(u, h)' = IF u = t /\ h = g THEN grp ELSE Seen(u, h)
      BY <1>1, <1>2 DEF Seen
    <2> HIDE DEF grp
    <2>2. SeenBy' = [u \in Txns |-> [h \in Groups |->
                       IF u = t /\ h = g THEN grp ELSE Seen(u, h)]]
      BY <2>1 DEF SeenBy
    <2> QED BY <1>1, <2>2 DEF SeenBy, grp
  <1>5. UNCHANGED <<db, state>>
    BY DEF TakeSnapshot, histVars
  <1> QED
    BY <1>1, <1>3, <1>4, <1>5 DEF Promise!See, SeenBy, Seen

LEMMA CommitsAtOnce ==
  ASSUME Inv, NEW t \in Txns, CommitLog(t)
  PROVE  Promise!CommitTransaction(t)
  <1>1. state[t] = "ACTIVE" /\ TypeOK /\ CommitPlace(t) /\ pc[t] = "log"
    BY DEF CommitLog, Inv, BaseInv, DataInv, PlaceInv, StatePlace, Early,
           TypeInv, CommitViewed
  <1>2. \A g \in Groups : Seen(t, g) # NoView => Seen(t, g) = Promise!GroupState(g)
    BY LogSeesCurrent
    DEF Seen, Promise!GroupState, Promise!GroupKeys, DbIn, KeysOf
  <1>3. \A k \in Writes(t) : k \in Keys /\ view[t][GroupOf[k]] # NoView
                                        /\ GroupOf[k] \in Groups
    BY <1>1, ConstantsAssumption
    DEF CommitPlace, Trackers, WritesIn, Writes, KeysOf, TypeOK
  <1>4. \A k \in Writes(t) : Seen(t, GroupOf[k]) # NoView
    <2> SUFFICES ASSUME NEW k \in Writes(t)
                 PROVE  Seen(t, GroupOf[k]) # NoView
      OBVIOUS
    <2>1. view[t][GroupOf[k]] \in View
      BY <1>1, <1>3 DEF TypeOK
    <2>2. view[t][GroupOf[k]].data # NoView
      BY <2>1, ConstantsAssumption DEF View
    <2> QED BY <1>3, <2>2 DEF Seen
  <1> DEFINE written == Writes(t)
             deleted == Writes(t) \ put[t]
  <1>5. db' = [k \in Keys |-> IF k \in deleted THEN NoValue
                              ELSE IF k \in written THEN t ELSE db[k]]
    BY DEF CommitLog, Effect
  <1>6. /\ written \in SUBSET {k \in Keys : Seen(t, GroupOf[k]) # NoView}
        /\ deleted \in SUBSET written
    BY <1>3, <1>4
  <1>7. state' = [state EXCEPT ![t] = "COMMITED"] /\ UNCHANGED SeenBy
    BY DEF CommitLog, SeenBy, Seen
  <1> HIDE DEF written, deleted
  <1>8. \E w \in SUBSET {k \in Keys : Seen(t, GroupOf[k]) # NoView} :
          \E d \in SUBSET w :
            db' = [k \in Keys |-> IF k \in d THEN NoValue
                                  ELSE IF k \in w THEN t ELSE db[k]]
    BY <1>5, <1>6
  <1>9. \A k \in Keys : SeenBy[t][GroupOf[k]] = Seen(t, GroupOf[k])
    BY ConstantsAssumption DEF SeenBy
  <1>10. \A g \in Groups : SeenBy[t][g] # NoView => SeenBy[t][g] = Promise!GroupState(g)
    BY <1>2 DEF SeenBy
  <1> QED
    BY <1>1, <1>7, <1>8, <1>9, <1>10 DEF Promise!CommitTransaction, SeenBy

LEMMA OneStepSeen ==
  ASSUME Inv, NEW p \in Procs, ProcStep(p)
  PROVE  [Promise!StoreNext]_(Promise!storeVars)
  <1> USE DEF Inv, BaseInv, TypeInv, TypeOK, Procs
  <1>1. ASSUME UNCHANGED <<db, state, view>>
        PROVE  UNCHANGED Promise!storeVars
    BY <1>1, Stutter DEF Seen
  <1>2. ASSUME UNCHANGED <<db, view>>
        PROVE  UNCHANGED SeenBy
    BY <1>2 DEF SeenBy, Seen
  <1>3. CASE Step(p)
    <2>1. CASE EndApply(p)
      <3>1. UNCHANGED <<db, state>>
        BY <2>1 DEF EndApply, histVars
      <3>2. \A u \in Txns, g \in Groups : Seen(u, g)' = Seen(u, g)
        BY <2>1, EndApplyViews DEF Seen
      <3> QED BY <3>1, <3>2, Stutter
    <2>2. CASE ~ EndApply(p)
      <3>1. UNCHANGED <<db, state, view>>
        BY <1>3, <2>2
        DEF Step, ApplyKey, VisitGroup, LockForSweep, LeaveGroup, EndSweep,
            txnVars, histVars
      <3> QED BY <1>1, <3>1
    <2> QED BY <2>1, <2>2
  <1>4. CASE p \in Queries /\ (Flush(p) \/ Groom(p))
    <2>1. UNCHANGED <<db, state, view>>
      BY <1>4 DEF Flush, Groom, StartSweep, txnVars, histVars
    <2> QED BY <1>1, <2>1
  <1>5. ASSUME NEW t \in Txns, state[t] \in {"ACTIVE", "FAILED"},
               state' = [state EXCEPT ![t] = "ROLLEDBACK"],
               UNCHANGED <<db, view>>
        PROVE  Promise!StoreNext
    <2>1. Promise!RollbackTransaction(t)
      BY <1>2, <1>5 DEF Promise!RollbackTransaction, SeenBy
    <2> QED BY <2>1 DEF Promise!StoreNext
  <1>6. CASE p \in Txns /\ Client(p)
    <2>1. CASE Begin(p)
      <3>1. /\ state[p] = "NONE" /\ UNCHANGED <<db, view>>
            /\ state' = [state EXCEPT ![p] = "ACTIVE"]
        BY <2>1 DEF Begin, histVars
      <3>2. Promise!BeginTransaction(p)
        BY <1>2, <3>1 DEF Promise!BeginTransaction, SeenBy
      <3> QED BY <1>6, <3>2 DEF Promise!StoreNext
    <2>2. CASE Rollback(p)
      BY <1>5, <1>6, <2>2 DEF Rollback, histVars
    <2>3. CASE ~ Begin(p) /\ ~ Rollback(p)
      <3>1. UNCHANGED <<db, state, view>>
        BY <1>6, <2>3
        DEF Client, Put, Delete, AddAction, Read, ReadVersion, Commit,
            txnVars, histVars
      <3> QED BY <1>1, <3>1
    <2> QED BY <2>1, <2>2, <2>3
  <1>7. CASE p \in Txns /\ TxnStep(p) /\ ~ Step(p)
    <2>0. StatePlace(p)
      BY <1>7 DEF DataInv, PlaceInv
    <2>1. CASE TakeSnapshot(p)
      <3>1. cur[p] \in Groups /\ Promise!See(p, cur[p])
        BY <1>7, <2>1, SeesGroup
      <3> QED BY <1>7, <3>1 DEF Promise!StoreNext
    <2>2. CASE CommitLog(p)
      BY <1>7, <2>2, CommitsAtOnce DEF Promise!StoreNext
    <2>3. CASE CheckOthers(p)
      <3>1. UNCHANGED <<db, view>> /\ state[p] = "ACTIVE"
        BY <2>0, <2>3 DEF CheckOthers, histVars, StatePlace, Early
      <3>2. CASE Contended(p)
        <4>1. Promise!Fail(p)
          BY <1>2, <2>3, <3>1, <3>2 DEF CheckOthers, Promise!Fail, SeenBy
        <4> QED BY <1>7, <4>1 DEF Promise!StoreNext
      <3>3. CASE ~ Contended(p)
        BY <1>1, <2>3, <3>1, <3>3 DEF CheckOthers
      <3> QED BY <3>2, <3>3
    <2>4. CASE InsertCollides(p) \/ CommitEmpty(p) \/ CommitConflict(p)
      <3>1. Abandon(p) /\ state[p] \in {"ACTIVE", "FAILED"}
        BY <2>0, <2>4
        DEF InsertCollides, CommitEmpty, CommitConflict, StatePlace, Early
      <3> QED BY <1>5, <1>7, <3>1 DEF Abandon, histVars
    <2>5. CASE ~ (\/ TakeSnapshot(p) \/ CommitLog(p) \/ CheckOthers(p)
                  \/ InsertCollides(p) \/ CommitEmpty(p) \/ CommitConflict(p))
      <3>1. UNCHANGED <<db, state, view>>
        BY <1>7, <2>5
        DEF TxnStep, LockForSnapshot, LockOther, GrabForCommit, CheckTracker,
            StartLocking, LockTracker, Validate, SendAction, SendFails, CommitRelease,
            LockToCatchUp, CaughtUp, FlushAfterCommit, StartSweep, txnVars,
            histVars
      <3> QED BY <1>1, <3>1
    <2> QED BY <2>1, <2>2, <2>3, <2>4, <2>5
  <1> QED BY <1>3, <1>4, <1>6, <1>7 DEF ProcStep

\* The transactions implement TransactionalStore: the committed ones are
\* serialisable in the order of their commits.
THEOREM Refines == Spec => Serializable
  <1>1. Init => Promise!StoreInit
    BY DEF Init, Promise!StoreInit, Seen
  <1>2. Inv /\ [Next]_vars => [Promise!StoreNext]_(Promise!storeVars)
    <2>1. ASSUME Inv, Next
          PROVE  [Promise!StoreNext]_(Promise!storeVars)
      <3>1. PICK p \in Procs : ProcStep(p)
        BY <2>1 DEF Next, ProcStep, Procs
      <3> QED BY <2>1, <3>1, OneStepSeen
    <2>2. ASSUME UNCHANGED vars
          PROVE  UNCHANGED Promise!storeVars
      BY <2>2, Stutter DEF vars, txnVars, histVars, Seen
    <2> QED BY <2>1, <2>2
  <1> QED BY <1>1, <1>2, Invariance, PTL DEF Spec, Serializable, Promise!StoreSpec
=============================================================================
