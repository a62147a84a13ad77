------------------------- MODULE DatastoreTxnProofs -------------------------
(***************************************************************************)
(* Theorems about DatastoreTxn, for any transactions, groups and keys.     *)
(***************************************************************************)
EXTENDS DatastoreTxn, SequenceTheorems, TLAPS

\* A transaction outside every call stands at "idle"; inside Commit, the
\* trackers that were looked at have a snapshot.
CommitPlace(u) ==
  /\ call[u] = "none" \/ state[u] = "NONE" => pc[u] = "idle"
  /\ pc[u] \in {"check", "grab", "snap"} /\ call[u] = "commit" =>
       \A g \in Trackers(u) \ todo[u] : view[u][g] # NoView
  /\ pc[u] = "check" => call[u] = "commit"
  /\ pc[u] \in {"lock", "log"} => \A g \in Trackers(u) : view[u][g] # NoView
CommitViewed == \A u \in Txns : CommitPlace(u)

\* What is queued for a group comes from a transaction with a view of it.
QueueViewed ==
  \A g \in Groups : \A i \in DOMAIN queue[g] : view[queue[g][i]][g] # NoView

TypeInv == TypeOK /\ CommitViewed /\ QueueViewed

-----------------------------------------------------------------------------
\* The elements of a queue that a transaction leaves, or joins.
LEMMA TailElement ==
  ASSUME NEW s \in Seq(Txns), s # << >>, NEW i \in DOMAIN Tail(s)
  PROVE  /\ i \in Nat \ {0} /\ i + 1 \in DOMAIN s
         /\ Tail(s)[i] = s[i + 1]
  <1>1. DOMAIN Tail(s) = 1 .. Len(s) - 1 /\ DOMAIN s = 1 .. Len(s)
    BY HeadTailProperties, LenProperties
  <1> QED BY <1>1, HeadTailProperties, LenProperties

LEMMA AppendElement ==
  ASSUME NEW s \in Seq(Txns), NEW t \in Txns, NEW i \in DOMAIN Append(s, t)
  PROVE  \/ i \in DOMAIN s /\ i <= Len(s) /\ Append(s, t)[i] = s[i]
         \/ i = Len(s) + 1 /\ Append(s, t)[i] = t
  <1>1. DOMAIN Append(s, t) = 1 .. Len(s) + 1 /\ DOMAIN s = 1 .. Len(s)
    BY AppendProperties, LenProperties
  <1> QED BY <1>1, AppendProperties, LenProperties

LEMMA StoreInData ==
  ASSUME NEW g \in Groups, NEW f \in [Keys -> Val]
  PROVE  [k \in KeysOf(g) |-> f[k]] \in Data
  BY DEF Data, Snapshot, KeysOf

LEMMA InitTypeInv == ASSUME Init PROVE TypeInv
  <1>1. TypeOK
    BY ConstantsAssumption DEF TypeOK, Calls, Places, Init, Procs, Val
  <1>2. CommitViewed
    BY DEF CommitViewed, CommitPlace, Init, Procs
  <1>3. QueueViewed
    BY DEF QueueViewed, Init
  <1> QED BY <1>1, <1>2, <1>3 DEF TypeInv

\* Taking a snapshot changes one view, which is there from then on.
LEMMA TakeSnapshotViews ==
  ASSUME TypeOK, NEW t \in Txns, TakeSnapshot(t)
  PROVE  /\ view'[t][cur[t]] \in View
         /\ view'[t][cur[t]] # NoView
         /\ \A u \in Txns, g \in Groups :
              u # t \/ g # cur[t] => view'[u][g] = view[u][g]
         /\ view' \in [Txns -> [Groups -> View \cup {NoView}]]
         /\ cache' \in [Groups -> Data \cup {NoView}]
  <1> DEFINE g == cur[t]
             data == IF Usable(cache[g]) THEN cache[g] ELSE StoreIn(g)
             taken == [pos |-> logPos[g], data |-> data]
  <1>1. g \in Groups /\ t \in Procs
    BY DEF TypeOK, Procs
  <1>2. data \in Data
    BY <1>1, StoreInData DEF TypeOK, Usable, StoreIn
  <1>3. taken \in View
    BY <1>1, <1>2 DEF TypeOK, View
  <1>4. /\ view' = [view EXCEPT ![t] = [view[t] EXCEPT ![g] = taken]]
        /\ cache' = [cache EXCEPT ![g] = data]
    BY DEF TakeSnapshot
  <1>5. taken # NoView
    BY <1>3, ConstantsAssumption
  <1> HIDE DEF data, taken
  <1> QED
    BY <1>1, <1>2, <1>3, <1>4, <1>5 DEF TypeOK

LEMMA ClientTypeOK ==
  ASSUME TypeInv, NEW t \in Txns, Client(t)
  PROVE  TypeOK'
  <1> USE DEF TypeInv
  <1>1. CASE Begin(t)
    BY <1>1, ConstantsAssumption
    DEF TypeOK, Begin, metaVars, procVars, histVars
  <1>2. ASSUME NEW k \in Keys, NEW insert \in Inserts, Put(t, k, insert)
        PROVE  TypeOK'
    BY <1>2 DEF TypeOK, Put, metaVars, procVars, histVars
  <1>3. ASSUME NEW k \in Keys, Delete(t, k)
        PROVE  TypeOK'
    BY <1>3 DEF TypeOK, Delete, metaVars, procVars, histVars
  <1>4. CASE AddAction(t)
    <2>1. acts[t] + 1 \in 0 .. MaxActions
      BY <1>4, ConstantsAssumption DEF TypeOK, AddAction, RoomForAction
    <2> QED
      BY <1>4, <2>1 DEF TypeOK, AddAction, metaVars, procVars, histVars
  <1>5. CASE Rollback(t)
    BY <1>5 DEF TypeOK, Rollback, metaVars, procVars, histVars
  <1>6. ASSUME NEW g \in Groups, Read(t, g)
        PROVE  TypeOK'
    BY <1>6 DEF TypeOK, Calls, Places, Read, Grab, Procs, txnVars, metaVars, histVars
  <1>7. ASSUME NEW g \in Groups, ReadVersion(t, g)
        PROVE  TypeOK'
    BY <1>7 DEF TypeOK, Calls, Places, ReadVersion, Grab, Procs, txnVars, metaVars, histVars
  <1>8. CASE Commit(t)
    BY <1>8, ConstantsAssumption
    DEF TypeOK, Calls, Places, Commit, Trackers, Procs, txnVars, metaVars, histVars
  <1> QED BY <1>1, <1>2, <1>3, <1>4, <1>5, <1>6, <1>7, <1>8 DEF Client

LEMMA StepTypeOK ==
  ASSUME TypeInv, NEW p \in Procs, Step(p)
  PROVE  TypeOK'
  <1> USE DEF TypeInv
  <1>1. CASE ApplyKey(p)
    <2> DEFINE g == cur[p]
               u == Head(queue[g])
    <2>1. g \in Groups /\ u \in Txns
      BY <1>1 DEF ApplyKey, Applying, TypeOK
    <2>2. PICK k \in Remaining(u, g) :
            /\ store' = [store EXCEPT ![k] = Effect(u, k)]
            /\ done' = [done EXCEPT ![g] = @ \cup {k}]
      BY <1>1 DEF ApplyKey
    <2>3. k \in Keys /\ Effect(u, k) \in Val
      BY <2>1, <2>2 DEF Remaining, WritesIn, KeysOf, Effect, Val
    <2> QED
      BY <1>1, <2>1, <2>2, <2>3, ZenonT(60)
      DEF TypeOK, ApplyKey, txnVars, procVars, histVars
  <1>2. CASE EndApply(p)
    <2> DEFINE g == cur[p]
               u == Head(queue[g])
    <2>1. g \in Groups /\ u \in Txns /\ queue[g] # << >>
      BY <1>2 DEF EndApply, Applying, TypeOK
    <2>2. view[u][g] \in View
      BY <2>1 DEF QueueViewed, TypeOK
    <2>3. view' = [view EXCEPT ![u] = [view[u] EXCEPT ![g] =
                                         [view[u][g] EXCEPT !.pos = Applied]]]
      BY <1>2, <2>1 DEF EndApply, TypeOK
    <2>4. [view[u][g] EXCEPT !.pos = Applied] \in View
      BY <2>2 DEF View, Applied
    <2>5. view' \in [Txns -> [Groups -> View \cup {NoView}]]
      BY <2>1, <2>3, <2>4 DEF TypeOK
    <2>6. queue' \in [Groups -> Seq(Txns)] /\ done' \in [Groups -> SUBSET Keys]
      BY <1>2, <2>1 DEF EndApply, TypeOK
    <2> QED
      BY <1>2, <2>5, <2>6 DEF TypeOK, EndApply, procVars, histVars
  <1>3. CASE VisitGroup(p)
    <2>1. PICK g \in todo[p] :
            /\ todo' = [todo EXCEPT ![p] = @ \ {g}]
            /\ \/ pc' = pc /\ cur' = cur
               \/ /\ pc' = [pc EXCEPT ![p] = "sweepWait"]
                  /\ cur' = [cur EXCEPT ![p] = g]
      BY <1>3 DEF VisitGroup
    <2>2. g \in Groups
      BY <2>1 DEF TypeOK
    <2>3. pc' \in [Procs -> Places] /\ cur' \in [Procs -> Groups]
      BY <2>1, <2>2, ZenonT(60) DEF TypeOK, Places
    <2> QED
      BY <1>3, <2>1, <2>3
      DEF TypeOK, VisitGroup, txnVars, metaVars, histVars
  <1>4. CASE LockForSweep(p)
    BY <1>4 DEF TypeOK, Calls, Places, LockForSweep, Acquire, Goto, txnVars, histVars
  <1>5. CASE LeaveGroup(p)
    BY <1>5, ConstantsAssumption
    DEF TypeOK, Calls, Places, LeaveGroup, Release, Goto, txnVars, histVars
  <1>6. CASE EndSweep(p)
    BY <1>6, ConstantsAssumption
    DEF TypeOK, Calls, Places, EndSweep, Return, txnVars, metaVars, histVars
  <1> QED BY <1>1, <1>2, <1>3, <1>4, <1>5, <1>6 DEF Step

LEMMA TxnStepTypeOK ==
  ASSUME TypeInv, NEW t \in Txns, TxnStep(t)
  PROVE  TypeOK'
  <1> USE DEF TypeInv
  <1>1. CASE Step(t)
    BY <1>1, StepTypeOK DEF Procs
  <1>2. CASE LockForSnapshot(t)
    BY <1>2 DEF TypeOK, Calls, Places, LockForSnapshot, Acquire, Goto, Procs, txnVars, histVars
  <1>3. CASE TakeSnapshot(t)
    <2>1. t \in Procs
      BY DEF Procs
    <2>2. /\ call' \in [Procs -> Calls]
          /\ pc' \in [Procs -> Places]
          /\ cur' \in [Procs -> Groups]
          /\ todo' \in [Procs -> SUBSET Groups]
      <3>1. CASE Return(t)
        BY <1>3, <2>1, <3>1, ConstantsAssumption
        DEF TypeOK, Return, Calls, Places
      <3>2. CASE Goto(t, "others") /\ UNCHANGED cur
                 /\ todo' = [todo EXCEPT ![t] = Candidates(t)]
        BY <1>3, <2>1, <3>2 DEF TypeOK, Goto, Candidates, Places
      <3>3. CASE Goto(t, "check") /\ UNCHANGED todo
                 /\ cur' = [cur EXCEPT ![t] = Global]
        BY <1>3, <2>1, <3>3, ConstantsAssumption DEF TypeOK, Goto, Places
      <3> QED BY <1>3, <3>1, <3>2, <3>3 DEF TakeSnapshot
    <2> QED
      BY <1>3, <2>2, TakeSnapshotViews DEF TypeOK, TakeSnapshot, Release, histVars
  <1>4. CASE LockOther(t)
    BY <1>4, SMTT(30) DEF TypeOK, LockOther, Acquire, Procs, txnVars, histVars
  <1>5. CASE CheckOthers(t)
    BY <1>5, ConstantsAssumption
    DEF TypeOK, Calls, Places, CheckOthers, Release, Return, Procs, histVars
  <1>6. CASE GrabForCommit(t)
    BY <1>6 DEF TypeOK, Calls, Places, GrabForCommit, Grab, Procs, txnVars, metaVars, histVars
  <1>7. CASE InsertCollides(t) \/ CommitEmpty(t) \/ CommitConflict(t)
    <2>1. Abandon(t)
      BY <1>7 DEF InsertCollides, CommitEmpty, CommitConflict
    <2> QED
      BY <2>1, ConstantsAssumption
      DEF TypeOK, Calls, Places, Abandon, Release, Return, Procs, histVars
  <1>8. CASE CheckTracker(t)
    BY <1>8 DEF TypeOK, CheckTracker, Procs, txnVars, metaVars, histVars
  <1>9. CASE StartLocking(t)
    BY <1>9
    DEF TypeOK, Calls, Places, StartLocking, Trackers, Procs, txnVars,
        metaVars, histVars
  <1>17. CASE Validate(t)
    BY <1>17
    DEF TypeOK, Calls, Places, Validate, Goto, Procs, txnVars, metaVars,
        histVars
  <1>10. CASE LockTracker(t)
    BY <1>10, SMTT(30) DEF TypeOK, LockTracker, Acquire, Procs, txnVars, histVars
  <1>11. CASE CommitLog(t)
    <2>1. /\ queue' \in [Groups -> Seq(Txns)]
          /\ logPos' \in [Groups -> Int]
          /\ cache' \in [Groups -> Data \cup {NoView}]
      BY <1>11 DEF TypeOK, CommitLog, Log, QueueWith, NextPos, NoCache
    <2>2. db' \in [Keys -> Val] /\ hist' \in Seq(Txns)
      BY <1>11 DEF TypeOK, CommitLog, Effect, Val
    <2> QED
      BY <1>11, <2>1, <2>2 DEF TypeOK, Calls, Places, CommitLog, Goto, Procs
  <1>12. CASE SendAction(t)
    <2>1. acts[t] \in 1 .. MaxActions /\ acts[t] - 1 \in 0 .. MaxActions
      BY <1>12, ConstantsAssumption DEF TypeOK, SendAction
    <2>2. tasks' \subseteq Txns \X (1 .. MaxActions)
      BY <1>12, <2>1 DEF TypeOK, SendAction
    <2> QED
      BY <1>12, <2>1, <2>2 DEF TypeOK, SendAction, metaVars, procVars, histVars
  <1>13. CASE CommitRelease(t)
    <2>1. CASE Return(t)
      BY <1>13, <2>1, ConstantsAssumption
      DEF TypeOK, Calls, Places, SendFails, CommitRelease, Release, Return, Procs, txnVars, histVars
    <2>2. CASE Goto(t, "master") /\ UNCHANGED cur
               /\ todo' = [todo EXCEPT ![t] = Trackers(t)]
      BY <1>13, <2>2
      DEF TypeOK, Calls, Places, SendFails, CommitRelease, Release, Goto, Trackers, Procs, txnVars,
          histVars, Places
    <2> QED BY <1>13, <2>1, <2>2 DEF SendFails, CommitRelease, OnCommit
  <1>21. CASE SendFails(t)
    BY <1>21, ConstantsAssumption
    DEF TypeOK, Calls, Places, SendFails, Release, Return, Procs, txnVars, histVars
  <1>14. CASE LockToCatchUp(t)
    BY <1>14, SMTT(30) DEF TypeOK, Calls, Places, LockToCatchUp, Acquire, Goto, Procs, txnVars, histVars
  <1>15. CASE CaughtUp(t)
    BY <1>15, ConstantsAssumption
    DEF TypeOK, Calls, Places, CaughtUp, Release, Goto, Procs, txnVars, histVars
  <1>16. CASE FlushAfterCommit(t)
    BY <1>16
    DEF TypeOK, Calls, Places, FlushAfterCommit, StartSweep, Procs, txnVars, metaVars, histVars
  <1> QED
    BY <1>1, <1>2, <1>3, <1>4, <1>5, <1>6, <1>7, <1>8, <1>9, <1>10, <1>11,
       <1>12, <1>13, <1>14, <1>15, <1>16, <1>17, <1>21
    DEF TxnStep

\* Applying a transaction changes no view but for its position.
LEMMA EndApplyViews ==
  ASSUME TypeInv, NEW p \in Procs, EndApply(p), NEW u \in Txns, NEW g \in Groups
  PROVE  /\ view'[u][g] = NoView <=> view[u][g] = NoView
         /\ view[u][g] # NoView => view'[u][g].data = view[u][g].data
         /\ view[u][g] # NoView =>
              view'[u][g].pos = IF g = cur[p] /\ u = Head(queue[g])
                                THEN Applied ELSE view[u][g].pos
  <1> DEFINE h == cur[p]
             w == Head(queue[h])
  <1>1. h \in Groups /\ w \in Txns /\ queue[h] # << >>
    BY DEF EndApply, Applying, TypeOK, TypeInv
  <1>2. view[w][h] \in View
    BY <1>1 DEF QueueViewed, TypeOK, TypeInv
  <1>3. view' = [view EXCEPT ![w] = [view[w] EXCEPT ![h] =
                                       [view[w][h] EXCEPT !.pos = Applied]]]
    BY <1>1 DEF EndApply, TypeOK, TypeInv
  <1>4. [view[w][h] EXCEPT !.pos = Applied] \in View
    BY <1>2 DEF View, Applied
  <1>5. /\ [view[w][h] EXCEPT !.pos = Applied].pos = Applied
        /\ [view[w][h] EXCEPT !.pos = Applied].data = view[w][h].data
    BY <1>2 DEF View
  <1>6. CASE u = w /\ g = h
    BY <1>1, <1>2, <1>3, <1>4, <1>5, <1>6, ConstantsAssumption
    DEF TypeOK, TypeInv
  <1>7. CASE ~ (u = w /\ g = h)
    BY <1>1, <1>3, <1>7 DEF TypeOK, TypeInv
  <1> QED BY <1>6, <1>7

LEMMA CommitViewedStep ==
  ASSUME TypeInv, Next
  PROVE  CommitViewed'
  <1> USE DEF TypeInv
  <1> SUFFICES ASSUME NEW u \in Txns
               PROVE  CommitPlace(u)'
    BY DEF CommitViewed
  <1>0. CommitPlace(u)
    BY DEF CommitViewed
  <1> USE DEF CommitPlace
  <1>1. ASSUME NEW t \in Txns, Client(t)
        PROVE  CommitPlace(u)'
    <2>1. CASE Begin(t)
      BY <1>0, <2>1 DEF Begin, Trackers, WritesIn, Writes, procVars
    <2>2. CASE \E k \in Keys, insert \in Inserts : Put(t, k, insert)
      BY <1>0, <2>2 DEF Put, Open, Trackers, WritesIn, Writes, procVars, TypeOK
    <2>3. CASE \E k \in Keys : Delete(t, k)
      BY <1>0, <2>3
      DEF Delete, Open, Trackers, WritesIn, Writes, procVars, TypeOK
    <2>4. CASE AddAction(t) \/ Rollback(t)
      <3>1. Trackers(u)' = Trackers(u) /\ UNCHANGED <<call, pc, todo, view>>
        BY <2>4 DEF AddAction, Rollback, Trackers, WritesIn, Writes, procVars
      <3>2. state'[u] = "NONE" => state[u] = "NONE"
        BY <2>4 DEF AddAction, Rollback, TypeOK
      <3> QED BY <1>0, <3>1, <3>2
    <2>5. CASE \E g \in Groups : Read(t, g) \/ ReadVersion(t, g)
      <3>1. /\ Trackers(u)' = Trackers(u) /\ UNCHANGED <<state, todo, view>>
            /\ state[t] \in {"ACTIVE", "FAILED"}
            /\ pc' = [pc EXCEPT ![t] = "grab"]
            /\ \/ call' = [call EXCEPT ![t] = "read"]
               \/ call' = [call EXCEPT ![t] = "version"]
        BY <2>5
        DEF Read, ReadVersion, Grab, Open, Trackers, WritesIn, Writes, txnVars
      <3> QED BY <1>0, <3>1 DEF TypeOK, Procs
    <2>6. CASE Commit(t)
      BY <1>0, <2>6
      DEF Commit, Open, Trackers, WritesIn, Writes, txnVars, TypeOK, Procs
    <2> QED BY <1>1, <2>1, <2>2, <2>3, <2>4, <2>5, <2>6 DEF Client
  <1>2. ASSUME NEW p \in Procs, Step(p)
        PROVE  CommitPlace(u)'
    <2>1. CASE ApplyKey(p)
      BY <1>0, <2>1, SMTT(30)
      DEF ApplyKey, Trackers, WritesIn, Writes, txnVars, procVars
    <2>2. CASE EndApply(p)
      <3>1. \A g \in Groups : view'[u][g] = NoView <=> view[u][g] = NoView
        BY <2>2, EndApplyViews
      <3> QED
        BY <1>0, <2>2, <3>1, ZenonT(60) DEF EndApply, Trackers, WritesIn, Writes, procVars
    <2>3. CASE VisitGroup(p) \/ LockForSweep(p) \/ LeaveGroup(p)
      BY <1>0, <2>3, ZenonT(60)
      DEF VisitGroup, LockForSweep, LeaveGroup, Goto, Trackers, WritesIn,
          Writes, txnVars, procVars, TypeOK, Procs
    <2>4. CASE EndSweep(p)
      BY <1>0, <2>4
      DEF EndSweep, Return, Trackers, WritesIn, Writes, txnVars, TypeOK, Procs
    <2> QED BY <1>2, <2>1, <2>2, <2>3, <2>4 DEF Step
  <1>3. ASSUME NEW t \in Txns, TxnStep(t)
        PROVE  CommitPlace(u)'
    <2>1. CASE Step(t)
      BY <1>2, <2>1 DEF Procs
    <2>2. CASE LockForSnapshot(t) \/ LockOther(t)
      BY <1>0, <2>2
      DEF LockForSnapshot, LockOther, Goto, Trackers, WritesIn, Writes,
          txnVars, TypeOK, Procs
    <2>3. CASE TakeSnapshot(t)
      <3>1. CASE Return(t)
        BY <1>0, <2>3, <3>1
        DEF TakeSnapshot, Return, Trackers, WritesIn, Writes, TypeOK, Procs
      <3>2. CASE Goto(t, "others") /\ UNCHANGED cur
                 /\ todo' = [todo EXCEPT ![t] = Candidates(t)]
        BY <1>0, <2>3, <3>2
        DEF TakeSnapshot, Goto, Trackers, WritesIn, Writes, TypeOK, Procs
      <3>3. CASE call[t] = "commit" /\ Goto(t, "check") /\ UNCHANGED todo
        <4>1. CASE u = t
          <5>1. pc[t] = "snap" /\ pc'[t] = "check" /\ call' = call /\ todo' = todo
            BY <2>3, <3>3 DEF TakeSnapshot, Goto, TypeOK, Procs
          <5>2. ASSUME NEW g \in Trackers(t)' \ todo[t]
                PROVE  view'[t][g] # NoView
            <6>0. put' = put /\ del' = del /\ g \in Groups
              BY <2>3, <5>2 DEF TakeSnapshot, Trackers
            <6>2. g = cur[t] \/ view'[t][g] = view[t][g]
              BY <2>3, <6>0, TakeSnapshotViews
            <6>1. g = cur[t] \/ (g \in Trackers(t) /\ view'[t][g] = view[t][g])
              BY <5>2, <6>0, <6>2 DEF Trackers, WritesIn, Writes
            <6> QED
              BY <1>0, <2>3, <3>3, <4>1, <5>1, <5>2, <6>1, TakeSnapshotViews
          <5>3. state'[t] = state[t] /\ state[t] # "NONE"
            BY <1>0, <2>3, <4>1, <5>1 DEF TakeSnapshot
          <5> QED BY <3>3, <4>1, <5>1, <5>2, <5>3
        <4>2. CASE u # t
          BY <1>0, <2>3, <3>3, <4>2
          DEF TakeSnapshot, Goto, Trackers, WritesIn, Writes, TypeOK, Procs
        <4> QED BY <4>1, <4>2
      <3> QED BY <2>3, <3>1, <3>2, <3>3 DEF TakeSnapshot
    <2>4. CASE CheckOthers(t)
      BY <1>0, <2>4
      DEF CheckOthers, Return, Trackers, WritesIn, Writes, TypeOK, Procs
    <2>5. CASE GrabForCommit(t)
      BY <1>0, <2>5
      DEF GrabForCommit, Grab, Trackers, WritesIn, Writes, txnVars, TypeOK,
          Procs
    <2>12. CASE CheckTracker(t)
      <3>1. PICK g \in todo[t] :
              view[t][g] # NoView /\ todo' = [todo EXCEPT ![t] = @ \ {g}]
        BY <2>12 DEF CheckTracker
      <3>2. Trackers(u)' = Trackers(u)
        BY <2>12 DEF CheckTracker, Trackers, WritesIn, Writes, txnVars
      <3> QED
        BY <1>0, <2>12, <3>1, <3>2 DEF CheckTracker, txnVars, TypeOK, Procs
    <2>11. CASE StartLocking(t)
      BY <1>0, <2>11
      DEF StartLocking, Trackers, WritesIn, Writes, txnVars, TypeOK, Procs
    <2>6. CASE InsertCollides(t) \/ CommitEmpty(t) \/ CommitConflict(t)
      BY <1>0, <2>6
      DEF InsertCollides, CommitEmpty, CommitConflict, Abandon, Return,
          Trackers, WritesIn, Writes, TypeOK, Procs
    <2>7. CASE LockTracker(t) \/ Validate(t) \/ CommitLog(t)
      BY <1>0, <2>7
      DEF LockTracker, Validate, CommitLog, Goto, Trackers, WritesIn, Writes, txnVars,
          TypeOK, Procs
    <2>8. CASE SendAction(t)
      BY <1>0, <2>8
      DEF SendAction, Trackers, WritesIn, Writes, procVars
    <2>9. CASE SendFails(t) \/ CommitRelease(t)
      BY <1>0, <2>9
      DEF SendFails, CommitRelease, OnCommit, Return, Goto, Trackers, WritesIn, Writes,
          txnVars, TypeOK, Procs
    <2>10. CASE LockToCatchUp(t) \/ CaughtUp(t) \/ FlushAfterCommit(t)
      BY <1>0, <2>10
      DEF LockToCatchUp, CaughtUp, FlushAfterCommit, StartSweep, Goto,
          Trackers, WritesIn, Writes, txnVars, TypeOK, Procs
    <2> QED
      BY <1>3, <2>1, <2>2, <2>3, <2>4, <2>5, <2>6, <2>7, <2>8, <2>9, <2>10,
         <2>11, <2>12
      DEF TxnStep
  <1>4. ASSUME NEW q \in Queries, Flush(q) \/ Groom(q)
        PROVE  CommitPlace(u)'
    BY <1>0, <1>4, ConstantsAssumption
    DEF Flush, Groom, StartSweep, Trackers, WritesIn, Writes, txnVars, TypeOK,
        Procs
  <1> QED BY <1>1, <1>2, <1>3, <1>4 DEF Next, Procs

LEMMA QueueViewedStep ==
  ASSUME TypeInv, Next
  PROVE  QueueViewed'
  <1> USE DEF TypeInv
  <1>1. ASSUME NEW p \in Procs, EndApply(p)
        PROVE  QueueViewed'
    <2> SUFFICES ASSUME NEW g \in Groups, NEW i \in DOMAIN queue'[g]
                 PROVE  view'[queue'[g][i]][g] # NoView
      BY DEF QueueViewed
    <2> DEFINE h == cur[p]
    <2>1. h \in Groups /\ queue[h] \in Seq(Txns) /\ queue[h] # << >>
      BY <1>1 DEF EndApply, Applying, TypeOK
    <2>2. queue' = [queue EXCEPT ![h] = Tail(@)]
      BY <1>1 DEF EndApply
    <2>3. \E j \in DOMAIN queue[g] : queue'[g][i] = queue[g][j]
      BY <2>1, <2>2, TailElement DEF TypeOK
    <2>4. PICK u \in Txns : u = queue'[g][i] /\ view[u][g] # NoView
      BY <2>3 DEF QueueViewed, TypeOK
    <2> QED BY <1>1, <2>4, EndApplyViews
  <1>2. ASSUME UNCHANGED queue,
               \A u \in Txns, g \in Groups :
                 view[u][g] # NoView => view'[u][g] # NoView
        PROVE  QueueViewed'
    <2> SUFFICES ASSUME NEW g \in Groups, NEW i \in DOMAIN queue[g]
                 PROVE  view'[queue[g][i]][g] # NoView
      BY <1>2 DEF QueueViewed
    <2>1. queue[g][i] \in Txns
      BY DEF TypeOK
    <2> QED BY <1>2, <2>1 DEF QueueViewed
  <1>3. ASSUME NEW t \in Txns, CommitLog(t)
        PROVE  QueueViewed'
    <2> SUFFICES ASSUME NEW g \in Groups, NEW i \in DOMAIN queue'[g]
                 PROVE  view[queue'[g][i]][g] # NoView
      BY <1>3 DEF QueueViewed, CommitLog
    <2>1. CASE g \in Trackers(t)
      <3>1. queue'[g] = Append(queue[g], t) /\ queue[g] \in Seq(Txns)
        BY <1>3, <2>1 DEF CommitLog, Log, QueueWith, TypeOK
      <3>2. \/ queue'[g][i] = t
            \/ i \in DOMAIN queue[g] /\ queue'[g][i] = queue[g][i]
        BY <3>1, AppendElement
      <3>3. view[t][g] # NoView
        BY <1>3, <2>1 DEF CommitLog, CommitViewed, CommitPlace
      <3> QED BY <3>2, <3>3 DEF QueueViewed
    <2>2. CASE g \notin Trackers(t)
      BY <1>3, <2>2 DEF CommitLog, Log, QueueWith, QueueViewed, TypeOK
    <2> QED BY <2>1, <2>2
  <1>4. ASSUME NEW t \in Txns, TakeSnapshot(t)
        PROVE  QueueViewed'
    BY <1>2, <1>4, TakeSnapshotViews DEF TakeSnapshot
  <1>5. ASSUME NEW t \in Txns, Client(t)
        PROVE  QueueViewed'
    BY <1>2, <1>5
    DEF Client, Begin, Put, Delete, AddAction, Rollback, Read, ReadVersion,
        Commit, txnVars, metaVars
  <1>6. ASSUME NEW p \in Procs, Step(p)
        PROVE  QueueViewed'
    BY <1>1, <1>2, <1>6
    DEF Step, ApplyKey, VisitGroup, LockForSweep, LeaveGroup, EndSweep,
        txnVars, metaVars
  <1>7. ASSUME NEW t \in Txns, TxnStep(t)
        PROVE  QueueViewed'
    BY <1>2, <1>3, <1>4, <1>6, <1>7
    DEF TxnStep, LockForSnapshot, LockOther, CheckOthers, GrabForCommit,
        InsertCollides, CheckTracker, CommitEmpty, StartLocking, LockTracker,
        CommitConflict, Validate, SendAction, SendFails, CommitRelease, LockToCatchUp, CaughtUp,
        FlushAfterCommit, StartSweep, Abandon, txnVars, metaVars, Procs
  <1>8. ASSUME NEW q \in Queries, Flush(q) \/ Groom(q)
        PROVE  QueueViewed'
    BY <1>2, <1>8 DEF Flush, Groom, StartSweep, txnVars, metaVars
  <1> QED BY <1>5, <1>6, <1>7, <1>8 DEF Next, Procs

LEMMA TypeInvStep == ASSUME TypeInv, [Next]_vars PROVE TypeInv'
  <1>1. CASE Next
    <2>1. TypeOK'
      <3>1. CASE \E t \in Txns : Client(t) \/ TxnStep(t)
        BY <3>1, ClientTypeOK, TxnStepTypeOK
      <3>2. CASE \E q \in Queries : Step(q)
        BY <3>2, StepTypeOK DEF Procs
      <3>3. ASSUME NEW q \in Queries, Flush(q) \/ Groom(q)
            PROVE  TypeOK'
        BY <3>3
        DEF TypeInv, TypeOK, Calls, Places, Flush, Groom, StartSweep, Procs,
            txnVars, metaVars, histVars
      <3> QED BY <1>1, <3>1, <3>2, <3>3 DEF Next
    <2> QED BY <1>1, <2>1, CommitViewedStep, QueueViewedStep DEF TypeInv
  <1>2. CASE UNCHANGED vars
    BY <1>2
    DEF TypeInv, TypeOK, CommitViewed, CommitPlace, QueueViewed, Trackers,
        WritesIn, Writes, vars, txnVars, metaVars, procVars, histVars
  <1> QED BY <1>1, <1>2

\* The variables always have their types; in particular, what is queued to be
\* applied comes from a transaction that has a view of the group.
THEOREM TypeCorrect == Spec => []TypeOK
  <1>1. Init => TypeInv
    BY InitTypeInv
  <1>2. TypeInv /\ [Next]_vars => TypeInv'
    BY TypeInvStep
  <1>3. TypeInv => TypeOK
    BY DEF TypeInv
  <1> QED BY <1>1, <1>2, <1>3, PTL DEF Spec

-----------------------------------------------------------------------------
(* Locks.                                                                  *)

\* A step of one process.
ProcStep(p) ==
  \/ p \in Txns /\ (Client(p) \/ TxnStep(p))
  \/ p \in Queries /\ (Flush(p) \/ Groom(p) \/ Step(p))

\* While it locks groups one by one, a process has yet to lock groups of its
\* own that all come after those it has locked.
LockPlan(p) ==
  /\ p \in Queries => pc[p] \in {"idle", "sweep", "sweepWait", "sweepHold"}
  /\ pc[p] = "others" =>
       /\ todo[p] \subseteq Candidates(p)
       /\ \A h \in Candidates(p) \ todo[p], g \in todo[p] : h < g
  /\ pc[p] = "lock" =>
       /\ todo[p] \subseteq Trackers(p)
       /\ \A h \in Trackers(p) \ todo[p], g \in todo[p] : h < g

LockInv == LocksHeld /\ \A p \in Procs : LockPlan(p)

\* What a step of p leaves of another process r.
LEMMA FrameProc ==
  ASSUME TypeInv, NEW p \in Procs, ProcStep(p), NEW r \in Procs, r # p
  PROVE  /\ pc'[r] = pc[r] /\ call'[r] = call[r]
         /\ cur'[r] = cur[r] /\ todo'[r] = todo[r]
  <1> USE DEF TypeInv, TypeOK, Procs, Goto, Return, Grab, txnVars, procVars
  <1>1. CASE p \in Txns /\ Client(p)
    BY <1>1
    DEF Client, Begin, Put, Delete, AddAction, Rollback, Read, ReadVersion,
        Commit
  <1>2. CASE Step(p)
    BY <1>2
    DEF Step, ApplyKey, EndApply, VisitGroup, LockForSweep, LeaveGroup, EndSweep
  <1>3. CASE p \in Txns /\ TxnStep(p)
    <2>1. CASE \/ LockForSnapshot(p) \/ TakeSnapshot(p) \/ LockOther(p)
               \/ CheckOthers(p)
      BY <2>1 DEF LockForSnapshot, TakeSnapshot, LockOther, CheckOthers
    <2>2. CASE \/ GrabForCommit(p) \/ InsertCollides(p) \/ CheckTracker(p)
               \/ CommitEmpty(p) \/ CommitConflict(p)
      BY <2>2
      DEF GrabForCommit, InsertCollides, CheckTracker, CommitEmpty,
          CommitConflict, Abandon
    <2>3. CASE StartLocking(p) \/ LockTracker(p) \/ Validate(p) \/ CommitLog(p)
      BY <2>3 DEF StartLocking, LockTracker, Validate, CommitLog
    <2>4. CASE SendAction(p) \/ SendFails(p) \/ CommitRelease(p)
      BY <2>4 DEF SendAction, SendFails, CommitRelease, OnCommit
    <2>5. CASE LockToCatchUp(p) \/ CaughtUp(p) \/ FlushAfterCommit(p)
      BY <2>5 DEF LockToCatchUp, CaughtUp, FlushAfterCommit, StartSweep
    <2> QED BY <1>2, <1>3, <2>1, <2>2, <2>3, <2>4, <2>5 DEF TxnStep
  <1>4. CASE p \in Queries /\ (Flush(p) \/ Groom(p))
    BY <1>4 DEF Flush, Groom, StartSweep
  <1> QED BY <1>1, <1>2, <1>3, <1>4 DEF ProcStep

LEMMA FrameTxn ==
  ASSUME TypeInv, NEW p \in Procs, ProcStep(p), NEW r \in Txns, r # p
  PROVE  /\ state'[r] = state[r] /\ acts'[r] = acts[r]
         /\ put'[r] = put[r] /\ del'[r] = del[r] /\ ins'[r] = ins[r]
         /\ view'[r] = view[r] \/ EndApply(p)
  <1> USE DEF TypeInv, TypeOK, Procs, txnVars
  <1>1. CASE p \in Txns /\ Client(p)
    BY <1>1
    DEF Client, Begin, Put, Delete, AddAction, Rollback, Read, ReadVersion,
        Commit
  <1>2. CASE Step(p)
    BY <1>2
    DEF Step, ApplyKey, EndApply, VisitGroup, LockForSweep, LeaveGroup, EndSweep
  <1>3. CASE p \in Txns /\ TxnStep(p)
    <2>1. CASE \/ LockForSnapshot(p) \/ TakeSnapshot(p) \/ LockOther(p)
               \/ CheckOthers(p)
      BY <2>1 DEF LockForSnapshot, TakeSnapshot, LockOther, CheckOthers
    <2>2. CASE \/ GrabForCommit(p) \/ InsertCollides(p) \/ CheckTracker(p)
               \/ CommitEmpty(p) \/ CommitConflict(p)
      BY <2>2
      DEF GrabForCommit, InsertCollides, CheckTracker, CommitEmpty,
          CommitConflict, Abandon
    <2>3. CASE StartLocking(p) \/ LockTracker(p) \/ Validate(p) \/ CommitLog(p)
      BY <2>3 DEF StartLocking, LockTracker, Validate, CommitLog
    <2>4. CASE SendAction(p) \/ SendFails(p) \/ CommitRelease(p)
      BY <2>4 DEF SendAction, SendFails, CommitRelease
    <2>5. CASE LockToCatchUp(p) \/ CaughtUp(p) \/ FlushAfterCommit(p)
      BY <2>5 DEF LockToCatchUp, CaughtUp, FlushAfterCommit, StartSweep
    <2> QED BY <1>2, <1>3, <2>1, <2>2, <2>3, <2>4, <2>5 DEF TxnStep
  <1>4. CASE p \in Queries /\ (Flush(p) \/ Groom(p))
    BY <1>4 DEF Flush, Groom, StartSweep
  <1> QED BY <1>1, <1>2, <1>3, <1>4 DEF ProcStep

LEMMA FrameTrackers ==
  ASSUME TypeInv, NEW p \in Procs, ProcStep(p), NEW r \in Txns, r # p
  PROVE  /\ Trackers(r)' = Trackers(r)
         /\ Candidates(r)' = Candidates(r)
  <1>1. \A g \in Groups : view'[r][g] = NoView <=> view[r][g] = NoView
    BY FrameTxn, EndApplyViews
  <1>2. cur'[r] = cur[r]
    BY FrameProc DEF Procs
  <1> QED
    BY <1>1, <1>2, FrameTxn DEF Trackers, Candidates, WritesIn, Writes

LEMMA FrameHolds ==
  ASSUME TypeInv, LockInv, NEW p \in Procs, ProcStep(p), NEW r \in Procs, r # p
  PROVE  /\ Holds(r)' = Holds(r)
         /\ Sweeping(r)' = Sweeping(r)
         /\ LockPlan(r)'
  <1>1. CASE r \in Txns
    BY <1>1, FrameProc, FrameTrackers, ConstantsAssumption
    DEF Holds, Sweeping, LockPlan, LockInv
  <1>2. CASE r \in Queries
    <2>1. pc[r] \in {"idle", "sweep", "sweepWait", "sweepHold"}
      BY <1>2 DEF LockInv, LockPlan
    <2> QED
      BY <1>2, <2>1, FrameProc DEF Holds, Sweeping, LockPlan
  <1> QED BY <1>1, <1>2 DEF Procs

\* The three things a step may do with write locks, and with _meta_data_lock.
LockMove(p) ==
  \/ UNCHANGED wlock /\ Holds(p)' = Holds(p)
  \/ \E g \in Groups : Acquire(p, g) /\ Holds(p)' = Holds(p) \cup {g}
  \/ Release(p) /\ Holds(p)' = {}
MetaMove(p) ==
  \/ UNCHANGED mdlock /\ Sweeping(p)' = Sweeping(p)
  \/ mdlock = Free /\ mdlock' = p /\ Sweeping(p)'
  \/ Sweeping(p) /\ mdlock' = Free /\ ~ Sweeping(p)'

LEMMA LockMoveHeld ==
  ASSUME TypeInv, LockInv, NEW p \in Procs, ProcStep(p), LockMove(p)
  PROVE  \A g \in Groups, r \in Procs : (wlock[g] = r)' <=> (g \in Holds(r))'
  <1> SUFFICES ASSUME NEW g \in Groups, NEW r \in Procs
               PROVE  wlock'[g] = r <=> g \in Holds(r)'
    OBVIOUS
  <1>1. \A h \in Groups, q \in Procs : wlock[h] = q <=> h \in Holds(q)
    BY DEF LockInv, LocksHeld
  <1>2. r # p => Holds(r)' = Holds(r)
    BY FrameHolds
  <1>3. wlock \in [Groups -> Procs \cup {Free}] /\ Free \notin Procs
    BY ConstantsAssumption DEF TypeInv, TypeOK, Procs
  <1>4. CASE UNCHANGED wlock /\ Holds(p)' = Holds(p)
    BY <1>1, <1>2, <1>4
  <1>5. CASE \E h \in Groups : Acquire(p, h) /\ Holds(p)' = Holds(p) \cup {h}
    BY <1>1, <1>2, <1>3, <1>5 DEF Acquire
  <1>6. CASE Release(p) /\ Holds(p)' = {}
    BY <1>1, <1>2, <1>3, <1>6 DEF Release
  <1> QED BY <1>4, <1>5, <1>6 DEF LockMove

LEMMA MetaMoveHeld ==
  ASSUME TypeInv, LockInv, NEW p \in Procs, ProcStep(p), MetaMove(p)
  PROVE  \A r \in Procs : (mdlock = r)' <=> Sweeping(r)'
  <1> SUFFICES ASSUME NEW r \in Procs
               PROVE  mdlock' = r <=> Sweeping(r)'
    OBVIOUS
  <1>1. \A q \in Procs : mdlock = q <=> Sweeping(q)
    BY DEF LockInv, LocksHeld
  <1>2. r # p => Sweeping(r)' = Sweeping(r)
    BY FrameHolds
  <1>3. Free \notin Procs
    BY ConstantsAssumption DEF Procs
  <1> QED BY <1>1, <1>2, <1>3 DEF MetaMove

LEMMA ClientLocks ==
  ASSUME TypeInv, LockInv, NEW t \in Txns, Client(t)
  PROVE  LockMove(t) /\ MetaMove(t) /\ LockPlan(t)'
  <1> USE DEF TypeInv, TypeOK, Procs, LockMove, MetaMove, LockPlan
  <1>1. pc[t] = "idle"
    BY DEF Client, Begin, Put, Delete, AddAction, Rollback, Read, ReadVersion,
           Commit, Open, CommitViewed, CommitPlace
  <1>2. pc'[t] \in {"idle", "grab", "check"}
    BY <1>1
    DEF Client, Begin, Put, Delete, AddAction, Rollback, Read, ReadVersion,
        Grab, Commit, procVars
  <1>3. UNCHANGED <<wlock, mdlock>>
    BY DEF Client, Begin, Put, Delete, AddAction, Rollback, Read, ReadVersion,
           Commit, metaVars
  <1> QED
    BY <1>1, <1>2, <1>3, ConstantsAssumption DEF Holds, Sweeping

LEMMA StepLocks ==
  ASSUME TypeInv, LockInv, NEW p \in Procs, Step(p)
  PROVE  LockMove(p) /\ MetaMove(p) /\ LockPlan(p)'
  <1> USE DEF TypeInv, TypeOK, LockMove, MetaMove, LockPlan, Sweeping
  <1>1. CASE ApplyKey(p)
    <2>1. UNCHANGED <<wlock, mdlock, pc, cur, todo, view, put, del>>
      BY <1>1 DEF ApplyKey, txnVars, procVars
    <2> QED BY <2>1 DEF Holds, Candidates, Trackers, WritesIn, Writes, LockInv
  <1>2. CASE EndApply(p)
    <2>1. UNCHANGED <<wlock, mdlock, pc, cur, todo>>
      BY <1>2 DEF EndApply, procVars
    <2>2. pc[p] \in {"snap", "masterHold", "sweepHold"}
      BY <1>2 DEF EndApply, Applying
    <2> QED BY <2>1, <2>2 DEF Holds, LockInv
  <1>3. CASE VisitGroup(p)
    <2>1. /\ pc[p] = "sweep" /\ pc'[p] \in {"sweep", "sweepWait"}
          /\ UNCHANGED <<wlock, mdlock>>
      BY <1>3 DEF VisitGroup, metaVars
    <2> QED BY <2>1 DEF Holds
  <1>4. CASE LockForSweep(p)
    <2>1. /\ pc[p] = "sweepWait" /\ pc'[p] = "sweepHold"
          /\ UNCHANGED <<mdlock, cur>> /\ Acquire(p, cur[p]) /\ cur[p] \in Groups
      BY <1>4 DEF LockForSweep, Goto
    <2> QED BY <2>1 DEF Holds
  <1>5. CASE LeaveGroup(p)
    <2>1. /\ pc[p] = "sweepHold" /\ pc'[p] = "sweep"
          /\ UNCHANGED mdlock /\ Release(p)
      BY <1>5 DEF LeaveGroup, Goto
    <2> QED BY <2>1 DEF Holds
  <1>6. CASE EndSweep(p)
    <2>1. /\ pc[p] = "sweep" /\ pc'[p] = "idle"
          /\ mdlock' = Free /\ UNCHANGED wlock
      BY <1>6 DEF EndSweep, Return, metaVars
    <2> QED BY <2>1 DEF Holds
  <1> QED BY <1>1, <1>2, <1>3, <1>4, <1>5, <1>6 DEF Step

\* Locking the next group of a plan leaves a plan.
LEMMA NextKeepsPlan ==
  ASSUME NEW S \in SUBSET Groups, NEW T, T \subseteq S, NEW g \in Groups,
         NextInOrder(g, T), \A h \in S \ T, i \in T : h < i
  PROVE  \A h \in S \ (T \ {g}), i \in T \ {g} : h < i
  <1> SUFFICES ASSUME NEW h \in S \ (T \ {g}), NEW i \in T \ {g}
               PROVE  h < i
    OBVIOUS
  <1>1. h \in Nat /\ i \in Nat /\ g \in Nat
    BY ConstantsAssumption
  <1>2. CASE h = g
    BY <1>1, <1>2 DEF NextInOrder
  <1> QED BY <1>2

LEMMA TxnStepLocks ==
  ASSUME TypeInv, LockInv, NEW t \in Txns, TxnStep(t)
  PROVE  LockMove(t) /\ MetaMove(t) /\ LockPlan(t)'
  <1>0. t \in Procs /\ t \notin Queries /\ LockPlan(t)
    BY ConstantsAssumption DEF Procs, LockInv
  <1> USE <1>0 DEF TypeInv, TypeOK, LockMove, MetaMove, LockPlan, Sweeping
  <1>1. CASE Step(t)
    BY <1>1, StepLocks
  <1>2. CASE LockForSnapshot(t)
    <2>1. /\ pc[t] = "grab" /\ pc'[t] = "snap"
          /\ UNCHANGED <<mdlock, cur>> /\ Acquire(t, cur[t]) /\ cur[t] \in Groups
      BY <1>2 DEF LockForSnapshot, Goto
    <2> QED BY <2>1 DEF Holds
  <1>3. CASE TakeSnapshot(t)
    <2>1. /\ pc[t] = "snap" /\ UNCHANGED mdlock /\ Release(t)
          /\ \/ pc'[t] \in {"idle", "check"}
             \/ /\ pc'[t] = "others" /\ UNCHANGED cur
                /\ todo'[t] = Candidates(t)
      BY <1>3 DEF TakeSnapshot, Goto, Return
    <2>2. ASSUME UNCHANGED cur
          PROVE  Candidates(t)' = Candidates(t)
      BY <1>3, <2>2, TakeSnapshotViews DEF Candidates
    <2> QED BY <2>1, <2>2 DEF Holds
  <1>4. CASE LockOther(t)
    <2>1. PICK g \in Groups :
            /\ NextInOrder(g, todo[t]) /\ Acquire(t, g)
            /\ todo' = [todo EXCEPT ![t] = @ \ {g}]
      BY <1>4 DEF LockOther
    <2>2. /\ pc[t] = "others" /\ UNCHANGED <<pc, mdlock>>
          /\ Candidates(t)' = Candidates(t)
      BY <1>4 DEF LockOther, Candidates, txnVars
    <2>3. g \in todo[t] /\ todo'[t] = todo[t] \ {g} /\ todo[t] \subseteq Candidates(t)
      BY <2>1, <2>2 DEF NextInOrder
    <2>4. Holds(t)' = Holds(t) \cup {g}
      BY <2>2, <2>3 DEF Holds
    <2>5. LockPlan(t)'
      BY <2>1, <2>2, <2>3, NextKeepsPlan DEF Candidates
    <2> QED BY <2>1, <2>2, <2>4, <2>5
  <1>5. CASE CheckOthers(t)
    <2>1. pc[t] = "others" /\ pc'[t] = "idle" /\ UNCHANGED mdlock /\ Release(t)
      BY <1>5 DEF CheckOthers, Return
    <2> QED BY <2>1 DEF Holds
  <1>6. CASE GrabForCommit(t) \/ CheckTracker(t) \/ StartLocking(t)
    <2>1. /\ pc[t] = "check" /\ UNCHANGED <<wlock, mdlock>>
          /\ \/ pc'[t] \in {"grab", "check"}
             \/ pc'[t] = "lock" /\ todo'[t] = Trackers(t)
          /\ Trackers(t)' = Trackers(t)
      BY <1>6
      DEF GrabForCommit, Grab, CheckTracker, StartLocking, Trackers, WritesIn,
          Writes, txnVars, metaVars
    <2> QED BY <2>1 DEF Holds
  <1>7. CASE InsertCollides(t) \/ CommitEmpty(t) \/ CommitConflict(t)
    <2>1. /\ pc[t] \in {"check", "lock"} /\ pc'[t] = "idle" /\ UNCHANGED mdlock
          /\ Release(t)
      BY <1>7
      DEF InsertCollides, CommitEmpty, CommitConflict, Abandon, Return
    <2> QED BY <2>1 DEF Holds
  <1>8. CASE LockTracker(t)
    <2>1. PICK g \in Groups :
            /\ NextInOrder(g, todo[t]) /\ Acquire(t, g)
            /\ todo' = [todo EXCEPT ![t] = @ \ {g}]
      BY <1>8 DEF LockTracker
    <2>2. /\ pc[t] = "lock" /\ UNCHANGED <<pc, mdlock>>
          /\ Trackers(t)' = Trackers(t)
      BY <1>8 DEF LockTracker, Trackers, WritesIn, Writes, txnVars
    <2>3. g \in todo[t] /\ todo'[t] = todo[t] \ {g} /\ todo[t] \subseteq Trackers(t)
      BY <2>1, <2>2 DEF NextInOrder
    <2>4. Holds(t)' = Holds(t) \cup {g}
      BY <2>2, <2>3 DEF Holds
    <2>5. LockPlan(t)'
      <3>1. Trackers(t) \in SUBSET Groups
        BY DEF Trackers
      <3>2. \A h \in Trackers(t) \ todo[t], i \in todo[t] : h < i
        BY <2>2
      <3>3. \A h \in Trackers(t) \ todo'[t], i \in todo'[t] : h < i
        BY <2>1, <2>3, <3>1, <3>2, NextKeepsPlan
      <3> QED BY <2>2, <2>3, <3>3, <1>0
    <2>6. LockMove(t)
      BY <2>1, <2>4
    <2>7. MetaMove(t)
      BY <2>2
    <2> QED BY <2>5, <2>6, <2>7
  <1>9. CASE Validate(t) \/ CommitLog(t) \/ SendAction(t)
    <2>1. UNCHANGED <<wlock, mdlock>> /\ Trackers(t)' = Trackers(t)
      BY <1>9
      DEF Validate, CommitLog, SendAction, Trackers, WritesIn, Writes, txnVars,
          metaVars
    <2>2. \/ pc[t] = "lock" /\ todo[t] = {} /\ pc'[t] = "log"
          \/ pc[t] = "log" /\ pc'[t] = "send"
          \/ pc[t] = "send" /\ pc'[t] = "send"
      <3>1. CASE Validate(t)
        BY <3>1 DEF Validate, Goto
      <3>2. CASE CommitLog(t)
        BY <3>2 DEF CommitLog, Goto
      <3>3. CASE SendAction(t)
        BY <3>3 DEF SendAction, MaySend, procVars
      <3> QED BY <1>9, <3>1, <3>2, <3>3
    <2>3. Holds(t)' = Holds(t)
      BY <2>1, <2>2 DEF Holds
    <2> QED BY <2>1, <2>2, <2>3
  <1>10. CASE SendFails(t) \/ CommitRelease(t)
    <2>1. /\ pc[t] = "send" /\ pc'[t] \in {"idle", "master"}
          /\ UNCHANGED mdlock /\ Release(t)
      BY <1>10 DEF SendFails, CommitRelease, OnCommit, Goto, Return
    <2> QED BY <2>1 DEF Holds
  <1>11. CASE LockToCatchUp(t)
    <2>1. PICK g \in Groups : /\ Acquire(t, g) /\ cur'[t] = g
                              /\ pc[t] = "master" /\ pc'[t] = "masterHold"
                              /\ UNCHANGED mdlock
      BY <1>11 DEF LockToCatchUp, Goto
    <2> QED BY <2>1 DEF Holds
  <1>12. CASE CaughtUp(t)
    <2>1. /\ pc[t] = "masterHold" /\ pc'[t] = "master"
          /\ UNCHANGED mdlock /\ Release(t)
      BY <1>12 DEF CaughtUp, Goto
    <2> QED BY <2>1 DEF Holds
  <1>13. CASE FlushAfterCommit(t)
    <2>1. /\ pc[t] = "master" /\ pc'[t] = "sweep" /\ UNCHANGED wlock
          /\ mdlock = Free /\ mdlock' = t
      BY <1>13 DEF FlushAfterCommit, StartSweep, metaVars
    <2> QED BY <2>1 DEF Holds
  <1> QED
    BY <1>1, <1>2, <1>3, <1>4, <1>5, <1>6, <1>7, <1>8, <1>9, <1>10, <1>11,
       <1>12, <1>13
    DEF TxnStep

\* What is left of the two lock invariants, step by step.
LEMMA ProcLocks ==
  ASSUME TypeInv, LockInv, NEW p \in Procs, ProcStep(p)
  PROVE  LockMove(p) /\ MetaMove(p) /\ LockPlan(p)'
  <1>1. CASE p \in Txns /\ (Client(p) \/ TxnStep(p))
    BY <1>1, ClientLocks, TxnStepLocks
  <1>2. CASE p \in Queries /\ Step(p)
    BY <1>2, StepLocks
  <1>3. CASE p \in Queries /\ (Flush(p) \/ Groom(p))
    <2>1. /\ pc[p] = "idle" /\ pc'[p] = "sweep" /\ UNCHANGED wlock
          /\ mdlock = Free /\ mdlock' = p
      BY <1>3 DEF Flush, Groom, StartSweep, metaVars, TypeInv, TypeOK
    <2>2. Holds(p) = {} /\ Holds(p)' = {}
      BY <2>1 DEF Holds
    <2> QED BY <2>1, <2>2 DEF LockMove, MetaMove, LockPlan, Sweeping
  <1> QED BY <1>1, <1>2, <1>3 DEF ProcStep

LEMMA InitLockInv == ASSUME Init PROVE LockInv
  BY ConstantsAssumption
  DEF Init, LockInv, LocksHeld, LockPlan, Holds, Sweeping, Procs

LEMMA LockInvStep ==
  ASSUME TypeInv, LockInv, [Next]_vars
  PROVE  LockInv'
  <1>1. ASSUME NEW p \in Procs, ProcStep(p)
        PROVE  LockInv'
    <2>1. LockMove(p) /\ MetaMove(p) /\ LockPlan(p)'
      BY <1>1, ProcLocks
    <2>2. \A r \in Procs : LockPlan(r)'
      BY <1>1, <2>1, FrameHolds
    <2>3. LocksHeld'
      BY <1>1, <2>1, LockMoveHeld, MetaMoveHeld DEF LocksHeld
    <2> QED BY <2>2, <2>3 DEF LockInv
  <1>2. CASE UNCHANGED vars
    BY <1>2
    DEF LockInv, LocksHeld, LockPlan, Holds, Sweeping, Candidates, Trackers,
        WritesIn, Writes, vars, txnVars, metaVars, procVars
  <1>3. CASE Next
    <2>1. PICK p \in Procs : ProcStep(p)
      BY <1>3 DEF Next, ProcStep, Procs
    <2> QED BY <1>1, <2>1
  <1> QED BY <1>2, <1>3

\* The write locks and _meta_data_lock are held exactly where the code holds
\* them, whatever the interleaving: no lock is leaked and none taken twice.
THEOREM LocksAreHeld == Spec => []LocksHeld
  <1>1. Init => TypeInv /\ LockInv
    BY InitTypeInv, InitLockInv
  <1>2. TypeInv /\ LockInv /\ [Next]_vars => TypeInv' /\ LockInv'
    BY TypeInvStep, LockInvStep
  <1>3. LockInv => LocksHeld
    BY DEF LockInv
  <1> QED BY <1>1, <1>2, <1>3, PTL DEF Spec

LEMMA PlanIsOrdered == ASSUME TypeInv, LockInv PROVE LocksOrdered
  <1> SUFFICES ASSUME NEW p \in Procs, NEW h \in Groups, wlock[h] = p
               PROVE  /\ \A g \in WaitsFor(p) : h < g
                      /\ pc[p] \notin {"idle", "check", "master"}
    BY DEF LocksOrdered
  <1>1. h \in Holds(p) /\ LockPlan(p)
    BY DEF LockInv, LocksHeld
  <1> QED BY <1>1 DEF Holds, WaitsFor, LockPlan, NextInOrder

\* A process that holds write locks asks only for later ones, and never for
\* _meta_data_lock: no set of transactions and sweeps waits in a circle.
THEOREM NoCircularWait == Spec => []LocksOrdered
  <1>1. Init => TypeInv /\ LockInv
    BY InitTypeInv, InitLockInv
  <1>2. TypeInv /\ LockInv /\ [Next]_vars => TypeInv' /\ LockInv'
    BY TypeInvStep, LockInvStep
  <1>3. TypeInv /\ LockInv => LocksOrdered
    BY PlanIsOrdered
  <1> QED BY <1>1, <1>2, <1>3, PTL DEF Spec
=============================================================================
