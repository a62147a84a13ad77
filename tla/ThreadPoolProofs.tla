-------------------------- MODULE ThreadPoolProofs --------------------------
(***************************************************************************)
(* Theorems about ThreadPool, for any workers, items and queue sizes.      *)
(***************************************************************************)
EXTENDS ThreadPool, FiniteSetTheorems, SequenceTheorems, TLAPS

\* Where a worker stands says what it holds.
HeldAt(t) ==
    /\ pc[t] \in {"gate", "backoff", "get"} => held[t] = NoItem
    /\ pc[t] = "work" => held[t] \in Items
    /\ pc[t] = "finish" => held[t] # NoItem
    /\ pc[t] = "finish" /\ result[t].status = "retry" => held[t] \in Items
    /\ pc[t] = "release" /\ held[t] # NoItem => result[t].leaves
WorkersHold == \A t \in Threads : HeldAt(t)

\* Shutdown runs only while one of the calls is left.
ShutdownCounted ==
    /\ main \in {"drain", "flag", "mark", "enable"} => shutdowns >= 1
    /\ main = "flag" => toStop # {}

\* What was put back and what workers hold were taken by different workers.
RequeueBound == Len(requeue) + Cardinality(Holding) <= NumThreads

Inv == /\ TypeOK /\ WorkersHold /\ ShutdownCounted
       /\ GateConserved /\ UnfinishedCounts /\ RequeueBound
-----------------------------------------------------------------------------
LEMMA InsideFinite ==
  /\ IsFiniteSet(Inside) /\ Cardinality(Inside) \in Nat
  /\ IsFiniteSet(Holding) /\ Cardinality(Holding) \in Nat
  /\ Cardinality(Holding) <= NumThreads
  /\ NumThreads \in Nat
  <1>1. Inside \in SUBSET Threads /\ Holding \in SUBSET Threads
    BY DEF Inside, Holding
  <1> QED BY <1>1, ThreadsAssumption, FS_Subset, FS_CardinalityType DEF NumThreads

\* How a worker's move through the gate changes the number inside.
LEMMA InsideMoves ==
  ASSUME TypeOK, NEW t \in Threads, NEW p, pc' = [pc EXCEPT ![t] = p]
  PROVE  /\ t \notin Inside /\ p \notin {"gate", "dead"}
              => Cardinality(Inside') = Cardinality(Inside) + 1
         /\ t \in Inside /\ p \in {"gate", "dead"}
              => Cardinality(Inside') = Cardinality(Inside) - 1
         /\ t \in Inside /\ p \notin {"gate", "dead"}
              => Cardinality(Inside') = Cardinality(Inside)
  <1>1. ASSUME t \notin Inside, p \notin {"gate", "dead"}
        PROVE  Inside' = Inside \cup {t}
    BY <1>1 DEF Inside, TypeOK
  <1>2. ASSUME t \in Inside, p \in {"gate", "dead"}
        PROVE  Inside' = Inside \ {t}
    BY <1>2 DEF Inside, TypeOK
  <1>3. ASSUME t \in Inside, p \notin {"gate", "dead"}
        PROVE  Inside' = Inside
    BY <1>3 DEF Inside, TypeOK
  <1> QED BY <1>1, <1>2, <1>3, InsideFinite, FS_AddElement, FS_RemoveElement, SMTT(30)

\* How taking or giving up an item changes the number of workers that hold one.
LEMMA HoldingMoves ==
  ASSUME TypeOK, NEW t \in Threads, NEW x, held' = [held EXCEPT ![t] = x]
  PROVE  /\ held[t] = NoItem /\ x # NoItem
              => Cardinality(Holding') = Cardinality(Holding) + 1
         /\ held[t] # NoItem /\ x = NoItem
              => Cardinality(Holding') = Cardinality(Holding) - 1
  <1>1. ASSUME held[t] = NoItem, x # NoItem
        PROVE  Holding' = Holding \cup {t} /\ t \notin Holding
    BY <1>1 DEF Holding, TypeOK
  <1>2. ASSUME held[t] # NoItem, x = NoItem
        PROVE  Holding' = Holding \ {t} /\ t \in Holding
    BY <1>2 DEF Holding, TypeOK
  <1> QED BY <1>1, <1>2, InsideFinite, FS_AddElement, FS_RemoveElement

\* Taking an item shortens one of the queues, the one of those put back first.
LEMMA Takes ==
  ASSUME TypeOK, CanTake, TakeItem
  PROVE  /\ NextItem \in Items \cup {Exit} /\ NextItem # NoItem
         /\ queue' \in Seq(Items \cup {Exit}) /\ requeue' \in Seq(Items)
         /\ Len(queue') <= QueueSize
         /\ Len(queue') + Len(requeue') = Len(queue) + Len(requeue) - 1
         /\ Len(requeue') = Len(requeue) - 1 \/ Len(requeue') = 0
  <1>1. CASE requeue # <<>>
    <2>1. Head(requeue) \in Items /\ Tail(requeue) \in Seq(Items)
          /\ Len(Tail(requeue)) = Len(requeue) - 1
      BY <1>1, HeadTailProperties DEF TypeOK
    <2>2. queue' = queue /\ requeue' = Tail(requeue) /\ NextItem = Head(requeue)
      BY <1>1 DEF TakeItem, FromRequeue, NextItem
    <2> QED BY <2>1, <2>2, MarkAssumption, LenProperties DEF TypeOK
  <1>2. CASE requeue = <<>>
    <2>1. queue # <<>>
      BY <1>2 DEF CanTake
    <2>2. Head(queue) \in Items \cup {Exit} /\ Tail(queue) \in Seq(Items \cup {Exit})
          /\ Len(Tail(queue)) = Len(queue) - 1
      BY <2>1, HeadTailProperties DEF TypeOK
    <2>3. requeue' = <<>> /\ queue' = Tail(queue) /\ NextItem = Head(queue)
      BY <1>2 DEF TakeItem, FromRequeue, NextItem
    <2>4. Len(requeue) = 0 /\ Len(requeue') = 0
      BY <1>2, <2>3
    <2> QED BY <1>2, <2>2, <2>3, <2>4, MarkAssumption, SizeAssumption, LenProperties DEF TypeOK
  <1> QED BY <1>1, <1>2

LEMMA Puts ==
  ASSUME TypeOK, NEW x \in Items \cup {Exit}, PutItem(x)
  PROVE  /\ queue' \in Seq(Items \cup {Exit}) /\ requeue' \in Seq(Items)
         /\ Len(queue') <= QueueSize /\ Len(queue') = Len(queue) + 1
         /\ unfinished' = unfinished + 1 /\ unfinished' \in Nat
         /\ requeue' = requeue
  <1>1. queue' = Append(queue, x) /\ Len(queue) < QueueSize /\ Len(queue) \in Nat
    BY LenProperties DEF PutItem, HasRoom, TypeOK
  <1>2. queue' \in Seq(Items \cup {Exit}) /\ Len(queue') = Len(queue) + 1
    BY <1>1, AppendProperties DEF TypeOK
  <1> QED BY <1>1, <1>2, SizeAssumption DEF PutItem, TypeOK
-----------------------------------------------------------------------------
\* Types, what workers hold, and the calls of Shutdown.
Shape == TypeOK /\ WorkersHold /\ ShutdownCounted

LEMMA InitShape == Init => Inv
  <1> SUFFICES ASSUME Init PROVE Inv
    OBVIOUS
  <1>1. TypeOK
    <2>1. Outcome("failure", "decrease") \in Results
      BY DEF Outcome, Results, Statuses, Instructions
    <2>2. result \in [Threads -> Results] /\ held \in [Threads -> Items \cup {Exit, NoItem}]
      BY <2>1 DEF Init
    <2>3. queue \in Seq(Items \cup {Exit}) /\ Len(queue) <= QueueSize /\ requeue \in Seq(Items)
      <3>1. queue = <<>> /\ requeue = <<>>
        BY DEF Init
      <3>2. <<>> \in Seq(Items) /\ <<>> \in Seq(Items \cup {Exit}) /\ Len(<<>>) = 0
        <4>1. Len(<<>>) = 0
          OBVIOUS
        <4>2. <<>> \in Seq(Items)
          BY EmptySeq
        <4>3. <<>> \in Seq(Items \cup {Exit})
          BY EmptySeq
        <4> QED BY <4>1, <4>2, <4>3
      <3>3. queue \in Seq(Items \cup {Exit}) /\ requeue \in Seq(Items) /\ Len(queue) = 0
        BY <3>1, <3>2, Zenon
      <3>4. Len(queue) <= QueueSize
        BY <3>3, SizeAssumption
      <3> QED BY <3>3, <3>4, Zenon
    <2>4. /\ unfinished \in Nat /\ enabled \in Nat /\ permits \in Nat /\ toEnable \in Nat
          /\ retries \in 0 .. MaxRetries /\ shutdowns \in 0 .. 2
      BY RetriesAssumption DEF Init
    <2>5. /\ backoff \in BOOLEAN /\ sourceExit \in BOOLEAN
          /\ exitFlag \in SUBSET Threads /\ toStop \in SUBSET Threads
          /\ done \in SUBSET Items /\ fresh \in SUBSET Items
      BY DEF Init
    <2>6. /\ pc \in [Threads -> {"gate", "backoff", "get", "work", "finish",
                                "release", "dead"}]
          /\ source \in Items \cup {"reading", "ended"}
          /\ main \in {"watching", "drain", "flag", "mark", "enable", "join", "joined"}
      BY DEF Init
    <2> QED BY <2>2, <2>3, <2>4, <2>5, <2>6, Zenon DEF TypeOK
  <1>2. WorkersHold /\ ShutdownCounted
    BY DEF Init, WorkersHold, HeldAt, ShutdownCounted
  <1>3. Inside = {} /\ Holding = {}
    BY DEF Init, Inside, Holding
  <1>4. Cardinality(Inside) = 0 /\ Cardinality(Holding) = 0
    BY <1>3, FS_EmptySet
  <1>5. Len(queue) = 0 /\ Len(requeue) = 0
    BY DEF Init
  <1> QED BY <1>1, <1>2, <1>4, <1>5, InsideFinite
         DEF Init, Inv, GateConserved, UnfinishedCounts, RequeueBound

LEMMA OutcomesAreResults ==
  /\ Outcomes \subseteq Results
  /\ \A r \in Results : Leaving(r) \in Results /\ Leaving(r).leaves
        /\ Leaving(r).status = r.status /\ Leaving(r).instruction = r.instruction
  /\ Outcome("failure", "hold") \in Results
  /\ Outcome("failure", "decrease") \in Results
  /\ Leaving(Outcome("failure", "hold")) \in Results
  /\ Leaving(Outcome("failure", "hold")).status = "failure"
  /\ Leaving(Outcome("success", "hold")) \in Results
  /\ Leaving(Outcome("success", "hold")).status = "success"
  /\ Outcome("failure", "decrease").status = "failure"
  <1>1. Outcomes \subseteq Results
    <2>1. \A st \in Statuses, i \in Instructions : Outcome(st, i) \in Results
      BY DEF Outcome, Results
    <2>2. /\ "success" \in Statuses /\ "retry" \in Statuses /\ "failure" \in Statuses
          /\ "hold" \in Instructions /\ "decrease" \in Instructions
      BY DEF Statuses, Instructions
    <2> QED BY <2>1, <2>2 DEF Outcomes
  <1>2. ASSUME NEW r \in Results
        PROVE  Leaving(r) \in Results /\ Leaving(r).leaves
               /\ Leaving(r).status = r.status /\ Leaving(r).instruction = r.instruction
    BY DEF Results, Leaving
  <1>3. /\ Outcome("failure", "hold") \in Results
        /\ Outcome("failure", "decrease") \in Results
        /\ Outcome("success", "hold") \in Results
        /\ Outcome("failure", "hold").status = "failure"
        /\ Outcome("success", "hold").status = "success"
        /\ Outcome("failure", "decrease").status = "failure"
    BY DEF Outcome, Results, Statuses, Instructions
  <1> QED BY <1>1, <1>2, <1>3

LEMMA CountsAreNat == ASSUME Inv PROVE Len(queue) \in Nat /\ Len(requeue) \in Nat
  BY LenProperties DEF Inv, TypeOK

LEMMA ShapePreserved == Inv /\ [Next]_vars => Shape'
  <1> SUFFICES ASSUME Inv, [Next]_vars PROVE Shape'
    OBVIOUS
  <1> USE DEF Inv, Shape
  <1>0. TypeOK /\ WorkersHold /\ ShutdownCounted
    OBVIOUS
  <1>1. ASSUME NEW t \in Threads, StartWork(t) PROVE Shape'
    <2>1. TypeOK'
      BY <1>1, OutcomesAreResults DEF StartWork, EnterWork, TypeOK, queueVars, sourceVars, mainVars
    <2>2. WorkersHold' /\ ShutdownCounted'
      BY <1>1, OutcomesAreResults DEF StartWork, EnterWork, TypeOK, WorkersHold, HeldAt,
         ShutdownCounted, queueVars, sourceVars, mainVars
    <2> QED BY <2>1, <2>2
  <1>2. ASSUME NEW t \in Threads, BackoffEnds(t) PROVE Shape'
    BY <1>2, OutcomesAreResults DEF BackoffEnds, EnterWork, TypeOK, WorkersHold, HeldAt,
       ShutdownCounted, queueVars, gateVars, sourceVars, mainVars
  <1>3. ASSUME NEW t \in Threads, Get(t) PROVE Shape'
    <2>1. TypeOK'
      BY <1>3, Takes, OutcomesAreResults DEF Get, TypeOK, gateVars, sourceVars, mainVars
    <2>2. WorkersHold'
      BY <1>3, Takes, OutcomesAreResults DEF Get, Stopped, TypeOK, WorkersHold, HeldAt
    <2> QED BY <1>3, <2>1, <2>2 DEF Get, ShutdownCounted, mainVars
  <1>4. ASSUME NEW t \in Threads, GetTimesOut(t) PROVE Shape'
    BY <1>4, OutcomesAreResults DEF GetTimesOut, TypeOK, WorkersHold, HeldAt,
       ShutdownCounted, queueVars, gateVars, sourceVars, mainVars
  <1>5. ASSUME NEW t \in Threads, NEW o \in Outcomes, PerformWork(t, o) PROVE Shape'
    <2>1. held[t] \in Items /\ o \in Results
      BY <1>5, OutcomesAreResults DEF PerformWork, WorkersHold, HeldAt
    <2>2. retries' \in 0 .. MaxRetries /\ done' \in SUBSET Items
      BY <1>5, <2>1, RetriesAssumption DEF PerformWork, TypeOK
    <2>3. TypeOK'
      BY <1>5, <2>1, <2>2 DEF PerformWork, TypeOK, queueVars, gateVars, sourceVars, mainVars
    <2>4. WorkersHold'
      BY <1>5, <2>1, MarkAssumption DEF PerformWork, TypeOK, WorkersHold, HeldAt
    <2> QED BY <1>5, <2>3, <2>4 DEF PerformWork, ShutdownCounted, mainVars
  <1>6. ASSUME NEW t \in Threads, SubmitFromWork(t) PROVE Shape'
    <2>1. NextFresh \in fresh /\ NextFresh \in Items /\ held[t] \in Items
      BY <1>6 DEF SubmitFromWork, NextFresh, TypeOK, WorkersHold, HeldAt
    <2>2. CASE PutItem(NextFresh) /\ fresh' = fresh \ {NextFresh} /\ UNCHANGED <<pc, result>>
      BY <1>6, <2>1, <2>2, Puts DEF SubmitFromWork, TypeOK, WorkersHold, HeldAt,
         ShutdownCounted, gateVars, sourceVars, mainVars
    <2>3. CASE /\ result' = [result EXCEPT ![t] = Outcome("failure", "decrease")]
               /\ pc' = [pc EXCEPT ![t] = "finish"]
               /\ UNCHANGED <<queueVars, fresh>>
      BY <1>6, <2>1, <2>3, OutcomesAreResults, MarkAssumption DEF SubmitFromWork, TypeOK,
         WorkersHold, HeldAt, ShutdownCounted, queueVars, gateVars, sourceVars, mainVars
    <2> QED BY <1>6, <2>2, <2>3 DEF SubmitFromWork
  <1>7. ASSUME NEW t \in Threads, FinishItem(t) PROVE Shape'
    <2>1. held[t] # NoItem /\ (result[t].status = "retry" => held[t] \in Items)
      BY <1>7 DEF FinishItem, WorkersHold, HeldAt
    <2>2. t \in Holding /\ Cardinality(Holding) >= 1 /\ unfinished - 1 \in Nat
      <3>1. t \in Holding
        BY <2>1 DEF Holding
      <3>2. Cardinality(Holding) # 0
        BY <3>1, InsideFinite, FS_EmptySet
      <3> QED BY <3>1, <3>2, InsideFinite, CountsAreNat DEF UnfinishedCounts, TypeOK
    <2>3. CASE TaskDone(t)
      BY <1>7, <2>2, <2>3 DEF FinishItem, TaskDone, TypeOK, WorkersHold, HeldAt,
         ShutdownCounted, gateVars, sourceVars, mainVars
    <2>4. CASE Reput(t)
      <3>1. Append(requeue, held[t]) \in Seq(Items)
        BY <2>1, <2>4, AppendProperties DEF Reput, TypeOK
      <3> QED BY <1>7, <2>4, <3>1 DEF FinishItem, Reput, TypeOK, WorkersHold, HeldAt,
             ShutdownCounted, gateVars, sourceVars, mainVars
    <2>5. CASE Fails(t)
      BY <1>7, <2>5, OutcomesAreResults DEF FinishItem, Fails, TypeOK, WorkersHold, HeldAt,
         ShutdownCounted, queueVars, gateVars, sourceVars, mainVars
    <2> QED BY <1>7, <2>3, <2>4, <2>5 DEF FinishItem
  <1>8. ASSUME NEW t \in Threads, FinishWork(t) PROVE Shape'
    <2>1. enabled' \in Nat /\ permits' \in Nat /\ backoff' \in BOOLEAN
      <3>1. enabled \in Nat /\ permits \in Nat /\ backoff \in BOOLEAN
        BY DEF TypeOK
      <3>2. CASE Hold(t)
        <4>1. backoff' = backoff /\ enabled' = enabled /\ permits' = permits + 1
          BY <3>2 DEF Hold
        <4> QED BY <3>1, <4>1
      <3>3. CASE Increase(t)
        <4>1. backoff' = FALSE
          BY <3>3 DEF Increase
        <4>2. enabled' \in Nat /\ permits' \in Nat
          BY <3>1, <3>3 DEF Increase
        <4> QED BY <4>1, <4>2
      <3>4. CASE Decrease(t)
        <4>1. enabled' \in Nat
          BY <3>1, <3>4 DEF Decrease
        <4>2. permits' \in Nat
          BY <3>1, <3>4 DEF Decrease
        <4>3. backoff' = backoff \/ backoff' = TRUE
          BY <3>4, Zenon DEF Decrease
        <4> QED BY <3>1, <4>1, <4>2, <4>3
      <3> QED BY <1>8, <3>2, <3>3, <3>4 DEF FinishWork
    <2>2. TypeOK'
      BY <1>8, <2>1, OutcomesAreResults DEF FinishWork, TypeOK, queueVars, sourceVars, mainVars
    <2>3. WorkersHold'
      BY <1>8 DEF FinishWork, TypeOK, WorkersHold, HeldAt
    <2> QED BY <1>8, <2>2, <2>3 DEF FinishWork, ShutdownCounted, mainVars
  <1>9. CASE SourceStep
    <2>1. CASE SourceRead
      <3>1. NextFresh \in Items
        BY <2>1 DEF SourceRead, NextFresh, TypeOK
      <3> QED BY <2>1, <3>1 DEF SourceRead, TypeOK, WorkersHold, HeldAt,
              ShutdownCounted, queueVars, gateVars, workerVars, mainVars
    <2>2. CASE SourceSubmit
      BY <2>2, Puts DEF SourceSubmit, TypeOK, WorkersHold, HeldAt,
         ShutdownCounted, gateVars, workerVars, mainVars
    <2>3. CASE SourceEnds
      BY <2>3 DEF SourceEnds, TypeOK, WorkersHold, HeldAt,
         ShutdownCounted, queueVars, gateVars, workerVars, mainVars
    <2> QED BY <1>9, <2>1, <2>2, <2>3 DEF SourceStep
  <1>10. CASE MainStep
    <2>1. CASE WaitEnds
      BY <2>1 DEF WaitEnds, TypeOK, WorkersHold, HeldAt,
         ShutdownCounted, queueVars, gateVars, workerVars, sourceVars
    <2>2. CASE DrainOne
      <3>1. unfinished' \in Nat
        BY <2>2, Takes, InsideFinite, CountsAreNat, SMTT(30) DEF DrainOne, UnfinishedCounts, TypeOK, CanTake
      <3> QED BY <2>2, <3>1, Takes DEF DrainOne, TypeOK, WorkersHold, HeldAt,
         ShutdownCounted, gateVars, workerVars, sourceVars, mainVars
    <2>3. CASE Drained
      BY <2>3, ThreadsAssumption DEF Drained, TypeOK, WorkersHold, HeldAt,
         ShutdownCounted, queueVars, gateVars, workerVars, sourceVars
    <2>4. CASE SetExitFlag
      <3>1. toStop' \in SUBSET Threads /\ exitFlag' \in SUBSET Threads
        BY <2>4 DEF SetExitFlag, NextToStop, ShutdownCounted, TypeOK
      <3> QED BY <2>4, <3>1 DEF SetExitFlag, TypeOK, WorkersHold, HeldAt,
         ShutdownCounted, queueVars, gateVars, workerVars, sourceVars
    <2>5. CASE PutMarker
      <3>1. toEnable' \in Nat
        BY <2>5, InsideFinite DEF PutMarker, TypeOK
      <3> QED BY <2>5, <3>1, Puts DEF PutMarker, TypeOK, WorkersHold, HeldAt,
         ShutdownCounted, gateVars, workerVars, sourceVars
    <2>6. CASE EnableThread
      BY <2>6 DEF EnableThread, TypeOK, WorkersHold, HeldAt,
         ShutdownCounted, queueVars, workerVars, sourceVars
    <2>7. CASE ShutdownReturns
      BY <2>7 DEF ShutdownReturns, TypeOK, WorkersHold, HeldAt,
         ShutdownCounted, queueVars, gateVars, workerVars, sourceVars
    <2>8. CASE JoinThreads
      BY <2>8 DEF JoinThreads, TypeOK, WorkersHold, HeldAt,
         ShutdownCounted, queueVars, gateVars, workerVars, sourceVars
    <2> QED BY <1>10, <2>1, <2>2, <2>3, <2>4, <2>5, <2>6, <2>7, <2>8 DEF MainStep
  <1>11. CASE GiveUp
    BY <1>11 DEF GiveUp, TypeOK, WorkersHold, HeldAt,
       ShutdownCounted, queueVars, gateVars, workerVars
  <1>12. CASE UNCHANGED vars
    BY <1>12 DEF vars, TypeOK, WorkersHold, HeldAt,
       ShutdownCounted, queueVars, gateVars, workerVars, sourceVars, mainVars
  <1> QED BY <1>1, <1>2, <1>3, <1>4, <1>5, <1>6, <1>7, <1>8, <1>9, <1>10, <1>11, <1>12
         DEF Next, WorkerStep
-----------------------------------------------------------------------------
\* The gate.  Only StartWork and FinishWork move a worker across it, and only
\* they and EnableThread touch its count and its permits.
LEMMA GatePreserved == Inv /\ [Next]_vars => GateConserved'
  <1> SUFFICES ASSUME Inv, [Next]_vars PROVE GateConserved'
    OBVIOUS
  <1> DEFINE inside == Cardinality(Inside)
  <1>0. /\ TypeOK /\ permits \in Nat /\ enabled \in Nat /\ inside \in Nat
        /\ permits + inside = enabled /\ enabled >= 1 /\ NumThreads \in Nat
    BY InsideFinite DEF Inv, TypeOK, GateConserved
  <1>a. ASSUME NEW t \in Threads, NEW p, pc' = [pc EXCEPT ![t] = p],
               pc[t] \notin {"gate", "dead"}, p \notin {"gate", "dead"},
               UNCHANGED <<enabled, permits>>
        PROVE  GateConserved'
    BY <1>0, <1>a, InsideMoves DEF Inside, GateConserved
  <1>b. ASSUME UNCHANGED <<pc, enabled, permits>> PROVE GateConserved'
    BY <1>0, <1>b DEF Inside, GateConserved
  <1>1. ASSUME NEW t \in Threads, StartWork(t) PROVE GateConserved'
    <2>1. \E p \in {"backoff", "release", "get"} : pc' = [pc EXCEPT ![t] = p]
      BY <1>1 DEF StartWork, EnterWork
    <2>2. t \notin Inside /\ permits' = permits - 1 /\ enabled' = enabled
      BY <1>1 DEF StartWork, Inside
    <2>3. Cardinality(Inside') = inside + 1
      BY <1>0, <2>1, <2>2, InsideMoves
    <2> QED BY <1>0, <2>2, <2>3 DEF GateConserved
  <1>2. ASSUME NEW t \in Threads, BackoffEnds(t) PROVE GateConserved'
    <2>1. \E p \in {"release", "get"} : pc' = [pc EXCEPT ![t] = p]
      BY <1>2 DEF BackoffEnds, EnterWork
    <2> QED BY <1>2, <2>1, <1>a DEF BackoffEnds, gateVars
  <1>3. ASSUME NEW t \in Threads, Get(t) PROVE GateConserved'
    <2>1. \E p \in {"finish", "work"} : pc' = [pc EXCEPT ![t] = p]
      BY <1>3 DEF Get
    <2> QED BY <1>3, <2>1, <1>a DEF Get, gateVars
  <1>4. ASSUME NEW t \in Threads, GetTimesOut(t) PROVE GateConserved'
    BY <1>4, <1>a DEF GetTimesOut, gateVars
  <1>5. ASSUME NEW t \in Threads, NEW o \in Outcomes, PerformWork(t, o) PROVE GateConserved'
    BY <1>5, <1>a DEF PerformWork, gateVars
  <1>6. ASSUME NEW t \in Threads, SubmitFromWork(t) PROVE GateConserved'
    <2>1. CASE UNCHANGED pc
      BY <1>6, <2>1, <1>b DEF SubmitFromWork, gateVars
    <2>2. CASE pc' = [pc EXCEPT ![t] = "finish"]
      <3>1. pc[t] = "work" /\ UNCHANGED <<enabled, permits>>
        BY <1>6 DEF SubmitFromWork, gateVars
      <3> QED BY <2>2, <3>1, <1>a
    <2> QED BY <1>6, <2>1, <2>2 DEF SubmitFromWork
  <1>7. ASSUME NEW t \in Threads, FinishItem(t) PROVE GateConserved'
    BY <1>7, <1>a DEF FinishItem, gateVars
  <1>8. ASSUME NEW t \in Threads, FinishWork(t) PROVE GateConserved'
    <2>1. \E p \in {"dead", "gate"} : pc' = [pc EXCEPT ![t] = p]
      BY <1>8 DEF FinishWork
    <2>2. t \in Inside
      BY <1>8 DEF FinishWork, Inside
    <2>3. Cardinality(Inside') = inside - 1
      BY <1>0, <2>1, <2>2, InsideMoves
    <2>4. inside >= 1
      BY <1>0, <2>2, InsideFinite, FS_EmptySet
    <2>5. permits' - permits = enabled' - enabled + 1 /\ enabled' >= 1
          /\ permits' \in Nat /\ enabled' \in Nat
      <3>1. CASE Hold(t)
        BY <1>0, <3>1 DEF Hold
      <3>2. CASE Increase(t)
        BY <1>0, <3>2 DEF Increase
      <3>3. CASE Decrease(t)
        BY <1>0, <3>3 DEF Decrease
      <3> QED BY <1>8, <3>1, <3>2, <3>3 DEF FinishWork
    <2> QED BY <1>0, <2>3, <2>4, <2>5 DEF GateConserved
  <1>9. CASE SourceStep
    BY <1>9, <1>b DEF SourceStep, SourceRead, SourceSubmit, SourceEnds, gateVars, workerVars
  <1>10. CASE MainStep
    <2>1. CASE EnableThread
      <3>1. Inside' = Inside
        BY <2>1 DEF EnableThread, workerVars, Inside
      <3> QED BY <1>0, <2>1, <3>1 DEF EnableThread, GateConserved
    <2>2. CASE ~EnableThread
      BY <1>10, <2>2, <1>b DEF MainStep, WaitEnds, DrainOne, Drained, SetExitFlag, PutMarker,
         ShutdownReturns, JoinThreads, gateVars, workerVars
    <2> QED BY <2>1, <2>2
  <1>11. CASE GiveUp
    BY <1>11, <1>b DEF GiveUp, gateVars, workerVars
  <1>12. CASE UNCHANGED vars
    BY <1>12, <1>b DEF vars, gateVars, workerVars
  <1> QED BY <1>1, <1>2, <1>3, <1>4, <1>5, <1>6, <1>7, <1>8, <1>9, <1>10, <1>11, <1>12
         DEF Next, WorkerStep
-----------------------------------------------------------------------------
\* The items.
Counts == UnfinishedCounts /\ RequeueBound

LEMMA CountsPreserved == Inv /\ [Next]_vars => Counts'
  <1> SUFFICES ASSUME Inv, [Next]_vars PROVE Counts'
    OBVIOUS
  <1> DEFINE holding == Cardinality(Holding)
  <1>0. /\ TypeOK /\ WorkersHold
        /\ Len(queue) \in Nat /\ Len(requeue) \in Nat /\ holding \in Nat /\ unfinished \in Nat
        /\ unfinished = Len(queue) + Len(requeue) + holding
        /\ Len(requeue) + holding <= NumThreads /\ NumThreads \in Nat
    BY InsideFinite, CountsAreNat DEF Inv, TypeOK, UnfinishedCounts, RequeueBound
  <1>a. ASSUME UNCHANGED <<queue, requeue, unfinished, held>> PROVE Counts'
    BY <1>0, <1>a DEF Holding, NumThreads, Counts, UnfinishedCounts, RequeueBound
  <1>b. ASSUME NEW x \in Items \cup {Exit}, PutItem(x), UNCHANGED held PROVE Counts'
    <2>1. Len(queue') = Len(queue) + 1 /\ unfinished' = unfinished + 1 /\ requeue' = requeue
      BY <1>0, <1>b, Puts
    <2>2. Holding' = Holding
      BY <1>b DEF Holding
    <2> QED BY <1>0, <2>1, <2>2 DEF NumThreads, Counts, UnfinishedCounts, RequeueBound
  <1>1. ASSUME NEW t \in Threads, Get(t) PROVE Counts'
    <2>1. held[t] = NoItem /\ NextItem # NoItem
      BY <1>0, <1>1, Takes DEF Get, WorkersHold, HeldAt
    <2>2. Cardinality(Holding') = holding + 1
      BY <1>0, <1>1, <2>1, HoldingMoves DEF Get
    <2>3. /\ Len(queue') + Len(requeue') = Len(queue) + Len(requeue) - 1
          /\ Len(requeue') = Len(requeue) - 1 \/ Len(requeue') = 0
          /\ unfinished' = unfinished
      BY <1>0, <1>1, Takes DEF Get
    <2>4. Cardinality(Holding') <= NumThreads
      <3>1. Holding' \in SUBSET Threads
        BY DEF Holding
      <3> QED BY <3>1, ThreadsAssumption, FS_Subset DEF NumThreads
    <2>5. Len(queue') \in Nat /\ Len(requeue') \in Nat
      BY <1>0, <1>1, Takes, LenProperties DEF Get
    <2>6. UnfinishedCounts'
      BY <1>0, <2>2, <2>3, <2>5 DEF UnfinishedCounts
    <2>7. RequeueBound'
      <3>1. Len(requeue) + holding <= NumThreads /\ Len(requeue) \in Nat /\ NumThreads \in Nat
        BY <1>0, InsideFinite, LenProperties DEF RequeueBound, TypeOK
      <3> QED BY <1>0, <2>2, <2>3, <2>4, <2>5, <3>1 DEF NumThreads, RequeueBound
    <2> QED BY <2>6, <2>7 DEF Counts
  <1>2. ASSUME NEW t \in Threads, FinishItem(t) PROVE Counts'
    <2>1. held[t] # NoItem /\ (result[t].status = "retry" => held[t] \in Items)
      BY <1>0, <1>2 DEF FinishItem, WorkersHold, HeldAt
    <2>2. CASE TaskDone(t)
      <3>1. Cardinality(Holding') = holding - 1
        BY <1>0, <2>1, <2>2, HoldingMoves DEF TaskDone
      <3>2. UNCHANGED <<queue, requeue>> /\ unfinished' = unfinished - 1
        BY <2>2 DEF TaskDone
      <3>3. Len(queue) \in Nat /\ Len(requeue) \in Nat /\ NumThreads \in Nat
        BY <1>0, InsideFinite, LenProperties DEF TypeOK
      <3>4. UnfinishedCounts'
        BY <1>0, <3>1, <3>2, <3>3 DEF UnfinishedCounts
      <3>5. RequeueBound'
        BY <1>0, <3>1, <3>2, <3>3 DEF NumThreads, RequeueBound
      <3> QED BY <3>4, <3>5 DEF Counts
    <2>3. CASE Reput(t)
      <3>1. Cardinality(Holding') = holding - 1
        BY <1>0, <2>1, <2>3, HoldingMoves DEF Reput
      <3>2. Len(requeue') = Len(requeue) + 1
        BY <2>1, <2>3, AppendProperties, <1>0 DEF Reput, TypeOK
      <3> QED BY <1>0, <2>3, <3>1, <3>2 DEF Reput, NumThreads, Counts, UnfinishedCounts, RequeueBound
    <2>4. CASE Fails(t)
      BY <2>4, <1>a DEF Fails, queueVars
    <2> QED BY <1>2, <2>2, <2>3, <2>4 DEF FinishItem
  <1>3. ASSUME NEW t \in Threads, SubmitFromWork(t) PROVE Counts'
    <2>1. NextFresh \in Items
      BY <1>0, <1>3 DEF SubmitFromWork, NextFresh, TypeOK
    <2> QED BY <1>3, <2>1, <1>a, <1>b DEF SubmitFromWork, queueVars
  <1>4. ASSUME NEW t \in Threads, \/ StartWork(t) \/ BackoffEnds(t) \/ GetTimesOut(t)
                                  \/ FinishWork(t) \/ \E o \in Outcomes : PerformWork(t, o)
        PROVE Counts'
    BY <1>4, <1>a DEF StartWork, BackoffEnds, GetTimesOut, FinishWork, PerformWork, queueVars
  <1>5. CASE SourceStep
    <2>1. CASE SourceSubmit
      BY <2>1, <1>b DEF SourceSubmit, workerVars
    <2> QED BY <1>5, <2>1, <1>a DEF SourceStep, SourceRead, SourceEnds, queueVars, workerVars
  <1>6. CASE MainStep
    <2>1. CASE DrainOne
      <3>1. /\ Len(queue') + Len(requeue') = Len(queue) + Len(requeue) - 1
            /\ Len(requeue') = Len(requeue) - 1 \/ Len(requeue') = 0
            /\ unfinished' = unfinished - 1
        BY <1>0, <2>1, Takes DEF DrainOne
      <3>2. Holding' = Holding
        BY <2>1 DEF DrainOne, workerVars, Holding
      <3>3. Len(queue') \in Nat /\ Len(requeue') \in Nat
        BY <1>0, <2>1, Takes, LenProperties DEF DrainOne
      <3>4. Cardinality(Holding') = holding
        BY <3>2
      <3>5. UnfinishedCounts'
        BY <1>0, <3>1, <3>3, <3>4 DEF UnfinishedCounts
      <3>7. holding \in Nat /\ holding <= NumThreads
        <4>1. Holding \in SUBSET Threads
          BY DEF Holding
        <4> QED BY <4>1, ThreadsAssumption, FS_Subset, FS_CardinalityType DEF NumThreads
      <3>8. Len(requeue) + holding <= NumThreads /\ Len(requeue) \in Nat /\ NumThreads \in Nat
        BY <1>0, InsideFinite, LenProperties DEF RequeueBound, TypeOK
      <3>6. Len(requeue') + holding <= NumThreads
        BY <3>1, <3>3, <3>7, <3>8
      <3> QED BY <3>4, <3>5, <3>6 DEF NumThreads, Counts, RequeueBound
    <2>2. CASE PutMarker
      BY <2>2, <1>b DEF PutMarker, workerVars
    <2> QED BY <1>6, <2>1, <2>2, <1>a DEF MainStep, WaitEnds, Drained, SetExitFlag,
           EnableThread, ShutdownReturns, JoinThreads, queueVars, workerVars
  <1>7. CASE GiveUp \/ UNCHANGED vars
    BY <1>7, <1>a DEF GiveUp, vars, queueVars, workerVars
  <1> QED BY <1>1, <1>2, <1>3, <1>4, <1>5, <1>6, <1>7 DEF Next, WorkerStep
-----------------------------------------------------------------------------
LEMMA Invariant == Spec => []Inv
  <1>1. Inv /\ [Next]_vars => Inv'
    BY ShapePreserved, GatePreserved, CountsPreserved DEF Inv, Shape, Counts
  <1> QED BY InitShape, <1>1, PTL DEF Spec

(***************************************************************************)
(* For any number of workers and items the variables keep their types.     *)
(***************************************************************************)
THEOREM PoolTypes == Spec => []TypeOK
  <1>1. Inv => TypeOK
    BY DEF Inv
  <1> QED BY Invariant, <1>1, PTL

(***************************************************************************)
(* The gate never loses or invents a permit, whichever workers fail, back  *)
(* off or die inside it and however often Shutdown enables more: it counts *)
(* at least one thread enabled and has that many permits or threads.       *)
(***************************************************************************)
THEOREM PermitsConserved == Spec => []GateConserved
  <1>1. Inv => GateConserved
    BY DEF Inv
  <1> QED BY Invariant, <1>1, PTL

(***************************************************************************)
(* What Wait counts is what is queued, put back, held or lost.             *)
(***************************************************************************)
THEOREM CountIsRight == Spec => []UnfinishedCounts
  <1>1. Inv => UnfinishedCounts
    BY DEF Inv
  <1> QED BY Invariant, <1>1, PTL

(***************************************************************************)
(* With a queue at least as long as there are workers, as the pool makes   *)
(* it, an item can always be put back.                                     *)
(***************************************************************************)
THEOREM ReputAlwaysFits == Spec => []ReputFits
  <1>1. Inv => ReputFits
    <2> SUFFICES ASSUME Inv, NEW t \in Threads, pc[t] = "finish" PROVE CanReput
      BY DEF ReputFits
    <2>1. t \in Holding
      BY DEF Inv, WorkersHold, HeldAt, Holding
    <2>2. Cardinality(Holding) >= 1
      BY <2>1, InsideFinite, FS_EmptySet
    <2> QED BY <2>2, InsideFinite, CountsAreNat, SizeAssumption
           DEF Inv, RequeueBound, CanReput, NumThreads
  <1> QED BY Invariant, <1>1, PTL
-----------------------------------------------------------------------------
\* Where the items are.

Elems(s) == {s[n] : n \in DOMAIN s}

\* Only stop markers are in a queue more than once.
Once(s) == \A n, m \in DOMAIN s : s[n] = s[m] /\ s[n] # Exit => n = m

\* An item is queued, put back, with one worker, with the data source or still
\* to be submitted; what was performed can only be left with its worker.
Places ==
    /\ Once(queue) /\ Once(requeue) /\ Elems(queue) \cap Elems(requeue) = {}
    /\ \A t, u \in Threads : held[t] = held[u] /\ held[t] \in Items => t = u
    /\ \A t \in Threads : held[t] \in Items =>
           held[t] \notin Queued \cup fresh \cup {source}
    /\ (fresh \cup done) \cap Queued = {} /\ fresh \cap done = {}
    /\ source \in Items => source \notin Queued \cup fresh \cup done
    /\ \A t \in Threads :
           pc[t] = "work" \/ (pc[t] = "finish" /\ result[t].status = "retry") =>
               held[t] \notin done

\* While the main thread waits no item goes missing.
Waiting ==
    main = "watching" =>
        /\ exitFlag = {} /\ ~sourceExit /\ Exit \notin Elems(queue)
        /\ \A x \in Items : \/ x \in fresh \cup done \cup Queued \cup {source}
                            \/ \E t \in Threads : held[t] = x
        /\ \A t \in Threads :
               pc[t] = "finish" /\ result[t].status = "success" => held[t] \in done

PlacesInv == Places /\ Waiting

LEMMA TailOnce ==
  ASSUME NEW S, NEW s \in Seq(S), s # <<>>, Once(s)
  PROVE  /\ Once(Tail(s)) /\ Head(s) \in Elems(s)
         /\ Elems(s) = Elems(Tail(s)) \cup {Head(s)}
         /\ Head(s) # Exit => Head(s) \notin Elems(Tail(s))
  <1>1. /\ DOMAIN s = 1 .. Len(s) /\ Len(s) \in Nat /\ Len(s) >= 1
        /\ DOMAIN Tail(s) = 1 .. Len(s) - 1
        /\ Head(s) = s[1]
        /\ \A n \in 1 .. Len(s) - 1 : Tail(s)[n] = s[n + 1]
    BY HeadTailProperties, LenProperties, EmptySeq
  <1>2. \A n \in DOMAIN Tail(s) :
          n \in Nat /\ n + 1 \in DOMAIN s /\ n + 1 # 1 /\ Tail(s)[n] = s[n + 1]
    BY <1>1
  <1>3. \A n \in DOMAIN s :
          n # 1 => n - 1 \in DOMAIN Tail(s) /\ Tail(s)[n - 1] = s[n]
    BY <1>1
  <1>4. 1 \in DOMAIN s
    BY <1>1
  <1>5. Once(Tail(s))
    BY <1>2 DEF Once
  <1>6. Elems(s) = Elems(Tail(s)) \cup {Head(s)}
    <2>1. Elems(Tail(s)) \subseteq Elems(s) /\ Head(s) \in Elems(s)
      BY <1>1, <1>2, <1>4 DEF Elems
    <2>2. ASSUME NEW n \in DOMAIN s
          PROVE  s[n] \in Elems(Tail(s)) \cup {Head(s)}
      BY <1>1, <1>3 DEF Elems
    <2> QED BY <2>1, <2>2 DEF Elems
  <1>7. Head(s) # Exit => Head(s) \notin Elems(Tail(s))
    BY <1>1, <1>2, <1>4 DEF Once, Elems
  <1> QED BY <1>5, <1>6, <1>7

LEMMA AppendOnce ==
  ASSUME NEW S, NEW s \in Seq(S), NEW x \in S, Once(s),
         x = Exit \/ x \notin Elems(s)
  PROVE  Once(Append(s, x)) /\ Elems(Append(s, x)) = Elems(s) \cup {x}
  <1>1. /\ DOMAIN s = 1 .. Len(s) /\ Len(s) \in Nat
        /\ DOMAIN Append(s, x) = 1 .. Len(s) + 1
        /\ \A n \in 1 .. Len(s) : Append(s, x)[n] = s[n]
        /\ Append(s, x)[Len(s) + 1] = x
    BY AppendProperties, LenProperties
  <1>2. \A n \in DOMAIN Append(s, x) :
          \/ n \in DOMAIN s /\ Append(s, x)[n] = s[n]
          \/ n = Len(s) + 1 /\ Append(s, x)[n] = x
    BY <1>1
  <1>3. \A n \in DOMAIN s : n \in DOMAIN Append(s, x)
    BY <1>1
  <1>4. Once(Append(s, x))
    BY <1>1, <1>2 DEF Once, Elems
  <1>5. Elems(Append(s, x)) = Elems(s) \cup {x}
    <2>1. Len(s) + 1 \in DOMAIN Append(s, x)
      BY <1>1
    <2> QED BY <1>1, <1>2, <1>3, <2>1 DEF Elems
  <1> QED BY <1>4, <1>5

LEMMA QueuedElems == TypeOK =>
  Queued = Elems(queue) \cup Elems(requeue) /\ Elems(requeue) \subseteq Items
  <1> SUFFICES ASSUME TypeOK
               PROVE  /\ Queued = Elems(queue) \cup Elems(requeue)
                      /\ Elems(requeue) \subseteq Items
    OBVIOUS
  <1>1. \A n \in DOMAIN requeue : requeue[n] \in Items
    BY ElementOfSeq, LenProperties DEF TypeOK
  <1> QED BY <1>1 DEF Queued, Elems

\* What is taken was in one of the queues, and is in none from then on.
LEMMA TakesOne ==
  ASSUME TypeOK, Places, CanTake, TakeItem
  PROVE  /\ Once(queue') /\ Once(requeue') /\ Elems(queue') \cap Elems(requeue') = {}
         /\ Queued = Queued' \cup {NextItem}
         /\ NextItem # Exit => NextItem \notin Queued'
         /\ Elems(queue') \subseteq Elems(queue)
         /\ NextItem = Exit => Exit \in Elems(queue)
  <1> USE DEF Places
  <1>0. /\ queue \in Seq(Items \cup {Exit}) /\ requeue \in Seq(Items)
        /\ Queued = Elems(queue) \cup Elems(requeue)
        /\ Queued' = Elems(queue') \cup Elems(requeue')
        /\ Elems(requeue) \subseteq Items
    BY QueuedElems DEF TypeOK, Queued, Elems
  <1>1. CASE requeue # <<>>
    <2>1. queue' = queue /\ requeue' = Tail(requeue) /\ NextItem = Head(requeue)
      BY <1>1 DEF TakeItem, FromRequeue, NextItem
    <2>2. /\ Once(Tail(requeue))
          /\ Elems(requeue) = Elems(Tail(requeue)) \cup {Head(requeue)}
          /\ Head(requeue) # Exit => Head(requeue) \notin Elems(Tail(requeue))
      BY <1>0, <1>1, TailOnce
    <2> QED BY <1>0, <2>1, <2>2, MarkAssumption
  <1>2. CASE requeue = <<>>
    <2>1. queue # <<>> /\ requeue' = requeue /\ queue' = Tail(queue)
          /\ NextItem = Head(queue)
      BY <1>2 DEF CanTake, TakeItem, FromRequeue, NextItem
    <2>2. /\ Once(Tail(queue)) /\ Head(queue) \in Elems(queue)
          /\ Elems(queue) = Elems(Tail(queue)) \cup {Head(queue)}
          /\ Head(queue) # Exit => Head(queue) \notin Elems(Tail(queue))
      BY <1>0, <2>1, TailOnce
    <2> QED BY <1>0, <2>1, <2>2
  <1> QED BY <1>1, <1>2

\* What is put is in the queue, once unless it is a stop marker.
LEMMA PutsOne ==
  ASSUME TypeOK, Places, NEW x \in Items \cup {Exit}, PutItem(x),
         x = Exit \/ x \notin Queued
  PROVE  /\ Once(queue') /\ Once(requeue') /\ Elems(queue') \cap Elems(requeue') = {}
         /\ Queued' = Queued \cup {x}
         /\ Elems(queue') = Elems(queue) \cup {x}
  <1>1. queue' = Append(queue, x) /\ requeue' = requeue
    BY DEF PutItem
  <1>2. /\ Queued = Elems(queue) \cup Elems(requeue)
        /\ Queued' = Elems(queue') \cup Elems(requeue')
        /\ Elems(requeue) \subseteq Items
    BY QueuedElems DEF Queued, Elems
  <1>3. Once(queue') /\ Elems(queue') = Elems(queue) \cup {x}
    BY <1>1, <1>2, AppendOnce DEF Places, TypeOK
  <1> QED BY <1>1, <1>2, <1>3, MarkAssumption DEF Places

\* Steps that leave the items where they are, and their workers.
LEMMA PlacesStay ==
  ASSUME PlacesInv, UNCHANGED <<queue, requeue, held, done, fresh, source>>,
         \A t \in Threads :
           /\ pc'[t] = "work" => pc[t] = "work"
           /\ pc'[t] = "finish" =>
                pc[t] = "finish" /\ result'[t].status = result[t].status,
         main' = "watching" =>
           main = "watching" /\ UNCHANGED <<exitFlag, sourceExit>>
  PROVE  PlacesInv'
  <1>1. Queued' = Queued
    BY DEF Queued
  <1>2. Elems(queue)' = Elems(queue) /\ Elems(requeue)' = Elems(requeue)
    BY DEF Elems
  <1> QED BY <1>1, <1>2 DEF PlacesInv, Places, Waiting, Once

\* The moves of a worker's item.
LEMMA GetPlaces ==
  ASSUME Inv, PlacesInv, NEW t \in Threads, Get(t)
  PROVE  PlacesInv'
  <1> USE DEF Inv, TypeOK, PlacesInv
  <1>1. /\ NextItem \in Items \cup {Exit} /\ NextItem # NoItem
        /\ Once(queue') /\ Once(requeue') /\ Elems(queue') \cap Elems(requeue') = {}
        /\ Queued = Queued' \cup {NextItem}
        /\ NextItem # Exit => NextItem \notin Queued'
        /\ Elems(queue') \subseteq Elems(queue)
        /\ NextItem = Exit => Exit \in Elems(queue)
    BY Takes, TakesOne DEF Get
  <1>2. /\ held[t] = NoItem /\ held' = [held EXCEPT ![t] = NextItem]
        /\ UNCHANGED <<done, fresh, source, main, exitFlag, sourceExit>>
    BY DEF Get, WorkersHold, HeldAt, gateVars, sourceVars, mainVars
  <1>3. /\ \/ /\ Stopped(t) /\ pc'[t] = "finish"
              /\ result'[t] = Leaving(Outcome("success", "hold"))
           \/ ~Stopped(t) /\ pc'[t] = "work"
        /\ \A u \in Threads : u # t => pc'[u] = pc[u] /\ result'[u] = result[u]
    BY DEF Get
  <1>4. result'[t] = Leaving(Outcome("success", "hold")) =>
          result'[t].status = "success"
    BY DEF Leaving, Outcome
  <1>5. Places'
    <2>1. \A u \in Threads : held'[u] = IF u = t THEN NextItem ELSE held[u]
      BY <1>2
    <2>2. NextItem \in Items => NextItem \in Queued /\ NextItem \notin done
                               /\ NextItem \notin fresh
                               /\ \A u \in Threads : held[u] # NextItem
      BY <1>1 DEF Places
    <2>3. NextItem \in Items => NextItem # source
      BY <2>2 DEF Places
    <2>4. /\ \A u, w \in Threads : held'[u] = held'[w] /\ held'[u] \in Items => u = w
          /\ \A u \in Threads : held'[u] \in Items =>
               held'[u] \notin Queued' \cup fresh' \cup {source'}
      BY <1>1, <1>2, <2>1, <2>2, <2>3, MarkAssumption DEF Places
    <2>5. \A u \in Threads :
            pc'[u] = "work" \/ (pc'[u] = "finish" /\ result'[u].status = "retry") =>
              held'[u] \notin done'
      <3>1. NextItem \notin done
        BY <1>1, <2>2, MarkAssumption
      <3> QED BY <1>2, <1>3, <1>4, <2>1, <3>1 DEF Places
    <2> QED BY <1>1, <1>2, <2>4, <2>5 DEF Places
  <1>6. Waiting'
    <2> SUFFICES ASSUME main = "watching"
                 PROVE  Waiting'
      BY <1>2 DEF Waiting
    <2>1. ~Stopped(t)
      BY <1>1 DEF Waiting, Stopped
    <2>2. ASSUME NEW x \in Items
          PROVE  \/ x \in (fresh \cup done \cup Queued \cup {source})'
                 \/ \E u \in Threads : held'[u] = x
      <3>1. CASE \E u \in Threads : held[u] = x
        BY <1>2, <3>1, MarkAssumption
      <3>2. CASE x = NextItem
        BY <1>2, <3>2
      <3> QED BY <1>1, <1>2, <3>1, <3>2 DEF Waiting
    <2>3. \A u \in Threads : pc'[u] = "finish" /\ result'[u].status = "success" =>
            held'[u] \in done'
      BY <1>2, <1>3, <2>1 DEF Waiting
    <2> QED BY <1>1, <1>2, <2>2, <2>3 DEF Waiting
  <1> QED BY <1>5, <1>6

LEMMA PerformPlaces ==
  ASSUME Inv, PlacesInv, NEW t \in Threads, NEW o \in Outcomes, PerformWork(t, o)
  PROVE  PlacesInv'
  <1> USE DEF Inv, TypeOK, PlacesInv
  <1>1. /\ held[t] \in Items /\ held[t] \notin done
        /\ UNCHANGED <<queue, requeue, held, fresh, source, main, exitFlag,
                       sourceExit>>
    BY DEF PerformWork, WorkersHold, HeldAt, Places, queueVars, gateVars,
           sourceVars, mainVars
  <1>2. /\ done' = IF o.status = "success" THEN done \cup {held[t]} ELSE done
        /\ pc'[t] = "finish" /\ result'[t] = o
        /\ \A u \in Threads : u # t => pc'[u] = pc[u] /\ result'[u] = result[u]
    BY DEF PerformWork
  <1>3. Queued' = Queued /\ Elems(queue)' = Elems(queue)
        /\ Elems(requeue)' = Elems(requeue)
    BY <1>1 DEF Queued, Elems
  <1>4. \A u \in Threads : u # t => held[u] # held[t]
    BY <1>1 DEF Places
  <1>5. Places'
    <2>1. (fresh \cup done)' \cap Queued' = {} /\ fresh' \cap done' = {}
      BY <1>1, <1>2, <1>3 DEF Places
    <2>2. source' \in Items => source' \notin Queued' \cup fresh' \cup done'
      BY <1>1, <1>2, <1>3 DEF Places
    <2>3. \A u \in Threads :
            pc'[u] = "work" \/ (pc'[u] = "finish" /\ result'[u].status = "retry") =>
              held'[u] \notin done'
      BY <1>1, <1>2, <1>4 DEF Places
    <2> QED BY <1>1, <1>3, <2>1, <2>2, <2>3 DEF Places, Once
  <1>6. Waiting'
    BY <1>1, <1>2, <1>3 DEF Waiting
  <1> QED BY <1>5, <1>6

LEMMA SubmitPlaces ==
  ASSUME Inv, PlacesInv, NEW t \in Threads, SubmitFromWork(t)
  PROVE  PlacesInv'
  <1> USE DEF Inv, TypeOK, PlacesInv
  <1>1. /\ NextFresh \in fresh /\ NextFresh \in Items
        /\ UNCHANGED <<held, done, source, main, exitFlag, sourceExit>>
    BY DEF SubmitFromWork, NextFresh, gateVars, sourceVars, mainVars
  <1>2. CASE PutItem(NextFresh) /\ fresh' = fresh \ {NextFresh}
             /\ UNCHANGED <<pc, result>>
    <2>1. /\ Once(queue') /\ Once(requeue')
          /\ Elems(queue') \cap Elems(requeue') = {}
          /\ Queued' = Queued \cup {NextFresh}
          /\ Elems(queue') = Elems(queue) \cup {NextFresh}
      BY <1>1, <1>2, PutsOne DEF Places
    <2>2. Places'
      BY <1>1, <1>2, <2>1 DEF Places
    <2>3. Waiting'
      BY <1>1, <1>2, <2>1, MarkAssumption DEF Waiting
    <2> QED BY <2>2, <2>3
  <1>3. CASE /\ result' = [result EXCEPT ![t] = Outcome("failure", "decrease")]
             /\ pc' = [pc EXCEPT ![t] = "finish"]
             /\ UNCHANGED <<queueVars, fresh>>
    <2>1. Queued' = Queued /\ Elems(queue)' = Elems(queue)
          /\ Elems(requeue)' = Elems(requeue)
      BY <1>3 DEF Queued, Elems, queueVars
    <2>2. /\ result'[t].status = "failure"
          /\ \A u \in Threads : u # t => pc'[u] = pc[u] /\ result'[u] = result[u]
          /\ pc'[t] = "finish"
      BY <1>3 DEF Outcome
    <2> QED BY <1>1, <1>3, <2>1, <2>2 DEF Places, Waiting, Once, queueVars
  <1> QED BY <1>2, <1>3 DEF SubmitFromWork

LEMMA FinishPlaces ==
  ASSUME Inv, PlacesInv, NEW t \in Threads, FinishItem(t)
  PROVE  PlacesInv'
  <1> USE DEF Inv, TypeOK, PlacesInv
  <1>1. /\ pc[t] = "finish" /\ pc'[t] = "release" /\ held[t] # NoItem
        /\ \A u \in Threads : u # t => pc'[u] = pc[u]
        /\ UNCHANGED <<done, fresh, source, main, exitFlag, sourceExit>>
    BY DEF FinishItem, WorkersHold, HeldAt, gateVars, sourceVars, mainVars
  <1>2. CASE TaskDone(t)
    <2>1. /\ held' = [held EXCEPT ![t] = NoItem] /\ UNCHANGED <<queue, requeue, result>>
          /\ result[t].status = "success"
      BY <1>2 DEF TaskDone
    <2>2. Queued' = Queued /\ Elems(queue)' = Elems(queue)
          /\ Elems(requeue)' = Elems(requeue)
      BY <2>1 DEF Queued, Elems
    <2>3. \A u \in Threads : held'[u] = IF u = t THEN NoItem ELSE held[u]
      BY <2>1
    <2>4. Places'
      BY <1>1, <2>1, <2>2, <2>3, MarkAssumption DEF Places, Once
    <2>5. Waiting'
      BY <1>1, <2>1, <2>2, <2>3 DEF Waiting
    <2> QED BY <2>4, <2>5
  <1>3. CASE Reput(t)
    <2>1. /\ held' = [held EXCEPT ![t] = NoItem] /\ UNCHANGED <<queue, result>>
          /\ requeue' = Append(requeue, held[t]) /\ held[t] \in Items
          /\ held[t] \notin done /\ held[t] \notin Queued \cup fresh \cup {source}
      BY <1>1, <1>3 DEF Reput, WorkersHold, HeldAt, Places
    <2>2. /\ Queued = Elems(queue) \cup Elems(requeue)
          /\ Queued' = Elems(queue') \cup Elems(requeue')
      BY QueuedElems DEF Queued, Elems
    <2>3. Once(requeue') /\ Elems(requeue') = Elems(requeue) \cup {held[t]}
      BY <2>1, <2>2, AppendOnce DEF Places
    <2>4. Queued' = Queued \cup {held[t]}
      BY <2>1, <2>2, <2>3
    <2>5. \A u \in Threads : held'[u] = IF u = t THEN NoItem ELSE held[u]
      BY <2>1
    <2>6. \A u \in Threads : u # t => held[u] # held[t]
      BY <2>1 DEF Places
    <2>7. Places'
      BY <1>1, <2>1, <2>2, <2>3, <2>4, <2>5, <2>6, MarkAssumption DEF Places
    <2>8. Waiting'
      BY <1>1, <2>1, <2>4, <2>5 DEF Waiting
    <2> QED BY <2>7, <2>8
  <1>4. CASE Fails(t)
    <2>1. UNCHANGED <<queue, requeue, held>> /\
          \A u \in Threads : u # t => result'[u] = result[u]
      BY <1>4 DEF Fails, queueVars
    <2> QED BY <1>1, <2>1, PlacesStay
  <1> QED BY <1>2, <1>3, <1>4 DEF FinishItem

\* The moves of the data source's item.
LEMMA SourcePlaces == ASSUME Inv, PlacesInv, SourceStep PROVE PlacesInv'
  <1> USE DEF Inv, TypeOK, PlacesInv
  <1>1. /\ UNCHANGED <<pc, held, result, done, main, exitFlag, sourceExit>>
    BY DEF SourceStep, SourceRead, SourceSubmit, SourceEnds, workerVars, mainVars
  <1>2. CASE SourceRead
    <2>1. /\ NextFresh \in fresh /\ source' = NextFresh
          /\ fresh' = fresh \ {NextFresh} /\ UNCHANGED <<queue, requeue>>
      BY <1>2 DEF SourceRead, NextFresh, queueVars
    <2>2. Queued' = Queued /\ Elems(queue)' = Elems(queue)
          /\ Elems(requeue)' = Elems(requeue)
      BY <2>1 DEF Queued, Elems
    <2>3. source \notin Items
      BY <1>2, SourceAssumption DEF SourceRead
    <2>4. Places'
      BY <1>1, <2>1, <2>2 DEF Places, Once
    <2>5. Waiting'
      BY <1>1, <2>1, <2>2, <2>3 DEF Waiting
    <2> QED BY <2>4, <2>5
  <1>3. CASE SourceSubmit
    <2>1. source \in Items /\ PutItem(source) /\ source' = "reading"
          /\ UNCHANGED fresh /\ source' \notin Items
      BY <1>3, SourceAssumption DEF SourceSubmit
    <2>2. /\ Once(queue') /\ Once(requeue')
          /\ Elems(queue') \cap Elems(requeue') = {}
          /\ Queued' = Queued \cup {source}
          /\ Elems(queue') = Elems(queue) \cup {source}
      BY <2>1, PutsOne DEF Places
    <2>3. \A t \in Threads : held[t] \in Items => held[t] # source
      BY DEF Places
    <2>4. Places'
      BY <1>1, <2>1, <2>2, <2>3 DEF Places
    <2>5. Waiting'
      BY <1>1, <2>1, <2>2, MarkAssumption DEF Waiting
    <2> QED BY <2>4, <2>5
  <1>4. CASE SourceEnds
    <2>1. /\ source' = "ended" /\ source' \notin Items
          /\ source \notin Items \/ sourceExit
          /\ UNCHANGED <<queue, requeue, fresh>>
      BY <1>4, SourceAssumption DEF SourceEnds, queueVars
    <2>2. Queued' = Queued /\ Elems(queue)' = Elems(queue)
          /\ Elems(requeue)' = Elems(requeue)
      BY <2>1 DEF Queued, Elems
    <2>3. Places'
      BY <1>1, <2>1, <2>2 DEF Places, Once
    <2>4. Waiting'
      BY <1>1, <2>1, <2>2 DEF Waiting
    <2> QED BY <2>3, <2>4
  <1> QED BY <1>2, <1>3, <1>4 DEF SourceStep

\* The main thread only drains the queues and puts stop markers.
LEMMA MainPlaces ==
  ASSUME Inv, PlacesInv, MainStep \/ GiveUp PROVE PlacesInv'
  <1> USE DEF Inv, TypeOK, PlacesInv
  <1>1. UNCHANGED <<pc, held, result, done, fresh, source>>
    BY DEF MainStep, WaitEnds, DrainOne, Drained, SetExitFlag, PutMarker,
           EnableThread, ShutdownReturns, JoinThreads, GiveUp, workerVars,
           sourceVars
  <1>2. main' # "watching"
    BY DEF MainStep, WaitEnds, DrainOne, Drained, SetExitFlag, PutMarker,
           EnableThread, ShutdownReturns, JoinThreads, GiveUp, mainVars
  <1>3. CASE DrainOne
    <2>1. /\ Once(queue') /\ Once(requeue')
          /\ Elems(queue') \cap Elems(requeue') = {}
          /\ Queued = Queued' \cup {NextItem}
      BY <1>3, TakesOne DEF DrainOne
    <2> QED BY <1>1, <1>2, <2>1 DEF Places, Waiting
  <1>4. CASE PutMarker
    <2>1. /\ Once(queue') /\ Once(requeue')
          /\ Elems(queue') \cap Elems(requeue') = {}
          /\ Queued' = Queued \cup {Exit}
      BY <1>4, PutsOne DEF PutMarker
    <2> QED BY <1>1, <1>2, <2>1, MarkAssumption DEF Places, Waiting
  <1>5. CASE ~DrainOne /\ ~PutMarker
    <2>1. UNCHANGED <<queue, requeue>>
      BY <1>5
      DEF MainStep, WaitEnds, Drained, SetExitFlag, EnableThread,
          ShutdownReturns, JoinThreads, GiveUp, queueVars
    <2> QED BY <1>1, <1>2, <2>1, PlacesStay
  <1> QED BY <1>3, <1>4, <1>5

LEMMA PlacesPreserved == Inv /\ PlacesInv /\ [Next]_vars => PlacesInv'
  <1> SUFFICES ASSUME Inv, PlacesInv, [Next]_vars PROVE PlacesInv'
    OBVIOUS
  <1> USE DEF Inv, TypeOK
  <1>1. CASE UNCHANGED vars
    BY <1>1, PlacesStay
    DEF vars, queueVars, workerVars, sourceVars, mainVars
  <1>2. ASSUME NEW t \in Threads,
               StartWork(t) \/ BackoffEnds(t) \/ GetTimesOut(t) \/ FinishWork(t)
        PROVE  PlacesInv'
    <2>1. UNCHANGED <<queue, requeue, held, done, fresh, source, main, exitFlag,
                      sourceExit>>
      BY <1>2
      DEF StartWork, BackoffEnds, GetTimesOut, FinishWork, queueVars,
          sourceVars, mainVars
    <2>2. /\ pc'[t] \notin {"work", "finish"}
          /\ \A u \in Threads : u # t => pc'[u] = pc[u] /\ result'[u] = result[u]
      BY <1>2 DEF StartWork, BackoffEnds, GetTimesOut, FinishWork, EnterWork
    <2> QED BY <2>1, <2>2, PlacesStay
  <1>3. CASE \E t \in Threads : WorkerStep(t)
    BY <1>2, <1>3, GetPlaces, PerformPlaces, SubmitPlaces, FinishPlaces
    DEF WorkerStep
  <1> QED BY <1>1, <1>3, SourcePlaces, MainPlaces DEF Next

LEMMA InitPlaces == Init => PlacesInv
  <1> SUFFICES ASSUME Init PROVE PlacesInv
    OBVIOUS
  <1>1. /\ queue = <<>> /\ requeue = <<>> /\ DOMAIN queue = {}
        /\ DOMAIN requeue = {}
    BY EmptySeq DEF Init
  <1>2. Elems(queue) = {} /\ Elems(requeue) = {} /\ Queued = {}
    BY <1>1 DEF Elems, Queued
  <1>3. Places
    BY <1>1, <1>2, MarkAssumption, SourceAssumption DEF Init, Places, Once
  <1>4. Waiting
    BY <1>2 DEF Init, Waiting
  <1> QED BY <1>3, <1>4 DEF PlacesInv

LEMMA PlacesInvariant == Spec => [](Inv /\ PlacesInv)
  BY Invariant, InitPlaces, PlacesPreserved, PTL DEF Spec

(***************************************************************************)
(* No item is queued twice, put back and queued, or with two workers, and  *)
(* none that was performed is queued again, for any number of workers that *)
(* retry, fail or die.                                                     *)
(***************************************************************************)
THEOREM ItemsInOnePlace == Spec => []InOnePlace
  <1>1. Inv /\ PlacesInv => InOnePlace
    <2> SUFFICES ASSUME Inv, PlacesInv PROVE InOnePlace
      OBVIOUS
    <2>1. \A n \in DOMAIN queue, m \in DOMAIN requeue : queue[n] # requeue[m]
      BY DEF PlacesInv, Places, Elems
    <2> QED BY <2>1 DEF PlacesInv, Places, InOnePlace
  <1> QED BY <1>1, PlacesInvariant, PTL

(***************************************************************************)
(* When the join of the queue returns, every item submitted was performed  *)
(* with success: none is queued, and none left with a worker that died.    *)
(***************************************************************************)
THEOREM JoinMeansDone == Spec => WaitMeansDone
  <1> DEFINE AllDone == main = "watching" /\ main' # "watching" /\ ~sourceExit' =>
                            Items \ fresh \subseteq done
  <1>1. Inv /\ PlacesInv /\ [Next]_vars => [AllDone]_vars
    <2> SUFFICES ASSUME Inv, PlacesInv, Next, main = "watching",
                        main' # "watching", ~sourceExit'
                 PROVE  Items \ fresh \subseteq done
      OBVIOUS
    <2>1. WaitEnds
      BY DEF Next, WorkerStep, StartWork, BackoffEnds, Get, GetTimesOut,
             PerformWork, SubmitFromWork, FinishItem, FinishWork, SourceStep,
             SourceRead, SourceSubmit, SourceEnds, MainStep, DrainOne, Drained,
             SetExitFlag, PutMarker, EnableThread, ShutdownReturns,
             JoinThreads, GiveUp, mainVars
    <2>2. source \notin Items /\ unfinished = 0
      BY <2>1, SourceAssumption DEF WaitEnds
    <2>3. Len(queue) = 0 /\ Len(requeue) = 0 /\ Cardinality(Holding) = 0
      BY <2>2, CountsAreNat, InsideFinite DEF Inv, UnfinishedCounts
    <2>4. Holding = {}
      BY <2>3, InsideFinite, FS_EmptySet
    <2>5. Queued = {}
      <3>1. DOMAIN queue = {} /\ DOMAIN requeue = {}
        BY <2>3, LenProperties DEF Inv, TypeOK
      <3> QED BY <3>1 DEF Queued
    <2>6. \A t \in Threads : held[t] \notin Items
      BY <2>4, MarkAssumption DEF Holding
    <2> QED BY <2>2, <2>5, <2>6 DEF PlacesInv, Waiting
  <1> QED BY <1>1, PlacesInvariant, PTL DEF Spec, WaitMeansDone
=============================================================================
