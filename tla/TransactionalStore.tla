------------------------- MODULE TransactionalStore -------------------------
(***************************************************************************)
(* What the local datastore promises the clients of its transactions: an   *)
(* entity group is read as the commits so far have left it, and a          *)
(* transaction that commits changes all its entities in one step, at a     *)
(* moment when every entity group it has seen is still as it saw it.       *)
(* Executions are serialisable, in the order of the commits.  There are no *)
(* locks, log positions, apply queues or caches here.                      *)
(***************************************************************************)

CONSTANTS Txns, Keys, Groups, GroupOf, NoValue, NoView

VARIABLES
  db,      \* the entities as the committed transactions leave them
  status,  \* what became of each transaction
  seen     \* the entity groups each transaction has seen

storeVars == <<db, status, seen>>

GroupKeys(g) == {k \in Keys : GroupOf[k] = g}
GroupState(g) == [k \in GroupKeys(g) |-> db[k]]

StoreInit ==
  /\ db = [k \in Keys |-> NoValue]
  /\ status = [t \in Txns |-> "NONE"]
  /\ seen = [t \in Txns |-> [g \in Groups |-> NoView]]

BeginTransaction(t) ==
  /\ status[t] = "NONE"
  /\ status' = [status EXCEPT ![t] = "ACTIVE"]
  /\ UNCHANGED <<db, seen>>

\* A transaction sees a group as it is now, and keeps what it has seen.
See(t, g) ==
  /\ status[t] \in {"ACTIVE", "FAILED"}
  /\ seen[t][g] = NoView
  /\ seen' = [seen EXCEPT ![t][g] = GroupState(g)]
  /\ UNCHANGED <<db, status>>

\* A transaction writes only in groups it has seen and that are unchanged.
CommitTransaction(t) ==
  /\ status[t] = "ACTIVE"
  /\ \A g \in Groups : seen[t][g] # NoView => seen[t][g] = GroupState(g)
  /\ status' = [status EXCEPT ![t] = "COMMITED"]
  /\ \E written \in SUBSET {k \in Keys : seen[t][GroupOf[k]] # NoView} :
       \E deleted \in SUBSET written :
         db' = [k \in Keys |-> IF k \in deleted THEN NoValue
                               ELSE IF k \in written THEN t
                               ELSE db[k]]
  /\ UNCHANGED seen

\* CONCURRENT_TRANSACTION: the transaction can only be rolled back now.
Fail(t) ==
  /\ status[t] = "ACTIVE"
  /\ status' = [status EXCEPT ![t] = "FAILED"]
  /\ UNCHANGED <<db, seen>>

RollbackTransaction(t) ==
  /\ status[t] \in {"ACTIVE", "FAILED"}
  /\ status' = [status EXCEPT ![t] = "ROLLEDBACK"]
  /\ UNCHANGED <<db, seen>>

StoreNext ==
  \E t \in Txns :
    \/ BeginTransaction(t)
    \/ \E g \in Groups : See(t, g)
    \/ CommitTransaction(t)
    \/ Fail(t)
    \/ RollbackTransaction(t)

StoreSpec == StoreInit /\ [][StoreNext]_storeVars
=============================================================================
