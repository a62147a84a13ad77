--------------------------- MODULE MCDatastoreTxn ---------------------------
(***************************************************************************)
(* Small instances of DatastoreTxn.  The last group is the global one,     *)
(* which holds no entities here.                                           *)
(***************************************************************************)
EXTENDS DatastoreTxn, TLC

CONSTANTS k1, k2

TwoGroups == 1 .. 2
ThreeGroups == 1 .. 3
OneEach == [k \in Keys |-> IF k = k1 THEN 1 ELSE 2]
AllInOne == [k \in Keys |-> 1]

TxnSymmetry == Permutations(Txns)
=============================================================================
