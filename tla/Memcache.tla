------------------------------ MODULE Memcache ------------------------------
(***************************************************************************)
(* Clients of the local memcache: memcache.Client of                       *)
(* google/appengine/api/memcache/__init__.py calling MemcacheStub, each    *)
(* call one request.  A client remembers the compare-and-set id of every   *)
(* key it fetched with gets().                                             *)
(***************************************************************************)
EXTENDS MemcacheStub

CONSTANTS
  Clients,     \* memcache.Client objects
  Written,     \* values the clients store
  Policies,    \* which of SET, ADD, REPLACE and CAS they use
  Times,       \* expirations they ask for; 0 is never
  LockTimes,   \* delete times they ask for; 0 is no lock
  Deltas,      \* what they increment by; negative to decrement
  Initials     \* initial values of increments, NoEntry for none

ASSUME ClientAssumption ==
  /\ Written \subseteq Values
  /\ Policies \subseteq {"SET", "ADD", "REPLACE", "CAS"}
  /\ Times \subseteq Nat /\ LockTimes \subseteq Nat
  /\ Deltas \subseteq Int
  /\ Initials \subseteq Numbers \cup {NoEntry}
  /\ NoEntry \notin Entries \cup Numbers

VARIABLES
  casIds,     \* Client._cas_ids
  changed,    \* history: the clients since whose gets() of a key it was stored,
              \* deleted or flushed
  lockedTill  \* history: until when the last delete locks the key

historyVars == <<changed, lockedTill>>
vars == <<stubVars, casIds, historyVars>>

Init ==
  /\ StubInit
  /\ casIds = [c \in Clients |-> [k \in Keys |-> NoCas]]
  /\ changed = [k \in Keys |-> {}]
  /\ lockedTill = [k \in Keys |-> 0]

\* For the history: the key was changed, and clients do not know.
Change(k) ==
  changed' = [changed EXCEPT ![k] = Clients]

-----------------------------------------------------------------------------
\* get(), without effect on the client.
Get(k) ==
  /\ StubGet(k, now)
  /\ UNCHANGED <<casIds, historyVars>>

\* gets(): the id is remembered if the key is there, and is not forgotten if
\* it is not.
Gets(c, k, checked) ==
  /\ StubGet(k, checked)
  /\ IF Visible(k, checked)
     THEN /\ casIds' = [casIds EXCEPT ![c][k] = GetKey(k).cas]
          /\ changed' = [changed EXCEPT ![k] = @ \ {c}]
     ELSE UNCHANGED <<casIds, changed>>
  /\ UNCHANGED lockedTill

\* set(), add(), replace() and cas().
SetWithPolicy(c, k, v, time, policy, checked, dated) ==
  /\ StubSet(k, v, time, policy, casIds[c][k], checked, dated)
  /\ IF Stores(k, policy, casIds[c][k], checked)
     THEN /\ Change(k)
          /\ lockedTill' =
               [lockedTill EXCEPT ![k] = IF policy = "SET" THEN 0 ELSE @]
     ELSE UNCHANGED historyVars
  /\ UNCHANGED casIds

\* delete()
Delete(k, time, dated) ==
  /\ StubDelete(k, time, dated)
  /\ IF GetKey(k) = NoEntry
     THEN UNCHANGED historyVars
     ELSE /\ Change(k)
          /\ lockedTill' = [lockedTill EXCEPT ![k] =
                              IF time = 0 THEN 0 ELSE Deadline(time, dated)]
  /\ UNCHANGED casIds

\* incr() and decr()
Increment(k, delta, initial) ==
  /\ StubIncrement(k, delta, initial)
  /\ IF CanIncrement(k, initial) /\ GetKey(k) = NoEntry
     THEN Change(k)
     ELSE UNCHANGED changed
  /\ UNCHANGED <<casIds, lockedTill>>

FlushAll ==
  /\ StubFlushAll
  /\ changed' = [k \in Keys |-> Clients]
  /\ lockedTill' = [k \in Keys |-> 0]
  /\ UNCHANGED casIds

\* cas_reset()
CasReset(c) ==
  /\ casIds' = [casIds EXCEPT ![c] = [k \in Keys |-> NoCas]]
  /\ UNCHANGED <<stubVars, historyVars>>

Clock == Tick /\ UNCHANGED <<casIds, historyVars>>

Next ==
  \/ \E k \in Keys :
       \/ Get(k)
       \/ \E c \in Clients :
            \/ \E checked \in Later(now) : Gets(c, k, checked)
            \/ \E v \in Written, time \in Times, policy \in Policies,
                  checked \in Later(now) :
                 \E dated \in Later(checked) :
                   SetWithPolicy(c, k, v, time, policy, checked, dated)
       \/ \E time \in LockTimes, dated \in Later(now) : Delete(k, time, dated)
       \/ \E delta \in Deltas, initial \in Initials : Increment(k, delta, initial)
  \/ \E c \in Clients : CasReset(c)
  \/ FlushAll
  \/ Clock

Spec == Init /\ [][Next]_vars

-----------------------------------------------------------------------------
\* The variables have the types the code gives them; numbers fit 64 bits.
TypeOK ==
  /\ StubTypeOK
  /\ casIds \in [Clients -> [Keys -> Nat]]
  /\ changed \in [Keys -> SUBSET Clients]
  /\ lockedTill \in [Keys -> Nat]

\* cas() would store only over the very entry that the client remembers from
\* gets(): nobody has set, added, replaced, deleted or flushed the key since,
\* nor has it expired and been made again - but for one moment: while the lock of
\* a delete ends between the two readings of the clock, cas() stores over the
\* deleted entry.  Increments do not count: they keep the id of the entry.
LockEnds(k, checked) == now < lockedTill[k] /\ lockedTill[k] <= checked
CasSeesNoChange ==
  \A c \in Clients, k \in Keys : \A checked \in Later(now) :
    Stores(k, "CAS", casIds[c][k], checked) /\ c \in changed[k] => LockEnds(k, checked)

\* A key deleted with a lock is not seen again before its time, whatever is
\* added, replaced or incremented, unless it is set or the cache is flushed.
DeletedStaysDeleted ==
  \A k \in Keys : \A checked \in Later(now) :
    checked < lockedTill[k] => ~ Visible(k, checked)
=============================================================================
