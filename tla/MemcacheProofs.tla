--------------------------- MODULE MemcacheProofs ---------------------------
(***************************************************************************)
(* Theorems about Memcache, for any clients, keys, values and times.       *)
(***************************************************************************)
EXTENDS Memcache, TLAPS

LEMMA GetKeyCases ==
  ASSUME NEW k \in Keys
  PROVE  /\ GetKey(k) = NoEntry \/ GetKey(k) = cache[k]
         /\ TypeOK /\ GetKey(k) # NoEntry => GetKey(k) \in Entries
  BY DEF GetKey, TypeOK, StubTypeOK

LEMMA OffsetNumber ==
  ASSUME NEW v \in Numbers, NEW delta \in Int
  PROVE  Offset(v, delta) \in Numbers
  <1> DEFINE sum == IF v + delta > 0 THEN v + delta ELSE 0
  <1>1. sum \in Nat /\ Modulus \in Nat /\ Modulus > 0
    BY StubAssumption DEF Numbers
  <1>2. \A n \in Nat : n % Modulus \in 0 .. Modulus - 1
    BY <1>1
  <1> HIDE DEF sum
  <1>3. sum % Modulus \in 0 .. Modulus - 1
    BY <1>1, <1>2
  <1> QED BY <1>3 DEF Offset, Numbers, sum

\* The clock goes on.
LEMMA LaterTimes ==
  ASSUME StubTypeOK, NEW clock \in Later(now)
  PROVE  /\ now \in Nat /\ clock \in Nat /\ clock >= now /\ clock \in 0 .. MaxTime
         /\ Later(clock) \subseteq Later(now) /\ now \in Later(now)
  BY StubAssumption DEF Later, StubTypeOK

LEMMA NowIsLater == ASSUME TypeOK PROVE now \in Later(now)
  BY StubAssumption DEF Later, TypeOK, StubTypeOK

LEMMA DeadlineNat ==
  ASSUME NEW time \in Nat, NEW dated \in Nat PROVE Deadline(time, dated) \in Nat
  BY DEF Deadline

LEMMA StoreType ==
  ASSUME TypeOK, NEW k \in Keys, NEW v \in Values, NEW time \in Nat,
         NEW dated \in Later(now), Store(k, v, time, dated)
  PROVE  StubTypeOK'
  <1>0. StubTypeOK
    BY DEF TypeOK
  <1>a. dated \in Nat /\ dated \in 0 .. MaxTime
    BY <1>0, LaterTimes
  <1>1. /\ Deadline(time, dated) \in Nat /\ nextCas \in Nat \ {0}
        /\ dated \in 0 .. MaxTime
    BY <1>0, <1>a, DeadlineNat DEF StubTypeOK
  <1>2. NewEntry(v, time, dated) \in Entries
    BY <1>1 DEF NewEntry, Entries
  <1>3. nextCas' \in 1 .. MaxCas + 1
    BY StubAssumption DEF Store, TypeOK, StubTypeOK
  <1> QED BY <1>1, <1>2, <1>3 DEF Store, TypeOK, StubTypeOK

LEMMA PurgeType ==
  ASSUME TypeOK, NEW k \in Keys, NEW checked \in Later(now), StubGet(k, checked)
  PROVE  StubTypeOK'
  BY GetKeyCases, LaterTimes DEF StubGet, Purge, TypeOK, StubTypeOK

LEMMA DeleteType ==
  ASSUME TypeOK, NEW k \in Keys, NEW time \in Nat, NEW dated \in Later(now),
         StubDelete(k, time, dated)
  PROVE  StubTypeOK'
  <1>1. Deadline(time, dated) \in Nat /\ dated \in 0 .. MaxTime
    BY LaterTimes, DeadlineNat DEF TypeOK
  <1>2. GetKey(k) # NoEntry => LockedEntry(GetKey(k), time, dated) \in Entries
    BY <1>1, GetKeyCases DEF LockedEntry, Entries
  <1> QED BY <1>1, <1>2 DEF StubDelete, TypeOK, StubTypeOK

LEMMA IncrementType ==
  ASSUME TypeOK, NEW k \in Keys, NEW delta \in Int,
         NEW initial \in Numbers \cup {NoEntry}, StubIncrement(k, delta, initial)
  PROVE  StubTypeOK'
  <1>1. CASE StubGet(k, now)
    BY <1>1, PurgeType, NowIsLater
  <1>2. CASE CanIncrement(k, initial) /\ GetKey(k) = NoEntry
             /\ Store(k, Offset(initial, delta), 0, now)
    <2>1. initial \in Numbers
      BY <1>2 DEF CanIncrement
    <2>2. Offset(initial, delta) \in Values
      BY <2>1, OffsetNumber DEF Values
    <2> QED BY <1>2, <2>2, StoreType, NowIsLater
  <1>3. CASE /\ CanIncrement(k, initial) /\ GetKey(k) # NoEntry
             /\ cache' = [cache EXCEPT ![k].value = Offset(@, delta)]
             /\ UNCHANGED <<nextCas, now>>
    <2>1. cache[k] \in Entries /\ cache[k].value \in Numbers
      BY <1>3, GetKeyCases DEF CanIncrement
    <2>2. Offset(cache[k].value, delta) \in Values
      BY <2>1, OffsetNumber DEF Values
    <2>3. [cache[k] EXCEPT !.value = Offset(cache[k].value, delta)] \in Entries
      BY <2>1, <2>2 DEF Entries
    <2>4. cache' = [cache EXCEPT ![k] =
                      [cache[k] EXCEPT !.value = Offset(cache[k].value, delta)]]
      BY <1>3
    <2> QED BY <1>3, <2>3, <2>4 DEF TypeOK, StubTypeOK
  <1> QED BY <1>1, <1>2, <1>3 DEF StubIncrement

LEMMA TypeStep == ASSUME TypeOK, [Next]_vars PROVE TypeOK'
  <1>1. ASSUME NEW k \in Keys, Get(k)
        PROVE  TypeOK'
    BY <1>1, PurgeType, NowIsLater DEF Get, historyVars, TypeOK
  <1>2. ASSUME NEW k \in Keys, NEW c \in Clients,
               NEW checked \in Later(now), Gets(c, k, checked)
        PROVE  TypeOK'
    <2>1. StubTypeOK'
      BY <1>2, PurgeType DEF Gets
    <2>2. Visible(k, checked) => GetKey(k).cas \in Nat
      BY GetKeyCases DEF Visible, Entries
    <2>3. CASE Visible(k, checked)
      <3>1. [casIds[c] EXCEPT ![k] = GetKey(k).cas] \in [Keys -> Nat]
        BY <2>2, <2>3 DEF TypeOK
      <3>2. casIds' = [casIds EXCEPT ![c] = [casIds[c] EXCEPT ![k] = GetKey(k).cas]]
        BY <1>2, <2>3 DEF Gets, TypeOK
      <3>3. casIds' \in [Clients -> [Keys -> Nat]]
        BY <3>1, <3>2 DEF TypeOK
      <3>4. changed[k] \ {c} \in SUBSET Clients
        BY DEF TypeOK
      <3>5. changed' = [changed EXCEPT ![k] = changed[k] \ {c}]
        BY <1>2, <2>3 DEF Gets
      <3>6. changed' \in [Keys -> SUBSET Clients]
        BY <3>4, <3>5 DEF TypeOK
      <3>7. UNCHANGED lockedTill
        BY <1>2 DEF Gets
      <3> QED BY <2>1, <3>3, <3>6, <3>7 DEF TypeOK
    <2>4. CASE ~ Visible(k, checked)
      BY <1>2, <2>1, <2>4 DEF Gets, TypeOK
    <2> QED BY <2>3, <2>4
  <1>3. ASSUME NEW k \in Keys, NEW c \in Clients, NEW v \in Written,
               NEW time \in Times, NEW policy \in Policies,
               NEW checked \in Later(now), NEW dated \in Later(checked),
               SetWithPolicy(c, k, v, time, policy, checked, dated)
        PROVE  TypeOK'
    <2>1. StubTypeOK'
      BY <1>3, PurgeType, StoreType, LaterTimes, ClientAssumption
      DEF SetWithPolicy, StubSet, TypeOK
    <2> QED BY <1>3, <2>1 DEF SetWithPolicy, Change, historyVars, TypeOK
  <1>4. ASSUME NEW k \in Keys, NEW time \in LockTimes, NEW dated \in Later(now),
               Delete(k, time, dated)
        PROVE  TypeOK'
    <2>1. StubTypeOK' /\ Deadline(time, dated) \in Nat
      BY <1>4, DeleteType, DeadlineNat, LaterTimes, ClientAssumption DEF Delete, TypeOK
    <2> QED BY <1>4, <2>1 DEF Delete, Change, historyVars, TypeOK
  <1>5. ASSUME NEW k \in Keys, NEW delta \in Deltas, NEW initial \in Initials,
               Increment(k, delta, initial)
        PROVE  TypeOK'
    <2>1. StubTypeOK'
      BY <1>5, IncrementType, ClientAssumption DEF Increment
    <2> QED BY <1>5, <2>1 DEF Increment, Change, TypeOK
  <1>6. ASSUME NEW c \in Clients, CasReset(c)
        PROVE  TypeOK'
    BY <1>6 DEF CasReset, NoCas, stubVars, historyVars, TypeOK, StubTypeOK
  <1>7. CASE FlushAll
    BY <1>7 DEF FlushAll, StubFlushAll, TypeOK, StubTypeOK
  <1>8. CASE Clock
    BY <1>8, StubAssumption DEF Clock, Tick, historyVars, TypeOK, StubTypeOK
  <1>9. CASE UNCHANGED vars
    BY <1>9 DEF vars, stubVars, historyVars, TypeOK, StubTypeOK
  <1> QED BY <1>1, <1>2, <1>3, <1>4, <1>5, <1>6, <1>7, <1>8, <1>9 DEF Next

\* Whatever the clients do, the entries are well formed and counters stay
\* within 64 bits.
THEOREM MemcacheTypes == Spec => []TypeOK
  <1>1. Init => TypeOK
    BY StubAssumption DEF Init, StubInit, NoCas, TypeOK, StubTypeOK
  <1> QED BY <1>1, TypeStep, PTL DEF Spec

-----------------------------------------------------------------------------
(* Deletes with a lock.                                                    *)

\* A key that the last delete still locks has a locked entry till then.
Held(k) ==
  now < lockedTill[k] =>
    cache[k] # NoEntry /\ cache[k].locked /\ cache[k].expires = lockedTill[k]
HeldInv == \A k \in Keys : Held(k)

LEMMA HeldKey ==
  ASSUME TypeOK, NEW k \in Keys, Held(k), now < lockedTill[k]
  PROVE  /\ GetKey(k) = cache[k] /\ GetKey(k) # NoEntry
         /\ \A checked \in Later(now) : checked < lockedTill[k] => ~ Visible(k, checked)
  <1>1. now \in Nat /\ lockedTill[k] \in Nat
    BY StubAssumption DEF TypeOK, StubTypeOK
  <1>2. ~ Expired(cache[k], now)
    BY <1>1 DEF Held, Expired
  <1>3. GetKey(k) = cache[k] /\ GetKey(k) # NoEntry
    BY <1>2 DEF Held, GetKey
  <1>4. ASSUME NEW checked \in Later(now), checked < lockedTill[k]
        PROVE  ~ Visible(k, checked)
    <2>1. checked \in Nat
      BY <1>4, LaterTimes DEF TypeOK
    <2>2. ~ Expired(cache[k], checked)
      BY <1>1, <1>4, <2>1 DEF Held, Expired
    <2> QED BY <1>3, <2>2 DEF Held, CheckLocked, Visible
  <1> QED BY <1>3, <1>4

LEMMA HeldStep == ASSUME TypeOK, HeldInv, [Next]_vars PROVE HeldInv'
  <1>0. /\ now \in Nat /\ \A k \in Keys : Held(k)
        /\ lockedTill \in [Keys -> Nat] /\ DOMAIN cache = Keys
        /\ \A clock \in Later(now) : clock \in Nat /\ clock >= now
    BY StubAssumption, LaterTimes DEF TypeOK, StubTypeOK, HeldInv
  <1>1. ASSUME NEW k \in Keys, NEW checked \in Later(now), StubGet(k, checked),
               UNCHANGED lockedTill
        PROVE  HeldInv'
    <2>1. now < lockedTill[k] => cache'[k] = cache[k]
      BY <1>0, <1>1, HeldKey DEF StubGet, Purge
    <2>2. now' = checked /\ checked \in Nat /\ checked >= now
      BY <1>0, <1>1 DEF StubGet
    <2>3. \A h \in Keys \ {k} : cache'[h] = cache[h]
      BY <1>0, <1>1 DEF StubGet, Purge
    <2> QED BY <1>0, <1>1, <2>1, <2>2, <2>3 DEF HeldInv, Held
  <1>2. ASSUME NEW k \in Keys, NEW c \in Clients, NEW v \in Written,
               NEW time \in Times, NEW policy \in Policies,
               NEW checked \in Later(now), NEW dated \in Later(checked),
               SetWithPolicy(c, k, v, time, policy, checked, dated),
               Stores(k, policy, casIds[c][k], checked)
        PROVE  HeldInv'
    <2>1. /\ cache' = [cache EXCEPT ![k] = NewEntry(v, time, dated)]
          /\ now' = dated
          /\ lockedTill' = [lockedTill EXCEPT ![k] = IF policy = "SET" THEN 0 ELSE @]
      BY <1>2 DEF SetWithPolicy, StubSet, Store
    <2>2. /\ checked \in Nat /\ checked >= now /\ dated \in Nat /\ dated >= checked
      BY StubAssumption, <1>0, <1>2 DEF Later
    <2>3. policy # "SET" => ~ checked < lockedTill[k]
      BY <1>0, <1>2, <2>2, HeldKey DEF Stores
    <2>4. Held(k)'
      BY <1>0, <2>1, <2>2, <2>3 DEF Held
    <2>5. \A h \in Keys \ {k} : Held(h)'
      BY <1>0, <2>1, <2>2 DEF Held
    <2> QED BY <2>4, <2>5 DEF HeldInv
  <1>3. ASSUME NEW k \in Keys, NEW time \in LockTimes, NEW dated \in Later(now),
               Delete(k, time, dated)
        PROVE  HeldInv'
    <2>1. now' = dated /\ dated \in Nat /\ dated >= now
      BY <1>0, <1>3 DEF Delete, StubDelete
    <2>2. CASE GetKey(k) = NoEntry
      <3>1. ~ now < lockedTill[k]
        BY <1>0, <2>2, HeldKey
      <3> QED
        BY <1>0, <1>3, <2>1, <2>2, <3>1
        DEF Delete, StubDelete, historyVars, HeldInv, Held
    <2>3. CASE GetKey(k) # NoEntry /\ time = 0
      BY <1>0, <1>3, <2>1, <2>3 DEF Delete, StubDelete, HeldInv, Held
    <2>4. CASE GetKey(k) # NoEntry /\ time # 0
      <3>1. GetKey(k) \in Entries
        BY <2>4, GetKeyCases
      <3>2. LockedEntry(GetKey(k), time, dated) # NoEntry
        <4>1. Deadline(time, dated) \in Nat
          BY <2>1, DeadlineNat, ClientAssumption
        <4>2. LockedEntry(GetKey(k), time, dated) \in Entries
          BY <3>1, <4>1 DEF LockedEntry, Entries
        <4> QED BY <4>2, ClientAssumption
      <3>3. /\ LockedEntry(GetKey(k), time, dated).locked
            /\ LockedEntry(GetKey(k), time, dated).expires = Deadline(time, dated)
        BY <3>1 DEF LockedEntry, Entries
      <3>4. cache' = [cache EXCEPT ![k] = LockedEntry(GetKey(k), time, dated)]
        BY <1>3, <2>4 DEF Delete, StubDelete
      <3>5. lockedTill' = [lockedTill EXCEPT ![k] = Deadline(time, dated)]
        BY <1>3, <2>4 DEF Delete
      <3>6. Held(k)'
        BY <1>0, <3>2, <3>3, <3>4, <3>5 DEF Held
      <3>7. \A h \in Keys \ {k} : Held(h)'
        BY <1>0, <2>1, <3>4, <3>5 DEF Held
      <3> QED BY <3>6, <3>7 DEF HeldInv
    <2> QED BY <2>2, <2>3, <2>4
  <1>4. ASSUME NEW k \in Keys, NEW delta \in Deltas, NEW initial \in Initials,
               Increment(k, delta, initial)
        PROVE  HeldInv'
    <2>1. CASE ~ CanIncrement(k, initial) /\ StubGet(k, now)
      BY <1>1, <1>4, <2>1, NowIsLater DEF Increment
    <2>2. CASE GetKey(k) = NoEntry /\ Store(k, Offset(initial, delta), 0, now)
      <3>1. ~ now < lockedTill[k]
        BY <1>0, <2>2, HeldKey
      <3> QED
        BY <1>0, <1>4, <2>2, <3>1 DEF Increment, Store, HeldInv, Held
    <2>3. CASE /\ CanIncrement(k, initial) /\ GetKey(k) # NoEntry
               /\ cache' = [cache EXCEPT ![k].value = Offset(@, delta)]
               /\ UNCHANGED <<nextCas, now>>
      <3> DEFINE entry == [cache[k] EXCEPT !.value = Offset(cache[k].value, delta)]
      <3>1. cache[k] \in Entries
        BY <2>3, GetKeyCases
      <3>2. /\ entry.locked = cache[k].locked /\ entry.expires = cache[k].expires
            /\ cache' = [cache EXCEPT ![k] = entry]
        BY <2>3, <3>1 DEF Entries
      <3>3. entry # NoEntry
        <4>1. cache[k].value \in Numbers
          BY <2>3, GetKeyCases DEF CanIncrement
        <4>2. Offset(cache[k].value, delta) \in Values
          BY <4>1, OffsetNumber, ClientAssumption DEF Values
        <4>3. entry \in Entries
          BY <3>1, <4>2 DEF Entries
        <4> QED BY <4>3, ClientAssumption
      <3> HIDE DEF entry
      <3> QED
        BY <1>0, <1>4, <2>3, <3>2, <3>3 DEF Increment, HeldInv, Held
    <2> QED BY <1>4, <2>1, <2>2, <2>3 DEF Increment, StubIncrement
  <1>5. CASE FlushAll
    BY <1>0, <1>5 DEF FlushAll, StubFlushAll, HeldInv, Held
  <1>6. CASE Clock
    BY <1>0, <1>6 DEF Clock, Tick, historyVars, HeldInv, Held
  <1>7. CASE UNCHANGED <<cache, now, lockedTill>>
    BY <1>0, <1>7 DEF HeldInv, Held
  <1>8. ASSUME NEW c \in Clients, CasReset(c)
        PROVE  HeldInv'
    BY <1>7, <1>8 DEF CasReset, stubVars, historyVars
  <1>9. ASSUME NEW k \in Keys,
               Get(k) \/ \E c \in Clients, checked \in Later(now) : Gets(c, k, checked)
        PROVE  HeldInv'
    BY <1>1, <1>9, NowIsLater DEF Get, Gets, historyVars
  <1>10. ASSUME NEW k \in Keys, NEW c \in Clients, NEW v \in Written,
                NEW time \in Times, NEW policy \in Policies,
                NEW checked \in Later(now), NEW dated \in Later(checked),
                SetWithPolicy(c, k, v, time, policy, checked, dated)
         PROVE  HeldInv'
    <2>1. CASE Stores(k, policy, casIds[c][k], checked)
      BY <1>2, <1>10, <2>1
    <2>2. CASE ~ Stores(k, policy, casIds[c][k], checked)
      BY <1>1, <1>10, <2>2 DEF SetWithPolicy, StubSet, historyVars
    <2> QED BY <2>1, <2>2
  <1>11. UNCHANGED vars => UNCHANGED <<cache, now, lockedTill>>
    BY DEF vars, stubVars, historyVars
  <1> QED
    BY <1>3, <1>4, <1>5, <1>6, <1>7, <1>8, <1>9, <1>10, <1>11 DEF Next

\* A key deleted with a lock stays out of sight until its time: nothing that
\* is added, replaced, compared and set or incremented brings it back.
THEOREM LocksHoldDeletes == Spec => []DeletedStaysDeleted
  <1>1. Init => HeldInv
    BY DEF Init, StubInit, HeldInv, Held
  <1>2. ASSUME TypeOK, HeldInv PROVE DeletedStaysDeleted
    <2>1. ASSUME NEW k \in Keys, NEW checked \in Later(now), checked < lockedTill[k]
          PROVE  ~ Visible(k, checked)
      <3>1. now \in Nat /\ checked \in Nat /\ checked >= now /\ lockedTill[k] \in Nat
        BY <1>2, LaterTimes DEF TypeOK
      <3>2. now < lockedTill[k]
        BY <2>1, <3>1
      <3> QED BY <1>2, <2>1, <3>2, HeldKey DEF HeldInv
    <2> QED BY <2>1 DEF DeletedStaysDeleted
  <1> QED BY <1>1, <1>2, HeldStep, MemcacheTypes, PTL DEF Spec

-----------------------------------------------------------------------------
(* Compare and set.                                                        *)

\* Ids are handed out once: those in use are older than the next one.  An
\* entry not locked with the id that a client remembers is the one it fetched; an
\* entry that is locked is so until the time of the last delete.
IdsAreOld ==
  /\ \A k \in Keys : cache[k] # NoEntry => cache[k].cas < nextCas
  /\ \A c \in Clients : \A k \in Keys : casIds[c][k] < nextCas
SameEntry(c, k) ==
  cache[k] # NoEntry /\ ~ cache[k].locked /\ cache[k].cas = casIds[c][k] =>
    c \notin changed[k]
CasInv == IdsAreOld /\ \A c \in Clients : \A k \in Keys : SameEntry(c, k)

LockDated(k) ==
  cache[k] # NoEntry /\ cache[k].locked => cache[k].expires = lockedTill[k]
DatedInv == \A k \in Keys : LockDated(k)

LEMMA DatedStep == ASSUME TypeOK, DatedInv, [Next]_vars PROVE DatedInv'
  <1>0. /\ DOMAIN cache = Keys /\ DOMAIN lockedTill = Keys
        /\ \A k \in Keys : LockDated(k)
    BY DEF TypeOK, StubTypeOK, DatedInv
  <1>1. ASSUME UNCHANGED lockedTill,
               \A k \in Keys :
                 \/ cache'[k] = NoEntry \/ cache'[k] = cache[k] \/ ~ cache'[k].locked
        PROVE  DatedInv'
    BY <1>0, <1>1 DEF DatedInv, LockDated
  <1>2. ASSUME NEW k \in Keys, NEW checked \in Later(now), StubGet(k, checked),
               UNCHANGED lockedTill
        PROVE  DatedInv'
    <2>1. \A h \in Keys : cache'[h] = NoEntry \/ cache'[h] = cache[h]
      BY <1>0, <1>2 DEF StubGet, Purge, GetKey
    <2> QED BY <1>1, <1>2, <2>1
  <1>3. ASSUME NEW k \in Keys, NEW c \in Clients, NEW v \in Written,
               NEW time \in Times, NEW policy \in Policies,
               NEW checked \in Later(now), NEW dated \in Later(checked),
               SetWithPolicy(c, k, v, time, policy, checked, dated)
        PROVE  DatedInv'
    <2>1. CASE Stores(k, policy, casIds[c][k], checked)
      <3>1. /\ cache' = [cache EXCEPT ![k] = NewEntry(v, time, dated)]
            /\ \A h \in Keys \ {k} : lockedTill'[h] = lockedTill[h]
            /\ ~ NewEntry(v, time, dated).locked
        BY <1>0, <1>3, <2>1 DEF SetWithPolicy, StubSet, Store, NewEntry
      <3> QED BY <1>0, <3>1 DEF DatedInv, LockDated
    <2>2. CASE ~ Stores(k, policy, casIds[c][k], checked)
      BY <1>2, <1>3, <2>2 DEF SetWithPolicy, StubSet, historyVars
    <2> QED BY <2>1, <2>2
  <1>4. ASSUME NEW k \in Keys, NEW time \in LockTimes, NEW dated \in Later(now),
               Delete(k, time, dated)
        PROVE  DatedInv'
    <2>1. CASE GetKey(k) = NoEntry \/ time = 0
      <3>1. /\ cache' = [cache EXCEPT ![k] = NoEntry]
            /\ \A h \in Keys \ {k} : lockedTill'[h] = lockedTill[h]
        BY <1>0, <1>4, <2>1 DEF Delete, StubDelete, historyVars
      <3> QED BY <1>0, <3>1 DEF DatedInv, LockDated
    <2>2. CASE GetKey(k) # NoEntry /\ time # 0
      <3>1. /\ cache' = [cache EXCEPT ![k] = LockedEntry(GetKey(k), time, dated)]
            /\ lockedTill' = [lockedTill EXCEPT ![k] = Deadline(time, dated)]
        BY <1>4, <2>2 DEF Delete, StubDelete
      <3>2. LockedEntry(GetKey(k), time, dated).expires = Deadline(time, dated)
        BY <2>2, GetKeyCases DEF LockedEntry, Entries
      <3> QED BY <1>0, <3>1, <3>2 DEF DatedInv, LockDated
    <2> QED BY <2>1, <2>2
  <1>5. ASSUME NEW k \in Keys, NEW delta \in Deltas, NEW initial \in Initials,
               Increment(k, delta, initial)
        PROVE  DatedInv'
    <2>1. UNCHANGED lockedTill
      BY <1>5 DEF Increment
    <2>2. CASE StubGet(k, now)
      BY <1>2, <2>1, <2>2, NowIsLater
    <2>3. CASE Store(k, Offset(initial, delta), 0, now)
      <3>1. /\ cache' = [cache EXCEPT ![k] = NewEntry(Offset(initial, delta), 0, now)]
            /\ ~ NewEntry(Offset(initial, delta), 0, now).locked
        BY <2>3 DEF Store, NewEntry
      <3> QED BY <1>0, <1>1, <2>1, <3>1
    <2>4. CASE /\ CanIncrement(k, initial) /\ GetKey(k) # NoEntry
               /\ cache' = [cache EXCEPT ![k].value = Offset(@, delta)]
               /\ UNCHANGED <<nextCas, now>>
      <3> DEFINE entry == [cache[k] EXCEPT !.value = Offset(cache[k].value, delta)]
      <3>1. cache[k] \in Entries /\ cache[k] # NoEntry
        BY <2>4, GetKeyCases, ClientAssumption
      <3>2. /\ entry.expires = cache[k].expires /\ entry.locked = cache[k].locked
            /\ cache' = [cache EXCEPT ![k] = entry]
        BY <2>4, <3>1 DEF Entries
      <3> HIDE DEF entry
      <3> QED BY <1>0, <2>1, <3>1, <3>2 DEF DatedInv, LockDated
    <2> QED BY <1>5, <2>2, <2>3, <2>4 DEF Increment, StubIncrement
  <1>6. CASE FlushAll
    BY <1>0, <1>6 DEF FlushAll, StubFlushAll, DatedInv, LockDated
  <1>7. CASE UNCHANGED <<cache, lockedTill>>
    BY <1>1, <1>7
  <1>8. Clock \/ UNCHANGED vars \/ (\E c \in Clients : CasReset(c)) =>
          UNCHANGED <<cache, lockedTill>>
    BY DEF Clock, Tick, CasReset, vars, stubVars, historyVars
  <1>9. ASSUME NEW k \in Keys,
               Get(k) \/ \E c \in Clients, checked \in Later(now) : Gets(c, k, checked)
        PROVE  DatedInv'
    BY <1>2, <1>9, NowIsLater DEF Get, Gets, historyVars
  <1> QED BY <1>3, <1>4, <1>5, <1>6, <1>7, <1>8, <1>9 DEF Next

\* The steps that only take entries away or lock them.
LEMMA CasFewer ==
  ASSUME TypeOK, CasInv, UNCHANGED <<nextCas, casIds>>,
         \A k \in Keys :
           \/ cache'[k] = NoEntry
           \/ /\ cache'[k] # NoEntry /\ cache[k] # NoEntry
              /\ cache'[k].cas = cache[k].cas
              /\ cache'[k].locked
           \/ cache'[k] = cache[k] /\ changed'[k] \subseteq changed[k]
  PROVE  CasInv'
  BY DEF CasInv, IdsAreOld, SameEntry

\* Storing a value under a new id.
LEMMA CasStore ==
  ASSUME TypeOK, CasInv, UNCHANGED casIds,
         NEW k \in Keys, NEW v \in Values, NEW time \in Nat, NEW dated,
         Store(k, v, time, dated),
         \A h \in Keys \ {k} : changed'[h] = changed[h]
  PROVE  CasInv'
  <1>1. /\ cache' = [cache EXCEPT ![k] = NewEntry(v, time, dated)]
        /\ nextCas' = nextCas + 1
        /\ NewEntry(v, time, dated).cas = nextCas
    BY DEF Store, NewEntry
  <1>2. /\ nextCas \in Nat /\ DOMAIN cache = Keys
        /\ \A h \in Keys : cache[h] # NoEntry => cache[h].cas \in Nat
        /\ \A c \in Clients : \A h \in Keys : casIds[c][h] \in Nat
    BY DEF TypeOK, StubTypeOK, Entries
  <1>3. IdsAreOld'
    BY <1>1, <1>2 DEF CasInv, IdsAreOld
  <1>4. ASSUME NEW c \in Clients, NEW h \in Keys
        PROVE  SameEntry(c, h)'
    <2>1. CASE h = k
      BY <1>1, <1>2, <2>1 DEF CasInv, IdsAreOld, SameEntry
    <2>2. CASE h # k
      BY <1>1, <1>2, <2>2 DEF CasInv, SameEntry
    <2> QED BY <2>1, <2>2
  <1> QED BY <1>3, <1>4 DEF CasInv

LEMMA CasStep ==
  ASSUME TypeOK, CasInv, [Next]_vars
  PROVE  CasInv'
  <1>0. /\ DOMAIN cache = Keys /\ DOMAIN changed = Keys /\ nextCas \in Nat
        /\ DOMAIN casIds = Clients /\ \A c \in Clients : DOMAIN casIds[c] = Keys
    BY DEF TypeOK, StubTypeOK
  <1>1. ASSUME NEW k \in Keys, NEW checked, StubGet(k, checked),
               UNCHANGED <<casIds, changed>>
        PROVE  CasInv'
    <2>1. \A h \in Keys : cache'[h] = NoEntry \/ cache'[h] = cache[h]
      BY <1>0, <1>1 DEF StubGet, Purge, GetKey
    <2> QED BY <1>1, <2>1, CasFewer DEF StubGet
  <1>2. ASSUME NEW k \in Keys, NEW c \in Clients,
               NEW checked \in Later(now), Gets(c, k, checked)
        PROVE  CasInv'
    <2>1. CASE ~ Visible(k, checked)
      BY <1>1, <1>2, <2>1 DEF Gets
    <2>2. CASE Visible(k, checked)
      <3>1. cache[k] # NoEntry /\ GetKey(k) = cache[k] /\ cache' = cache
        BY <1>0, <1>2, <2>2 DEF Gets, StubGet, Purge, Visible, GetKey, TypeOK, StubTypeOK
      <3>2. UNCHANGED nextCas
        BY <1>2 DEF Gets, StubGet
      <3>3. /\ casIds' = [casIds EXCEPT ![c] = [casIds[c] EXCEPT ![k] = cache[k].cas]]
            /\ changed' = [changed EXCEPT ![k] = changed[k] \ {c}]
        BY <1>0, <1>2, <2>2, <3>1 DEF Gets
      <3>4. casIds'[c][k] = cache[k].cas
        BY <1>0, <3>3
      <3>5. \A d \in Clients : \A h \in Keys :
              d # c \/ h # k => casIds'[d][h] = casIds[d][h]
        BY <1>0, <3>3
      <3>6. IdsAreOld'
        BY <3>1, <3>2, <3>4, <3>5 DEF CasInv, IdsAreOld
      <3>7. ASSUME NEW d \in Clients, NEW h \in Keys
            PROVE  SameEntry(d, h)'
        <4>1. CASE d = c /\ h = k
          BY <1>0, <3>3, <4>1 DEF SameEntry
        <4>2. CASE d # c \/ h # k
          <5>1. d \notin changed[h] => d \notin changed'[h]
            BY <1>0, <3>3
          <5> QED BY <3>1, <3>5, <4>2, <5>1 DEF CasInv, SameEntry
        <4> QED BY <4>1, <4>2
      <3> QED BY <3>6, <3>7 DEF CasInv
    <2> QED BY <2>1, <2>2
  <1>3. ASSUME NEW k \in Keys, NEW c \in Clients, NEW v \in Written,
               NEW time \in Times, NEW policy \in Policies,
               NEW checked \in Later(now), NEW dated \in Later(checked),
               SetWithPolicy(c, k, v, time, policy, checked, dated)
        PROVE  CasInv'
    <2>1. CASE Stores(k, policy, casIds[c][k], checked)
      <3>1. Store(k, v, time, dated) /\ UNCHANGED casIds
        BY <1>3, <2>1 DEF SetWithPolicy, StubSet
      <3>2. \A h \in Keys \ {k} : changed'[h] = changed[h]
        BY <1>0, <1>3, <2>1 DEF SetWithPolicy, Change
      <3> QED BY <3>1, <3>2, CasStore, ClientAssumption
    <2>2. CASE ~ Stores(k, policy, casIds[c][k], checked)
      BY <1>1, <1>3, <2>2 DEF SetWithPolicy, StubSet, historyVars
    <2> QED BY <2>1, <2>2
  <1>4. ASSUME NEW k \in Keys, NEW time \in LockTimes, NEW dated \in Later(now),
               Delete(k, time, dated)
        PROVE  CasInv'
    <2>1. CASE GetKey(k) = NoEntry
      BY <1>0, <1>4, <2>1, CasFewer DEF Delete, StubDelete, historyVars
    <2>2. CASE GetKey(k) # NoEntry /\ time = 0
      BY <1>0, <1>4, <2>2, CasFewer DEF Delete, StubDelete, Change
    <2>3. CASE GetKey(k) # NoEntry /\ time # 0
      <3>1. GetKey(k) = cache[k] /\ cache[k] \in Entries
        BY <2>3, GetKeyCases
      <3>2. LockedEntry(cache[k], time, dated) \in Entries
        BY <3>1, DeadlineNat, LaterTimes, ClientAssumption
        DEF LockedEntry, Entries, TypeOK
      <3>3. /\ LockedEntry(cache[k], time, dated).cas = cache[k].cas
            /\ LockedEntry(cache[k], time, dated).locked
            /\ LockedEntry(cache[k], time, dated) # NoEntry
        BY <3>1, <3>2, ClientAssumption DEF LockedEntry, Entries
      <3>4. cache' = [cache EXCEPT ![k] = LockedEntry(cache[k], time, dated)]
        BY <1>4, <2>3, <3>1 DEF Delete, StubDelete
      <3>5. /\ UNCHANGED <<nextCas, casIds>>
            /\ \A h \in Keys \ {k} : changed'[h] = changed[h]
        BY <1>0, <1>4, <2>3 DEF Delete, StubDelete, Change
      <3> QED BY <1>0, <2>3, <3>1, <3>3, <3>4, <3>5, CasFewer
    <2> QED BY <2>1, <2>2, <2>3
  <1>5. ASSUME NEW c \in Clients, CasReset(c)
        PROVE  CasInv'
    <2>1. /\ UNCHANGED <<cache, nextCas, changed>>
          /\ \A d \in Clients : \A k \in Keys :
               casIds'[d][k] = casIds[d][k] \/ casIds'[d][k] = NoCas
      BY <1>0, <1>5 DEF CasReset, stubVars, historyVars
    <2>2. /\ NoCas < nextCas
          /\ \A k \in Keys : cache[k] # NoEntry => cache[k].cas # NoCas
      BY DEF TypeOK, StubTypeOK, Entries, NoCas
    <2> QED BY <2>1, <2>2 DEF CasInv, IdsAreOld, SameEntry
  <1>6. CASE FlushAll
    BY <1>6, CasFewer DEF FlushAll, StubFlushAll
  <1>7. CASE UNCHANGED <<cache, nextCas, casIds, changed>>
    BY <1>7, CasFewer
  <1>8. Clock => UNCHANGED <<cache, nextCas, casIds, changed>>
    BY DEF Clock, Tick, historyVars
  <1>9. UNCHANGED vars => UNCHANGED <<cache, nextCas, casIds, changed>>
    BY DEF vars, stubVars, historyVars
  <1>10. ASSUME NEW k \in Keys, Get(k)
         PROVE  CasInv'
    BY <1>1, <1>10 DEF Get, historyVars
  <1>11. ASSUME NEW k \in Keys, NEW delta \in Deltas, NEW initial \in Initials,
                Increment(k, delta, initial)
         PROVE  CasInv'
    <2>1. CASE ~ CanIncrement(k, initial) /\ StubGet(k, now)
      BY <1>1, <1>11, <2>1 DEF Increment
    <2>2. CASE /\ CanIncrement(k, initial) /\ GetKey(k) = NoEntry
               /\ Store(k, Offset(initial, delta), 0, now)
      <3>1. initial \in Numbers /\ 0 \in Nat
        BY <2>2, ClientAssumption DEF CanIncrement
      <3>2. Offset(initial, delta) \in Values
        BY <3>1, OffsetNumber, ClientAssumption DEF Values
      <3>3. UNCHANGED casIds /\ \A h \in Keys \ {k} : changed'[h] = changed[h]
        BY <1>0, <1>11, <2>2 DEF Increment, Change
      <3> QED BY <2>2, <3>1, <3>2, <3>3, CasStore
    <2>3. CASE /\ CanIncrement(k, initial) /\ GetKey(k) # NoEntry
               /\ cache' = [cache EXCEPT ![k].value = Offset(@, delta)]
               /\ UNCHANGED <<nextCas, now>>
      <3> DEFINE entry == [cache[k] EXCEPT !.value = Offset(cache[k].value, delta)]
      <3>1. cache[k] \in Entries /\ cache[k] # NoEntry
        BY <2>3, GetKeyCases, ClientAssumption
      <3>2. /\ entry.cas = cache[k].cas /\ entry.locked = cache[k].locked
            /\ cache' = [cache EXCEPT ![k] = entry]
        BY <2>3, <3>1 DEF Entries
      <3>3. UNCHANGED <<changed, casIds, nextCas>>
        BY <1>11, <2>3 DEF Increment
      <3> HIDE DEF entry
      <3>4. /\ cache'[k].cas = cache[k].cas /\ cache'[k].locked = cache[k].locked
            /\ \A h \in Keys \ {k} : cache'[h] = cache[h]
        BY <1>0, <3>2
      <3>5. IdsAreOld'
        BY <3>1, <3>3, <3>4 DEF CasInv, IdsAreOld
      <3>6. \A c \in Clients : \A h \in Keys : SameEntry(c, h)'
        BY <3>1, <3>3, <3>4 DEF CasInv, SameEntry
      <3> QED BY <3>5, <3>6 DEF CasInv
    <2> QED BY <1>11, <2>1, <2>2, <2>3 DEF Increment, StubIncrement
  <1> QED
    BY <1>2, <1>3, <1>4, <1>5, <1>6, <1>7, <1>8, <1>9, <1>10, <1>11 DEF Next

\* A cas() that succeeds replaces the very entry its client fetched: nothing
\* has stored, deleted or flushed the key in between - but for the one moment when
\* the lock of a delete ends between the two readings of the clock.
THEOREM CasIsSafe == Spec => []CasSeesNoChange
  <1>1. Init => CasInv /\ DatedInv
    BY DEF Init, StubInit, NoCas, CasInv, IdsAreOld, SameEntry, DatedInv, LockDated
  <1>2. ASSUME TypeOK, CasInv, DatedInv PROVE CasSeesNoChange
    <2> SUFFICES ASSUME NEW c \in Clients, NEW k \in Keys, NEW checked \in Later(now),
                        Stores(k, "CAS", casIds[c][k], checked), c \in changed[k]
                 PROVE  LockEnds(k, checked)
      BY DEF CasSeesNoChange
    <2>1. /\ cache[k] # NoEntry /\ ~ Expired(cache[k], now) /\ cache[k] \in Entries
          /\ ~ CheckLocked(cache[k], checked) /\ cache[k].cas = casIds[c][k]
      BY <1>2, GetKeyCases DEF Stores, Visible, GetKey
    <2>2. cache[k].locked
      BY <1>2, <2>1 DEF CasInv, SameEntry
    <2>3. cache[k].expires = lockedTill[k]
      BY <1>2, <2>1, <2>2 DEF DatedInv, LockDated
    <2>4. now \in Nat /\ checked \in Nat /\ lockedTill[k] \in Nat
      BY <1>2, LaterTimes DEF TypeOK
    <2> QED BY <2>1, <2>2, <2>3, <2>4 DEF CheckLocked, Expired, LockEnds
  <1> QED BY <1>1, <1>2, CasStep, DatedStep, MemcacheTypes, PTL DEF Spec
=============================================================================
