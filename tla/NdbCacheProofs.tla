--------------------------- MODULE NdbCacheProofs ---------------------------
(***************************************************************************)
(* Theorems about NdbCache, for any contexts, keys, entities and times.    *)
(***************************************************************************)
EXTENDS NdbCache, TLAPS

-----------------------------------------------------------------------------
(* What one request does to memcache.                                      *)

\* In this use of memcache an entry holds a lock of the protocol or an entity.
Content == Texts \cup {Locked}

\* An entry is well formed, and older than the next one.
EntryOK(k) ==
  cache[k] # NoEntry =>
    /\ cache[k] \in Entries /\ cache[k].value \in Content
    /\ cache[k].cas \in Nat /\ cache[k].cas < nextCas
StubInv == StubTypeOK /\ \A k \in Keys : EntryOK(k)

\* A request that only takes entries away, of the keys in some set.
Removes(from) ==
  /\ \A k \in Keys : cache'[k] = cache[k] \/ (k \in from /\ cache'[k] = NoEntry)
  /\ UNCHANGED nextCas

\* A request that stores a value of a key under the next id.
Puts(k, v) ==
  /\ cache'[k] # NoEntry /\ cache'[k].value = v /\ cache'[k].cas = nextCas
  /\ \A h \in Keys \ {k} : cache'[h] = cache[h]
  /\ nextCas' = nextCas + 1

LEMMA LockedIsNumber == Locked \in Numbers /\ Locked \in Values /\ Locked \notin Texts
  <1>1. Locked \in Numbers
    BY StubAssumption DEF Locked, Numbers
  <1> QED BY <1>1, NdbAssumption DEF Values

LEMMA StubNumbers ==
  ASSUME StubTypeOK
  PROVE  /\ nextCas \in Nat /\ nextCas > 0 /\ now \in Nat
         /\ DOMAIN cache = Keys /\ cache = [k \in Keys |-> cache[k]]
  BY StubAssumption DEF StubTypeOK

LEMMA DeadlineNat ==
  ASSUME NEW time \in Nat, NEW dated \in Nat PROVE Deadline(time, dated) \in Nat
  BY DEF Deadline

\* The clock goes on.
LEMMA LaterTimes ==
  ASSUME StubTypeOK
  PROVE  /\ now \in Later(now)
         /\ \A clock \in Later(now) : clock \in Nat /\ clock \in 0 .. MaxTime
  BY StubAssumption DEF Later, StubTypeOK

LEMMA StubGetStep ==
  ASSUME StubInv, NEW k \in Keys, StubGet(k, now)
  PROVE  StubInv' /\ Removes({k})
  <1>1. GetKey(k) = NoEntry \/ GetKey(k) = cache[k]
    BY DEF GetKey
  <1>2. cache' = [cache EXCEPT ![k] = GetKey(k)] /\ UNCHANGED <<nextCas, now>>
    BY DEF StubGet, Purge
  <1>3. Removes({k})
    BY <1>1, <1>2, StubNumbers DEF StubInv, Removes
  <1>4. StubTypeOK'
    BY <1>1, <1>2 DEF StubInv, StubTypeOK
  <1> QED BY <1>2, <1>3, <1>4 DEF StubInv, Removes, EntryOK

LEMMA StoreStep ==
  ASSUME StubInv, NEW k \in Keys, NEW v \in Content, NEW time \in Nat,
         NEW dated \in Later(now), Store(k, v, time, dated)
  PROVE  StubInv' /\ Puts(k, v)
  <1>0. dated \in Nat /\ dated \in 0 .. MaxTime
    BY LaterTimes DEF StubInv
  <1>1. Deadline(time, dated) \in Nat /\ nextCas \in Nat /\ nextCas > 0
    BY <1>0, DeadlineNat, StubNumbers DEF StubInv
  <1>2. v \in Values
    BY LockedIsNumber DEF Content, Values
  <1>3. /\ NewEntry(v, time, dated) \in Entries /\ NewEntry(v, time, dated).value = v
        /\ NewEntry(v, time, dated).cas = nextCas
    BY <1>1, <1>2 DEF NewEntry, Entries
  <1>4. NewEntry(v, time, dated) # NoEntry
    BY <1>3, NdbAssumption
  <1>5. /\ cache' = [cache EXCEPT ![k] = NewEntry(v, time, dated)]
        /\ nextCas' = nextCas + 1 /\ nextCas <= MaxCas /\ now' = dated
    BY DEF Store
  <1>6. Puts(k, v)
    BY <1>3, <1>4, <1>5, StubNumbers DEF Puts, StubInv
  <1>7. StubTypeOK'
    <2>1. nextCas' \in 1 .. MaxCas + 1
      BY <1>1, <1>5, StubAssumption
    <2> QED BY <1>0, <1>3, <1>5, <2>1 DEF StubInv, StubTypeOK
  <1>8. EntryOK(k)'
    <2>1. cache'[k] = NewEntry(v, time, dated)
      BY <1>5, StubNumbers DEF StubInv
    <2> QED BY <1>1, <1>3, <1>5, <2>1 DEF EntryOK
  <1>9. ASSUME NEW h \in Keys \ {k}
        PROVE  EntryOK(h)'
    <2>1. cache'[h] = cache[h] /\ EntryOK(h)
      BY <1>6 DEF Puts, StubInv
    <2> QED BY <1>1, <1>5, <2>1 DEF EntryOK
  <1> QED BY <1>6, <1>7, <1>8, <1>9 DEF StubInv

LEMMA SetLockedStep ==
  ASSUME StubInv, NEW k \in Keys, SetLocked(k)
  PROVE  StubInv' /\ Puts(k, Locked)
  <1>1. \E dated \in Later(now) : Store(k, Locked, LockTime, dated)
    BY DEF SetLocked, StubSet, Stores
  <1> QED BY <1>1, StoreStep, NdbAssumption DEF Content

LEMMA DeleteStep ==
  ASSUME StubInv, NEW k \in Keys, StubDelete(k, 0, now)
  PROVE  /\ StubInv' /\ Removes({k})
         /\ cache'[k] = NoEntry
  <1>1. cache' = [cache EXCEPT ![k] = NoEntry] /\ UNCHANGED <<nextCas, now>>
    BY DEF StubDelete
  <1>2. Removes({k}) /\ cache'[k] = NoEntry
    BY <1>1, StubNumbers DEF Removes, StubInv
  <1>3. StubTypeOK'
    BY <1>1 DEF StubInv, StubTypeOK
  <1> QED BY <1>1, <1>2, <1>3 DEF StubInv, Removes, EntryOK

\* Fill stores what the call has read, or stores nothing.
LEMMA FillStep ==
  ASSUME StubInv, NEW k \in Keys, NEW v \in Texts, NEW id \in Nat,
         NEW dated \in Later(now), StubSet(k, v, Timeout, "CAS", id, now, dated)
  PROVE  /\ StubInv'
         /\ \/ Removes({k})
            \/ Puts(k, v) /\ cache[k] # NoEntry /\ cache[k].cas = id
  <1>1. CASE Stores(k, "CAS", id, now) /\ Store(k, v, Timeout, dated)
    <2>1. Visible(k, now) /\ GetKey(k).cas = id
      BY <1>1 DEF Stores
    <2>2. cache[k] # NoEntry /\ cache[k].cas = id
      BY <2>1 DEF Visible, GetKey
    <2> QED BY <1>1, <2>2, StoreStep, NdbAssumption DEF Content
  <1>2. CASE StubGet(k, now)
    BY <1>2, StubGetStep
  <1> QED BY <1>1, <1>2 DEF StubSet

LEMMA SameStub == ASSUME StubInv, UNCHANGED stubVars PROVE StubInv' /\ Removes({})
  BY DEF stubVars, StubInv, StubTypeOK, Removes, EntryOK

-----------------------------------------------------------------------------
(* Types.                                                                  *)

\* The parts of TypeOK besides that of the stub.
DataTypes ==
  /\ ds \in [Keys -> Found]
  /\ local \in [Contexts -> [Keys -> Found \cup {NotCached}]]
  /\ casIds \in [Contexts -> [Keys -> Nat]]
HistoryTypes ==
  /\ was \in [Keys -> SUBSET Found]
  /\ mark \in [Contexts -> Nat]
  /\ loose \in [Keys -> BOOLEAN]
CallTypes ==
  /\ pc \in [Contexts -> Places]
  /\ at \in [Contexts -> Keys \cup {NoKey}]
  /\ \A c \in Contexts : pc[c] = "idle" <=> at[c] = NoKey
  /\ val \in [Contexts -> Found \cup {NotCached}]
  /\ \A c \in Contexts : pc[c] = "fill" => val[c] \in Texts
  /\ \A c \in Contexts : pc[c] \in {"write", "clear", "commit"} => val[c] \in Found
  /\ snap \in [Contexts -> {"unread", "current", "changed"}]
  /\ tries \in [Contexts -> 0 .. Retries]
TypeInv == StubInv /\ DataTypes /\ HistoryTypes /\ CallTypes

LEMMA BusyKey ==
  ASSUME CallTypes, NEW c \in Contexts, pc[c] # "idle"
  PROVE  at[c] \in Keys
  BY DEF CallTypes

LEMMA RememberIdType ==
  ASSUME TypeInv, NEW c \in Contexts, NEW k \in Keys, RememberId(c, k)
  PROVE  casIds' \in [Contexts -> [Keys -> Nat]]
  <1>1. Visible(k, now) => GetKey(k).cas \in Nat
    BY DEF Visible, GetKey, TypeInv, StubInv, EntryOK
  <1>2. CASE Visible(k, now)
    <2>1. casIds' = [casIds EXCEPT ![c] = [casIds[c] EXCEPT ![k] = GetKey(k).cas]]
      BY <1>2 DEF RememberId, TypeInv, DataTypes
    <2>2. [casIds[c] EXCEPT ![k] = GetKey(k).cas] \in [Keys -> Nat]
      BY <1>1, <1>2 DEF TypeInv, DataTypes
    <2> QED BY <2>1, <2>2 DEF TypeInv, DataTypes
  <1>3. CASE ~ Visible(k, now)
    BY <1>3 DEF RememberId, TypeInv, DataTypes
  <1> QED BY <1>2, <1>3

LEMMA RememberType ==
  ASSUME TypeInv, NEW c \in Contexts, NEW k \in Keys, NEW v \in Found,
         Remember(c, k, v)
  PROVE  local' \in [Contexts -> [Keys -> Found \cup {NotCached}]]
  <1>1. local' = [local EXCEPT ![c] = [local[c] EXCEPT ![k] = v]]
    BY DEF Remember, TypeInv, DataTypes
  <1>2. [local[c] EXCEPT ![k] = v] \in [Keys -> Found \cup {NotCached}]
    BY DEF TypeInv, DataTypes
  <1> QED BY <1>1, <1>2 DEF TypeInv, DataTypes

LEMMA WriteDatastoreType ==
  ASSUME TypeInv, NEW k \in Keys, NEW v \in Found, WriteDatastore(k, v)
  PROVE  ds' \in [Keys -> Found] /\ was' \in [Keys -> SUBSET Found]
  BY DEF WriteDatastore, TypeInv, DataTypes, HistoryTypes

LEMMA EndType ==
  ASSUME CallTypes, NEW c \in Contexts, End(c)
  PROVE  CallTypes'
  BY NdbAssumption DEF End, CallTypes, Places

LEMMA GotoType ==
  ASSUME CallTypes, NEW c \in Contexts, pc[c] # "idle",
         NEW place \in {"gets", "read"}, Goto(c, place)
  PROVE  CallTypes'
  BY DEF Goto, CallTypes, Places

LEMMA BeginType ==
  ASSUME CallTypes, NEW c \in Contexts, NEW k \in Keys,
         NEW place \in {"look", "miss", "write", "erase"},
         NEW v \in Found \cup {NotCached}, place = "write" => v \in Found,
         Begin(c, k, place, v)
  PROVE  CallTypes'
  BY NdbAssumption DEF Begin, CallTypes, Places

LEMMA AgeType ==
  ASSUME CallTypes, NEW c \in Contexts, NEW k \in Keys, AgeSnapshots(c, k)
  PROVE  snap' \in [Contexts -> {"unread", "current", "changed"}]
  BY DEF AgeSnapshots, CallTypes

\* Setting the lock.
LEMMA SetLockedType ==
  ASSUME TypeInv, NEW k \in Keys, SetLocked(k)
  PROVE  StubInv' /\ loose' \in [Keys -> BOOLEAN]
  <1>1. loose' \in [Keys -> BOOLEAN]
    BY Zenon DEF SetLocked, TypeInv, HistoryTypes
  <1> QED BY <1>1, SetLockedStep DEF TypeInv

LEMMA GetTypes ==
  ASSUME TypeInv, NEW c \in Contexts, NEW k \in Keys, Get(c, k)
  PROVE  TypeInv'
  <1>1. StubInv' /\ casIds' \in [Contexts -> [Keys -> Nat]]
    BY StubGetStep, RememberIdType DEF Get, TypeInv
  <1>2. UNCHANGED <<ds, was, mark, loose>>
    BY DEF Get, historyVars
  <1>3. CASE Visible(k, now) /\ GetKey(k).value # Locked
    <2>1. GetKey(k).value \in Found
      BY <1>3 DEF Visible, GetKey, TypeInv, StubInv, EntryOK, Content, Found
    <2>2. local' \in [Contexts -> [Keys -> Found \cup {NotCached}]]
      BY <1>3, <2>1, RememberType DEF Get
    <2>3. UNCHANGED <<pc, at, val, snap, tries>>
      BY <1>3 DEF Get, callVars
    <2> QED BY <1>1, <1>2, <2>2, <2>3 DEF TypeInv, DataTypes, HistoryTypes, CallTypes
  <1>4. CASE ~ (Visible(k, now) /\ GetKey(k).value # Locked)
    <2>1. /\ UNCHANGED local
          /\ \E place \in {"look", "miss"} : Begin(c, k, place, NotCached)
      BY <1>4 DEF Get
    <2>2. CallTypes'
      BY <2>1, BeginType DEF TypeInv
    <2> QED BY <1>1, <1>2, <2>1, <2>2 DEF TypeInv, DataTypes, HistoryTypes
  <1> QED BY <1>3, <1>4

LEMMA LockToFillTypes ==
  ASSUME TypeInv, NEW c \in Contexts, LockToFill(c)
  PROVE  TypeInv'
  <1>1. at[c] \in Keys /\ pc[c] # "idle"
    BY BusyKey DEF LockToFill, TypeInv
  <1>2. StubInv' /\ loose' \in [Keys -> BOOLEAN]
    BY <1>1, SetLockedType DEF LockToFill
  <1>3. CallTypes'
    BY <1>1, GotoType DEF LockToFill, TypeInv
  <1>4. UNCHANGED <<ds, local, casIds, was, mark>>
    BY DEF LockToFill
  <1> QED BY <1>2, <1>3, <1>4 DEF TypeInv, DataTypes, HistoryTypes

LEMMA GetsLockTypes ==
  ASSUME TypeInv, NEW c \in Contexts, GetsLock(c)
  PROVE  TypeInv'
  <1>1. at[c] \in Keys /\ pc[c] # "idle"
    BY BusyKey DEF GetsLock, TypeInv
  <1>2. StubInv' /\ casIds' \in [Contexts -> [Keys -> Nat]]
    BY <1>1, StubGetStep, RememberIdType DEF GetsLock, TypeInv
  <1>3. CallTypes'
    BY <1>1, GotoType DEF GetsLock, TypeInv
  <1>4. UNCHANGED <<ds, local, was, mark, loose>>
    BY DEF GetsLock, historyVars
  <1> QED BY <1>2, <1>3, <1>4 DEF TypeInv, DataTypes, HistoryTypes

LEMMA ReadDatastoreTypes ==
  ASSUME TypeInv, NEW c \in Contexts, ReadDatastore(c)
  PROVE  TypeInv'
  <1>1. at[c] \in Keys /\ pc[c] # "idle"
    BY BusyKey DEF ReadDatastore, TypeInv
  <1>2. ds[at[c]] \in Found
    BY <1>1 DEF TypeInv, DataTypes
  <1>3. StubInv' /\ UNCHANGED <<ds, casIds, was, mark, loose>>
    BY SameStub DEF ReadDatastore, historyVars, TypeInv
  <1>4. CASE pc[c] = "read" /\ ds[at[c]] # None
    <2>1. /\ pc' = [pc EXCEPT ![c] = "fill"]
          /\ val' = [val EXCEPT ![c] = ds[at[c]]]
          /\ UNCHANGED <<at, snap, tries, local>>
      BY <1>4 DEF ReadDatastore
    <2>2. CallTypes'
      BY <1>1, <1>2, <1>4, <2>1 DEF TypeInv, CallTypes, Places, Found
    <2> QED BY <1>3, <2>1, <2>2 DEF TypeInv, DataTypes, HistoryTypes
  <1>5. CASE ~ (pc[c] = "read" /\ ds[at[c]] # None)
    <2>1. Remember(c, at[c], ds[at[c]]) /\ End(c)
      BY <1>5 DEF ReadDatastore
    <2>2. local' \in [Contexts -> [Keys -> Found \cup {NotCached}]]
      BY <1>1, <1>2, <2>1, RememberType
    <2>3. CallTypes'
      BY <2>1, EndType DEF TypeInv
    <2> QED BY <1>3, <2>2, <2>3 DEF TypeInv, DataTypes, HistoryTypes
  <1> QED BY <1>4, <1>5

LEMMA FillTypes ==
  ASSUME TypeInv, NEW c \in Contexts, Fill(c)
  PROVE  TypeInv'
  <1>1. at[c] \in Keys /\ val[c] \in Texts
    BY BusyKey DEF Fill, TypeInv, CallTypes
  <1>2. casIds[c][at[c]] \in Nat
    BY <1>1 DEF TypeInv, DataTypes
  <1>3. StubInv'
    BY <1>1, <1>2, FillStep DEF Fill, TypeInv
  <1>4. local' \in [Contexts -> [Keys -> Found \cup {NotCached}]]
    BY <1>1, RememberType DEF Fill, Found
  <1>5. CallTypes' /\ UNCHANGED <<ds, casIds, was, mark, loose>>
    BY EndType DEF Fill, historyVars, TypeInv
  <1> QED BY <1>3, <1>4, <1>5 DEF TypeInv, DataTypes, HistoryTypes

LEMMA PutTypes ==
  ASSUME TypeInv, NEW c \in Contexts, NEW k \in Keys, NEW v \in Texts, Put(c, k, v)
  PROVE  TypeInv'
  <1>1. StubInv' /\ loose' \in [Keys -> BOOLEAN]
    BY SetLockedType DEF Put
  <1>2. CallTypes'
    BY BeginType DEF Put, TypeInv, Found
  <1>3. UNCHANGED <<ds, local, casIds, was, mark>>
    BY DEF Put
  <1> QED BY <1>1, <1>2, <1>3 DEF TypeInv, DataTypes, HistoryTypes

LEMMA WriteTypes ==
  ASSUME TypeInv, NEW c \in Contexts, Write(c)
  PROVE  TypeInv'
  <1>1. at[c] \in Keys /\ val[c] \in Found /\ pc[c] = "write"
    BY BusyKey DEF Write, TypeInv, CallTypes
  <1>2. ds' \in [Keys -> Found] /\ was' \in [Keys -> SUBSET Found]
    BY <1>1, WriteDatastoreType DEF Write
  <1>3. snap' \in [Contexts -> {"unread", "current", "changed"}]
    BY <1>1, AgeType DEF Write, TypeInv
  <1>4. /\ pc' = [pc EXCEPT ![c] = "clear"]
        /\ UNCHANGED <<stubVars, local, casIds, at, val, tries, mark, loose>>
    BY DEF Write
  <1>5. CallTypes'
    BY <1>1, <1>3, <1>4 DEF TypeInv, CallTypes, Places
  <1>6. StubInv'
    BY <1>4, SameStub DEF TypeInv
  <1> QED BY <1>2, <1>4, <1>5, <1>6 DEF TypeInv, DataTypes, HistoryTypes

LEMMA ClearTypes ==
  ASSUME TypeInv, NEW c \in Contexts, Clear(c)
  PROVE  TypeInv'
  <1>1. at[c] \in Keys /\ val[c] \in Found
    BY BusyKey DEF Clear, TypeInv, CallTypes
  <1>2. StubInv'
    BY <1>1, DeleteStep DEF Clear, TypeInv
  <1>3. local' \in [Contexts -> [Keys -> Found \cup {NotCached}]]
    BY <1>1, RememberType DEF Clear
  <1>4. loose' \in [Keys -> BOOLEAN]
    BY Zenon DEF Clear, TypeInv, HistoryTypes
  <1>5. CallTypes' /\ UNCHANGED <<ds, casIds, was, mark>>
    BY EndType DEF Clear, TypeInv
  <1> QED BY <1>2, <1>3, <1>4, <1>5 DEF TypeInv, DataTypes, HistoryTypes

LEMMA DeleteTypes ==
  ASSUME TypeInv, NEW c \in Contexts, NEW k \in Keys, Delete(c, k)
  PROVE  TypeInv'
  <1>1. StubInv' /\ loose' \in [Keys -> BOOLEAN]
    BY SetLockedType DEF Delete
  <1>2. CallTypes'
    BY BeginType DEF Delete, TypeInv, Found
  <1>3. UNCHANGED <<ds, local, casIds, was>>
    BY DEF Delete
  <1>4. mark' \in [Contexts -> Nat]
    BY StubNumbers DEF Delete, TypeInv, StubInv, HistoryTypes
  <1> QED BY <1>1, <1>2, <1>3, <1>4 DEF TypeInv, DataTypes, HistoryTypes

LEMMA EraseTypes ==
  ASSUME TypeInv, NEW c \in Contexts, Erase(c)
  PROVE  TypeInv'
  <1>1. at[c] \in Keys /\ None \in Found /\ pc[c] = "erase"
    BY BusyKey DEF Erase, TypeInv, Found
  <1>2. ds' \in [Keys -> Found] /\ was' \in [Keys -> SUBSET Found]
    BY <1>1, WriteDatastoreType DEF Erase
  <1>3. local' \in [Contexts -> [Keys -> Found \cup {NotCached}]]
    BY <1>1, RememberType DEF Erase
  <1>4. snap' \in [Contexts -> {"unread", "current", "changed"}]
    BY <1>1, AgeType DEF Erase, TypeInv
  <1>5. loose' \in [Keys -> BOOLEAN]
    <2>1. (loose[at[c]] \/ ~ LockStands(c)) \in BOOLEAN
      OBVIOUS
    <2> QED BY <2>1, Zenon DEF Erase, TypeInv, HistoryTypes
  <1>6. mark' \in [Contexts -> Nat]
    BY DEF Erase, TypeInv, HistoryTypes, NoCas
  <1>7. /\ pc' = [pc EXCEPT ![c] = "idle"] /\ at' = [at EXCEPT ![c] = NoKey]
        /\ val' = [val EXCEPT ![c] = NotCached]
        /\ UNCHANGED <<stubVars, casIds, tries>>
    BY DEF Erase
  <1>8. CallTypes'
    BY <1>1, <1>4, <1>7, NdbAssumption DEF TypeInv, CallTypes, Places
  <1>9. StubInv'
    BY <1>7, SameStub DEF TypeInv
  <1> QED BY <1>2, <1>3, <1>5, <1>6, <1>7, <1>8, <1>9
         DEF TypeInv, DataTypes, HistoryTypes

LEMMA TransactionTypes ==
  ASSUME TypeInv, NEW c \in Contexts, NEW k \in Keys, Transaction(c, k)
  PROVE  TypeInv'
  <1>1. /\ pc' = [pc EXCEPT ![c] = "txn"] /\ at' = [at EXCEPT ![c] = k]
        /\ val' = [val EXCEPT ![c] = NotCached]
        /\ tries' = [tries EXCEPT ![c] = Retries]
        /\ UNCHANGED <<stubVars, ds, local, casIds, snap, was, mark, loose>>
    BY DEF Transaction, historyVars
  <1>2. CallTypes'
    BY <1>1, NdbAssumption DEF TypeInv, CallTypes, Places
  <1>3. StubInv'
    BY <1>1, SameStub DEF TypeInv
  <1> QED BY <1>1, <1>2, <1>3 DEF TypeInv, DataTypes, HistoryTypes

LEMMA GetInTxnTypes ==
  ASSUME TypeInv, NEW c \in Contexts, GetInTxn(c)
  PROVE  TypeInv'
  <1>1. at[c] \in Keys /\ pc[c] = "txn"
    BY BusyKey DEF GetInTxn, TypeInv
  <1>2. /\ val' = [val EXCEPT ![c] = ds[at[c]]]
        /\ snap' = [snap EXCEPT ![c] = "current"]
        /\ UNCHANGED <<stubVars, ds, local, casIds, pc, at, tries, was, mark, loose>>
    BY DEF GetInTxn, historyVars
  <1>3. ds[at[c]] \in Found
    BY <1>1 DEF TypeInv, DataTypes
  <1>4. CallTypes'
    BY <1>1, <1>2, <1>3 DEF TypeInv, CallTypes, Places
  <1>5. StubInv'
    BY <1>2, SameStub DEF TypeInv
  <1> QED BY <1>2, <1>4, <1>5 DEF TypeInv, DataTypes, HistoryTypes

LEMMA WriteInTxnTypes ==
  ASSUME TypeInv, NEW c \in Contexts, NEW v \in Found, WriteInTxn(c, v)
  PROVE  TypeInv'
  <1>1. at[c] \in Keys /\ pc[c] = "txn"
    BY BusyKey DEF WriteInTxn, TypeInv
  <1>2. StubInv' /\ loose' \in [Keys -> BOOLEAN]
    BY <1>1, SetLockedType DEF WriteInTxn
  <1>3. /\ val' = [val EXCEPT ![c] = v] /\ pc' = [pc EXCEPT ![c] = "commit"]
        /\ UNCHANGED <<ds, local, casIds, at, snap, tries, was, mark>>
    BY DEF WriteInTxn
  <1>4. CallTypes'
    BY <1>1, <1>3 DEF TypeInv, CallTypes, Places
  <1> QED BY <1>2, <1>3, <1>4 DEF TypeInv, DataTypes, HistoryTypes

LEMMA CommitTypes ==
  ASSUME TypeInv, NEW c \in Contexts, Commit(c)
  PROVE  TypeInv'
  <1>1. at[c] \in Keys /\ pc[c] \in {"txn", "commit"}
    BY BusyKey DEF Commit, TypeInv
  <1>2. /\ ds' \in [Keys -> Found] /\ was' \in [Keys -> SUBSET Found]
        /\ snap' \in [Contexts -> {"unread", "current", "changed"}]
    <2>1. CASE UNCHANGED <<ds, was, snap>>
      BY <2>1 DEF TypeInv, DataTypes, HistoryTypes, CallTypes
    <2>2. CASE /\ pc[c] = "commit" /\ WriteDatastore(at[c], val[c])
               /\ AgeSnapshots(c, at[c])
      <3>1. val[c] \in Found
        BY <2>2 DEF TypeInv, CallTypes
      <3> QED BY <1>1, <2>2, <3>1, WriteDatastoreType, AgeType DEF TypeInv
    <2> QED BY <2>1, <2>2 DEF Commit
  <1>3. StubInv' /\ UNCHANGED <<casIds, val, mark, loose>>
    BY SameStub DEF Commit, TypeInv
  <1>4. tries' = [tries EXCEPT ![c] = 0]
    BY DEF Commit
  <1>5. CASE val[c] = NotCached
    <2>1. /\ UNCHANGED local
          /\ pc' = [pc EXCEPT ![c] = "idle"] /\ at' = [at EXCEPT ![c] = NoKey]
      BY <1>5 DEF Commit
    <2>2. CallTypes'
      BY <1>1, <1>2, <1>3, <1>4, <2>1, NdbAssumption DEF TypeInv, CallTypes, Places
    <2> QED BY <1>2, <1>3, <2>1, <2>2 DEF TypeInv, DataTypes, HistoryTypes
  <1>6. CASE val[c] # NotCached
    <2>1. val[c] \in Found
      BY <1>6 DEF TypeInv, CallTypes
    <2>2. /\ Remember(c, at[c], val[c])
          /\ pc' = [pc EXCEPT ![c] = "clear"] /\ at' = [at EXCEPT ![c] = at[c]]
      BY <1>6 DEF Commit, Remember
    <2>3. local' \in [Contexts -> [Keys -> Found \cup {NotCached}]]
      BY <1>1, <2>1, <2>2, RememberType
    <2>4. CallTypes'
      BY <1>1, <1>2, <1>3, <1>4, <2>1, <2>2, NdbAssumption
      DEF TypeInv, CallTypes, Places
    <2> QED BY <1>2, <1>3, <2>3, <2>4 DEF TypeInv, DataTypes, HistoryTypes
  <1> QED BY <1>5, <1>6

LEMMA CommitFailsTypes ==
  ASSUME TypeInv, NEW c \in Contexts, CommitFails(c)
  PROVE  TypeInv'
  <1>1. StubInv' /\ UNCHANGED <<ds, local, casIds, was, mark, loose>>
    BY SameStub DEF CommitFails, TypeInv, historyVars
  <1>2. CASE tries[c] > 0
    <2>1. /\ pc' = [pc EXCEPT ![c] = "txn"] /\ val' = [val EXCEPT ![c] = NotCached]
          /\ snap' = [snap EXCEPT ![c] = "unread"]
          /\ tries' = [tries EXCEPT ![c] = tries[c] - 1] /\ UNCHANGED at
          /\ pc[c] = "commit"
      BY <1>2 DEF CommitFails, MayTryAgain
    <2>2. tries[c] - 1 \in 0 .. Retries
      BY <1>2, NdbAssumption DEF TypeInv, CallTypes
    <2>3. CallTypes'
      BY <2>1, <2>2 DEF TypeInv, CallTypes, Places
    <2> QED BY <1>1, <2>3 DEF TypeInv, DataTypes, HistoryTypes
  <1>3. CASE ~ tries[c] > 0
    <2>1. CallTypes'
      BY <1>3, EndType DEF CommitFails, MayTryAgain, TypeInv
    <2> QED BY <1>1, <2>1 DEF TypeInv, DataTypes, HistoryTypes
  <1> QED BY <1>2, <1>3

LEMMA RaiseTypes ==
  ASSUME TypeInv, NEW c \in Contexts, Raise(c)
  PROVE  TypeInv'
  <1>1. StubInv' /\ UNCHANGED <<ds, local, casIds, was>>
    BY SameStub DEF Raise, TypeInv
  <1>2. loose' \in [Keys -> BOOLEAN]
    <2>1. [loose EXCEPT ![at[c]] = TRUE] \in [Keys -> BOOLEAN]
      BY Zenon DEF TypeInv, HistoryTypes
    <2>2. loose' = [loose EXCEPT ![at[c]] = TRUE] \/ loose' = loose
      BY Zenon DEF Raise
    <2> QED BY <2>1, <2>2, Zenon DEF TypeInv, HistoryTypes
  <1>3. mark' \in [Contexts -> Nat]
    BY DEF Raise, TypeInv, HistoryTypes, NoCas
  <1>4. CallTypes'
    BY EndType DEF Raise, TypeInv
  <1> QED BY <1>1, <1>2, <1>3, <1>4 DEF TypeInv, DataTypes, HistoryTypes

LEMMA NewContextTypes ==
  ASSUME TypeInv, NEW c \in Contexts, NewContext(c)
  PROVE  TypeInv'
  <1>1. StubInv' /\ UNCHANGED <<ds, pc, at, val, snap, tries, was, mark, loose>>
    BY SameStub DEF NewContext, TypeInv, callVars, historyVars
  <1>2. local' \in [Contexts -> [Keys -> Found \cup {NotCached}]]
    BY DEF NewContext, TypeInv, DataTypes
  <1>3. casIds' \in [Contexts -> [Keys -> Nat]]
    BY DEF NewContext, TypeInv, DataTypes, NoCas
  <1> QED BY <1>1, <1>2, <1>3 DEF TypeInv, DataTypes, HistoryTypes, CallTypes

LEMMA FlushTypes ==
  ASSUME TypeInv, Flush
  PROVE  TypeInv' /\ Removes(Keys)
  <1>1. cache' = [k \in Keys |-> NoEntry] /\ UNCHANGED <<nextCas, now>>
    BY DEF Flush, StubFlushAll
  <1>2. StubInv' /\ Removes(Keys)
    BY <1>1 DEF TypeInv, StubInv, StubTypeOK, EntryOK, Removes
  <1>3. loose' \in [Keys -> BOOLEAN]
    BY Zenon DEF Flush
  <1>4. UNCHANGED <<ds, local, casIds, pc, at, val, snap, tries, was, mark>>
    BY DEF Flush, callVars
  <1> QED BY <1>2, <1>3, <1>4 DEF TypeInv, DataTypes, HistoryTypes, CallTypes

LEMMA ClockTypes ==
  ASSUME TypeInv, Clock
  PROVE  TypeInv' /\ Removes({})
  <1>1. now' \in 0 .. MaxTime /\ UNCHANGED <<cache, nextCas>>
    BY StubAssumption DEF Clock, Tick, TypeInv, StubInv, StubTypeOK
  <1>2. StubInv' /\ Removes({})
    BY <1>1 DEF TypeInv, StubInv, StubTypeOK, EntryOK, Removes
  <1>3. UNCHANGED <<ds, local, casIds, pc, at, val, snap, tries, was, mark, loose>>
    BY DEF Clock, callVars, historyVars
  <1> QED BY <1>2, <1>3 DEF TypeInv, DataTypes, HistoryTypes, CallTypes

LEMMA TypeStep == ASSUME TypeInv, [Next]_vars PROVE TypeInv'
  <1>1. ASSUME NEW c \in Contexts, Step(c)
        PROVE  TypeInv'
    <2>1. CASE \E k \in Keys :
                 \/ Get(c, k) \/ Delete(c, k) \/ Transaction(c, k)
                 \/ \E v \in Texts : Put(c, k, v)
      BY <2>1, GetTypes, DeleteTypes, TransactionTypes, PutTypes
    <2>2. CASE LockToFill(c) \/ GetsLock(c) \/ ReadDatastore(c) \/ Fill(c)
      BY <2>2, LockToFillTypes, GetsLockTypes, ReadDatastoreTypes, FillTypes
    <2>3. CASE Write(c) \/ Clear(c) \/ Erase(c)
      BY <2>3, WriteTypes, ClearTypes, EraseTypes
    <2>4. CASE \/ GetInTxn(c) \/ (\E v \in Found : WriteInTxn(c, v))
               \/ Commit(c) \/ CommitFails(c)
      BY <2>4, GetInTxnTypes, WriteInTxnTypes, CommitTypes, CommitFailsTypes
    <2>5. CASE Raise(c) \/ NewContext(c)
      BY <2>5, RaiseTypes, NewContextTypes
    <2> QED BY <1>1, <2>1, <2>2, <2>3, <2>4, <2>5 DEF Step
  <1>2. CASE UNCHANGED vars
    <2>1. /\ StubInv'
          /\ UNCHANGED <<ds, local, casIds, pc, at, val, snap, tries, was, mark, loose>>
      BY <1>2, SameStub DEF vars, callVars, historyVars, TypeInv
    <2> QED BY <2>1 DEF TypeInv, DataTypes, HistoryTypes, CallTypes
  <1> QED BY <1>1, <1>2, FlushTypes, ClockTypes DEF Next

LEMMA TypeInit == Init => TypeInv
  <1> SUFFICES ASSUME Init
               PROVE  TypeInv
    OBVIOUS
  <1>1. StubInv
    BY StubAssumption DEF Init, StubInit, StubInv, StubTypeOK, EntryOK
  <1>2. DataTypes
    BY DEF Init, DataTypes, NoCas
  <1>3. HistoryTypes
    BY DEF Init, HistoryTypes, NoCas
  <1>4. CallTypes
    BY NdbAssumption DEF Init, CallTypes, Places
  <1> QED BY <1>1, <1>2, <1>3, <1>4 DEF TypeInv

\* What the calls hold between their steps is of the kind that their next step
\* expects, and entries are well formed whoever stores them.
THEOREM NdbTypes == Spec => []TypeOK
  <1>1. TypeInv => TypeOK
    BY DEF TypeInv, StubInv, DataTypes, HistoryTypes, CallTypes, TypeOK
  <1> QED BY TypeInit, TypeStep, <1>1, PTL DEF Spec

-----------------------------------------------------------------------------
(* Memcache is current.                                                    *)

\* Contexts remember ids that were handed out.
IdsOld ==
  \A c \in Contexts :
    mark[c] < nextCas /\ \A k \in Keys : casIds[c][k] < nextCas

\* Somebody is about to delete what memcache has, or nobody will.
Excused(k) == Pending(k) \/ loose[k]

\* An entity in memcache is that of the datastore.
EntrySafe(k) ==
  cache[k] # NoEntry /\ cache[k].value \in Texts /\ cache[k].value # ds[k] =>
    Excused(k)

\* What a get is about to store is that of the datastore, or its id is old.
FillSafe(c) ==
  /\ pc[c] = "fill"
  /\ cache[at[c]] # NoEntry /\ cache[at[c]].cas = casIds[c][at[c]]
  /\ val[c] # ds[at[c]]
  => Excused(at[c])

\* The entry with the id of a delete's lock is a lock.
MarkSafe(c) ==
  pc[c] = "erase" /\ cache[at[c]] # NoEntry /\ cache[at[c]].cas = mark[c] =>
    cache[at[c]].value = Locked

CurrentInv ==
  /\ IdsOld
  /\ \A k \in Keys : EntrySafe(k)
  /\ \A c \in Contexts : FillSafe(c) /\ MarkSafe(c)

\* A step of one context leaves the calls of the others alone.
Alone(c) ==
  \A d \in Contexts \ {c} :
    /\ pc'[d] = pc[d] /\ at'[d] = at[d] /\ val'[d] = val[d] /\ mark'[d] = mark[d]
    /\ casIds'[d] = casIds[d] /\ local'[d] = local[d]

\* A context neither comes to fill memcache nor to erase an entity: it was
\* there before, or goes elsewhere.
Elsewhere(c) ==
  /\ pc'[c] = "fill" =>
       /\ pc[c] = "fill" /\ at'[c] = at[c] /\ val'[c] = val[c]
       /\ casIds'[c] = casIds[c]
  /\ pc'[c] = "erase" => pc[c] = "erase" /\ at'[c] = at[c] /\ mark'[c] = mark[c]

LEMMA AloneElsewhere ==
  ASSUME NEW c \in Contexts, Alone(c), pc'[c] \notin {"fill", "erase"}
  PROVE  \A d \in Contexts : Elsewhere(d)
  BY DEF Alone, Elsewhere

LEMMA StepAlone ==
  ASSUME TypeInv, NEW c \in Contexts, Step(c)
  PROVE  Alone(c)
  <1> USE DEF Alone, TypeInv, DataTypes, HistoryTypes, CallTypes
  <1>1. ASSUME NEW k \in Keys, Get(c, k)
        PROVE  Alone(c)
    BY <1>1 DEF Get, RememberId, Remember, Begin, callVars, historyVars
  <1>2. ASSUME NEW k \in Keys, Delete(c, k)
        PROVE  Alone(c)
    BY <1>2 DEF Delete, Begin
  <1>3. ASSUME NEW k \in Keys, Transaction(c, k)
        PROVE  Alone(c)
    BY <1>3 DEF Transaction, historyVars
  <1>4. ASSUME NEW k \in Keys, NEW v \in Texts, Put(c, k, v)
        PROVE  Alone(c)
    BY <1>4 DEF Put, Begin
  <1>5. CASE LockToFill(c)
    BY <1>5 DEF LockToFill, Goto
  <1>6. CASE GetsLock(c)
    BY <1>6 DEF GetsLock, RememberId, Goto, historyVars
  <1>7. CASE ReadDatastore(c)
    BY <1>7 DEF ReadDatastore, Remember, End, historyVars
  <1>8. CASE Fill(c)
    BY <1>8 DEF Fill, Remember, End, historyVars
  <1>9. CASE Write(c)
    BY <1>9 DEF Write
  <1>10. CASE Clear(c)
    BY <1>10 DEF Clear, Remember, End
  <1>11. CASE Erase(c)
    BY <1>11 DEF Erase, Remember
  <1>12. CASE GetInTxn(c)
    BY <1>12 DEF GetInTxn, historyVars
  <1>13. ASSUME NEW v \in Found, WriteInTxn(c, v)
         PROVE  Alone(c)
    BY <1>13 DEF WriteInTxn
  <1>14. CASE Commit(c)
    BY <1>14 DEF Commit
  <1>15. CASE CommitFails(c)
    BY <1>15 DEF CommitFails, End, historyVars
  <1>16. CASE Raise(c)
    BY <1>16 DEF Raise, End
  <1>17. CASE NewContext(c)
    BY <1>17 DEF NewContext, callVars, historyVars
  <1> HIDE DEF Alone
  <1> QED
    BY <1>1, <1>2, <1>3, <1>4, <1>5, <1>6, <1>7, <1>8, <1>9, <1>10, <1>11, <1>12,
       <1>13, <1>14, <1>15, <1>16, <1>17 DEF Step

\* Who is on its way to delete stays on its way when another context moves.
LEMMA PendingKept ==
  ASSUME NEW c \in Contexts, Alone(c), NEW k, Pending(k),
         pc[c] # "clear" \/ at[c] # k
  PROVE  Pending(k)'
  <1>1. PICK d \in Contexts : pc[d] = "clear" /\ at[d] = k
    BY DEF Pending
  <1> QED BY <1>1 DEF Alone, Pending

LEMMA ExcusedKept ==
  ASSUME NEW c \in Contexts, Alone(c), pc[c] # "clear", NEW k,
         Excused(k), loose[k] => loose'[k]
  PROVE  Excused(k)'
  BY PendingKept, Zenon DEF Excused

\* Steps that take entries away, and bring no context to where it matters.
LEMMA RemovesSafe ==
  ASSUME TypeInv, TypeInv', CurrentInv, NEW from, Removes(from), UNCHANGED ds, IdsOld',
         \A k \in Keys : cache'[k] # NoEntry /\ Excused(k) => Excused(k)',
         \A c \in Contexts : Elsewhere(c)
  PROVE  CurrentInv'
  <1>1. ASSUME NEW k \in Keys
        PROVE  EntrySafe(k)'
    BY <1>1 DEF CurrentInv, EntrySafe, Removes
  <1>2. ASSUME NEW c \in Contexts
        PROVE  FillSafe(c)'
    <2> SUFFICES ASSUME pc'[c] = "fill", cache'[at'[c]] # NoEntry,
                        cache'[at'[c]].cas = casIds'[c][at'[c]],
                        val'[c] # ds'[at'[c]]
                 PROVE  Excused(at[c])'
      BY DEF FillSafe
    <2>1. /\ pc[c] = "fill" /\ at'[c] = at[c] /\ val'[c] = val[c]
          /\ casIds'[c] = casIds[c]
      BY DEF Elsewhere
    <2>2. at[c] \in Keys
      BY <2>1, BusyKey DEF TypeInv
    <2>3. cache'[at[c]] = cache[at[c]]
      BY <2>1, <2>2 DEF Removes
    <2>4. Excused(at[c])
      BY <2>1, <2>3 DEF CurrentInv, FillSafe
    <2>5. Excused(at[c])' <=> \E k \in Keys : k = at[c] /\ Excused(k)'
      BY <2>1, <2>2 DEF Excused, Pending
    <2> QED BY <2>1, <2>2, <2>3, <2>4, <2>5
  <1>3. ASSUME NEW c \in Contexts
        PROVE  MarkSafe(c)'
    <2> SUFFICES ASSUME pc'[c] = "erase", cache'[at'[c]] # NoEntry,
                        cache'[at'[c]].cas = mark'[c]
                 PROVE  cache'[at'[c]].value = Locked
      BY DEF MarkSafe
    <2>1. pc[c] = "erase" /\ at'[c] = at[c] /\ mark'[c] = mark[c]
      BY DEF Elsewhere
    <2>2. at[c] \in Keys
      BY <2>1, BusyKey DEF TypeInv
    <2>3. cache'[at[c]] = cache[at[c]]
      BY <2>1, <2>2 DEF Removes
    <2> QED BY <2>1, <2>3 DEF CurrentInv, MarkSafe
  <1> QED BY <1>1, <1>2, <1>3 DEF CurrentInv

\* Steps that store a lock, or what the datastore holds.
LEMMA PutsSafe ==
  ASSUME TypeInv, TypeInv', CurrentInv, UNCHANGED <<ds, casIds>>, IdsOld',
         NEW k \in Keys, NEW v, Puts(k, v),
         v = Locked \/ v = ds[k] \/ Excused(k)',
         \A h \in Keys \ {k} : Excused(h) => Excused(h)',
         \A c \in Contexts :
           Elsewhere(c) \/ (pc'[c] = "erase" /\ at'[c] = k /\ v = Locked)
  PROVE  CurrentInv'
  <1>1. /\ nextCas \in Nat
        /\ \A c \in Contexts : mark[c] \in Nat /\ \A h \in Keys : casIds[c][h] \in Nat
    BY StubNumbers DEF TypeInv, StubInv, HistoryTypes, DataTypes
  <1>2. ASSUME NEW h \in Keys
        PROVE  EntrySafe(h)'
    <2>1. CASE h = k
      BY <2>1, LockedIsNumber DEF Puts, EntrySafe
    <2>2. CASE h # k
      BY <2>2 DEF CurrentInv, EntrySafe, Puts
    <2> QED BY <2>1, <2>2
  <1>3. ASSUME NEW c \in Contexts
        PROVE  FillSafe(c)'
    <2> SUFFICES ASSUME pc'[c] = "fill", cache'[at'[c]] # NoEntry,
                        cache'[at'[c]].cas = casIds'[c][at'[c]],
                        val'[c] # ds'[at'[c]]
                 PROVE  Excused(at[c])'
      BY DEF FillSafe
    <2>1. pc[c] = "fill" /\ at'[c] = at[c] /\ val'[c] = val[c]
      BY DEF Elsewhere
    <2>2. at[c] \in Keys
      BY <2>1, BusyKey DEF TypeInv
    <2>3. at[c] # k
      <3>1. casIds[c][at[c]] < nextCas /\ casIds[c][at[c]] \in Nat
        BY <1>1, <2>2 DEF CurrentInv, IdsOld
      <3> QED BY <1>1, <2>1, <3>1 DEF Puts
    <2>4. cache'[at[c]] = cache[at[c]]
      BY <2>2, <2>3 DEF Puts
    <2>5. Excused(at[c])
      BY <2>1, <2>4 DEF CurrentInv, FillSafe
    <2>6. Excused(at[c])' <=> \E h \in Keys : h = at[c] /\ Excused(h)'
      BY <2>1, <2>2 DEF Excused, Pending
    <2> QED BY <2>2, <2>3, <2>5, <2>6
  <1>4. ASSUME NEW c \in Contexts
        PROVE  MarkSafe(c)'
    <2> SUFFICES ASSUME pc'[c] = "erase", cache'[at'[c]] # NoEntry,
                        cache'[at'[c]].cas = mark'[c]
                 PROVE  cache'[at'[c]].value = Locked
      BY DEF MarkSafe
    <2>1. CASE at'[c] = k /\ v = Locked
      BY <2>1 DEF Puts
    <2>2. CASE Elsewhere(c)
      <3>1. pc[c] = "erase" /\ at'[c] = at[c] /\ mark'[c] = mark[c]
        BY <2>2 DEF Elsewhere
      <3>2. at[c] \in Keys
        BY <3>1, BusyKey DEF TypeInv
      <3>3. at[c] # k
        <4>1. mark[c] < nextCas /\ mark[c] \in Nat
          BY <1>1 DEF CurrentInv, IdsOld
        <4> QED BY <1>1, <3>1, <4>1 DEF Puts
      <3>4. cache'[at[c]] = cache[at[c]]
        BY <3>2, <3>3 DEF Puts
      <3> QED BY <3>1, <3>4 DEF CurrentInv, MarkSafe
    <2> QED BY <2>1, <2>2
  <1> QED BY <1>2, <1>3, <1>4 DEF CurrentInv

\* Memcache has no entity of the key, and nobody has the id to store one.
Sealed(k) ==
  /\ cache[k] # NoEntry => cache[k].value \notin Texts
  /\ \A d \in Contexts :
       pc[d] = "fill" /\ at[d] = k /\ cache[k] # NoEntry => casIds[d][k] # cache[k].cas

\* A key of the datastore is written.
LEMMA WriteSafe ==
  ASSUME TypeInv, TypeInv', CurrentInv, UNCHANGED <<cache, nextCas, casIds>>, IdsOld',
         NEW k \in Keys, NEW v \in Found, WriteDatastore(k, v),
         Excused(k)' \/ Sealed(k),
         \A h \in Keys \ {k} : Excused(h) => Excused(h)',
         \A c \in Contexts : Elsewhere(c)
  PROVE  CurrentInv'
  <1>1. \A h \in Keys \ {k} : ds'[h] = ds[h]
    BY DEF WriteDatastore
  <1>2. ASSUME NEW h \in Keys
        PROVE  EntrySafe(h)'
    <2>1. CASE h = k
      BY <2>1 DEF EntrySafe, Sealed
    <2>2. CASE h # k
      BY <1>1, <2>2 DEF CurrentInv, EntrySafe
    <2> QED BY <2>1, <2>2
  <1>3. ASSUME NEW c \in Contexts
        PROVE  FillSafe(c)'
    <2> SUFFICES ASSUME pc'[c] = "fill", cache'[at'[c]] # NoEntry,
                        cache'[at'[c]].cas = casIds'[c][at'[c]],
                        val'[c] # ds'[at'[c]]
                 PROVE  Excused(at[c])'
      BY DEF FillSafe
    <2>1. pc[c] = "fill" /\ at'[c] = at[c] /\ val'[c] = val[c]
      BY DEF Elsewhere
    <2>2. at[c] \in Keys
      BY <2>1, BusyKey DEF TypeInv
    <2>3. Excused(at[c])' <=> \E h \in Keys : h = at[c] /\ Excused(h)'
      BY <2>1, <2>2 DEF Excused, Pending
    <2>4. CASE at[c] = k
      <3>1. casIds[c][k] = cache[k].cas /\ cache[k] # NoEntry
        BY <2>1, <2>4
      <3>2. ~ Sealed(k)
        BY <2>1, <2>4, <3>1 DEF Sealed
      <3> QED BY <2>2, <2>3, <2>4, <3>2
    <2>5. CASE at[c] # k
      <3>1. Excused(at[c])
        BY <1>1, <2>1, <2>2, <2>5 DEF CurrentInv, FillSafe
      <3> QED BY <2>2, <2>3, <2>5, <3>1
    <2> QED BY <2>4, <2>5
  <1>4. ASSUME NEW c \in Contexts
        PROVE  MarkSafe(c)'
    BY DEF CurrentInv, MarkSafe, Elsewhere
  <1> QED BY <1>2, <1>3, <1>4 DEF CurrentInv

LEMMA IdsKept ==
  ASSUME TypeInv, TypeInv', CurrentInv, NEW c \in Contexts, Alone(c),
         nextCas' = nextCas \/ nextCas' = nextCas + 1,
         mark'[c] < nextCas', \A k \in Keys : casIds'[c][k] < nextCas'
  PROVE  IdsOld'
  <1>1. /\ nextCas \in Nat
        /\ \A d \in Contexts : mark[d] \in Nat /\ \A h \in Keys : casIds[d][h] \in Nat
    BY StubNumbers DEF TypeInv, StubInv, HistoryTypes, DataTypes
  <1>2. \A d \in Contexts \ {c} : mark[d] < nextCas /\ \A h \in Keys : casIds[d][h] < nextCas
    BY DEF CurrentInv, IdsOld
  <1>3. \A i \in Nat : i < nextCas => i < nextCas'
    BY <1>1
  <1>4. \A d \in Contexts \ {c} :
          mark'[d] < nextCas' /\ \A h \in Keys : casIds'[d][h] < nextCas'
    BY <1>1, <1>2, <1>3 DEF Alone
  <1> QED BY <1>4 DEF IdsOld

LEMMA IdsUnchanged ==
  ASSUME TypeInv, CurrentInv, UNCHANGED <<casIds, mark>>,
         nextCas' = nextCas \/ nextCas' = nextCas + 1
  PROVE  IdsOld'
  <1>1. /\ nextCas \in Nat
        /\ \A d \in Contexts : mark[d] \in Nat /\ \A h \in Keys : casIds[d][h] \in Nat
    BY StubNumbers DEF TypeInv, StubInv, HistoryTypes, DataTypes
  <1>2. \A i \in Nat : i < nextCas => i < nextCas'
    BY <1>1
  <1> QED BY <1>1, <1>2 DEF CurrentInv, IdsOld

LEMMA RememberIdOld ==
  ASSUME TypeInv, CurrentInv, NEW c \in Contexts, NEW k \in Keys,
         RememberId(c, k), UNCHANGED <<nextCas, mark>>
  PROVE  IdsOld'
  <1>1. Visible(k, now) => GetKey(k).cas < nextCas
    BY DEF Visible, GetKey, TypeInv, StubInv, EntryOK
  <1> QED BY <1>1 DEF RememberId, TypeInv, DataTypes, CurrentInv, IdsOld

\* The next steps of the calls, one by one.
LEMMA GetCurrent ==
  ASSUME TypeInv, TypeInv', CurrentInv, NEW c \in Contexts, Alone(c),
         NEW k \in Keys, Get(c, k)
  PROVE  CurrentInv'
  <1>1. Removes({k}) /\ UNCHANGED <<ds, nextCas, mark, loose>> /\ RememberId(c, k)
    BY StubGetStep DEF Get, TypeInv, historyVars, Removes
  <1>2. IdsOld'
    BY <1>1, RememberIdOld
  <1>3. pc[c] = "idle" /\ pc'[c] \in {"idle", "look", "miss"}
    BY DEF Get, Begin, callVars, TypeInv, CallTypes
  <1>4. \A h \in Keys : Excused(h) => Excused(h)'
    BY <1>1, <1>3, ExcusedKept
  <1> QED BY <1>1, <1>2, <1>3, <1>4, AloneElsewhere, RemovesSafe

LEMMA GetsLockCurrent ==
  ASSUME TypeInv, TypeInv', CurrentInv, NEW c \in Contexts, Alone(c), GetsLock(c)
  PROVE  CurrentInv'
  <1>1. at[c] \in Keys /\ pc[c] = "gets" /\ pc'[c] = "read"
    BY BusyKey DEF GetsLock, Goto, TypeInv, CallTypes
  <1>2. /\ Removes({at[c]}) /\ UNCHANGED <<ds, nextCas, mark, loose>>
        /\ RememberId(c, at[c])
    BY <1>1, StubGetStep DEF GetsLock, TypeInv, historyVars, Removes
  <1>3. IdsOld'
    BY <1>1, <1>2, RememberIdOld
  <1>4. \A h \in Keys : Excused(h) => Excused(h)'
    BY <1>1, <1>2, ExcusedKept
  <1> QED BY <1>1, <1>2, <1>3, <1>4, AloneElsewhere, RemovesSafe

\* A step that does not touch memcache, the datastore or what the history
\* says of them, and is not the end of a writing call.
LEMMA IdleCurrent ==
  ASSUME TypeInv, TypeInv', CurrentInv, NEW c \in Contexts, Alone(c),
         UNCHANGED <<stubVars, ds, casIds, mark, loose>>, pc[c] # "clear",
         pc'[c] \notin {"fill", "erase"}
  PROVE  CurrentInv'
  <1>1. Removes({}) /\ UNCHANGED nextCas
    BY SameStub DEF TypeInv, Removes
  <1>2. IdsOld'
    BY <1>1, IdsUnchanged
  <1>3. \A h \in Keys : Excused(h) => Excused(h)'
    BY ExcusedKept
  <1> QED BY <1>1, <1>2, <1>3, AloneElsewhere, RemovesSafe

LEMMA ReadDatastoreCurrent ==
  ASSUME TypeInv, TypeInv', CurrentInv, NEW c \in Contexts, Alone(c), ReadDatastore(c)
  PROVE  CurrentInv'
  <1>1. /\ UNCHANGED <<stubVars, ds, casIds, mark, loose>>
        /\ pc[c] \in {"look", "read"} /\ at[c] \in Keys
    BY BusyKey DEF ReadDatastore, historyVars, TypeInv
  <1>2. CASE pc'[c] # "fill"
    <2>1. pc'[c] = "idle"
      BY <1>2 DEF ReadDatastore, End, TypeInv, CallTypes
    <2> QED BY <1>1, <2>1, IdleCurrent
  <1>3. CASE pc'[c] = "fill"
    <2>1. at'[c] = at[c] /\ val'[c] = ds[at[c]]
      BY <1>3 DEF ReadDatastore, End, TypeInv, CallTypes
    <2>2. UNCHANGED <<cache, nextCas>>
      BY <1>1 DEF stubVars
    <2>3. IdsOld'
      BY <1>1, <2>2, IdsUnchanged
    <2>4. \A h \in Keys : Excused(h) => Excused(h)'
      BY <1>1, ExcusedKept
    <2>5. ASSUME NEW h \in Keys
          PROVE  EntrySafe(h)'
      BY <1>1, <2>2, <2>4 DEF CurrentInv, EntrySafe
    <2>6. FillSafe(c)'
      BY <1>1, <2>1 DEF FillSafe
    <2>7. ASSUME NEW d \in Contexts \ {c}
          PROVE  FillSafe(d)'
      <3> SUFFICES ASSUME pc[d] = "fill", cache[at[d]] # NoEntry,
                          cache[at[d]].cas = casIds[d][at[d]],
                          val[d] # ds[at[d]]
                   PROVE  Excused(at[d])'
        BY <1>1, <2>2 DEF FillSafe, Alone
      <3>1. at[d] \in Keys /\ Excused(at[d])
        BY BusyKey DEF TypeInv, CurrentInv, FillSafe
      <3>2. Excused(at[d])' <=> \E h \in Keys : h = at[d] /\ Excused(h)'
        BY <3>1 DEF Excused, Pending, Alone
      <3> QED BY <2>4, <3>1, <3>2
    <2>8. ASSUME NEW d \in Contexts
          PROVE  MarkSafe(d)'
      BY <1>1, <1>3, <2>2 DEF CurrentInv, MarkSafe, Alone
    <2> QED BY <2>3, <2>5, <2>6, <2>7, <2>8 DEF CurrentInv
  <1> QED BY <1>2, <1>3

LEMMA FillCurrent ==
  ASSUME TypeInv, TypeInv', CurrentInv, NEW c \in Contexts, Alone(c), Fill(c)
  PROVE  CurrentInv'
  <1>1. /\ pc[c] = "fill" /\ at[c] \in Keys /\ val[c] \in Texts
        /\ casIds[c][at[c]] \in Nat
    BY BusyKey DEF Fill, TypeInv, CallTypes, DataTypes
  <1>2. /\ pc'[c] = "idle"
        /\ UNCHANGED <<ds, casIds, mark, loose>>
    BY DEF Fill, End, historyVars, TypeInv, CallTypes
  <1>3. \A h \in Keys : Excused(h) => Excused(h)'
    BY <1>1, <1>2, ExcusedKept
  <1>4. \A d \in Contexts : Elsewhere(d)
    BY <1>2, AloneElsewhere
  <1>5. CASE Removes({at[c]})
    <2>1. IdsOld'
      BY <1>2, <1>5, IdsUnchanged DEF Removes
    <2> QED BY <1>2, <1>3, <1>4, <1>5, <2>1, RemovesSafe
  <1>6. CASE /\ Puts(at[c], val[c])
             /\ cache[at[c]] # NoEntry /\ cache[at[c]].cas = casIds[c][at[c]]
    <2>1. IdsOld'
      BY <1>2, <1>6, IdsUnchanged DEF Puts
    <2>2. val[c] = ds[at[c]] \/ Excused(at[c])
      BY <1>1, <1>6 DEF CurrentInv, FillSafe
    <2>3. PICK k \in Keys, v \in Texts : k = at[c] /\ v = val[c]
      BY <1>1
    <2>4. v = ds[k] \/ Excused(k)'
      BY <1>3, <2>2, <2>3
    <2> QED BY <1>2, <1>3, <1>4, <1>6, <2>1, <2>3, <2>4, PutsSafe
  <1>7. Removes({at[c]})
        \/ (/\ Puts(at[c], val[c])
            /\ cache[at[c]] # NoEntry /\ cache[at[c]].cas = casIds[c][at[c]])
    BY <1>1, FillStep DEF Fill, TypeInv
  <1> QED BY <1>5, <1>6, <1>7

\* Whoever sets the lock.
LEMMA SetLockedCurrent ==
  ASSUME TypeInv, TypeInv', CurrentInv, NEW c \in Contexts, Alone(c),
         NEW k \in Keys, SetLocked(k), UNCHANGED <<ds, casIds>>,
         mark'[c] = mark[c] \/ mark'[c] = nextCas,
         pc[c] # "clear", pc'[c] # "fill", pc'[c] = "erase" => at'[c] = k
  PROVE  CurrentInv'
  <1>1. Puts(k, Locked)
    BY SetLockedStep DEF TypeInv
  <1>2. IdsOld'
    <2>1. nextCas \in Nat /\ nextCas' = nextCas + 1
      BY <1>1, StubNumbers DEF Puts, TypeInv, StubInv
    <2>2. mark[c] \in Nat /\ \A h \in Keys : casIds[c][h] \in Nat
      BY DEF TypeInv, HistoryTypes, DataTypes
    <2>3. mark[c] < nextCas /\ \A h \in Keys : casIds[c][h] < nextCas
      BY DEF CurrentInv, IdsOld
    <2>4. \A i \in Nat : i < nextCas => i < nextCas + 1
      BY <2>1
    <2>5. mark'[c] < nextCas' /\ \A h \in Keys : casIds'[c][h] < nextCas'
      BY <2>1, <2>2, <2>3, <2>4
    <2> QED BY <2>1, <2>5, IdsKept
  <1>3. ASSUME NEW h \in Keys \ {k}, Excused(h)
        PROVE  Excused(h)'
    <2>1. loose[h] => loose'[h]
      BY Zenon DEF SetLocked, TypeInv, HistoryTypes
    <2> QED BY <1>3, <2>1, ExcusedKept
  <1>4. ASSUME NEW d \in Contexts
        PROVE  Elsewhere(d) \/ (pc'[d] = "erase" /\ at'[d] = k)
    BY DEF Elsewhere, Alone
  <1> QED BY <1>1, <1>2, <1>3, <1>4, PutsSafe

LEMMA LockersCurrent ==
  ASSUME TypeInv, TypeInv', CurrentInv, NEW c \in Contexts, Alone(c),
         \/ LockToFill(c) \/ (\E v \in Found : WriteInTxn(c, v))
         \/ \E k \in Keys : Delete(c, k) \/ \E v \in Texts : Put(c, k, v)
  PROVE  CurrentInv'
  <1> USE DEF TypeInv, CallTypes, HistoryTypes
  <1>1. CASE LockToFill(c)
    <2>1. /\ at[c] \in Keys /\ SetLocked(at[c]) /\ UNCHANGED <<ds, casIds, mark>>
          /\ pc[c] = "miss" /\ pc'[c] = "gets"
      BY <1>1, BusyKey DEF LockToFill, Goto
    <2> QED BY <2>1, SetLockedCurrent
  <1>2. ASSUME NEW v \in Found, WriteInTxn(c, v)
        PROVE  CurrentInv'
    <2>1. /\ at[c] \in Keys /\ SetLocked(at[c]) /\ UNCHANGED <<ds, casIds, mark>>
          /\ pc[c] = "txn" /\ pc'[c] = "commit"
      BY <1>2, BusyKey DEF WriteInTxn
    <2> QED BY <2>1, SetLockedCurrent
  <1>3. ASSUME NEW k \in Keys, Delete(c, k)
        PROVE  CurrentInv'
    <2>1. /\ SetLocked(k) /\ UNCHANGED <<ds, casIds>> /\ mark'[c] = nextCas
          /\ pc[c] = "idle" /\ pc'[c] = "erase" /\ at'[c] = k
      BY <1>3 DEF Delete, Begin
    <2> QED BY <2>1, SetLockedCurrent
  <1>4. ASSUME NEW k \in Keys, NEW v \in Texts, Put(c, k, v)
        PROVE  CurrentInv'
    <2>1. /\ SetLocked(k) /\ UNCHANGED <<ds, casIds, mark>>
          /\ pc[c] = "idle" /\ pc'[c] = "write"
      BY <1>4 DEF Put, Begin
    <2> QED BY <2>1, SetLockedCurrent
  <1> QED BY <1>1, <1>2, <1>3, <1>4

\* The datastore is written by who will clear memcache.
LEMMA WillClear ==
  ASSUME TypeInv, TypeInv', CurrentInv, NEW c \in Contexts, Alone(c),
         NEW k \in Keys, NEW v \in Found, WriteDatastore(k, v),
         UNCHANGED <<stubVars, casIds, mark, loose>>,
         pc[c] # "clear", pc'[c] = "clear", at'[c] = k
  PROVE  CurrentInv'
  <1>1. UNCHANGED <<cache, nextCas>>
    BY DEF stubVars
  <1>2. IdsOld'
    BY <1>1, IdsUnchanged
  <1>3. Excused(k)'
    BY DEF Excused, Pending
  <1>4. \A h \in Keys \ {k} : Excused(h) => Excused(h)'
    BY ExcusedKept
  <1> QED BY <1>1, <1>2, <1>3, <1>4, AloneElsewhere, WriteSafe

LEMMA WriteCurrent ==
  ASSUME TypeInv, TypeInv', CurrentInv, NEW c \in Contexts, Alone(c), Write(c)
  PROVE  CurrentInv'
  <1>1. /\ pc[c] = "write" /\ pc'[c] = "clear" /\ at'[c] = at[c]
        /\ at[c] \in Keys /\ val[c] \in Found /\ WriteDatastore(at[c], val[c])
        /\ UNCHANGED <<stubVars, casIds, mark, loose>>
    BY BusyKey DEF Write, TypeInv, CallTypes
  <1> QED BY <1>1, WillClear

LEMMA CommitCurrent ==
  ASSUME TypeInv, TypeInv', CurrentInv, NEW c \in Contexts, Alone(c), Commit(c)
  PROVE  CurrentInv'
  <1>1. /\ UNCHANGED <<stubVars, casIds, mark, loose>> /\ at[c] \in Keys
        /\ pc[c] \in {"txn", "commit"} /\ pc'[c] \in {"idle", "clear"}
    BY BusyKey DEF Commit, TypeInv, CallTypes
  <1>2. CASE UNCHANGED ds
    BY <1>1, <1>2, IdleCurrent
  <1>3. CASE pc[c] = "commit" /\ WriteDatastore(at[c], val[c])
    <2>1. val[c] \in Found /\ val[c] # NotCached
      BY <1>3, NdbAssumption DEF TypeInv, CallTypes, Found
    <2>2. pc'[c] = "clear" /\ at'[c] = at[c]
      BY <2>1 DEF Commit, TypeInv, CallTypes
    <2> QED BY <1>1, <1>3, <2>1, <2>2, WillClear
  <1> QED BY <1>2, <1>3 DEF Commit

LEMMA ClearCurrent ==
  ASSUME TypeInv, TypeInv', CurrentInv, NEW c \in Contexts, Alone(c), Clear(c)
  PROVE  CurrentInv'
  <1>1. /\ at[c] \in Keys /\ pc'[c] = "idle" /\ UNCHANGED <<ds, casIds, mark>>
    BY BusyKey DEF Clear, End, TypeInv, CallTypes
  <1>2. Removes({at[c]}) /\ cache'[at[c]] = NoEntry
    BY <1>1, DeleteStep DEF Clear, TypeInv
  <1>3. IdsOld'
    BY <1>1, <1>2, IdsUnchanged DEF Removes
  <1>4. ASSUME NEW h \in Keys, cache'[h] # NoEntry, Excused(h)
        PROVE  Excused(h)'
    <2>1. h # at[c]
      BY <1>2, <1>4
    <2>2. loose[h] => loose'[h]
      BY <2>1, Zenon DEF Clear, TypeInv, HistoryTypes
    <2>3. CASE Pending(h)
      BY <2>1, <2>3, PendingKept, Zenon DEF Excused
    <2>4. CASE loose[h]
      BY <2>2, <2>4, Zenon DEF Excused
    <2> QED BY <1>4, <2>3, <2>4, Zenon DEF Excused
  <1> QED BY <1>1, <1>2, <1>3, <1>4, AloneElsewhere, RemovesSafe

LEMMA RaiseCurrent ==
  ASSUME TypeInv, TypeInv', CurrentInv, NEW c \in Contexts, Alone(c), Raise(c)
  PROVE  CurrentInv'
  <1>1. /\ at[c] \in Keys /\ pc'[c] = "idle"
        /\ UNCHANGED <<ds, casIds>> /\ mark'[c] = NoCas
    BY BusyKey DEF Raise, End, TypeInv, CallTypes, HistoryTypes
  <1>2. Removes({})
    BY SameStub DEF Raise, TypeInv
  <1>3. IdsOld'
    <2>1. nextCas' = nextCas /\ nextCas > 0
      BY <1>2, StubNumbers DEF Removes, TypeInv, StubInv
    <2>2. mark'[c] < nextCas' /\ \A k \in Keys : casIds'[c][k] < nextCas'
      BY <1>1, <2>1 DEF NoCas, CurrentInv, IdsOld
    <2> QED BY <2>1, <2>2, IdsKept
  <1>4. ASSUME NEW h \in Keys, Excused(h)
        PROVE  Excused(h)'
    <2>1. CASE pc[c] = "clear"
      <3>1. loose'[h] <=> (h = at[c] \/ loose[h])
        BY <2>1, Zenon DEF Raise, TypeInv, HistoryTypes
      <3>2. CASE h = at[c]
        BY <3>1, <3>2, Zenon DEF Excused
      <3>3. CASE h # at[c] /\ Pending(h)
        BY <3>3, PendingKept, Zenon DEF Excused
      <3>4. CASE loose[h]
        BY <3>1, <3>4, Zenon DEF Excused
      <3> QED BY <1>4, <3>2, <3>3, <3>4, Zenon DEF Excused
    <2>2. CASE pc[c] # "clear"
      BY <1>4, <2>2, ExcusedKept, Zenon DEF Raise
    <2> QED BY <2>1, <2>2
  <1> QED BY <1>1, <1>2, <1>3, <1>4, AloneElsewhere, RemovesSafe

LEMMA EraseCurrent ==
  ASSUME TypeInv, TypeInv', CurrentInv, NEW c \in Contexts, Alone(c), Erase(c)
  PROVE  CurrentInv'
  <1>1. /\ at[c] \in Keys /\ pc[c] = "erase" /\ pc'[c] = "idle"
        /\ WriteDatastore(at[c], None) /\ None \in Found
        /\ UNCHANGED <<cache, nextCas, casIds>> /\ mark'[c] = NoCas
    BY BusyKey DEF Erase, TypeInv, CallTypes, HistoryTypes, stubVars, Found
  <1>2. IdsOld'
    <2>1. nextCas > 0
      BY StubNumbers DEF TypeInv, StubInv
    <2>2. mark'[c] < nextCas' /\ \A k \in Keys : casIds'[c][k] < nextCas'
      BY <1>1, <2>1 DEF NoCas, CurrentInv, IdsOld
    <2> QED BY <1>1, <2>2, IdsKept
  <1>3. \A h \in Keys :
          loose'[h] <=> (loose[h] \/ (h = at[c] /\ ~ LockStands(c)))
    BY <1>1, Zenon DEF Erase, TypeInv, HistoryTypes
  <1>4. \A h \in Keys \ {at[c]} : Excused(h) => Excused(h)'
    BY <1>1, <1>3, ExcusedKept, Zenon
  <1>5. ASSUME LockStands(c)
        PROVE  Sealed(at[c])
    <2>1. cache[at[c]].value = Locked /\ cache[at[c]].cas = mark[c]
      BY <1>1, <1>5 DEF LockStands, CurrentInv, MarkSafe
    <2> QED BY <1>5, <2>1, LockedIsNumber DEF LockStands, Sealed
  <1>6. PICK k \in Keys : k = at[c]
    BY <1>1
  <1>7. Excused(k)' \/ Sealed(k)
    <2>1. CASE LockStands(c)
      BY <1>5, <1>6, <2>1
    <2>2. CASE ~ LockStands(c)
      BY <1>3, <1>6, <2>2, Zenon DEF Excused
    <2> QED BY <2>1, <2>2
  <1> QED BY <1>1, <1>2, <1>4, <1>6, <1>7, AloneElsewhere, WriteSafe

LEMMA OthersCurrent ==
  ASSUME TypeInv, TypeInv', CurrentInv, NEW c \in Contexts, Alone(c),
         \/ GetInTxn(c) \/ CommitFails(c) \/ NewContext(c)
         \/ \E k \in Keys : Transaction(c, k)
  PROVE  CurrentInv'
  <1>1. CASE NewContext(c)
    <2>1. /\ UNCHANGED <<stubVars, ds, mark, loose>>
          /\ pc[c] = "idle" /\ pc'[c] = "idle"
          /\ \A k \in Keys : casIds'[c][k] = NoCas
      BY <1>1 DEF NewContext, callVars, historyVars, TypeInv, DataTypes
    <2>2. Removes({})
      BY <2>1, SameStub DEF TypeInv
    <2>3. IdsOld'
      <3>1. nextCas' = nextCas /\ nextCas > 0
        BY <2>2, StubNumbers DEF Removes, TypeInv, StubInv
      <3>2. mark'[c] < nextCas' /\ \A k \in Keys : casIds'[c][k] < nextCas'
        BY <2>1, <3>1 DEF NoCas, CurrentInv, IdsOld
      <3> QED BY <3>1, <3>2, IdsKept
    <2>4. \A h \in Keys : Excused(h) => Excused(h)'
      BY <2>1, ExcusedKept
    <2> QED BY <2>1, <2>2, <2>3, <2>4, AloneElsewhere, RemovesSafe
  <1>2. CASE \/ GetInTxn(c) \/ CommitFails(c)
             \/ \E k \in Keys : Transaction(c, k)
    <2>1. UNCHANGED <<stubVars, ds, casIds, mark, loose>>
      BY <1>2 DEF GetInTxn, CommitFails, Transaction, historyVars
    <2>2. pc[c] \in {"idle", "txn", "commit"} /\ pc'[c] \in {"txn", "idle"}
      BY <1>2 DEF GetInTxn, CommitFails, Transaction, End, TypeInv, CallTypes
    <2> QED BY <2>1, <2>2, IdleCurrent
  <1> QED BY <1>1, <1>2

LEMMA CurrentStep == ASSUME TypeInv, CurrentInv, [Next]_vars PROVE CurrentInv'
  <1>0. TypeInv'
    BY TypeStep
  <1>1. ASSUME NEW c \in Contexts, Step(c)
        PROVE  CurrentInv'
    <2>0. Alone(c)
      BY <1>1, StepAlone
    <2>1. CASE \E k \in Keys : Get(c, k)
      BY <1>0, <2>0, <2>1, GetCurrent
    <2>2. CASE \/ LockToFill(c) \/ (\E v \in Found : WriteInTxn(c, v))
               \/ \E k \in Keys : Delete(c, k) \/ \E v \in Texts : Put(c, k, v)
      BY <1>0, <2>0, <2>2, LockersCurrent
    <2>3. CASE GetsLock(c) \/ ReadDatastore(c) \/ Fill(c)
      BY <1>0, <2>0, <2>3, GetsLockCurrent, ReadDatastoreCurrent, FillCurrent
    <2>4. CASE Write(c) \/ Clear(c) \/ Erase(c) \/ Commit(c) \/ Raise(c)
      BY <1>0, <2>0, <2>4, WriteCurrent, ClearCurrent, EraseCurrent, CommitCurrent,
         RaiseCurrent
    <2>5. CASE \/ GetInTxn(c) \/ CommitFails(c) \/ NewContext(c)
               \/ \E k \in Keys : Transaction(c, k)
      BY <1>0, <2>0, <2>5, OthersCurrent
    <2> QED BY <1>1, <2>1, <2>2, <2>3, <2>4, <2>5 DEF Step
  <1>2. CASE Flush \/ Clock \/ UNCHANGED vars
    <2>1. UNCHANGED <<ds, casIds, pc, at, val, mark>>
      BY <1>2 DEF Flush, Clock, vars, callVars, historyVars
    <2>2. \A c \in Contexts : Elsewhere(c)
      BY <2>1 DEF Elsewhere
    <2>3. ASSUME NEW h \in Keys, Excused(h), loose'[h] = loose[h]
          PROVE  Excused(h)'
      BY <2>1, <2>3, Zenon DEF Excused, Pending
    <2>4. CASE Flush
      <3>1. Removes(Keys) /\ \A k \in Keys : cache'[k] = NoEntry
        BY <2>4, FlushTypes DEF Flush, StubFlushAll
      <3>2. IdsOld'
        BY <2>1, <3>1, IdsUnchanged DEF Removes
      <3> QED BY <1>0, <2>1, <2>2, <3>1, <3>2, RemovesSafe
    <2>5. CASE Clock \/ UNCHANGED vars
      <3>1. Removes({}) /\ UNCHANGED loose
        BY <2>5, ClockTypes, SameStub DEF Clock, vars, historyVars, TypeInv
      <3>2. IdsOld'
        BY <2>1, <3>1, IdsUnchanged DEF Removes
      <3>3. \A h \in Keys : Excused(h) => Excused(h)'
        BY <2>3, <3>1
      <3> QED BY <1>0, <2>1, <2>2, <3>1, <3>2, <3>3, RemovesSafe
    <2> QED BY <1>2, <2>4, <2>5
  <1> QED BY <1>1, <1>2 DEF Next

LEMMA CurrentInit == Init => CurrentInv
  <1> SUFFICES ASSUME Init
               PROVE  CurrentInv
    OBVIOUS
  <1>1. IdsOld
    BY DEF Init, StubInit, NoCas, IdsOld
  <1>2. \A k \in Keys : EntrySafe(k)
    BY DEF Init, StubInit, EntrySafe
  <1>3. \A c \in Contexts : FillSafe(c) /\ MarkSafe(c)
    BY DEF Init, FillSafe, MarkSafe
  <1> QED BY <1>1, <1>2, <1>3 DEF CurrentInv

\* Memcache serves the entity that the datastore holds, unless a writer is
\* about to delete it there, or was cut off, or a delete lost its lock.
THEOREM MemcacheIsCurrent == Spec => []MemcacheCurrent
  <1>1. TypeInv /\ CurrentInv => MemcacheCurrent
    <2> SUFFICES ASSUME TypeInv, CurrentInv, NEW k \in Keys, Served(k),
                        GetKey(k).value # ds[k]
                 PROVE  Pending(k) \/ loose[k]
      BY DEF MemcacheCurrent
    <2>1. GetKey(k) = cache[k] /\ cache[k] # NoEntry /\ cache[k].value \in Texts
      BY DEF Served, Visible, GetKey
    <2>2. EntrySafe(k)
      BY DEF CurrentInv
    <2>3. Excused(k)
      BY <2>1, <2>2 DEF EntrySafe
    <2> QED BY <2>3, Zenon DEF Excused
  <1> QED BY TypeInit, TypeStep, CurrentInit, CurrentStep, <1>1, PTL DEF Spec

-----------------------------------------------------------------------------
(* What is shown was written.                                              *)

DsShown == \A k \in Keys : ds[k] \in was[k]
EntriesShown ==
  \A k \in Keys :
    cache[k] # NoEntry /\ cache[k].value \in Texts => cache[k].value \in was[k]
LocalShown(c) ==
  \A k \in Keys : local[c][k] # NotCached => local[c][k] \in was[k]

\* What a call has read, or written, is written.  What a put or a transaction
\* is yet to write need not be.
CallShown(c) ==
  \/ pc[c] \in {"fill", "clear"}
  \/ pc[c] = "txn" /\ val[c] # NotCached
  => val[c] \in was[at[c]]

ShownInv ==
  DsShown /\ EntriesShown /\ \A c \in Contexts : LocalShown(c) /\ CallShown(c)

WasGrows == \A k \in Keys : was[k] \subseteq was'[k]

LEMMA WriteGrows ==
  ASSUME TypeInv, DsShown, NEW k \in Keys, NEW v \in Found, WriteDatastore(k, v)
  PROVE  WasGrows /\ DsShown' /\ v \in was'[k]
  BY DEF WriteDatastore, TypeInv, HistoryTypes, DataTypes, WasGrows, DsShown

LEMMA SameGrows ==
  ASSUME DsShown, UNCHANGED <<ds, was>>
  PROVE  WasGrows /\ DsShown'
  BY DEF WasGrows, DsShown

LEMMA RemovesShown ==
  ASSUME EntriesShown, NEW from, Removes(from), WasGrows
  PROVE  EntriesShown'
  BY DEF EntriesShown, Removes, WasGrows

LEMMA PutsShown ==
  ASSUME EntriesShown, NEW k \in Keys, NEW v, Puts(k, v), WasGrows,
         v = Locked \/ v \in was[k]
  PROVE  EntriesShown'
  <1>1. ASSUME NEW h \in Keys, cache'[h] # NoEntry, cache'[h].value \in Texts
        PROVE  cache'[h].value \in was'[h]
    <2>1. CASE h = k
      BY <1>1, <2>1, LockedIsNumber DEF Puts, WasGrows
    <2>2. CASE h # k
      BY <1>1, <2>2 DEF Puts, EntriesShown, WasGrows
    <2> QED BY <2>1, <2>2
  <1> QED BY <1>1 DEF EntriesShown

\* The other contexts: they keep what they have.
LEMMA OthersShown ==
  ASSUME TypeInv, ShownInv, NEW c \in Contexts, Alone(c), WasGrows
  PROVE  \A d \in Contexts \ {c} : LocalShown(d)' /\ CallShown(d)'
  <1> SUFFICES ASSUME NEW d \in Contexts \ {c}
               PROVE  LocalShown(d)' /\ CallShown(d)'
    OBVIOUS
  <1>1. LocalShown(d)'
    BY DEF ShownInv, LocalShown, Alone, WasGrows
  <1>2. CallShown(d)'
    BY BusyKey DEF TypeInv, ShownInv, CallShown, Alone, WasGrows
  <1> QED BY <1>1, <1>2

\* A context's own cache takes what was written.
LEMMA RememberShown ==
  ASSUME TypeInv, ShownInv, NEW c \in Contexts, NEW k \in Keys, NEW v,
         UNCHANGED local \/ (Remember(c, k, v) /\ v \in was'[k]), WasGrows
  PROVE  LocalShown(c)'
  <1>1. CASE UNCHANGED local
    BY <1>1 DEF ShownInv, LocalShown, WasGrows
  <1>2. CASE Remember(c, k, v) /\ v \in was'[k]
    <2>1. /\ local'[c][k] = v
          /\ \A h \in Keys \ {k} : local'[c][h] = local[c][h]
      BY <1>2 DEF Remember, TypeInv, DataTypes
    <2> QED BY <1>2, <2>1 DEF ShownInv, LocalShown, WasGrows
  <1> QED BY <1>1, <1>2

\* The steps of a context.
LEMMA GetShown ==
  ASSUME TypeInv, ShownInv, NEW c \in Contexts, Alone(c), NEW k \in Keys, Get(c, k)
  PROVE  ShownInv'
  <1>1. WasGrows /\ DsShown'
    BY SameGrows DEF Get, ShownInv, historyVars
  <1>2. EntriesShown'
    BY <1>1, StubGetStep, RemovesShown DEF Get, ShownInv, TypeInv
  <1>3. UNCHANGED local \/ (Remember(c, k, GetKey(k).value) /\ GetKey(k).value \in was'[k])
    <2>1. CASE Visible(k, now) /\ GetKey(k).value # Locked
      <3>1. /\ GetKey(k) = cache[k] /\ cache[k] # NoEntry /\ cache[k].value \in Texts
        BY <2>1 DEF Visible, GetKey, TypeInv, StubInv, EntryOK, Content
      <3> QED BY <1>1, <2>1, <3>1 DEF Get, ShownInv, EntriesShown, WasGrows
    <2>2. CASE ~ (Visible(k, now) /\ GetKey(k).value # Locked)
      BY <2>2 DEF Get
    <2> QED BY <2>1, <2>2
  <1>4. LocalShown(c)'
    BY <1>1, <1>3, RememberShown
  <1>5. CallShown(c)'
    BY DEF Get, Begin, callVars, CallShown, TypeInv, CallTypes
  <1> QED BY <1>1, <1>2, <1>4, <1>5, OthersShown DEF ShownInv

LEMMA GetsLockShown ==
  ASSUME TypeInv, ShownInv, NEW c \in Contexts, Alone(c), GetsLock(c)
  PROVE  ShownInv'
  <1>1. WasGrows /\ DsShown' /\ UNCHANGED local
    BY SameGrows DEF GetsLock, ShownInv, historyVars
  <1>2. at[c] \in Keys /\ pc'[c] = "read"
    BY BusyKey DEF GetsLock, Goto, TypeInv, CallTypes
  <1>3. EntriesShown'
    BY <1>1, <1>2, StubGetStep, RemovesShown DEF GetsLock, ShownInv, TypeInv
  <1>4. LocalShown(c)' /\ CallShown(c)'
    BY <1>1, <1>2 DEF ShownInv, LocalShown, CallShown, WasGrows
  <1> QED BY <1>1, <1>3, <1>4, OthersShown DEF ShownInv

LEMMA ReadDatastoreShown ==
  ASSUME TypeInv, ShownInv, NEW c \in Contexts, Alone(c), ReadDatastore(c)
  PROVE  ShownInv'
  <1>1. WasGrows /\ DsShown' /\ UNCHANGED stubVars
    BY SameGrows DEF ReadDatastore, ShownInv, historyVars
  <1>2. at[c] \in Keys /\ ds[at[c]] \in was'[at[c]]
    BY <1>1, BusyKey DEF ReadDatastore, TypeInv, ShownInv, DsShown, WasGrows
  <1>3. EntriesShown'
    BY <1>1, SameStub, RemovesShown DEF ShownInv, TypeInv
  <1>4. LocalShown(c)'
    <2>1. UNCHANGED local \/ Remember(c, at[c], ds[at[c]])
      BY DEF ReadDatastore
    <2> QED BY <1>1, <1>2, <2>1, RememberShown
  <1>5. CallShown(c)'
    BY <1>2 DEF ReadDatastore, End, CallShown, TypeInv, CallTypes
  <1> QED BY <1>1, <1>3, <1>4, <1>5, OthersShown DEF ShownInv

LEMMA FillShown ==
  ASSUME TypeInv, ShownInv, NEW c \in Contexts, Alone(c), Fill(c)
  PROVE  ShownInv'
  <1>1. WasGrows /\ DsShown'
    BY SameGrows DEF Fill, ShownInv, historyVars
  <1>2. /\ at[c] \in Keys /\ val[c] \in Texts /\ val[c] \in was[at[c]]
        /\ casIds[c][at[c]] \in Nat /\ val[c] \in was'[at[c]]
    BY <1>1, BusyKey DEF Fill, TypeInv, CallTypes, DataTypes, ShownInv, CallShown, WasGrows
  <1>3. EntriesShown'
    <2>1. Removes({at[c]}) \/ \E k \in Keys : k = at[c] /\ Puts(k, val[c])
      BY <1>2, FillStep DEF Fill, TypeInv
    <2>2. CASE Removes({at[c]})
      BY <1>1, <2>2, RemovesShown DEF ShownInv
    <2>3. ASSUME NEW k \in Keys, k = at[c], Puts(k, val[c])
          PROVE  EntriesShown'
      BY <1>1, <1>2, <2>3, PutsShown DEF ShownInv
    <2> QED BY <2>1, <2>2, <2>3
  <1>4. LocalShown(c)'
    BY <1>1, <1>2, RememberShown DEF Fill
  <1>5. CallShown(c)'
    BY DEF Fill, End, CallShown, TypeInv, CallTypes
  <1> QED BY <1>1, <1>3, <1>4, <1>5, OthersShown DEF ShownInv

LEMMA SetLockedShown ==
  ASSUME TypeInv, ShownInv, NEW c \in Contexts, Alone(c), NEW k \in Keys, SetLocked(k),
         UNCHANGED <<ds, was, local>>, pc'[c] \notin {"fill", "clear", "txn"}
  PROVE  ShownInv'
  <1>1. WasGrows /\ DsShown'
    BY SameGrows DEF ShownInv
  <1>2. EntriesShown'
    BY <1>1, SetLockedStep, PutsShown DEF ShownInv, TypeInv
  <1>3. LocalShown(c)' /\ CallShown(c)'
    BY DEF ShownInv, LocalShown, CallShown
  <1> QED BY <1>1, <1>2, <1>3, OthersShown DEF ShownInv

LEMMA LockersShown ==
  ASSUME TypeInv, ShownInv, NEW c \in Contexts, Alone(c),
         \/ LockToFill(c) \/ (\E v \in Found : WriteInTxn(c, v))
         \/ \E k \in Keys : Delete(c, k) \/ \E v \in Texts : Put(c, k, v)
  PROVE  ShownInv'
  <1>1. \E k \in Keys : SetLocked(k)
    BY BusyKey DEF LockToFill, WriteInTxn, Delete, Put, TypeInv
  <1>2. UNCHANGED <<ds, was, local>> /\ pc'[c] \in {"gets", "commit", "erase", "write"}
    BY DEF LockToFill, WriteInTxn, Delete, Put, Goto, Begin, TypeInv, CallTypes
  <1> QED BY <1>1, <1>2, SetLockedShown

LEMMA WritersShown ==
  ASSUME TypeInv, ShownInv, NEW c \in Contexts, Alone(c),
         Write(c) \/ Erase(c) \/ Commit(c)
  PROVE  ShownInv'
  <1>1. at[c] \in Keys /\ None \in Found /\ UNCHANGED stubVars
    BY BusyKey DEF Write, Erase, Commit, TypeInv, Found
  <1>2. CASE Write(c)
    <2>1. WasGrows /\ DsShown' /\ val[c] \in was'[at[c]]
      BY <1>1, <1>2, WriteGrows DEF Write, TypeInv, CallTypes, ShownInv
    <2>2. LocalShown(c)' /\ CallShown(c)'
      BY <1>2, <2>1 DEF Write, ShownInv, LocalShown, CallShown, WasGrows
    <2>3. EntriesShown'
      BY <1>1, <2>1, SameStub, RemovesShown DEF ShownInv, TypeInv
    <2> QED BY <2>1, <2>2, <2>3, OthersShown DEF ShownInv
  <1>3. CASE Erase(c)
    <2>1. WasGrows /\ DsShown' /\ None \in was'[at[c]]
      BY <1>1, <1>3, WriteGrows DEF Erase, ShownInv
    <2>2. LocalShown(c)'
      BY <1>1, <1>3, <2>1, RememberShown DEF Erase
    <2>3. CallShown(c)'
      BY <1>3 DEF Erase, CallShown, TypeInv, CallTypes
    <2>4. EntriesShown'
      BY <1>1, <2>1, SameStub, RemovesShown DEF ShownInv, TypeInv
    <2> QED BY <2>1, <2>2, <2>3, <2>4, OthersShown DEF ShownInv
  <1>4. CASE Commit(c)
    <2>1. WasGrows /\ DsShown' /\ (val[c] # NotCached => val[c] \in was'[at[c]])
      <3>1. CASE pc[c] = "txn" /\ UNCHANGED <<ds, was>>
        BY <1>1, <3>1, SameGrows DEF ShownInv, CallShown
      <3>2. CASE pc[c] = "commit" /\ WriteDatastore(at[c], val[c])
        BY <1>1, <3>2, WriteGrows DEF TypeInv, CallTypes, ShownInv
      <3> QED BY <1>4, <3>1, <3>2 DEF Commit
    <2>2. UNCHANGED local \/ (Remember(c, at[c], val[c]) /\ val[c] \in was'[at[c]])
      BY <1>4, <2>1 DEF Commit, Remember
    <2>3. LocalShown(c)'
      BY <1>1, <2>1, <2>2, RememberShown
    <2>4. CallShown(c)'
      BY <1>4, <2>1 DEF Commit, CallShown, TypeInv, CallTypes
    <2>5. EntriesShown'
      BY <1>1, <2>1, SameStub, RemovesShown DEF ShownInv, TypeInv
    <2> QED BY <2>1, <2>3, <2>4, <2>5, OthersShown DEF ShownInv
  <1> QED BY <1>2, <1>3, <1>4

LEMMA ClearShown ==
  ASSUME TypeInv, ShownInv, NEW c \in Contexts, Alone(c), Clear(c)
  PROVE  ShownInv'
  <1>1. WasGrows /\ DsShown'
    BY SameGrows DEF Clear, ShownInv
  <1>2. at[c] \in Keys /\ val[c] \in was'[at[c]]
    BY <1>1, BusyKey DEF Clear, TypeInv, ShownInv, CallShown, WasGrows
  <1>3. EntriesShown'
    BY <1>1, <1>2, DeleteStep, RemovesShown DEF Clear, ShownInv, TypeInv
  <1>4. LocalShown(c)'
    BY <1>1, <1>2, RememberShown DEF Clear
  <1>5. CallShown(c)'
    BY DEF Clear, End, CallShown, TypeInv, CallTypes
  <1> QED BY <1>1, <1>3, <1>4, <1>5, OthersShown DEF ShownInv

LEMMA QuietShown ==
  ASSUME TypeInv, ShownInv, NEW c \in Contexts, Alone(c),
         \/ GetInTxn(c) \/ CommitFails(c) \/ Raise(c) \/ NewContext(c)
         \/ \E k \in Keys : Transaction(c, k)
  PROVE  ShownInv'
  <1>1. UNCHANGED <<stubVars, ds, was>>
    BY DEF GetInTxn, CommitFails, Raise, NewContext, Transaction, historyVars
  <1>2. WasGrows /\ DsShown'
    BY <1>1, SameGrows DEF ShownInv
  <1>3. EntriesShown'
    BY <1>1, <1>2, SameStub, RemovesShown DEF ShownInv, TypeInv
  <1>4. LocalShown(c)'
    <2>1. UNCHANGED local \/ \A k \in Keys : local'[c][k] = NotCached
      BY DEF GetInTxn, CommitFails, Raise, NewContext, Transaction, TypeInv, DataTypes
    <2> QED BY <1>2, <2>1 DEF ShownInv, LocalShown, WasGrows
  <1>5. CallShown(c)'
    <2>1. CASE GetInTxn(c)
      BY <1>2, <2>1, BusyKey
      DEF GetInTxn, CallShown, TypeInv, CallTypes, ShownInv, DsShown, WasGrows
    <2>2. CASE CommitFails(c) \/ Raise(c)
      BY <2>2 DEF CommitFails, Raise, End, CallShown, TypeInv, CallTypes
    <2>3. CASE NewContext(c)
      BY <2>3 DEF NewContext, callVars, CallShown
    <2>4. ASSUME NEW k \in Keys, Transaction(c, k)
          PROVE  CallShown(c)'
      <3>1. pc'[c] = "txn" /\ val'[c] = NotCached
        BY <2>4 DEF Transaction, TypeInv, CallTypes
      <3> QED BY <3>1 DEF CallShown
    <2> QED BY <2>1, <2>2, <2>3, <2>4
  <1> QED BY <1>2, <1>3, <1>4, <1>5, OthersShown DEF ShownInv

LEMMA ShownStep == ASSUME TypeInv, ShownInv, [Next]_vars PROVE ShownInv'
  <1>1. ASSUME NEW c \in Contexts, Step(c)
        PROVE  ShownInv'
    <2>0. Alone(c)
      BY <1>1, StepAlone
    <2>1. CASE \E k \in Keys : Get(c, k)
      BY <2>0, <2>1, GetShown
    <2>2. CASE \/ LockToFill(c) \/ (\E v \in Found : WriteInTxn(c, v))
               \/ \E k \in Keys : Delete(c, k) \/ \E v \in Texts : Put(c, k, v)
      BY <2>0, <2>2, LockersShown
    <2>3. CASE GetsLock(c) \/ ReadDatastore(c) \/ Fill(c)
      BY <2>0, <2>3, GetsLockShown, ReadDatastoreShown, FillShown
    <2>4. CASE Write(c) \/ Erase(c) \/ Commit(c) \/ Clear(c)
      BY <2>0, <2>4, WritersShown, ClearShown
    <2>5. CASE \/ GetInTxn(c) \/ CommitFails(c) \/ Raise(c) \/ NewContext(c)
               \/ \E k \in Keys : Transaction(c, k)
      BY <2>0, <2>5, QuietShown
    <2> QED BY <1>1, <2>1, <2>2, <2>3, <2>4, <2>5 DEF Step
  <1>2. CASE Flush \/ Clock \/ UNCHANGED vars
    <2>1. UNCHANGED <<ds, was, local, pc, at, val>>
      BY <1>2 DEF Flush, Clock, vars, callVars, historyVars
    <2>2. WasGrows /\ DsShown'
      BY <2>1, SameGrows DEF ShownInv
    <2>3. \A c \in Contexts : LocalShown(c)' /\ CallShown(c)'
      BY <2>1 DEF ShownInv, LocalShown, CallShown
    <2>4. \E from : Removes(from)
      <3>1. Removes(Keys) \/ Removes({})
        BY <1>2, FlushTypes, ClockTypes, SameStub DEF Clock, vars, TypeInv
      <3> QED BY <3>1
    <2>5. EntriesShown'
      BY <2>2, <2>4, RemovesShown DEF ShownInv
    <2> QED BY <2>2, <2>3, <2>5 DEF ShownInv
  <1> QED BY <1>1, <1>2 DEF Next

LEMMA ShownInit == Init => ShownInv
  <1> SUFFICES ASSUME Init
               PROVE  ShownInv
    OBVIOUS
  <1>1. DsShown /\ EntriesShown
    BY DEF Init, StubInit, DsShown, EntriesShown
  <1>2. \A c \in Contexts : LocalShown(c) /\ CallShown(c)
    BY DEF Init, LocalShown, CallShown
  <1> QED BY <1>1, <1>2 DEF ShownInv

\* What memcache serves and what a context keeps, the datastore has held.
THEOREM OnlyWrittenIsShown == Spec => []OnlyWrittenShown
  <1>1. TypeInv /\ ShownInv => OnlyWrittenShown
    <2> SUFFICES ASSUME TypeInv, ShownInv, NEW k \in Keys
                 PROVE  /\ Served(k) => GetKey(k).value \in was[k]
                        /\ \A c \in Contexts :
                             local[c][k] # NotCached => local[c][k] \in was[k]
      BY DEF OnlyWrittenShown
    <2>1. Served(k) => GetKey(k).value \in was[k]
      BY DEF Served, Visible, GetKey, ShownInv, EntriesShown
    <2>2. \A c \in Contexts : local[c][k] # NotCached => local[c][k] \in was[k]
      BY DEF ShownInv, LocalShown
    <2> QED BY <2>1, <2>2
  <1> QED BY TypeInit, TypeStep, ShownInit, ShownStep, <1>1, PTL DEF Spec
=============================================================================
