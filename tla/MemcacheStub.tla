---------------------------- MODULE MemcacheStub ----------------------------
(***************************************************************************)
(* The server side of the local memcache: the cache entries of             *)
(* google/appengine/api/memcache/memcache_stub.py and what one request     *)
(* does to them, under the stub's mutex.  Memcache adds clients that call  *)
(* it.                                                                     *)
(*                                                                         *)
(* A request is about one key.  The stub handles a request with several    *)
(* items one after the other, and the items of one request are about       *)
(* different keys.                                                         *)
(*                                                                         *)
(* The mutex does not stop the clock.  A request reads it in _GetKey, at   *)
(* now, again in CheckLocked, at checked, and again when it dates an       *)
(* entry, at dated; it ends at the last of these.                          *)
(***************************************************************************)
EXTENDS Integers

CONSTANTS
  Keys,
  Texts,        \* values that are not numbers
  Modulus,      \* 2^64, where counters wrap around
  MaxRelative,  \* 30 days: a larger expiration is a time, not a duration
  NoEntry,      \* the key is not in the cache
  MaxCas,       \* bound of the model: values stored
  MaxTime       \* bound of the model: the clock

ASSUME StubAssumption ==
  /\ Modulus \in Nat \ {0} /\ MaxRelative \in Nat
  /\ MaxCas \in Nat /\ MaxTime \in Nat

VARIABLES
  cache,    \* MemcacheServiceStub._the_cache
  nextCas,  \* MemcacheServiceStub._next_cas_id
  now       \* what _gettime returns

stubVars == <<cache, nextCas, now>>

Numbers == 0 .. Modulus - 1
Values == Texts \cup Numbers

\* CacheEntry: expires is Never when will_expire is false.
Never == -1
Entries == [value : Values, cas : Nat \ {0}, expires : Nat \cup {Never},
            locked : BOOLEAN]

\* The compare-and-set id of a key that was never fetched for one.
NoCas == 0

StubInit ==
  /\ cache = [k \in Keys |-> NoEntry]
  /\ nextCas = 1
  /\ now = 0

\* CacheEntry._SetExpiration
Deadline(time, dated) == IF time > MaxRelative THEN time ELSE dated + time

NewEntry(v, time, dated) ==
  [value |-> v, cas |-> nextCas, locked |-> FALSE,
   expires |-> IF time = 0 THEN Never ELSE Deadline(time, dated)]

\* CacheEntry.CheckExpired
Expired(e, clock) == e.expires # Never /\ clock >= e.expires

\* A lock that ends after _GetKey has found the entry counts as no lock.
CheckLocked(e, checked) == e.locked /\ ~ Expired(e, checked)

\* _GetKey: an entry that has expired is not there.
GetKey(k) ==
  IF cache[k] # NoEntry /\ Expired(cache[k], now) THEN NoEntry ELSE cache[k]

\* The key has a value that _Dynamic_Get returns.
Visible(k, checked) == GetKey(k) # NoEntry /\ ~ CheckLocked(GetKey(k), checked)

\* _GetKey removes an expired entry for good.
Purge(k) == cache' = [cache EXCEPT ![k] = GetKey(k)]

-----------------------------------------------------------------------------
\* When CheckLocked may read the clock, and what comes after it.
Later(time) == time .. MaxTime

\* Get changes nothing but an entry that has expired.
StubGet(k, checked) == Purge(k) /\ now' = checked /\ UNCHANGED nextCas

\* Mutants: a lock does not keep an entry from being replaced, or any entry is.
ReplacesLocked(k, policy, cas, checked) ==
  \/ policy = "SET"
  \/ policy = "ADD" /\ GetKey(k) = NoEntry
  \/ policy = "REPLACE" /\ GetKey(k) # NoEntry
  \/ policy = "CAS" /\ cas # NoCas /\ Visible(k, checked) /\ GetKey(k).cas = cas
IgnoresCas(k, policy, cas, checked) ==
  \/ policy = "SET"
  \/ policy = "ADD" /\ GetKey(k) = NoEntry
  \/ policy \in {"REPLACE", "CAS"} /\ Visible(k, checked)

\* Whether _Dynamic_Set answers STORED.
Stores(k, policy, cas, checked) ==
  \/ policy = "SET"
  \/ policy = "ADD" /\ GetKey(k) = NoEntry
  \/ policy = "REPLACE" /\ Visible(k, checked)
  \/ policy = "CAS" /\ cas # NoCas /\ Visible(k, checked) /\ GetKey(k).cas = cas

\* Every value stored gets an id of its own.
Store(k, v, time, dated) ==
  /\ nextCas <= MaxCas
  /\ cache' = [cache EXCEPT ![k] = NewEntry(v, time, dated)]
  /\ nextCas' = nextCas + 1
  /\ now' = dated

StubSet(k, v, time, policy, cas, checked, dated) ==
  \/ Stores(k, policy, cas, checked) /\ Store(k, v, time, dated)
  \/ ~ Stores(k, policy, cas, checked) /\ StubGet(k, checked)

\* ExpireAndLock
LockedEntry(e, time, dated) ==
  [e EXCEPT !.expires = Deadline(time, dated), !.locked = TRUE]

\* Delete: for good, or keeping the key locked for a time.
StubDelete(k, time, dated) ==
  /\ cache' = [cache EXCEPT ![k] =
                 IF GetKey(k) = NoEntry \/ time = 0 THEN NoEntry
                 ELSE LockedEntry(GetKey(k), time, dated)]
  /\ now' = dated
  /\ UNCHANGED nextCas

OffsetNoWrap(v, delta) ==
  IF v + delta > 0 THEN v + delta ELSE 0

\* Decrements stop at zero and increments wrap around.
Offset(v, delta) ==
  (IF v + delta > 0 THEN v + delta ELSE 0) % Modulus

\* _internal_increment finds a number, or makes one of the initial value.
CanIncrement(k, initial) ==
  IF GetKey(k) = NoEntry THEN initial # NoEntry ELSE GetKey(k).value \in Numbers

\* An existing entry keeps its expiration, its lock and its id.
StubIncrement(k, delta, initial) ==
  \/ /\ ~ CanIncrement(k, initial)
     /\ StubGet(k, now)
  \/ /\ CanIncrement(k, initial) /\ GetKey(k) = NoEntry
     /\ Store(k, Offset(initial, delta), 0, now)
  \/ /\ CanIncrement(k, initial) /\ GetKey(k) # NoEntry
     /\ cache' = [cache EXCEPT ![k].value = Offset(@, delta)]
     /\ UNCHANGED <<nextCas, now>>

StubFlushAll ==
  /\ cache' = [k \in Keys |-> NoEntry]
  /\ UNCHANGED <<nextCas, now>>

Tick ==
  /\ now < MaxTime
  /\ now' = now + 1
  /\ UNCHANGED <<cache, nextCas>>

StubTypeOK ==
  /\ cache \in [Keys -> Entries \cup {NoEntry}]
  /\ nextCas \in 1 .. MaxCas + 1
  /\ now \in 0 .. MaxTime
=============================================================================
