------------------------------ MODULE NdbCache ------------------------------
(***************************************************************************)
(* The lock-and-fill protocol by which the contexts of                     *)
(* google/appengine/ext/ndb/context.py keep memcache in step with the      *)
(* datastore.  Each request has a context of its own, with an in-process   *)
(* cache and a memcache.Client; contexts meet in the datastore and in the  *)
(* memcache of MemcacheStub.                                               *)
(*                                                                         *)
(* A context handles one call about one key at a time, and the steps of a  *)
(* call are its RPCs.  The datastore is a map from keys to entities, of    *)
(* which only the identity matters; the entities are the Texts of the      *)
(* stub, and nobody changes them once they are read or written.  All three *)
(* policies (use_cache, use_memcache, use_datastore) are on, as they are   *)
(* by default.                                                             *)
(*                                                                         *)
(* Deletes here do not lock, so that no entry of memcache is locked and    *)
(* it does not matter when the stub looks for a lock (CheckLocked): only   *)
(* when it looks for the entry, and when it dates a new one.               *)
(***************************************************************************)
EXTENDS MemcacheStub

CONSTANTS
  Contexts,
  Calls,       \* which of get, put, delete and transaction are made
  None,        \* no entity
  NotCached,   \* the key is not in a context's cache
  NoKey,       \* the context is idle
  LockTime,    \* _LOCK_TIME
  Timeout,     \* the memcache timeout of entities; 0 is never
  Retries      \* of a transaction

ASSUME NdbAssumption ==
  /\ Calls \subseteq {"get", "put", "delete", "transaction"}
  /\ Texts \cap (Numbers \cup {None, NotCached}) = {} /\ None # NotCached
  /\ NoKey \notin Keys /\ NoEntry \notin Entries
  /\ LockTime \in Nat \ {0} /\ Timeout \in Nat /\ Retries \in Nat

VARIABLES
  ds,       \* the datastore
  local,    \* Context._cache
  casIds,   \* Client._cas_ids of the context's client
  pc, at,   \* the place in the call, its key
  val,      \* the entity the call read or writes; in a transaction,
            \* what the cache of its own context holds of the key
  snap,     \* what a transaction has seen of the key: unread, current, changed
  tries,    \* attempts of the transaction that remain
  was,      \* history: the entities that the datastore has held
  mark,     \* history: the id of the lock that a delete stored
  loose     \* history: keys whose last writer in the datastore left without
            \* seeing to memcache

callVars == <<pc, at, val, snap, tries>>
historyVars == <<was, mark, loose>>
vars == <<stubVars, ds, local, casIds, callVars, historyVars>>

\* _LOCKED, the value that keeps gets from filling memcache.
Locked == 0

\* What the datastore and a context's cache say of a key.
Found == Texts \cup {None}

Init ==
  /\ StubInit
  /\ ds \in [Keys -> Found]
  /\ local = [c \in Contexts |-> [k \in Keys |-> NotCached]]
  /\ casIds = [c \in Contexts |-> [k \in Keys |-> NoCas]]
  /\ pc = [c \in Contexts |-> "idle"]
  /\ at = [c \in Contexts |-> NoKey]
  /\ val = [c \in Contexts |-> NotCached]
  /\ snap = [c \in Contexts |-> "unread"]
  /\ tries = [c \in Contexts |-> 0]
  /\ was = [k \in Keys |-> {ds[k]}]
  /\ mark = [c \in Contexts |-> NoCas]
  /\ loose = [k \in Keys |-> FALSE]

\* A call begins, goes on, or ends.
Begin(c, k, place, v) ==
  /\ pc[c] = "idle"
  /\ pc' = [pc EXCEPT ![c] = place]
  /\ at' = [at EXCEPT ![c] = k]
  /\ val' = [val EXCEPT ![c] = v]
  /\ UNCHANGED <<snap, tries>>
Goto(c, place) ==
  /\ pc' = [pc EXCEPT ![c] = place]
  /\ UNCHANGED <<at, val, snap, tries>>
End(c) ==
  /\ pc' = [pc EXCEPT ![c] = "idle"]
  /\ at' = [at EXCEPT ![c] = NoKey]
  /\ val' = [val EXCEPT ![c] = NotCached]
  /\ snap' = [snap EXCEPT ![c] = "unread"]
  /\ tries' = [tries EXCEPT ![c] = 0]

\* The context's own cache.
Remember(c, k, v) == local' = [local EXCEPT ![c][k] = v]

\* memcache_set(mkey, _LOCKED, time=_LOCK_TIME)
SetLocked(k) ==
  /\ \E dated \in Later(now) : StubSet(k, Locked, LockTime, "SET", NoCas, now, dated)
  /\ loose' = [loose EXCEPT ![k] = FALSE]

\* The memcache.Client remembers the id of an entry that it gets for cas.
RememberId(c, k) ==
  casIds' = IF Visible(k, now) THEN [casIds EXCEPT ![c][k] = GetKey(k).cas] ELSE casIds

\* The datastore takes a write, and who has read the key in a transaction has
\* an old snapshot.
WriteDatastore(k, v) ==
  /\ ds' = [ds EXCEPT ![k] = v]
  /\ was' = [was EXCEPT ![k] = @ \cup {v}]
AgeSnapshots(c, k) ==
  snap' = [d \in Contexts |->
             IF d = c THEN "unread"
             ELSE IF at[d] = k /\ snap[d] = "current" THEN "changed"
             ELSE snap[d]]

-----------------------------------------------------------------------------
\* get() outside a transaction: the context's cache answers, or memcache does.
\* An entity is returned; a lock sends the call to the datastore; if there is
\* nothing, the call is to fill memcache.
Get(c, k) ==
  /\ "get" \in Calls
  /\ local[c][k] = NotCached
  /\ StubGet(k, now)
  /\ RememberId(c, k)
  /\ IF Visible(k, now) /\ GetKey(k).value # Locked
     THEN /\ pc[c] = "idle"
          /\ Remember(c, k, GetKey(k).value)
          /\ UNCHANGED callVars
     ELSE /\ Begin(c, k, IF Visible(k, now) THEN "look" ELSE "miss", NotCached)
          /\ UNCHANGED local
  /\ UNCHANGED <<ds, historyVars>>

\* It locks the key whatever is there by now, ...
LockToFill(c) ==
  /\ pc[c] = "miss"
  /\ SetLocked(at[c])
  /\ Goto(c, "gets")
  /\ UNCHANGED <<ds, local, casIds, was, mark>>

\* ... fetches the id of the lock, or of what has replaced it, ...
GetsLock(c) ==
  /\ pc[c] = "gets"
  /\ StubGet(at[c], now)
  /\ RememberId(c, at[c])
  /\ Goto(c, "read")
  /\ UNCHANGED <<ds, local, historyVars>>

\* ... reads the datastore, ...
ReadDatastore(c) ==
  /\ pc[c] \in {"look", "read"}
  /\ IF pc[c] = "read" /\ ds[at[c]] # None
     THEN /\ pc' = [pc EXCEPT ![c] = "fill"]
          /\ val' = [val EXCEPT ![c] = ds[at[c]]]
          /\ UNCHANGED <<at, snap, tries, local>>
     ELSE Remember(c, at[c], ds[at[c]]) /\ End(c)
  /\ UNCHANGED <<stubVars, ds, casIds, historyVars>>

\* Mutant: it stores what it read, whatever memcache holds by then.
FillBySet(c) ==
  /\ pc[c] = "fill"
  /\ \E dated \in Later(now) :
       StubSet(at[c], val[c], Timeout, "SET", casIds[c][at[c]], now, dated)
  /\ Remember(c, at[c], val[c])
  /\ End(c)
  /\ UNCHANGED <<ds, casIds, historyVars>>

\* ... and replaces the lock by what it read, if it is the same lock.
Fill(c) ==
  /\ pc[c] = "fill"
  /\ \E dated \in Later(now) :
       StubSet(at[c], val[c], Timeout, "CAS", casIds[c][at[c]], now, dated)
  /\ Remember(c, at[c], val[c])
  /\ End(c)
  /\ UNCHANGED <<ds, casIds, historyVars>>

-----------------------------------------------------------------------------
\* put() outside a transaction locks the key in memcache, writes the
\* datastore and deletes the lock, or whatever else memcache has by then.
Put(c, k, v) ==
  /\ "put" \in Calls
  /\ Begin(c, k, "write", v)
  /\ SetLocked(k)
  /\ UNCHANGED <<ds, local, casIds, was, mark>>

Write(c) ==
  /\ pc[c] = "write"
  /\ WriteDatastore(at[c], val[c])
  /\ AgeSnapshots(c, at[c])
  /\ pc' = [pc EXCEPT ![c] = "clear"]
  /\ UNCHANGED <<stubVars, local, casIds, at, val, tries, mark, loose>>

\* Also the end of a transaction, _clear_memcache.
Clear(c) ==
  /\ pc[c] = "clear"
  /\ StubDelete(at[c], 0, now)
  /\ loose' = [loose EXCEPT ![at[c]] = FALSE]
  /\ Remember(c, at[c], val[c])
  /\ End(c)
  /\ UNCHANGED <<ds, casIds, was, mark>>

\* delete() outside a transaction relies on its lock alone.
Delete(c, k) ==
  /\ "delete" \in Calls
  /\ Begin(c, k, "erase", None)
  /\ SetLocked(k)
  /\ mark' = [mark EXCEPT ![c] = nextCas]
  /\ UNCHANGED <<ds, local, casIds, was>>

\* Memcache still holds the lock of this delete, and no get has fetched it.
LockStands(c) ==
  /\ cache[at[c]] # NoEntry /\ cache[at[c]].cas = mark[c]
  /\ \A d \in Contexts :
       pc[d] \in {"read", "fill"} /\ at[d] = at[c] => casIds[d][at[c]] # mark[c]

Erase(c) ==
  /\ pc[c] = "erase"
  /\ WriteDatastore(at[c], None)
  /\ Remember(c, at[c], None)
  /\ loose' = [loose EXCEPT ![at[c]] = @ \/ ~ LockStands(c)]
  /\ pc' = [pc EXCEPT ![c] = "idle"]
  /\ at' = [at EXCEPT ![c] = NoKey]
  /\ val' = [val EXCEPT ![c] = NotCached]
  /\ AgeSnapshots(c, at[c])
  /\ mark' = [mark EXCEPT ![c] = NoCas]
  /\ UNCHANGED <<stubVars, casIds, tries>>

-----------------------------------------------------------------------------
\* transaction(): the callback runs in a context of its own, here about one
\* key.  Its gets do not look at memcache.
Transaction(c, k) ==
  /\ "transaction" \in Calls
  /\ pc[c] = "idle"
  /\ pc' = [pc EXCEPT ![c] = "txn"]
  /\ at' = [at EXCEPT ![c] = k]
  /\ val' = [val EXCEPT ![c] = NotCached]
  /\ tries' = [tries EXCEPT ![c] = Retries]
  /\ UNCHANGED <<stubVars, ds, local, casIds, snap, historyVars>>

GetInTxn(c) ==
  /\ pc[c] = "txn" /\ val[c] = NotCached
  /\ val' = [val EXCEPT ![c] = ds[at[c]]]
  /\ snap' = [snap EXCEPT ![c] = "current"]
  /\ UNCHANGED <<stubVars, ds, local, casIds, pc, at, tries, historyVars>>

\* Mutant: the write shows in the cache of the context at once.
WriteInTxnShown(c, v) ==
  /\ pc[c] = "txn"
  /\ SetLocked(at[c])
  /\ Remember(c, at[c], v)
  /\ val' = [val EXCEPT ![c] = v]
  /\ pc' = [pc EXCEPT ![c] = "commit"]
  /\ UNCHANGED <<ds, casIds, at, snap, tries, was, mark>>

\* put() and delete() (v is None) lock the key; the datastore keeps the write
\* until the commit.
WriteInTxn(c, v) ==
  /\ pc[c] = "txn"
  /\ SetLocked(at[c])
  /\ val' = [val EXCEPT ![c] = v]
  /\ pc' = [pc EXCEPT ![c] = "commit"]
  /\ UNCHANGED <<ds, local, casIds, at, snap, tries, was, mark>>

\* The commit succeeds: what the transaction's cache holds goes to the cache
\* of the context, and is then deleted from memcache.
Commit(c) ==
  /\ \/ /\ pc[c] = "txn"
        /\ UNCHANGED <<ds, was, snap>>
     \/ /\ pc[c] = "commit" /\ snap[c] # "changed"
        /\ WriteDatastore(at[c], val[c])
        /\ AgeSnapshots(c, at[c])
  /\ local' = IF val[c] = NotCached THEN local
              ELSE [local EXCEPT ![c][at[c]] = val[c]]
  /\ pc' = [pc EXCEPT ![c] = IF val[c] = NotCached THEN "idle" ELSE "clear"]
  /\ at' = [at EXCEPT ![c] = IF val[c] = NotCached THEN NoKey ELSE @]
  /\ tries' = [tries EXCEPT ![c] = 0]
  /\ UNCHANGED <<stubVars, casIds, val, mark, loose>>

\* range(1 + retries) attempts
MayTryAgain(c) == tries[c] > 0

\* It fails, and the callback is run again, with an empty cache, or
\* TransactionFailedError is raised.
CommitFails(c) ==
  /\ pc[c] = "commit" /\ snap[c] = "changed"
  /\ IF MayTryAgain(c)
     THEN /\ pc' = [pc EXCEPT ![c] = "txn"]
          /\ val' = [val EXCEPT ![c] = NotCached]
          /\ snap' = [snap EXCEPT ![c] = "unread"]
          /\ tries' = [tries EXCEPT ![c] = @ - 1]
          /\ UNCHANGED at
     ELSE End(c)
  /\ UNCHANGED <<stubVars, ds, local, casIds, historyVars>>

-----------------------------------------------------------------------------
\* A call ends with an exception: an error of the datastore, an exception of
\* the callback, or the deadline of the request.
Raise(c) ==
  /\ pc[c] # "idle"
  /\ loose' = IF pc[c] = "clear" THEN [loose EXCEPT ![at[c]] = TRUE] ELSE loose
  /\ mark' = [mark EXCEPT ![c] = NoCas]
  /\ End(c)
  /\ UNCHANGED <<stubVars, ds, local, casIds, was>>

\* The request ends; the next one gets a new context.
NewContext(c) ==
  /\ pc[c] = "idle"
  /\ local' = [local EXCEPT ![c] = [k \in Keys |-> NotCached]]
  /\ casIds' = [casIds EXCEPT ![c] = [k \in Keys |-> NoCas]]
  /\ UNCHANGED <<stubVars, ds, callVars, historyVars>>

\* Somebody flushes memcache.
Flush ==
  /\ StubFlushAll
  /\ loose' = [k \in Keys |-> FALSE]
  /\ UNCHANGED <<ds, local, casIds, callVars, was, mark>>

Clock == Tick /\ UNCHANGED <<ds, local, casIds, callVars, historyVars>>

Step(c) ==
  \/ \E k \in Keys :
       \/ Get(c, k) \/ Delete(c, k) \/ Transaction(c, k)
       \/ \E v \in Texts : Put(c, k, v)
  \/ LockToFill(c) \/ GetsLock(c) \/ ReadDatastore(c) \/ Fill(c)
  \/ Write(c) \/ Clear(c) \/ Erase(c)
  \/ GetInTxn(c) \/ (\E v \in Found : WriteInTxn(c, v))
  \/ Commit(c) \/ CommitFails(c)
  \/ Raise(c) \/ NewContext(c)

Next == (\E c \in Contexts : Step(c)) \/ Flush \/ Clock

Spec == Init /\ [][Next]_vars

-----------------------------------------------------------------------------
Places == {"idle", "look", "miss", "gets", "read", "fill", "write", "clear",
           "erase", "txn", "commit"}

\* The variables have the types the code gives them; an idle context has no key.
TypeOK ==
  /\ StubTypeOK
  /\ ds \in [Keys -> Found]
  /\ local \in [Contexts -> [Keys -> Found \cup {NotCached}]]
  /\ casIds \in [Contexts -> [Keys -> Nat]]
  /\ pc \in [Contexts -> Places]
  /\ at \in [Contexts -> Keys \cup {NoKey}]
  /\ \A c \in Contexts : pc[c] = "idle" <=> at[c] = NoKey
  /\ val \in [Contexts -> Found \cup {NotCached}]
  /\ \A c \in Contexts : pc[c] = "fill" => val[c] \in Texts
  /\ \A c \in Contexts : pc[c] \in {"write", "clear", "commit"} => val[c] \in Found
  /\ snap \in [Contexts -> {"unread", "current", "changed"}]
  /\ tries \in [Contexts -> 0 .. Retries]
  /\ was \in [Keys -> SUBSET Found]
  /\ mark \in [Contexts -> Nat]
  /\ loose \in [Keys -> BOOLEAN]

\* Memcache answers with an entity.
Served(k) == Visible(k, now) /\ GetKey(k).value \in Texts

\* Somebody has written the datastore and is about to delete what memcache has.
Pending(k) == \E c \in Contexts : pc[c] = "clear" /\ at[c] = k

\* Memcache serves what the datastore holds, unless a put or a transaction is
\* on its way to delete it there, or was cut off before it could, or a delete
\* lost its lock before it reached the datastore.  This is so whatever gets are
\* under way with what they read before, and whenever locks expire.
MemcacheCurrent ==
  \A k \in Keys :
    Served(k) /\ GetKey(k).value # ds[k] => Pending(k) \/ loose[k]

\* Neither memcache nor a context outside its transaction shows an entity that
\* the datastore never held: nothing leaks from a write that is cut off or
\* from a transaction that does not commit.
OnlyWrittenShown ==
  \A k \in Keys :
    /\ Served(k) => GetKey(k).value \in was[k]
    /\ \A c \in Contexts : local[c][k] # NotCached => local[c][k] \in was[k]
=============================================================================
