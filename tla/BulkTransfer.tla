---------------------------- MODULE BulkTransfer ----------------------------
(***************************************************************************)
(* The bulk loader: uploads and downloads that record their progress in a  *)
(* SQLite database and are resumed from it after a crash or an interrupt.  *)
(*                                                                         *)
(* A data source thread yields work items; worker threads transfer them    *)
(* and split what is left of a key range; every change of an item's state  *)
(* goes through a queue to one progress thread, which owns the database.   *)
(* The pool of ThreadPool is a set of items here: which item a worker gets *)
(* next does not matter to what is recorded.                               *)
(*                                                                         *)
(* An entity is a line of the uploaded file or a stored entity of a kind.  *)
(* Key None is 0 as a start and Size + 1 as an end.                        *)
(***************************************************************************)
EXTENDS Integers, Sequences, FiniteSets, FiniteSetsExt, SequencesExt

CONSTANTS Workers,      \* the worker threads
          Source,       \* the data source thread
          Nobody,       \* nobody waits for a message
          Modes,        \* the kinds of transfer, of "upload" and "download"
          Size,         \* lines of the file, entities of a kind
          NumKinds,     \* kinds to download
          BatchSize,    \* batch_size
          PoolSize,     \* room for items in the pool of an upload
          CommitEvery,  \* commit_periodicity of an upload's progress database
          MaxRuns       \* bound: how often the program is started; the last
                        \* run is neither killed nor interrupted

ASSUME SourceAssumption == Source \notin Workers /\ Nobody \notin Workers \cup {Source}
ASSUME NumberAssumption ==
    /\ {Size, NumKinds, BatchSize, PoolSize, CommitEvery, MaxRuns} \subseteq Nat \ {0}
ASSUME ModesAssumption == Modes \subseteq {"upload", "download"}

Actors == Workers \cup {Source}

VARIABLES mode,      \* what the program transfers
          arrived,   \* entities at the server or in the committed result database
          disk,      \* committed rows of the progress database
          db,        \* its rows as the progress thread's connection sees them
          ops,       \* operation_count, modulo CommitEvery
          stored,    \* the entities of the first message are in the result database
          messages,  \* progress_queue
          waiting,   \* threads that wait for their progress_event
          pool,      \* items submitted to the thread pool
          todo,      \* items a thread will record and submit
          own,       \* the item each worker works on
          pc,        \* where each thread is
          app,       \* where the main thread is
          error,     \* BulkTransporterApp.error
          sent,      \* transfer_count of an upload
          toSend,    \* the entities this run of an upload reads
          code,      \* exit code of the last run that returned
          runs,      \* how often the program was started
          lost       \* history: entities that no later run will transfer

dbVars == <<disk, db, ops, stored>>
threadVars == <<messages, waiting, pool, todo, own, pc>>
appVars == <<app, error, toSend, code, runs>>
vars == <<mode, arrived, dbVars, threadVars, sent, appVars, lost>>

States == {"READ", "GETTING", "GOT", "ERROR"}  \* an upload's SENDING, SENT, NOT_SENT

NoKey == 0
KeyRanges == [kind : 1 .. NumKinds, start : 0 .. Size + 1, end : 0 .. Size + 1,
           inclStart : BOOLEAN, inclEnd : BOOLEAN, asc : BOOLEAN]
KeyRange(kind, start, end, inclStart, inclEnd, asc) ==
    [kind |-> kind, start |-> start, end |-> end,
     inclStart |-> inclStart, inclEnd |-> inclEnd, asc |-> asc]
Item(range, state, key) == [range |-> range, state |-> state, key |-> key]

\* The entities of a range.
Within(r) ==
    {<<r.kind, n>> : n \in {n \in 1 .. Size :
        /\ r.start < n \/ (r.inclStart /\ r.start = n)
        /\ n < r.end \/ (r.inclEnd /\ n = r.end)}}
WithinAll(items) == UNION {Within(item.range) : item \in items}

Wanted == (IF mode = "upload" THEN {1} ELSE 1 .. NumKinds) \X (1 .. Size)
-----------------------------------------------------------------------------
\* What a run starts with.

Lesser(a, b) == IF a < b THEN a ELSE b

\* The batches of the lines after the given one.
Lines(line) ==
    [n \in 1 .. (Size - line + BatchSize - 1) \div BatchSize |->
        LET first == line + 1 + (n - 1) * BatchSize
        IN  Item(KeyRange(1, first, Lesser(first + BatchSize - 1, Size), TRUE, TRUE, TRUE),
                 "READ", NoKey)]

\* The rows of what is not transferred, by id.  A row has no include flags.
Open(rows, id) == rows[id].state \notin {"GOT", "deleted"}
OpenIds(rows) == {id \in DOMAIN rows : Open(rows, id)}
Nth(ids, n) == CHOOSE id \in ids : Cardinality({other \in ids : other <= id}) = n
Recorded(rows) ==
    [n \in 1 .. Cardinality(OpenIds(rows)) |->
        LET id == Nth(OpenIds(rows), n)
        IN  Item(KeyRange(rows[id].kind, rows[id].start, rows[id].end, TRUE, TRUE, TRUE),
                 "READ", id)]
\* GetProgressStatusGenerator: an upload goes on after the last row, but if some
\* are unfinished, after the last of those: lines sent behind it are read again.
\* Mutant: from where that row starts.
ConsumedToStart(rows) ==
    IF OpenIds(rows) = {} THEN Max({0} \cup {rows[id].start : id \in DOMAIN rows})
                          ELSE rows[Max(OpenIds(rows))].start
ConsumedTo(rows) ==
    IF OpenIds(rows) = {} THEN Max({0} \cup {rows[id].end : id \in DOMAIN rows})
                          ELSE rows[Max(OpenIds(rows))].end

\* Batches: of the file, after the unfinished rows; of the kinds, unless a
\* progress database exists.
Batches(existing, rows) ==
    IF mode = "upload"
    THEN Recorded(rows) \o Lines(ConsumedTo(rows))
    ELSE IF existing
         THEN Recorded(rows)
         ELSE [kind \in 1 .. NumKinds |->
                  Item(KeyRange(kind, 0, Size + 1, TRUE, TRUE, TRUE), "READ", NoKey)]
\* What a later run will transfer.
Resumable(rows) == WithinAll({Batches(TRUE, rows)[n] : n \in DOMAIN Batches(TRUE, rows)})

Idle == Item(KeyRange(1, 0, 0, FALSE, FALSE, TRUE), "READ", NoKey)

Init ==
    /\ mode \in Modes
    /\ arrived = {} /\ lost = {}
    /\ disk = <<>> /\ db = <<>> /\ ops = 0 /\ stored = FALSE
    /\ messages = <<>> /\ waiting = {} /\ pool = {}
    /\ todo = [a \in Actors |-> <<>>] /\ own = [w \in Workers |-> Idle]
    /\ pc = [a \in Actors |-> "ended"]
    /\ app = "down" /\ error = FALSE /\ sent = 0 /\ toSend = 0 /\ code = 1 /\ runs = 0

\* With nothing more to add a worker is done with its item, the source ends.
Adding(a, items) ==
    CASE items # <<>> -> "add"
      [] items = <<>> /\ a = Source -> "ended"
      [] OTHER -> "idle"

Start ==
    /\ app \in {"down", "returned"} /\ runs < MaxRuns
    /\ runs' = runs + 1
    /\ app' = "running" /\ code' = 1
    /\ LET batches == Batches(runs > 0, disk) IN
       /\ todo' = [todo EXCEPT ![Source] = batches]
       /\ toSend' = Cardinality(WithinAll(ToSet(batches)))
       /\ pc' = [a \in Actors |-> IF a = Source THEN Adding(a, batches) ELSE "idle"]
    /\ UNCHANGED <<mode, arrived, dbVars, messages, waiting, pool, own, error, sent, lost>>
-----------------------------------------------------------------------------
\* _StateTransition: the item goes to the progress thread; a blocking caller
\* goes on, at next, when the progress thread has recorded it.  Nobody changes
\* an item that is on its way there.
Message(from, item, entities) == [from |-> from, item |-> item, entities |-> entities]
Blocking(a, item, entities, next) ==
    /\ messages' = Append(messages, Message(a, item, entities))
    /\ waiting' = waiting \cup {a}
    /\ pc' = [pc EXCEPT ![a] = next]
Ready(a, where) == pc[a] = where /\ a \notin waiting

\* MarkAsRead and SubmitItem of the next item, as the data source and a worker
\* that splits a range do it.
MarkAsRead(a) ==
    /\ Ready(a, "add") /\ todo[a] # <<>>
    /\ Blocking(a, Head(todo[a]), {}, "submit")
    /\ UNCHANGED <<mode, arrived, dbVars, pool, todo, own, sent, appVars, lost>>

\* The pool of a download has no bound.
\* Mutant: it has the bound of an upload.
BoundedRoom == Cardinality(pool) < PoolSize
Room == mode = "download" \/ Cardinality(pool) < PoolSize
SubmitItem(a) ==
    /\ Ready(a, "submit") /\ Room
    /\ pool' = pool \cup {Head(todo[a])}
    /\ todo' = [todo EXCEPT ![a] = Tail(@)]
    /\ pc' = [pc EXCEPT ![a] = Adding(a, Tail(todo[a]))]
    /\ UNCHANGED <<mode, arrived, dbVars, messages, waiting, own, sent, appVars, lost>>

\* The data source's exit flag is set.
SourceExits ==
    /\ app = "failing"
    /\ pc[Source] \in {"add", "submit"} /\ Source \notin waiting
    /\ pc' = [pc EXCEPT ![Source] = "exited"]
    /\ UNCHANGED <<mode, arrived, dbVars, messages, waiting, pool, todo, own, sent,
                   appVars, lost>>
-----------------------------------------------------------------------------
\* The worker threads: _WorkItem.PerformWork.

MarkAsTransferring(w) ==
    /\ app = "running" /\ Ready(w, "idle")
    /\ \E item \in pool :
          /\ pool' = pool \ {item}
          /\ own' = [own EXCEPT ![w] = [item EXCEPT !.state = "GETTING"]]
          /\ Blocking(w, own'[w], {}, "transfer")
    /\ UNCHANGED <<mode, arrived, dbVars, todo, sent, appVars, lost>>

\* UploadWorkItem: the rows are at the server, and the item is marked as sent
\* without waiting.
\* Mutant: marked before they are there.
NothingPosted(w) == arrived
Posted(w) == arrived \cup Within(own[w].range)
PostEntities(w) ==
    /\ mode = "upload" /\ Ready(w, "transfer")
    /\ arrived' = Posted(w)
    /\ messages' = Append(messages,
                          Message(Nobody, [own[w] EXCEPT !.state = "GOT"], {}))
    /\ own' = [own EXCEPT ![w] = Idle]
    /\ pc' = [pc EXCEPT ![w] = "idle"]
    /\ UNCHANGED <<mode, dbVars, waiting, pool, todo, sent, appVars, lost>>

\* GetEntities: the first or the last batch of the range.
NumbersIn(r) == {entity[2] : entity \in Within(r)}
Fetched(r) ==
    {<<r.kind, n>> : n \in {n \in NumbersIn(r) :
        Cardinality({k \in NumbersIn(r) : IF r.asc THEN k < n ELSE k > n}) < BatchSize}}
Continued(r) == Cardinality(Fetched(r)) = BatchSize

\* What is left of the range: the flag at its other end is not kept.
\* Mutant: the last entity is in neither part.
SkippingRemainder(r) ==
    LET numbers == {entity[2] : entity \in Fetched(r)}
    IN  IF r.asc
        THEN KeyRange(r.kind, Max(numbers) + 1, r.end, FALSE, TRUE, TRUE)
        ELSE KeyRange(r.kind, r.start, Min(numbers), TRUE, FALSE, TRUE)
Remainder(r) ==
    LET numbers == {entity[2] : entity \in Fetched(r)}
    IN  IF r.asc
        THEN KeyRange(r.kind, Max(numbers), r.end, FALSE, TRUE, TRUE)
        ELSE KeyRange(r.kind, r.start, Min(numbers), TRUE, FALSE, TRUE)

\* KeyRange.split_range with some key of the range to split it at.
Split(r) ==
    CASE r.start = 0 -> {<<[r EXCEPT !.asc = TRUE]>>}
      [] r.start # 0 /\ r.end = Size + 1 -> {<<[r EXCEPT !.asc = FALSE]>>}
      [] OTHER ->
            {<<KeyRange(r.kind, r.start, key, r.inclStart, key # r.start \/ r.inclStart, FALSE),
               KeyRange(r.kind, key, r.end, FALSE, key # r.end /\ r.inclEnd, TRUE)>> :
                key \in r.start .. r.end}
\* Unsplit while the pool holds many items.
Divisions(r) == Split(r) \cup {<<r>>}

\* DownloadItem: without a descending index the fetch is ascending all the
\* same.  The fetched part is recorded as got; what is left, if there
\* may be more, is added in one or two new items.
GetEntities(w) ==
    /\ mode = "download" /\ Ready(w, "transfer")
    /\ \E asc \in {own[w].range.asc, TRUE} :
       LET r == [own[w].range EXCEPT !.asc = asc] IN
       IF Continued(r)
       THEN /\ Blocking(w, [own[w] EXCEPT !.state = "GOT"], Fetched(r), "add")
            /\ \E ranges \in Divisions(Remainder(r)) :
                  todo' = [todo EXCEPT ![w] =
                      [n \in DOMAIN ranges |-> Item(ranges[n], "READ", NoKey)]]
       ELSE /\ Blocking(w, [own[w] EXCEPT !.state = "GOT"], Fetched(r), "idle")
            /\ UNCHANGED todo
    /\ own' = [own EXCEPT ![w] = Idle]
    /\ UNCHANGED <<mode, arrived, dbVars, pool, sent, appVars, lost>>

\* MarkAsError: for a retry, when what was posted may have arrived all the same,
\* or for an error the worker dies of.
MarkAsError(w) ==
    /\ Ready(w, "transfer")
    /\ own' = [own EXCEPT ![w].state = "ERROR"]
    /\ \/ /\ arrived' \in {arrived} \cup (IF mode = "upload" THEN {Posted(w)} ELSE {})
          /\ Blocking(w, own'[w], {}, "reput")
       \/ /\ Blocking(w, own'[w], {}, "dead")
          /\ UNCHANGED arrived
    /\ UNCHANGED <<mode, dbVars, pool, todo, sent, appVars, lost>>

Reput(w) ==
    /\ Ready(w, "reput")
    /\ pool' = pool \cup {own[w]}
    /\ own' = [own EXCEPT ![w] = Idle]
    /\ pc' = [pc EXCEPT ![w] = "idle"]
    /\ UNCHANGED <<mode, arrived, dbVars, messages, waiting, todo, sent, appVars, lost>>
-----------------------------------------------------------------------------
\* The progress thread.

FirstMessage == Head(messages)

\* _MaybeCommit
CommitDue == mode = "download" \/ ops + 1 = CommitEvery
MaybeCommit ==
    /\ ops' = IF CommitDue THEN 0 ELSE ops + 1
    /\ disk' = IF CommitDue THEN db' ELSE disk
Acknowledge ==
    /\ messages' = Tail(messages)
    /\ waiting' = waiting \ {FirstMessage.from}

StoreKeys ==
    /\ messages # <<>> /\ FirstMessage.item.state = "READ"
    /\ FirstMessage.item.key = NoKey
    /\ LET r == FirstMessage.item.range IN
       db' = Append(db, [kind |-> r.kind, start |-> r.start, end |-> r.end,
                         state |-> "READ"])
    /\ todo' = [todo EXCEPT ![FirstMessage.from][1].key = Len(db')]
    /\ MaybeCommit /\ Acknowledge
    /\ UNCHANGED <<mode, arrived, stored, pool, own, pc, sent, appVars, lost>>

Got == mode = "download" /\ FirstMessage.item.state = "GOT"

\* Mutant: an item whose transfer failed is counted too.
CountedOnError(item) == item.state \in {"GOT", "ERROR"}
Counted(item) == item.state = "GOT"
UpdateState ==
    /\ messages # <<>> /\ FirstMessage.item.key # NoKey /\ ~Got
    /\ db' = [db EXCEPT ![FirstMessage.item.key].state = FirstMessage.item.state]
    /\ sent' = IF Counted(FirstMessage.item)
               THEN sent + Cardinality(Within(FirstMessage.item.range)) ELSE sent
    /\ MaybeCommit /\ Acknowledge
    /\ UNCHANGED <<mode, arrived, stored, pool, todo, own, pc, appVars, lost>>

\* ResultDatabase.StoreEntities commits before the row is deleted.
StoreEntities ==
    /\ messages # <<>> /\ Got /\ ~stored
    /\ arrived' = arrived \cup FirstMessage.entities
    /\ stored' = TRUE
    /\ UNCHANGED <<mode, disk, db, ops, threadVars, sent, appVars, lost>>

\* Mutant: the row may be deleted first.
MayDeleteAtOnce == TRUE
MayDelete == stored
DeleteKey ==
    /\ messages # <<>> /\ Got /\ MayDelete
    /\ db' = [db EXCEPT ![FirstMessage.item.key].state = "deleted"]
    /\ stored' = FALSE
    /\ MaybeCommit /\ Acknowledge
    /\ UNCHANGED <<mode, arrived, pool, todo, own, pc, sent, appVars, lost>>
-----------------------------------------------------------------------------
\* The main thread: BulkTransporterApp.Run from the start of the threads on.

\* What no later run would transfer that finds these rows.
Missed(rows) == Wanted \ (arrived \cup Resumable(rows))
Unsafe == Missed(disk)

QueueJoined ==
    /\ app = "running" /\ pc[Source] = "ended"
    /\ pool = {} /\ \A w \in Workers : Ready(w, "idle")
    /\ app' = "closing"
    /\ UNCHANGED <<mode, arrived, dbVars, threadVars, sent, error, toSend, code, runs, lost>>

\* ShutdownThreads: the queued items are dropped, and nobody takes another one.
ShutdownThreads ==
    /\ app = "running" /\ app' = "failing"
    /\ pool' = {}
    /\ UNCHANGED <<mode, arrived, dbVars, messages, waiting, todo, own, pc, sent,
                   toSend, code, runs, lost>>
Interrupt == runs < MaxRuns /\ ShutdownThreads /\ error' = TRUE
\* A dead worker is an error only while the data source is alive.
SeesDeath ==
    /\ \E w \in Workers : Ready(w, "dead")
    /\ ShutdownThreads
    /\ error' = (pc[Source] # "ended")

ThreadsJoined ==
    /\ app = "failing" /\ pc[Source] \in {"ended", "exited"}
    /\ \A w \in Workers : Ready(w, "idle") \/ Ready(w, "dead")
    /\ app' = "closing"
    /\ UNCHANGED <<mode, arrived, dbVars, threadVars, sent, error, toSend, code, runs, lost>>

\* The progress queue is joined, ThreadComplete commits, ReportStatus.
ThreadComplete == disk' = db
ExitCode ==
    IF mode = "upload"
    THEN IF pc[Source] = "ended" /\ sent >= toSend THEN 0 ELSE 1
    ELSE IF error THEN 1 ELSE 0
Ended ==
    /\ ops' = 0 /\ pool' = {} /\ error' = FALSE /\ sent' = 0 /\ toSend' = 0
    /\ todo' = [a \in Actors |-> <<>>] /\ own' = [w \in Workers |-> Idle]
    /\ pc' = [a \in Actors |-> "ended"]
    /\ UNCHANGED <<mode, arrived, runs>>
Return ==
    /\ app = "closing" /\ messages = <<>>
    /\ ThreadComplete
    /\ app' = "returned" /\ code' = ExitCode
    /\ lost' = Missed(db)
    /\ Ended
    /\ UNCHANGED <<db, stored, messages, waiting>>

\* The process is killed: what was not committed is rolled back.
Crash ==
    /\ app \in {"running", "failing", "closing"} /\ runs < MaxRuns
    /\ app' = "down" /\ lost' = Unsafe
    /\ db' = disk /\ stored' = FALSE
    /\ messages' = <<>> /\ waiting' = {}
    /\ Ended
    /\ UNCHANGED <<disk, code>>
-----------------------------------------------------------------------------
Adds(a) == MarkAsRead(a) \/ SubmitItem(a)
Transfers(w) == PostEntities(w) \/ GetEntities(w)
SourceStep == Adds(Source) \/ SourceExits
WorkerStep(w) ==
    Adds(w) \/ MarkAsTransferring(w) \/ Transfers(w) \/ MarkAsError(w) \/ Reput(w)
ProgressStep == StoreKeys \/ UpdateState \/ StoreEntities \/ DeleteKey
MainStep == QueueJoined \/ SeesDeath \/ ThreadsJoined \/ Return

ThreadStep ==
    SourceStep \/ (\E w \in Workers : WorkerStep(w)) \/ ProgressStep \/ MainStep

Next == Start \/ Crash \/ Interrupt \/ ThreadStep

Spec == Init /\ [][Next]_vars

\* Some thread that can go on does - all work but retrying is finite, so no
\* thread needs more - and retried transfers do not fail for ever.
FairSpec ==
    /\ Spec
    /\ WF_vars(ThreadStep)
    /\ SF_vars(\E w \in Workers : Transfers(w))
-----------------------------------------------------------------------------
Items == [range : KeyRanges, state : States, key : Nat]
Rows == [kind : 1 .. NumKinds, start : 0 .. Size + 1, end : 0 .. Size + 1,
         state : States \cup {"deleted"}]

TypeOK ==
    /\ mode \in Modes
    /\ arrived \subseteq Wanted /\ lost \subseteq Wanted
    /\ disk \in Seq(Rows) /\ db \in Seq(Rows) /\ ops \in 0 .. CommitEvery - 1
    /\ stored \in BOOLEAN
    /\ messages \in Seq([from : Actors \cup {Nobody}, item : Items,
                          entities : SUBSET Wanted])
    /\ waiting \subseteq Actors /\ pool \subseteq Items
    /\ todo \in [Actors -> Seq(Items)] /\ own \in [Workers -> Items]
    /\ pc \in [Actors -> {"idle", "transfer", "reput", "dead", "add", "submit",
                          "ended", "exited"}]
    /\ app \in {"down", "running", "failing", "closing", "returned"}
    /\ error \in BOOLEAN /\ code \in {0, 1}
    /\ sent \in Nat /\ toSend \in Nat /\ runs \in 0 .. MaxRuns

(***************************************************************************)
(* Whenever an upload is killed, the rows on disk make the next run send   *)
(* every line that is not at the server: a row is marked as sent only      *)
(* after its lines arrived, what is committed is a prefix of what the      *)
(* progress thread did, and the rows leave no gap before the last one.     *)
(***************************************************************************)
UploadResumable == mode = "upload" => Unsafe = {}

(***************************************************************************)
(* A download killed at this moment can lose only what a thread has in     *)
(* hand and not yet recorded: the kinds the data source has not come to,   *)
(* and what a worker has just split off a range.                           *)
(***************************************************************************)
InHand ==
    UNION {WithinAll({item \in ToSet(todo[a]) : item.key = NoKey}) : a \in Actors}
OnlyInHandAtRisk == app \notin {"down", "returned"} => Unsafe \subseteq InHand \cup lost

(***************************************************************************)
(* A run of an upload never has one line in two items: neither resuming    *)
(* nor a retry makes two workers post the same line at the same time.      *)
(* (A later run may post it again, see NothingSentAgain.)                  *)
(***************************************************************************)
NotTwice ==
    mode = "upload" =>
        \A x, y \in pool \cup {own[w] : w \in Workers} \cup ToSet(todo[Source]) :
            x # y => Within(x.range) \cap Within(y.range) = {}

\* Who can go on.
ProgressCan ==
    messages # <<>> /\ (FirstMessage.item.state = "READ" \/ FirstMessage.item.key # NoKey)
ThreadCan(a) ==
    /\ a \notin waiting
    /\ \/ pc[a] \in {"add", "transfer", "reput"}
       \/ pc[a] = "submit" /\ (Room \/ (a = Source /\ app = "failing"))
       \/ pc[a] = "idle" /\ app = "running" /\ pool # {}
MainCan ==
    \/ /\ app = "running"
       /\ \/ \E w \in Workers : Ready(w, "dead")
          \/ pc[Source] = "ended" /\ pool = {} /\ \A w \in Workers : Ready(w, "idle")
    \/ /\ app = "failing" /\ pc[Source] \in {"ended", "exited"}
       /\ \A w \in Workers : Ready(w, "idle") \/ Ready(w, "dead")
    \/ app = "closing" /\ messages = <<>>

(***************************************************************************)
(* A run never comes to a stand with all waiting for each other: for the   *)
(* progress thread, for room in the pool that they work for themselves, or *)
(* for a thread that died or left.                                         *)
(***************************************************************************)
NobodyStuck ==
    app \notin {"down", "returned"} =>
        ProgressCan \/ (\E a \in Actors : ThreadCan(a)) \/ MainCan

(***************************************************************************)
(* An upload that exits with 0 ('All entities successfully transferred')   *)
(* has transferred every line, in this run or an earlier one.              *)
(***************************************************************************)
UploadExitsTrue ==
    app = "returned" /\ mode = "upload" /\ code = 0 => arrived = Wanted

(***************************************************************************)
(* When the queue of work items is joined, everything arrived, whatever    *)
(* was retried, split or left by earlier runs - but for what crashes lost. *)
(***************************************************************************)
JoinedMeansArrived ==
    [][app = "running" /\ app' = "closing" => Wanted \ lost \subseteq arrived]_vars

(***************************************************************************)
(* A run ends: no thread waits for ever for the progress thread or for     *)
(* room in the pool.                                                       *)
(***************************************************************************)
RunEnds == app = "running" ~> app \in {"down", "returned"}

(***************************************************************************)
(* KeyRangeItem, bulkloader.py:996-1000: items not in the STATE_GOT state  *)
(* are stored in the progress database, and so are the ranges covering the *)
(* undownloaded part of a range: a download of one kind of which something *)
(* was downloaded can be resumed without loss.                             *)
(***************************************************************************)
DownloadResumable == app = "down" /\ arrived # {} => lost = {}

(***************************************************************************)
(* UseProgressData and GetProgressStatusGenerator, bulkloader.py:2121-2123 *)
(* and 2245-2251: a resumed upload sends the incomplete records again and  *)
(* then goes on after all the successful data, after the last key that was *)
(* handled: it sends no line again that the database says is sent.         *)
(***************************************************************************)
NothingSentAgain ==
    mode = "upload" /\ app \in {"down", "returned"} =>
        \A id \in DOMAIN disk : disk[id].state = "GOT" =>
            Within(KeyRange(disk[id].kind, disk[id].start, disk[id].end, TRUE, TRUE, TRUE))
                \cap Resumable(disk) = {}
=============================================================================
