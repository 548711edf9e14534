------------------------------ MODULE Ingestion ------------------------------
(***************************************************************************)
(* Telemetry ingestion: POST /telemetry/ingest (platform_api.py), the      *)
(* ingestion_jobs table, the Redis stream with its consumer group, and the *)
(* background worker (worker.py).                                          *)
(*                                                                         *)
(* Every call that leaves a process (a statement the database commits, a   *)
(* Redis command) is an action of its own, so API threads and workers      *)
(* interleave between any two of them, and either may die there.           *)
(*                                                                         *)
(* A key stands for one (tenant, idempotency key) and for the one job and  *)
(* the one payload it can have.  Timestamps, the error text, the event     *)
(* count and the metrics are left out.                                     *)
(***************************************************************************)
EXTENDS Integers, Sequences

CONSTANTS
  Keys,         \* the (tenant_id, idempotency_key) pairs clients use
  NoKey,        \* the key of a thread that serves no request
  Handlers,     \* API threads that run ingest()
  Workers,      \* processes that run worker.main()
  BatchSize,    \* COUNT of XREADGROUP (10 in the code)
  MaxAttempts,  \* settings.max_processing_attempts
  Faults,       \* the kinds of fault that may happen
  MaxFaults     \* how many faults a behaviour has at most

FaultKinds ==
  { "crash",       \* a process dies, or an exception leaves the handler
    "refused",     \* a Redis command fails and is not applied
    "reply_lost",  \* a Redis command is applied, and the client sees an error
    "db" }         \* a commit of the worker fails

ASSUME KeysAssumption == NoKey \notin Keys
ASSUME BatchAssumption == BatchSize \in Nat \ {0}
ASSUME AttemptsAssumption == MaxAttempts \in Nat \ {0}
ASSUME FaultsAssumption == Faults \subseteq FaultKinds /\ MaxFaults \in Nat

VARIABLES
  jobs,      \* ingestion_jobs: the row of each key, NoRow before the insert
  stream,    \* the Redis stream: the key each entry carries, in order
  cursor,    \* last-delivered entry of the consumer group
  pel,       \* entries delivered to the group and not acknowledged
  dlq,       \* the dead-letter stream
  stored,    \* keys whose telemetry the pipeline has committed
  accepted,  \* keys for which some client has got a 202
  handler,   \* the API threads
  worker,    \* the workers
  faults     \* number of faults so far

db == <<jobs, stored>>
redis == <<stream, cursor, pel, dlq>>
vars == <<jobs, stream, cursor, pel, dlq, stored, accepted, handler, worker,
          faults>>

Statuses == {"ABSENT", "QUEUED", "QUEUE_UNAVAILABLE", "PROCESSING", "RETRYING",
             "COMPLETED", "DEAD_LETTER"}
NoRow == [status |-> "ABSENT", attempts |-> 0, stream_id |-> 0]
Rows == [status : Statuses, attempts : Nat, stream_id : Nat]

HandlerPCs == {"idle", "insert", "xadd", "record", "unavailable"}
WorkerPCs == {"idle", "fetch", "start", "process", "reload", "complete", "ack",
              "failed", "decide", "route", "dlqack", "retryack"}

\* A thread at pc serves key k and holds the stream id it got from XADD; a worker
\* at pc is at entry i of a batch that ends with entry n, with the row it loaded.
Request(pc, k, id) == [pc |-> pc, key |-> k, id |-> id]
Batch(pc, i, n, row) == [pc |-> pc, item |-> i, last |-> n, row |-> row]
Idle == Request("idle", NoKey, 0)
Waiting == Batch("idle", 1, 0, NoRow)

TablesType == jobs \in [Keys -> Rows] /\ stored \subseteq Keys
RedisType ==
  /\ stream \in Seq(Keys) /\ dlq \in Seq(Keys)
  /\ cursor \in 0..Len(stream) /\ pel \subseteq 1..cursor
HandlerType ==
  /\ handler \in [Handlers -> [pc : HandlerPCs, key : Keys \cup {NoKey}, id : Nat]]
  /\ \A h \in Handlers : handler[h].pc # "idle" => handler[h].key \in Keys
WorkerType ==
  /\ worker \in [Workers -> [pc : WorkerPCs, item : Nat, last : Nat, row : Rows]]
  /\ \A w \in Workers : worker[w].pc # "idle" =>
       worker[w].item \in 1..worker[w].last /\ worker[w].last <= cursor

TypeOK ==
  /\ TablesType /\ RedisType /\ HandlerType /\ WorkerType
  /\ accepted \subseteq Keys /\ faults \in 0..MaxFaults

Init ==
  /\ jobs = [k \in Keys |-> NoRow]
  /\ stream = <<>> /\ cursor = 0 /\ pel = {} /\ dlq = <<>>
  /\ stored = {} /\ accepted = {}
  /\ handler = [h \in Handlers |-> Idle]
  /\ worker = [w \in Workers |-> Waiting]
  /\ faults = 0

Fault(kind) == kind \in Faults /\ faults < MaxFaults /\ faults' = faults + 1
NoFault == UNCHANGED faults

\* SQLAlchemy emits the columns whose value differs from the one it loaded,
\* so the status written is lost on nobody only if the loaded one differs.
WrittenStatus(k, loaded, new) ==
  IF loaded.status = new THEN jobs[k].status ELSE new

-----------------------------------------------------------------------------
(* The API thread: ingest(). *)

Becomes(h, r) == handler' = [handler EXCEPT ![h] = r]

\* Looks the key up; a row answers 202 with deduplicated = True.
Lookup(h, k) ==
  /\ handler[h].pc = "idle"
  /\ \/ /\ jobs[k].status = "ABSENT"
        /\ Becomes(h, Request("insert", k, 0)) /\ UNCHANGED accepted
     \/ /\ jobs[k].status # "ABSENT"
        /\ accepted' = accepted \cup {k} /\ UNCHANGED handler
  /\ UNCHANGED <<db, redis, worker, faults>>

\* Mutant: no unique constraint, the second insert is a second job to enqueue.
InsertJob_NotUnique(h) ==
  /\ handler[h].pc = "insert"
  /\ jobs' = [jobs EXCEPT ![handler[h].key].status = "QUEUED"]
  /\ Becomes(h, Request("xadd", handler[h].key, 0))
  /\ UNCHANGED <<stored, redis, accepted, worker, faults>>

\* Inserts the job; uq_job_tenant_idempotency turns a second insert into a 500.
InsertJob(h) ==
  LET k == handler[h].key IN
  /\ handler[h].pc = "insert"
  /\ \/ /\ jobs[k].status = "ABSENT"
        /\ jobs' = [jobs EXCEPT ![k].status = "QUEUED"]
        /\ Becomes(h, Request("xadd", k, 0))
     \/ /\ jobs[k].status # "ABSENT"
        /\ Becomes(h, Idle) /\ UNCHANGED jobs
  /\ UNCHANGED <<stored, redis, accepted, worker, faults>>

\* XADD of key k; and XADD that raises, before or after Redis has applied it.
Xadd(k) == stream' = Append(stream, k) /\ NoFault
XaddRaises(k) == \/ Fault("refused") /\ UNCHANGED stream
                 \/ Fault("reply_lost") /\ stream' = Append(stream, k)

Enqueue(h) ==
  /\ handler[h].pc = "xadd"
  /\ \/ /\ Xadd(handler[h].key)
        /\ Becomes(h, Request("record", handler[h].key, Len(stream')))
     \/ /\ XaddRaises(handler[h].key)
        /\ Becomes(h, Request("unavailable", handler[h].key, 0))
  /\ UNCHANGED <<db, cursor, pel, dlq, accepted, worker>>

\* Stores the stream id and answers 202.
RecordStreamId(h) ==
  LET k == handler[h].key IN
  /\ handler[h].pc = "record"
  /\ jobs' = [jobs EXCEPT ![k].stream_id = handler[h].id]
  /\ accepted' = accepted \cup {k}
  /\ Becomes(h, Idle)
  /\ UNCHANGED <<stored, redis, worker, faults>>

\* The except branch: overwrites whatever status the row has now, answers 503.
MarkUnavailable(h) ==
  /\ handler[h].pc = "unavailable"
  /\ jobs' = [jobs EXCEPT ![handler[h].key].status = "QUEUE_UNAVAILABLE"]
  /\ Becomes(h, Idle)
  /\ UNCHANGED <<stored, redis, accepted, worker, faults>>

\* The API process dies, or the thread ends with a 500 on a database error.
HandlerDies(h) ==
  /\ handler[h].pc # "idle" /\ Fault("crash")
  /\ Becomes(h, Idle)
  /\ UNCHANGED <<db, redis, accepted, worker>>

-----------------------------------------------------------------------------
(* The worker: run_once(). *)

Key(w) == stream[worker[w].item]

\* A step of w from one point of the code to another, and one that loads the row.
Moves(w, from, to) ==
  /\ worker[w].pc = from /\ worker' = [worker EXCEPT ![w].pc = to]
  /\ UNCHANGED <<accepted, handler>>
Loads(w, from, to) ==
  /\ worker[w].pc = from
  /\ worker' = [worker EXCEPT ![w] = Batch(to, @.item, @.last, jobs[Key(w)])]
  /\ UNCHANGED <<db, redis, accepted, handler, faults>>

\* Mutant: main() runs one batch and returns.
NextItem_Once(w) ==
  /\ worker' = [worker EXCEPT ![w] =
       IF @.item < @.last THEN Batch("fetch", @.item + 1, @.last, NoRow)
                          ELSE Batch("returned", 1, 0, NoRow)]
  /\ UNCHANGED <<accepted, handler>>

\* finally: the session is closed, then the next entry of the batch or a new one.
NextItem(w) ==
  /\ worker' = [worker EXCEPT ![w] =
       IF @.item < @.last THEN Batch("fetch", @.item + 1, @.last, NoRow) ELSE Waiting]
  /\ UNCHANGED <<accepted, handler>>

\* An exception leaves run_once, or the process dies: main() starts over and
\* nothing remembers the rest of the batch.
Abandons(w) ==
  worker' = [worker EXCEPT ![w] = Waiting] /\ UNCHANGED <<accepted, handler>>

\* XREADGROUP ">" COUNT BatchSize delivers entries nobody has got before.
BatchEnd == IF cursor + BatchSize < Len(stream) THEN cursor + BatchSize
                                                ELSE Len(stream)

Deliver ==
  /\ cursor < Len(stream)
  /\ cursor' = BatchEnd
  /\ pel' = pel \cup ((cursor + 1)..BatchEnd)
  /\ UNCHANGED <<stream, dlq>>

\* The reply with the entries may never reach the worker.
Read(w) ==
  /\ worker[w].pc = "idle"
  /\ Deliver
  /\ \/ worker' = [worker EXCEPT ![w] = Batch("fetch", cursor + 1, BatchEnd, NoRow)]
        /\ NoFault
     \/ Fault("reply_lost") /\ UNCHANGED worker
  /\ UNCHANGED <<db, accepted, handler>>

\* db.get of the job, before the try; nothing deletes a job, so the row is there.
Fetch(w) == Loads(w, "fetch", "start")

\* Mutant: the attempt is not counted.
Start_NotCounted(w) ==
  /\ Moves(w, "start", "process")
  /\ jobs' = [jobs EXCEPT ![Key(w)].status = "PROCESSING"]
  /\ UNCHANGED <<stored, redis, faults>>

\* status = PROCESSING and attempts + 1, computed from the loaded row.
Start(w) ==
  LET row == worker[w].row IN
  /\ Moves(w, "start", "process")
  /\ jobs' = [jobs EXCEPT ![Key(w)] =
       [status |-> WrittenStatus(Key(w), row, "PROCESSING"),
        attempts |-> row.attempts + 1, stream_id |-> @.stream_id]]
  /\ UNCHANGED <<stored, redis, faults>>

\* process_raw_telemetry commits the telemetry in one transaction, or the payload
\* or the pipeline raises and nothing is committed.
ProcessOk(w) ==
  /\ Moves(w, "process", "reload")
  /\ stored' = stored \cup {Key(w)}
  /\ UNCHANGED <<jobs, redis, faults>>

\* Mutant: the exception is swallowed.
ProcessFails_Swallowed(w) ==
  Moves(w, "process", "reload") /\ UNCHANGED <<db, redis, faults>>

ProcessFails(w) == Moves(w, "process", "failed") /\ UNCHANGED <<db, redis, faults>>

\* The second db.get, after the pipeline's commit has expired the row.
Reload(w) == Loads(w, "reload", "complete")

Complete(w) ==
  /\ Moves(w, "complete", "ack")
  /\ jobs' = [jobs EXCEPT ![Key(w)].status =
       WrittenStatus(Key(w), worker[w].row, "COMPLETED")]
  /\ UNCHANGED <<stored, redis, faults>>

\* Either commit fails: the except branch takes over.
CommitFails(w) ==
  /\ Moves(w, "start", "failed") \/ Moves(w, "complete", "failed")
  /\ Fault("db")
  /\ UNCHANGED <<db, redis>>

Acked(w) == pel' = pel \ {worker[w].item} /\ UNCHANGED <<stream, cursor, dlq>>

Ack(w) ==
  /\ worker[w].pc = "ack"
  /\ Acked(w) /\ NextItem(w)
  /\ UNCHANGED <<db, faults>>

\* XACK raises inside the try: the completed job is treated as failed.
AckRaises(w) ==
  /\ Moves(w, "ack", "failed")
  /\ \/ Fault("refused") /\ UNCHANGED redis
     \/ Fault("reply_lost") /\ Acked(w)
  /\ UNCHANGED db

-----------------------------------------------------------------------------
(* The worker's except branch. *)

\* rollback() and a fresh db.get.
Failed(w) == Loads(w, "failed", "decide")

\* Mutant: the bound is off by one.
Verdict_Early(row) == IF row.attempts >= MaxAttempts - 1 THEN "DEAD_LETTER" ELSE "RETRYING"

\* Mutant: a job that is tried again gets a status no reader of the row knows.
Verdict_Failed(row) == IF row.attempts >= MaxAttempts THEN "DEAD_LETTER" ELSE "FAILED"

Verdict(row) == IF row.attempts >= MaxAttempts THEN "DEAD_LETTER" ELSE "RETRYING"

Decide(w) ==
  LET row == worker[w].row IN
  /\ Moves(w, "decide", "route")
  /\ jobs' = [jobs EXCEPT ![Key(w)].status = WrittenStatus(Key(w), row, Verdict(row))]
  /\ UNCHANGED <<stored, redis, faults>>

\* job.status is read again here: the commit has expired the attribute.
IsDead(w) == jobs[Key(w)].status = "DEAD_LETTER"

DeadLetter(w) ==
  /\ Moves(w, "route", "dlqack") /\ IsDead(w)
  /\ dlq' = Append(dlq, Key(w))
  /\ UNCHANGED <<db, stream, cursor, pel, faults>>

\* Mutant: the row says RETRYING and nothing is enqueued.
Retry_NotEnqueued(w) ==
  /\ Moves(w, "route", "retryack") /\ ~IsDead(w)
  /\ UNCHANGED <<db, redis, faults>>

Retry(w) ==
  /\ Moves(w, "route", "retryack") /\ ~IsDead(w)
  /\ Xadd(Key(w))
  /\ UNCHANGED <<db, cursor, pel, dlq>>

AckFailure(w) ==
  /\ worker[w].pc \in {"dlqack", "retryack"}
  /\ Acked(w) /\ NextItem(w)
  /\ UNCHANGED <<db, faults>>

WorkerDies(w) ==
  /\ worker[w].pc # "idle" /\ Fault("crash")
  /\ Abandons(w)
  /\ UNCHANGED <<db, redis>>

\* A command of the except branch, or a commit of it, or the db.get before the
\* try raises, with or without effect, and nothing catches it.
FailureRaises(w) ==
  /\ \/ /\ worker[w].pc = "route" /\ IsDead(w) /\ Fault("reply_lost")
        /\ dlq' = Append(dlq, Key(w)) /\ UNCHANGED <<stream, cursor, pel>>
     \/ /\ worker[w].pc = "route" /\ ~IsDead(w) /\ Fault("reply_lost")
        /\ stream' = Append(stream, Key(w)) /\ UNCHANGED <<cursor, pel, dlq>>
     \/ worker[w].pc \in {"dlqack", "retryack"} /\ Fault("reply_lost") /\ Acked(w)
     \/ /\ worker[w].pc \in {"route", "dlqack", "retryack"} /\ Fault("refused")
        /\ UNCHANGED redis
     \/ /\ worker[w].pc \in {"fetch", "failed", "decide"} /\ Fault("db")
        /\ UNCHANGED redis
  /\ Abandons(w)
  /\ UNCHANGED db

-----------------------------------------------------------------------------
HandlerStep(h) ==
  InsertJob(h) \/ Enqueue(h) \/ RecordStreamId(h) \/ MarkUnavailable(h)

WorkerStep(w) ==
  \/ Read(w) \/ Fetch(w) \/ Start(w) \/ ProcessOk(w) \/ ProcessFails(w)
  \/ Reload(w) \/ Complete(w) \/ CommitFails(w) \/ Ack(w) \/ AckRaises(w)
  \/ Failed(w) \/ Decide(w) \/ DeadLetter(w) \/ Retry(w) \/ AckFailure(w)
  \/ FailureRaises(w)

Next ==
  \/ \E h \in Handlers : (\E k \in Keys : Lookup(h, k)) \/ HandlerStep(h) \/ HandlerDies(h)
  \/ \E w \in Workers : WorkerStep(w) \/ WorkerDies(w)

Spec == Init /\ [][Next]_vars

\* A request that has started runs to its end, and a worker that can take a
\* step takes one: main() loops for ever and the orchestrator restarts it.
Fairness ==
  /\ \A h \in Handlers : WF_vars(HandlerStep(h))
  /\ \A w \in Workers : WF_vars(WorkerStep(w))

FairSpec == Spec /\ Fairness

-----------------------------------------------------------------------------
(* What the component promises. *)

Entries == 1..Len(stream)
Unacked == pel \cup ((cursor + 1)..Len(stream))
DeadLetters == {dlq[i] : i \in 1..Len(dlq)}

\* Whatever fails, an entry of the stream leaves a trace: the telemetry is
\* stored, or the job is in the dead-letter stream, or this entry or a later one
\* of the job is still unacknowledged (worker.py acknowledges only after the
\* commit, the DLQ XADD or the retry XADD).
NothingLost ==
  \A i \in Entries :
    \/ stream[i] \in stored \cup DeadLetters
    \/ \E j \in Unacked : j >= i /\ stream[j] = stream[i]

\* A job reported as COMPLETED has its telemetry in the database, even when its
\* row has been read and written by workers that interleave.
CompletedIsStored ==
  \A k \in Keys : jobs[k].status = "COMPLETED" => k \in stored

\* The entries a worker of the group has yet to deal with: those it has been
\* handed and has neither re-enqueued nor moved to the dead-letter stream.
Ahead(w) ==
  {i \in worker[w].item..worker[w].last :
     i = worker[w].item => worker[w].pc \notin {"dlqack", "retryack"}}
Live == ((cursor + 1)..Len(stream)) \cup UNION {Ahead(w) : w \in Workers}

\* A job has at most one entry that a worker works on or will get, so two
\* workers never process the same job at the same time (the idempotency key
\* makes one job, the job one entry, and a retry replaces its entry).
OneLiveEntry == \A i, j \in Live : stream[i] = stream[j] => i = j

\* Only a job whose attempts are used up is dead-lettered, in its row and in the
\* dead-letter stream, where it appears once; and no job has more attempts than
\* settings.max_processing_attempts, but for one more if the API took an applied
\* XADD for a failed one: its blind QUEUE_UNAVAILABLE may then hide a DEAD_LETTER
\* from the worker that wrote it.
Overrun == IF "reply_lost" \in Faults THEN 1 ELSE 0
DeadLetterEarned ==
  /\ \A k \in Keys :
       /\ jobs[k].status = "DEAD_LETTER" => jobs[k].attempts >= MaxAttempts
       /\ jobs[k].attempts <= MaxAttempts + Overrun
  /\ \A i \in 1..Len(dlq) :
       /\ jobs[dlq[i]].attempts >= MaxAttempts
       /\ \A j \in 1..Len(dlq) : dlq[i] = dlq[j] => i = j

\* A 202 is an answer about tracked work: the job has an entry in the stream, or
\* the thread that created it is about to add one.
Submitting(k) == \E h \in Handlers : handler[h].pc = "xadd" /\ handler[h].key = k
AcceptedIsTracked ==
  \A k \in accepted : (\E i \in Entries : stream[i] = k) \/ Submitting(k)

\* A job row read as the state of the ledger.
StateOf(status) ==
  CASE status = "ABSENT" -> "absent"
    [] status = "COMPLETED" -> "done"
    [] status = "DEAD_LETTER" -> "dead"
    [] status \notin {"ABSENT", "COMPLETED", "DEAD_LETTER"} -> "open"

Book ==
  [k \in Keys |-> [state |-> StateOf(jobs[k].status), attempts |-> jobs[k].attempts]]

Ledger == INSTANCE JobLedger WITH ledger <- Book

\* Rows of ingestion_jobs go through the states of the ledger, in its order and
\* within its bound on attempts, as long as Redis does what it is asked and answers.
ImplementsLedger == Ledger!Spec

\* Every request answered with 202 is completed or dead-lettered in the end.  Only
\* a fault can stop that, and only by leaving the job without an entry that a
\* worker has or will get: pending in the group for ever, or never enqueued.
Decided(k) == jobs[k].status \in {"COMPLETED", "DEAD_LETTER"}
Abandoned(k) == (\A i \in Live : stream[i] # k) /\ ~Submitting(k)
AcceptedIsDecided ==
  \A k \in Keys : k \in accepted ~> Decided(k) \/ (faults > 0 /\ Abandoned(k))

\* Whatever dies, what is in the stream is delivered to some worker.
StreamDrains == []<>(cursor = Len(stream))

\* What a worker has been handed is acknowledged in the end.
Pending(k) == \E i \in pel : stream[i] = k
PendingIsRecovered == \A k \in Keys : Pending(k) ~> ~Pending(k)
=============================================================================
