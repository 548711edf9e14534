--------------------------- MODULE IngestionProofs ---------------------------
(* Theorems of Ingestion, for every number of keys, threads, workers, faults *)
(* and attempts and every size of a batch.                                   *)
EXTENDS Ingestion, TLAPS

-----------------------------------------------------------------------------
(* What the updates of the specification do to a function of records. *)

LEMMA StatusWrite ==
  ASSUME jobs \in [Keys -> Rows], NEW k \in Keys, NEW s \in Statuses,
         jobs' = [jobs EXCEPT ![k].status = s]
  PROVE  jobs' \in [Keys -> Rows] /\ jobs'[k].status = s
  BY DEF Rows

LEMMA HandlerWrite ==
  ASSUME HandlerType, NEW h \in Handlers,
         NEW pc \in HandlerPCs, NEW k \in Keys, NEW id \in Nat,
         Becomes(h, Idle) \/ Becomes(h, Request(pc, k, id))
  PROVE  HandlerType'
  BY DEF HandlerType, Becomes, Idle, Request, HandlerPCs

LEMMA WorkerWrite ==
  ASSUME WorkerType, cursor \in Nat, cursor' \in Nat, cursor <= cursor',
         NEW w \in Workers, NEW pc \in WorkerPCs, NEW row \in Rows,
         \/ worker[w].pc # "idle" /\ worker' = [worker EXCEPT ![w].pc = pc]
         \/ \E n \in Nat : \E i \in 1..n : n <= cursor' /\
              worker' = [worker EXCEPT ![w] = Batch(pc, i, n, row)]
         \/ worker' = [worker EXCEPT ![w] = Waiting]
         \/ worker' = worker
  PROVE  WorkerType'
<1>1. CASE worker[w].pc # "idle" /\ worker' = [worker EXCEPT ![w].pc = pc]
  BY <1>1 DEF WorkerType
<1>2. CASE \E n \in Nat : \E i \in 1..n : n <= cursor' /\
             worker' = [worker EXCEPT ![w] = Batch(pc, i, n, row)]
  BY <1>2 DEF WorkerType, Batch
<1>3. CASE worker' = [worker EXCEPT ![w] = Waiting]
  <2>1. Waiting \in [pc : WorkerPCs, item : Nat, last : Nat, row : Rows]
    BY DEF Waiting, Batch, WorkerPCs, NoRow, Rows, Statuses
  <2> QED BY <1>3, <2>1 DEF WorkerType, Waiting, Batch
<1>4. CASE worker' = worker
  BY <1>4 DEF WorkerType
<1> QED BY <1>1, <1>2, <1>3, <1>4

LEMMA WorkerKey ==
  ASSUME TypeOK, NEW w \in Workers, worker[w].pc # "idle"
  PROVE  /\ worker[w].item \in 1..cursor /\ worker[w].item \in 1..Len(stream)
         /\ Key(w) \in Keys /\ worker[w].row \in Rows
         /\ worker[w].last \in Nat
  BY DEF TypeOK, WorkerType, RedisType, Key

\* A step counts a fault within the bound or leaves the counter alone.
LEMMA FaultsType ==
  ASSUME TypeOK, (\E kind \in FaultKinds : Fault(kind)) \/ NoFault
  PROVE  faults' \in 0..MaxFaults
  BY FaultsAssumption DEF TypeOK, Fault, NoFault

LEMMA XaddType ==
  ASSUME RedisType, NEW k \in Keys, Xadd(k) \/ XaddRaises(k),
         UNCHANGED <<cursor, pel, dlq>>
  PROVE  RedisType' /\ Len(stream') \in Nat
<1>1. stream \in Seq(Keys) /\ Append(stream, k) \in Seq(Keys)
  BY DEF RedisType
<1>2. /\ stream' \in Seq(Keys) /\ Len(stream) \in Nat /\ Len(stream') \in Nat
      /\ Len(stream) <= Len(stream')
  BY <1>1 DEF Xadd, XaddRaises
<1> QED BY <1>2 DEF RedisType

-----------------------------------------------------------------------------
(* Type correctness. *)

LEMMA InitType == Init => TypeOK
  BY FaultsAssumption
  DEF Init, TypeOK, TablesType, RedisType, HandlerType, WorkerType, NoRow, Rows,
      Statuses, Idle, Request, Waiting, Batch, HandlerPCs, WorkerPCs

LEMMA HandlerStepType ==
  ASSUME TypeOK, NEW h \in Handlers,
         (\E k \in Keys : Lookup(h, k)) \/ HandlerStep(h) \/ HandlerDies(h)
  PROVE  TypeOK'
<1>0. /\ TablesType /\ RedisType /\ HandlerType /\ WorkerType
      /\ jobs \in [Keys -> Rows] /\ handler[h].id \in Nat
      /\ handler[h].pc # "idle" => handler[h].key \in Keys
  BY DEF TypeOK, TablesType, HandlerType
<1>a. WorkerType' /\ (UNCHANGED redis => RedisType')
  BY <1>0 DEF WorkerType, RedisType, redis, Lookup, HandlerStep, InsertJob, Enqueue,
              RecordStreamId, MarkUnavailable, HandlerDies, redis
<1>1. CASE \E k \in Keys : Lookup(h, k)
  <2> PICK k \in Keys : Lookup(h, k)  BY <1>1
  <2>1. HandlerType'
    BY <1>0, HandlerWrite DEF Lookup, HandlerPCs, HandlerType
  <2> QED BY <1>0, <1>a, <2>1 DEF Lookup, TypeOK, TablesType, db
<1>2. CASE InsertJob(h)
  <2>1. handler[h].key \in Keys  BY <1>0, <1>2 DEF InsertJob
  <2>2. HandlerType'
    BY <1>0, <1>2, <2>1, HandlerWrite DEF InsertJob, HandlerPCs
  <2>3. TablesType'
    BY <1>0, <1>2, <2>1, StatusWrite DEF InsertJob, TablesType, Statuses
  <2> QED BY <1>0, <1>2, <1>a, <2>2, <2>3 DEF InsertJob, TypeOK
<1>3. CASE Enqueue(h)
  <2>1. handler[h].key \in Keys  BY <1>0, <1>3 DEF Enqueue
  <2>2. RedisType' /\ Len(stream') \in Nat
    BY <1>0, <1>3, <2>1, XaddType DEF Enqueue
  <2>3. HandlerType'
    BY <1>0, <1>3, <2>1, <2>2, HandlerWrite DEF Enqueue, HandlerPCs
  <2>4. faults' \in 0..MaxFaults
    BY <1>3, FaultsType DEF Enqueue, Xadd, XaddRaises, FaultKinds
  <2> QED BY <1>0, <1>3, <1>a, <2>2, <2>3, <2>4 DEF Enqueue, TypeOK, TablesType, db
<1>4. CASE RecordStreamId(h)
  <2>1. handler[h].key \in Keys  BY <1>0, <1>4 DEF RecordStreamId
  <2>2. HandlerType'
    BY <1>0, <1>4, <2>1, HandlerWrite DEF RecordStreamId, HandlerPCs
  <2>3. TablesType'
    BY <1>0, <1>4, <2>1 DEF RecordStreamId, TablesType, Rows
  <2> QED BY <1>0, <1>4, <1>a, <2>1, <2>2, <2>3 DEF RecordStreamId, TypeOK
<1>5. CASE MarkUnavailable(h)
  <2>1. handler[h].key \in Keys  BY <1>0, <1>5 DEF MarkUnavailable
  <2>2. HandlerType'
    BY <1>0, <1>5, <2>1, HandlerWrite DEF MarkUnavailable, HandlerPCs
  <2>3. TablesType'
    BY <1>0, <1>5, <2>1, StatusWrite DEF MarkUnavailable, TablesType, Statuses
  <2> QED BY <1>0, <1>5, <1>a, <2>2, <2>3 DEF MarkUnavailable, TypeOK
<1>6. CASE HandlerDies(h)
  <2>1. HandlerType'
    BY <1>0, <1>6, HandlerWrite DEF HandlerDies, HandlerPCs
  <2>2. faults' \in 0..MaxFaults
    BY <1>6, FaultsType DEF HandlerDies, FaultKinds
  <2> QED BY <1>0, <1>6, <1>a, <2>1, <2>2 DEF HandlerDies, TypeOK, TablesType, db
<1> QED BY <1>1, <1>2, <1>3, <1>4, <1>5, <1>6 DEF HandlerStep

LEMMA WorkerStepType ==
  ASSUME TypeOK, NEW w \in Workers, WorkerStep(w) \/ WorkerDies(w)
  PROVE  TypeOK'
<1>0. /\ TablesType /\ RedisType /\ HandlerType /\ WorkerType
      /\ jobs \in [Keys -> Rows] /\ cursor \in Nat
  BY DEF TypeOK, TablesType, RedisType
<1>a. worker[w].pc # "idle" =>
        /\ worker[w].item \in 1..cursor /\ worker[w].item \in 1..Len(stream)
        /\ Key(w) \in Keys /\ worker[w].row \in Rows /\ worker[w].last \in Nat
  BY WorkerKey
<1>b. accepted' = accepted /\ HandlerType'
  BY <1>0 DEF WorkerStep, WorkerDies, Read, Fetch, Start, ProcessOk, ProcessFails,
      Reload, Complete, CommitFails, Ack, AckRaises, Failed, Decide, DeadLetter, Retry,
      AckFailure, FailureRaises, Moves, Loads, NextItem, Abandons, HandlerType
<1>c. faults' \in 0..MaxFaults
  BY FaultsType DEF WorkerStep, WorkerDies, Read, Fetch, Start, ProcessOk, ProcessFails,
      Reload, Complete, CommitFails, Ack, AckRaises, Failed, Decide, DeadLetter, Retry,
      AckFailure, FailureRaises, Loads, Xadd, FaultKinds, NoFault
<1>d. TablesType'
  <2>1. CASE UNCHANGED db
    BY <1>0, <2>1 DEF TablesType, db
  <2>2. CASE Start(w)
    BY <1>0, <1>a, <2>2 DEF Start, Moves, TablesType, Rows, WrittenStatus, Statuses
  <2>3. CASE ProcessOk(w)
    BY <1>0, <1>a, <2>3 DEF ProcessOk, Moves, TablesType
  <2>4. CASE Complete(w)
    <3>1. WrittenStatus(Key(w), worker[w].row, "COMPLETED") \in Statuses
      BY <1>0, <1>a, <2>4 DEF Complete, Moves, WrittenStatus, Rows, Statuses
    <3> QED BY <1>0, <1>a, <2>4, <3>1, StatusWrite DEF Complete, Moves, TablesType
  <2>5. CASE Decide(w)
    <3>1. WrittenStatus(Key(w), worker[w].row, Verdict(worker[w].row)) \in Statuses
      BY <1>0, <1>a, <2>5 DEF Decide, Moves, WrittenStatus, Verdict, Rows, Statuses
    <3> QED BY <1>0, <1>a, <2>5, <3>1, StatusWrite DEF Decide, Moves, TablesType
  <2> QED BY <2>1, <2>2, <2>3, <2>4, <2>5 DEF WorkerStep, WorkerDies, Read, Fetch,
      ProcessFails, Reload, CommitFails, Ack, AckRaises, Failed, DeadLetter, Retry,
      AckFailure, FailureRaises, Loads
<1>e. RedisType' /\ cursor <= cursor'
  <2>1. CASE UNCHANGED redis
    BY <1>0, <2>1 DEF RedisType, redis
  <2>2. CASE Acked(w)
    <3>1. UNCHANGED <<stream, cursor, dlq>> /\ pel' \subseteq pel
      BY <2>2 DEF Acked
    <3> QED BY <1>0, <3>1 DEF RedisType
  <2>3. CASE Read(w)
    <3>1. /\ UNCHANGED <<stream, dlq>> /\ cursor' = BatchEnd /\ cursor < Len(stream)
          /\ \A i \in pel' : i \in pel \/ i \in (cursor + 1)..BatchEnd
      BY <2>3 DEF Read, Deliver
    <3>2. Len(stream) \in Nat
      BY <1>0 DEF RedisType
    <3>3. BatchEnd \in cursor..Len(stream)
      BY <1>0, <3>1, <3>2, BatchAssumption DEF BatchEnd
    <3>4. pel \subseteq 1..cursor /\ pel' \subseteq 1..BatchEnd
      <4>1. pel \subseteq 1..cursor  BY <1>0 DEF RedisType
      <4>2. \A i \in 1..cursor : i \in 1..BatchEnd  BY <1>0, <3>2, <3>3
      <4>3. \A i \in (cursor + 1)..BatchEnd : i \in 1..BatchEnd  BY <1>0, <3>2, <3>3
      <4> QED BY <3>1, <4>1, <4>2, <4>3
    <3>5. BatchEnd \in 0..Len(stream) /\ cursor <= BatchEnd
      BY <1>0, <3>2, <3>3
    <3>6. stream' \in Seq(Keys) /\ dlq' \in Seq(Keys) /\ Len(stream') = Len(stream)
      BY <1>0, <3>1 DEF RedisType
    <3> QED BY <3>1, <3>4, <3>5, <3>6 DEF RedisType
  <2>4. CASE worker[w].pc # "idle" /\ UNCHANGED <<stream, cursor, pel>>
             /\ dlq' = Append(dlq, Key(w))
    BY <1>0, <1>a, <2>4 DEF RedisType
  <2>5. CASE worker[w].pc # "idle" /\ UNCHANGED <<cursor, pel, dlq>>
             /\ (Xadd(Key(w)) \/ stream' = Append(stream, Key(w)))
    <3>1. CASE Xadd(Key(w))
      BY <1>0, <1>a, <2>5, <3>1, XaddType
    <3>2. CASE stream' = Append(stream, Key(w))
      BY <1>0, <1>a, <2>5, <3>2 DEF RedisType
    <3> QED BY <2>5, <3>1, <3>2
  <2> QED BY <2>1, <2>2, <2>3, <2>4, <2>5 DEF WorkerStep, WorkerDies, Fetch, Start,
      ProcessOk, ProcessFails, Reload, Complete, CommitFails, Ack, AckRaises, Failed,
      Decide, DeadLetter, Retry, AckFailure, FailureRaises, Moves, Loads
<1>f. WorkerType'
  <2>0. cursor' \in Nat  BY <1>e DEF RedisType
  <2>1. CASE worker' = [worker EXCEPT ![w] = Waiting] \/ worker' = worker
    <3>1. NoRow \in Rows /\ "fetch" \in WorkerPCs
      BY DEF NoRow, Rows, Statuses, WorkerPCs
    <3> QED BY <1>0, <1>e, <2>0, <2>1, <3>1, WorkerWrite
  <2>2. ASSUME NEW pc \in WorkerPCs, worker[w].pc # "idle",
               worker' = [worker EXCEPT ![w].pc = pc]
        PROVE  WorkerType'
    BY <1>0, <1>a, <1>e, <2>0, <2>2, WorkerWrite
  <2>3. ASSUME NEW from, NEW to \in WorkerPCs, from # "idle", Loads(w, from, to)
        PROVE  WorkerType'
    <3>1. worker[w].item \in 1..worker[w].last /\ worker[w].last <= cursor'
      BY <1>0, <1>a, <2>3, <1>e, <2>0 DEF Loads, WorkerType
    <3>2. worker' = [worker EXCEPT ![w] =
                      Batch(to, worker[w].item, worker[w].last, jobs[Key(w)])]
      BY <2>3 DEF Loads
    <3>3. jobs[Key(w)] \in Rows /\ worker[w].last \in Nat
      BY <1>0, <1>a, <2>3 DEF Loads
    <3> QED BY <1>0, <1>e, <2>0, <3>1, <3>2, <3>3, WorkerWrite
  <2>4. CASE worker[w].pc # "idle" /\ NextItem(w)
    <3>0. NoRow \in Rows /\ "fetch" \in WorkerPCs
      BY DEF NoRow, Rows, Statuses, WorkerPCs
    <3>1. worker[w].item \in 1..worker[w].last /\ worker[w].last <= cursor'
          /\ worker[w].last \in Nat
      BY <1>0, <1>a, <2>4, <1>e, <2>0 DEF WorkerType
    <3>2. CASE worker[w].item < worker[w].last
      <4>1. worker' = [worker EXCEPT ![w] =
                        Batch("fetch", worker[w].item + 1, worker[w].last, NoRow)]
        BY <2>4, <3>2 DEF NextItem
      <4>2. worker[w].item + 1 \in 1..worker[w].last
        BY <3>1, <3>2
      <4> QED BY <1>0, <1>e, <2>0, <3>0, <3>1, <4>1, <4>2, WorkerWrite
    <3>3. CASE ~(worker[w].item < worker[w].last)
      <4>1. worker' = [worker EXCEPT ![w] = Waiting]
        BY <2>4, <3>3 DEF NextItem
      <4> QED BY <1>0, <1>e, <2>0, <3>0, <4>1, WorkerWrite
    <3> QED BY <3>2, <3>3
  <2>5. CASE Read(w)
    <3>0. NoRow \in Rows /\ "fetch" \in WorkerPCs
      BY DEF NoRow, Rows, Statuses, WorkerPCs
    <3>1. BatchEnd \in Nat /\ cursor + 1 \in 1..BatchEnd /\ cursor' = BatchEnd
      BY <1>0, <2>5, BatchAssumption DEF Read, Deliver, BatchEnd, RedisType
    <3>2. \/ worker' = worker
          \/ worker' = [worker EXCEPT ![w] = Batch("fetch", cursor + 1, BatchEnd, NoRow)]
      BY <2>5 DEF Read
    <3>3. BatchEnd <= cursor'  BY <3>1
    <3> QED BY <1>0, <1>e, <2>0, <3>0, <3>1, <3>2, <3>3, WorkerWrite
  <2>6. CASE \E from \in WorkerPCs \ {"idle"}, to \in WorkerPCs : Moves(w, from, to)
    BY <2>2, <2>6 DEF Moves
  <2>7. CASE Fetch(w) \/ Reload(w) \/ Failed(w)
    BY <2>3, <2>7 DEF Fetch, Reload, Failed, WorkerPCs
  <2> QED BY <2>1, <2>4, <2>5, <2>6, <2>7 DEF WorkerStep, WorkerDies, Start, ProcessOk,
      ProcessFails, Complete, CommitFails, Ack, AckRaises, Decide, DeadLetter, Retry,
      AckFailure, FailureRaises, Abandons, WorkerPCs
<1> QED BY <1>b, <1>c, <1>d, <1>e, <1>f DEF TypeOK

LEMMA TypeStutter == TypeOK /\ UNCHANGED vars => TypeOK'
  BY DEF vars, TypeOK, TablesType, RedisType, HandlerType, WorkerType

\* Every row, stream, thread and worker keeps its type, and a busy worker works on
\* entries that have been delivered.
THEOREM TypeCorrect == Spec => []TypeOK
<1>1. TypeOK /\ [Next]_vars => TypeOK'
  <2>1. CASE UNCHANGED vars
    BY <2>1, TypeStutter
  <2>2. CASE Next
    BY <2>2, HandlerStepType, WorkerStepType DEF Next
  <2> QED BY <2>1, <2>2
<1> QED BY InitType, <1>1, PTL DEF Spec

-----------------------------------------------------------------------------
(* Nothing is lost. *)

Safe(k) == k \in stored \cup DeadLetters
LaterEntry(i, k) == \E j \in Unacked : j > i /\ stream[j] = k

\* What lets a worker acknowledge the entry it is at.
Settled(w) ==
  /\ worker[w].pc \in {"reload", "complete", "ack"} => Key(w) \in stored
  /\ worker[w].pc = "dlqack" => Key(w) \in DeadLetters
  /\ worker[w].pc = "retryack" => Safe(Key(w)) \/ LaterEntry(worker[w].item, Key(w))

NInv == TypeOK /\ NothingLost /\ \A w \in Workers : Settled(w)

\* The logs and the store only grow, and what is new in the stream is unread.
Grows ==
  /\ stored \subseteq stored'
  /\ DeadLetters \subseteq DeadLetters'
  /\ \A i \in Entries : i \in Entries' /\ stream'[i] = stream[i]
  /\ \A i \in Entries' : i \in Entries \/ i \in Unacked'
  /\ Entries' \subseteq Nat

KeepsUnacked == Unacked \subseteq Unacked'

LEMMA UnackedAreEntries == ASSUME TypeOK PROVE Unacked \subseteq Entries /\ Entries \subseteq Nat
<1>1. Len(stream) \in Nat /\ cursor \in 0..Len(stream) /\ pel \subseteq 1..cursor
  BY DEF TypeOK, RedisType
<1>2. \A i \in 1..cursor : i \in 1..Len(stream)
  BY <1>1
<1>3. (cursor + 1)..Len(stream) \subseteq 1..Len(stream)
  BY <1>1
<1>4. Entries \subseteq Nat
  BY <1>1 DEF Entries
<1> QED BY <1>1, <1>2, <1>3, <1>4 DEF Unacked, Entries

LEMMA UnackedAreEntriesAfter == ASSUME TypeOK' PROVE Unacked' \subseteq Nat
<1>1. Len(stream') \in Nat /\ cursor' \in 0..Len(stream') /\ pel' \subseteq 1..cursor'
  BY DEF TypeOK, RedisType
<1>2. 1..cursor' \subseteq Nat /\ (cursor' + 1)..Len(stream') \subseteq Nat
  BY <1>1
<1> QED BY <1>1, <1>2 DEF Unacked

LEMMA Same ==
  ASSUME TypeOK, UNCHANGED redis, stored \subseteq stored'
  PROVE  Grows /\ KeepsUnacked
  BY UnackedAreEntries DEF redis, Grows, KeepsUnacked, Unacked, Entries, DeadLetters

LEMMA Appended ==
  ASSUME TypeOK, NEW k \in Keys, UNCHANGED <<cursor, pel, dlq, stored>>,
         Xadd(k) \/ XaddRaises(k) \/ stream' = Append(stream, k)
  PROVE  /\ Grows /\ KeepsUnacked
         /\ (Xadd(k) \/ stream' = Append(stream, k)) =>
              \E j \in Unacked' : j > Len(stream) /\ stream'[j] = k
<1>1. stream \in Seq(Keys) /\ Len(stream) \in Nat /\ cursor \in 0..Len(stream)
  BY DEF TypeOK, RedisType
<1>2. CASE stream' = stream
  BY <1>2, <1>1, UnackedAreEntries
  DEF Grows, KeepsUnacked, Unacked, Entries, DeadLetters, Xadd
<1>3. CASE stream' = Append(stream, k)
  <2>1. /\ Len(stream') = Len(stream) + 1
        /\ \A i \in 1..Len(stream) : stream'[i] = stream[i]
        /\ stream'[Len(stream) + 1] = k
    BY <1>1, <1>3
  <2> QED BY <1>1, <2>1 DEF Grows, KeepsUnacked, Unacked, Entries, DeadLetters
<1>4. CASE stream' = Append(Append(stream, k), k)
  <2>0. Append(stream, k) \in Seq(Keys)  BY <1>1
  <2>1. /\ Len(stream') = Len(stream) + 2
        /\ \A i \in 1..Len(stream) : stream'[i] = stream[i]
        /\ stream'[Len(stream) + 1] = k
    BY <1>1, <1>4, <2>0
  <2> QED BY <1>1, <2>1 DEF Grows, KeepsUnacked, Unacked, Entries, DeadLetters
<1> QED BY <1>2, <1>3, <1>4 DEF Xadd, XaddRaises

LEMMA DeadLettered ==
  ASSUME TypeOK, NEW k \in Keys, UNCHANGED <<stream, cursor, pel, stored>>,
         dlq' = Append(dlq, k)
  PROVE  Grows /\ KeepsUnacked /\ k \in DeadLetters'
<1>1. dlq \in Seq(Keys) /\ Len(dlq) \in Nat
  BY DEF TypeOK, RedisType
<1>2. /\ Len(dlq') = Len(dlq) + 1
      /\ \A i \in 1..Len(dlq) : dlq'[i] = dlq[i]
      /\ dlq'[Len(dlq) + 1] = k
  BY <1>1
<1>3. DeadLetters \subseteq DeadLetters' /\ k \in DeadLetters'
  BY <1>1, <1>2 DEF DeadLetters
<1> QED BY <1>3, UnackedAreEntries DEF Grows, KeepsUnacked, Unacked, Entries

LEMMA Delivered ==
  ASSUME TypeOK, Deliver, UNCHANGED stored
  PROVE  Grows /\ KeepsUnacked
<1>1. Len(stream) \in Nat /\ cursor \in 0..Len(stream)
  BY DEF TypeOK, RedisType
<1>2. BatchEnd \in cursor..Len(stream)
  BY <1>1, BatchAssumption DEF BatchEnd
<1>3. Unacked \subseteq Unacked'
  <2> SUFFICES ASSUME NEW i \in Unacked PROVE i \in Unacked'
    OBVIOUS
  <2>1. CASE i \in pel
    BY <2>1 DEF Deliver, Unacked
  <2>2. CASE i \in (cursor + 1)..BatchEnd
    BY <2>2 DEF Deliver, Unacked
  <2>3. CASE i \in (BatchEnd + 1)..Len(stream)
    BY <2>3 DEF Deliver, Unacked
  <2> QED BY <1>1, <1>2, <2>1, <2>2, <2>3 DEF Unacked
<1> QED BY <1>1, <1>3, UnackedAreEntries
        DEF Grows, KeepsUnacked, Deliver, Entries, DeadLetters

\* A step that keeps the unacknowledged entries loses nothing and unsettles nobody.
LEMMA GrowingKeeps ==
  ASSUME NInv, Grows, KeepsUnacked
  PROVE  /\ NothingLost'
         /\ \A v \in Workers : worker'[v] = worker[v] /\ worker[v].pc # "idle"
              => Settled(v)'
<1>0. Unacked \subseteq Entries /\ Entries \subseteq Nat
  BY UnackedAreEntries DEF NInv
<1>1. NothingLost'
  <2> SUFFICES ASSUME NEW i \in Entries'
               PROVE  \/ stream'[i] \in stored' \cup DeadLetters'
                      \/ \E j \in Unacked' : j >= i /\ stream'[j] = stream'[i]
    BY DEF NothingLost
  <2>1. CASE i \in Entries
    BY <1>0, <2>1 DEF NInv, NothingLost, Grows, KeepsUnacked
  <2>2. CASE i \in Unacked'
    <3>1. i \in Nat  BY DEF Grows
    <3> QED BY <2>2, <3>1
  <2> QED BY <2>1, <2>2 DEF Grows
<1>2. ASSUME NEW v \in Workers, worker'[v] = worker[v], worker[v].pc # "idle"
      PROVE  Settled(v)'
  <2>1. worker[v].item \in Entries
    BY <1>2, WorkerKey DEF NInv, Entries
  <2>2. Key(v)' = Key(v)
    BY <1>2, <2>1 DEF Key, Grows
  <2>3. Settled(v)
    BY DEF NInv
  <2> QED BY <1>0, <1>2, <2>2, <2>3
          DEF Settled, Safe, LaterEntry, Grows, KeepsUnacked
<1> QED BY <1>1, <1>2

\* Acknowledging the entry a settled worker is at.
LEMMA AckKeeps ==
  ASSUME NInv, NEW w \in Workers, Acked(w), UNCHANGED stored,
         worker[w].pc \in {"ack", "dlqack", "retryack"}
  PROVE  /\ NothingLost'
         /\ \A v \in Workers : worker'[v] = worker[v] /\ worker[v].pc # "idle"
              => Settled(v)'
<1> DEFINE e == worker[w].item
<1>0. /\ UNCHANGED <<stream, dlq, stored>> /\ DeadLetters' = DeadLetters
      /\ Entries' = Entries /\ Entries \subseteq Nat /\ Unacked \subseteq Entries
      /\ \A j \in Unacked : j # e => j \in Unacked'
      /\ Unacked' \subseteq Unacked
  BY UnackedAreEntries DEF NInv, Acked, DeadLetters, Entries, Unacked
<1>1. e \in Entries /\ Key(w) = stream[e]
  BY WorkerKey DEF NInv, Entries, Key
<1>2. \/ stream[e] \in stored \cup DeadLetters
      \/ \E j \in Unacked' : j > e /\ stream[j] = stream[e]
  <2>1. Settled(w)  BY DEF NInv
  <2>2. Safe(Key(w)) \/ LaterEntry(e, Key(w))
    BY <2>1 DEF Settled, Safe
  <2>3. \A j \in Unacked : j > e => j \in Unacked'
    <3> SUFFICES ASSUME NEW j \in Unacked, j > e PROVE j \in Unacked'
      OBVIOUS
    <3>1. j \in Nat /\ e \in Nat
      BY <1>0, <1>1
    <3>2. j # e
      BY <3>1
    <3> QED BY <1>0, <3>2
  <2> QED BY <1>1, <2>2, <2>3 DEF Safe, LaterEntry
<1>3. NothingLost'
  <2> SUFFICES ASSUME NEW i \in Entries,
                      stream[i] \notin stored \cup DeadLetters
               PROVE  \E j \in Unacked' : j >= i /\ stream[j] = stream[i]
    BY <1>0 DEF NothingLost
  <2>1. PICK j \in Unacked : j >= i /\ stream[j] = stream[i]
    BY DEF NInv, NothingLost
  <2>2. CASE j # e
    BY <1>0, <2>1, <2>2
  <2>3. CASE j = e
    <3>1. PICK n \in Unacked' : n > e /\ stream[n] = stream[e]
      BY <1>2, <2>1, <2>3
    <3>2. n \in Nat
      BY <1>0, <3>1
    <3> QED BY <1>0, <1>1, <2>1, <2>3, <3>1, <3>2
  <2> QED BY <2>2, <2>3
<1>4. ASSUME NEW v \in Workers, worker'[v] = worker[v], worker[v].pc # "idle"
      PROVE  Settled(v)'
  <2>1. Settled(v) /\ Key(v)' = Key(v) /\ worker[v].item \in Entries
    BY <1>0, <1>4, WorkerKey DEF NInv, Key, Entries
  <2>2. ASSUME LaterEntry(worker[v].item, Key(v))
        PROVE  Safe(Key(v)) \/ \E j \in Unacked' : j > worker[v].item /\ stream[j] = Key(v)
    <3>1. PICK j \in Unacked : j > worker[v].item /\ stream[j] = Key(v)
      BY <2>2 DEF LaterEntry
    <3>2. CASE j # e
      BY <1>0, <3>1, <3>2
    <3>3. CASE j = e
      <4>1. CASE stream[e] \in stored \cup DeadLetters
        BY <3>1, <3>3, <4>1 DEF Safe
      <4>2. CASE \E n \in Unacked' : n > e /\ stream[n] = stream[e]
        <5>1. PICK n \in Unacked' : n > e /\ stream[n] = stream[e]
          BY <4>2
        <5>2. n \in Nat
          BY <1>0, <5>1
        <5>3. worker[v].item \in Nat /\ e \in Nat /\ e > worker[v].item
          BY <1>0, <1>1, <2>1, <3>1, <3>3
        <5>4. n > worker[v].item
          BY <5>1, <5>2, <5>3
        <5> QED BY <3>1, <3>3, <5>1, <5>4
      <4> QED BY <1>2, <4>1, <4>2
    <3> QED BY <3>2, <3>3
  <2> QED BY <1>0, <1>4, <2>1, <2>2 DEF Settled, Safe, LaterEntry
<1> QED BY <1>3, <1>4

LEMMA HandlerStepNInv ==
  ASSUME NInv, NEW h \in Handlers,
         (\E k \in Keys : Lookup(h, k)) \/ HandlerStep(h) \/ HandlerDies(h)
  PROVE  NInv'
<1>0. TypeOK /\ TypeOK' /\ UNCHANGED <<worker, stored>>
  BY HandlerStepType DEF NInv, Lookup, HandlerStep, InsertJob, Enqueue, RecordStreamId,
     MarkUnavailable, HandlerDies, db
<1>1. Grows /\ KeepsUnacked
  <2>1. CASE Enqueue(h)
    <3>1. handler[h].key \in Keys
      BY <1>0, <2>1 DEF Enqueue, TypeOK, HandlerType
    <3> QED BY <1>0, <2>1, <3>1, Appended DEF Enqueue
  <2>2. CASE UNCHANGED redis
    BY <1>0, <2>2, Same
  <2> QED BY <2>1, <2>2 DEF Lookup, HandlerStep, InsertJob, RecordStreamId,
             MarkUnavailable, HandlerDies
<1>2. NothingLost'
  BY <1>1, GrowingKeeps
<1>3. ASSUME NEW v \in Workers PROVE Settled(v)'
  <2>1. CASE worker[v].pc = "idle"
    BY <1>0, <2>1 DEF Settled
  <2>2. CASE worker[v].pc # "idle"
    BY <1>0, <1>1, <2>2, GrowingKeeps
  <2> QED BY <2>1, <2>2
<1> QED BY <1>0, <1>2, <1>3 DEF NInv

\* The worker that moves to pc, with the stream and the batch it had.
LEMMA SettledMove ==
  ASSUME NInv, TypeOK', NEW w \in Workers, worker[w].pc # "idle", Grows, NEW pc, worker'[w].pc = pc, worker'[w].item = worker[w].item,
         \/ pc \in {"fetch", "start", "process", "failed", "decide", "route"}
         \/ pc \in {"reload", "complete", "ack"} /\ Key(w) \in stored'
         \/ pc = "dlqack" /\ Key(w) \in DeadLetters'
         \/ pc = "retryack" /\ \E j \in Unacked' : j > Len(stream) /\ stream'[j] = Key(w)
  PROVE  Settled(w)'
<1>1. worker[w].item \in 1..Len(stream) /\ Len(stream) \in Nat
  BY WorkerKey DEF NInv, TypeOK, RedisType
<1>2. Key(w)' = Key(w)
  BY <1>1 DEF Key, Grows, Entries
<1>3. Unacked' \subseteq Nat
  BY UnackedAreEntriesAfter
<1>4. ASSUME NEW j \in Unacked', j > Len(stream), stream'[j] = Key(w)
      PROVE  LaterEntry(worker[w].item, Key(w))'
  <2>1. j > worker'[w].item
    BY <1>1, <1>3, <1>4
  <2> QED BY <1>2, <1>4, <2>1 DEF LaterEntry
<1> QED BY <1>2, <1>4 DEF Settled

LEMMA WorkerStepNInv ==
  ASSUME NInv, NEW w \in Workers, WorkerStep(w) \/ WorkerDies(w)
  PROVE  NInv'
<1>0. TypeOK /\ TypeOK' /\ Settled(w)
      /\ \A v \in Workers : v # w => worker'[v] = worker[v]
  BY WorkerStepType DEF NInv, TypeOK, WorkerType, WorkerStep, WorkerDies, Read, Fetch, Start,
     ProcessOk, ProcessFails, Reload, Complete, CommitFails, Ack, AckRaises, Failed,
     Decide, DeadLetter, Retry, AckFailure, FailureRaises, Moves, Loads, NextItem, Abandons
<1>1. worker[w].pc # "idle" => Key(w) \in Keys
  BY <1>0, WorkerKey
\* It is enough that nothing is lost, the others stay settled and w is settled.
<1> DEFINE Kept == /\ NothingLost'
                   /\ \A v \in Workers : worker'[v] = worker[v] /\ worker[v].pc # "idle"
                        => Settled(v)'
<1>2. ASSUME Kept, Settled(w)' PROVE NInv'
  <2>1. ASSUME NEW v \in Workers, v # w PROVE Settled(v)'
    <3>1. CASE worker[v].pc = "idle"
      BY <1>0, <2>1, <3>1 DEF Settled
    <3>2. CASE worker[v].pc # "idle"
      BY <1>0, <1>2, <2>1, <3>2
    <3> QED BY <3>1, <3>2
  <2> QED BY <1>0, <1>2, <2>1 DEF NInv
<1>3. ASSUME NEW from, NEW to, Moves(w, from, to), from # "idle"
      PROVE  /\ worker[w].pc = from /\ worker[w].pc # "idle" /\ to = to
             /\ worker'[w].pc = to /\ worker'[w].item = worker[w].item
  BY <1>0, <1>3 DEF Moves, TypeOK, WorkerType
<1>4. ASSUME worker'[w].pc \in {"idle", "fetch"} PROVE Settled(w)'
  BY <1>4 DEF Settled
<1>5. ASSUME Acked(w), UNCHANGED stored, worker[w].pc \in {"ack", "dlqack", "retryack"}
      PROVE  Kept
  BY <1>5, AckKeeps
<1>6. NextItem(w) \/ Abandons(w) => worker'[w].pc \in {"idle", "fetch"}
  BY <1>0 DEF NextItem, Abandons, TypeOK, WorkerType, Waiting, Batch
<1>7. Grows /\ KeepsUnacked => Kept
  BY GrowingKeeps
<1>8. UNCHANGED redis /\ stored \subseteq stored' => Grows /\ KeepsUnacked
  BY <1>0, Same
<1>11. CASE Read(w)
  <2>1. Grows /\ KeepsUnacked
    BY <1>0, <1>11, Delivered DEF Read, db
  <2>2. worker'[w].pc \in {"idle", "fetch"}
    BY <1>0, <1>11 DEF Read, Batch, TypeOK, WorkerType
  <2> QED BY <1>2, <1>4, <1>7, <2>1, <2>2
<1>12. CASE Fetch(w) \/ Reload(w) \/ Failed(w)
  <2>1. Grows /\ KeepsUnacked
    BY <1>8, <1>12 DEF Fetch, Reload, Failed, Loads, db
  <2>2. /\ worker[w].pc # "idle" /\ worker'[w].item = worker[w].item
        /\ \/ worker'[w].pc \in {"start", "decide"}
           \/ worker[w].pc = "reload" /\ worker'[w].pc = "complete" /\ stored' = stored
    BY <1>0, <1>12 DEF Fetch, Reload, Failed, Loads, Batch, TypeOK, WorkerType, db
  <2>3. Settled(w)'
    BY <1>0, <2>1, <2>2, SettledMove DEF Settled
  <2> QED BY <1>2, <1>7, <2>1, <2>3
<1>13. CASE Start(w) \/ ProcessFails(w) \/ CommitFails(w) \/ Decide(w)
  <2>1. Grows /\ KeepsUnacked
    BY <1>8, <1>13 DEF Start, ProcessFails, CommitFails, Decide, db
  <2>2. /\ worker[w].pc # "idle" /\ worker'[w].item = worker[w].item
        /\ worker'[w].pc \in {"process", "failed", "route"}
    BY <1>3, <1>13 DEF Start, ProcessFails, CommitFails, Decide
  <2>3. Settled(w)'
    BY <1>0, <2>1, <2>2, SettledMove
  <2> QED BY <1>2, <1>7, <2>1, <2>3
<1>14. CASE ProcessOk(w) \/ Complete(w)
  <2>1. Grows /\ KeepsUnacked
    BY <1>8, <1>14 DEF ProcessOk, Complete
  <2>2. /\ worker[w].pc # "idle" /\ worker'[w].item = worker[w].item
        /\ worker'[w].pc \in {"reload", "ack"} /\ Key(w) \in stored'
    BY <1>0, <1>3, <1>14 DEF ProcessOk, Complete, Settled
  <2>3. Settled(w)'
    BY <1>0, <2>1, <2>2, SettledMove
  <2> QED BY <1>2, <1>7, <2>1, <2>3
<1>15. CASE Ack(w) \/ AckFailure(w)
  BY <1>2, <1>4, <1>5, <1>6, <1>15 DEF Ack, AckFailure, db
<1>16. CASE AckRaises(w)
  <2>1. Settled(w)'
    BY <1>3, <1>16 DEF AckRaises, Settled
  <2>2. CASE UNCHANGED redis
    BY <1>2, <1>7, <1>8, <1>16, <2>1, <2>2 DEF AckRaises, db
  <2>3. CASE Acked(w)
    BY <1>2, <1>3, <1>5, <1>16, <2>1, <2>3 DEF AckRaises, db
  <2> QED BY <1>16, <2>2, <2>3 DEF AckRaises
<1>17. CASE DeadLetter(w)
  <2>1. /\ worker[w].pc # "idle" /\ worker'[w].item = worker[w].item
        /\ worker'[w].pc = "dlqack"
    BY <1>3, <1>17 DEF DeadLetter
  <2>2. Grows /\ KeepsUnacked /\ Key(w) \in DeadLetters'
    BY <1>0, <1>1, <1>17, <2>1, DeadLettered DEF DeadLetter, db
  <2>3. Settled(w)'
    BY <1>0, <2>1, <2>2, SettledMove
  <2> QED BY <1>2, <1>7, <2>2, <2>3
<1>18. CASE Retry(w)
  <2>1. /\ worker[w].pc # "idle" /\ worker'[w].item = worker[w].item
        /\ worker'[w].pc = "retryack"
    BY <1>3, <1>18 DEF Retry
  <2>2. /\ Grows /\ KeepsUnacked
        /\ \E j \in Unacked' : j > Len(stream) /\ stream'[j] = Key(w)
    BY <1>0, <1>1, <1>18, <2>1, Appended DEF Retry, db
  <2>3. Settled(w)'
    BY <1>0, <2>1, <2>2, SettledMove
  <2> QED BY <1>2, <1>7, <2>2, <2>3
<1>19. CASE WorkerDies(w)
  BY <1>2, <1>4, <1>6, <1>7, <1>8, <1>19 DEF WorkerDies, db
<1>20. CASE FailureRaises(w)
  <2>1. Settled(w)' /\ UNCHANGED stored
    BY <1>4, <1>6, <1>20 DEF FailureRaises, db
  <2>2. CASE worker[w].pc = "route" /\ dlq' = Append(dlq, Key(w))
             /\ UNCHANGED <<stream, cursor, pel>>
    <3>1. Grows /\ KeepsUnacked
      BY <1>0, <1>1, <2>1, <2>2, DeadLettered
    <3> QED BY <1>2, <1>7, <2>1, <3>1
  <2>3. CASE worker[w].pc = "route" /\ stream' = Append(stream, Key(w))
             /\ UNCHANGED <<cursor, pel, dlq>>
    <3>1. Grows /\ KeepsUnacked
      BY <1>0, <1>1, <2>1, <2>3, Appended
    <3> QED BY <1>2, <1>7, <2>1, <3>1
  <2>4. CASE worker[w].pc \in {"dlqack", "retryack"} /\ Acked(w)
    BY <1>2, <1>5, <2>1, <2>4
  <2>5. CASE UNCHANGED redis
    BY <1>2, <1>7, <1>8, <2>1, <2>5
  <2> QED BY <1>20, <2>2, <2>3, <2>4, <2>5 DEF FailureRaises
<1> QED BY <1>11, <1>12, <1>13, <1>14, <1>15, <1>16, <1>17, <1>18, <1>19, <1>20
        DEF WorkerStep

LEMMA NInvHolds == Spec => []NInv
<1>1. Init => NInv
  <2>1. Init => NothingLost /\ \A w \in Workers : Settled(w)
    BY DEF Init, NothingLost, Entries, Settled, Waiting, Batch
  <2> QED BY <2>1, InitType DEF NInv
<1>2. NInv /\ [Next]_vars => NInv'
  <2> SUFFICES ASSUME NInv, [Next]_vars PROVE NInv'
    OBVIOUS
  <2>1. CASE UNCHANGED vars
    <3>1. TypeOK'
      BY <2>1, TypeStutter DEF NInv
    <3>2. Grows /\ KeepsUnacked
      BY <2>1, Same DEF vars, redis, NInv
    <3>3. ASSUME NEW v \in Workers PROVE Settled(v)'
      <4>1. worker[v].pc = "idle" => Settled(v)'
        BY <2>1 DEF vars, Settled
      <4> QED BY <2>1, <3>2, <4>1, GrowingKeeps DEF vars
    <3> QED BY <3>1, <3>2, <3>3, GrowingKeeps DEF NInv
  <2>2. CASE Next
    BY <2>2, HandlerStepNInv, WorkerStepNInv DEF Next
  <2> QED BY <2>1, <2>2
<1> QED BY <1>1, <1>2, PTL DEF Spec

\* Whatever fails, however often, and however many workers and threads there are,
\* an entry of the stream is stored, dead-lettered or still unacknowledged.
THEOREM NothingIsLost == Spec => []NothingLost
<1>1. NInv => NothingLost
  BY DEF NInv
<1> QED BY <1>1, NInvHolds, PTL

-----------------------------------------------------------------------------
(* What is reported as completed is stored. *)

\* Only Complete writes COMPLETED.
LEMMA CompletedWrites ==
  ASSUME TypeOK, Next, NEW k \in Keys, jobs'[k].status = "COMPLETED"
  PROVE  \/ jobs[k].status = "COMPLETED"
         \/ \E w \in Workers : worker[w].pc = "complete" /\ Key(w) = k
<1>0. jobs \in [Keys -> Rows]
  BY DEF TypeOK, TablesType
<1>1. CASE \E h \in Handlers :
             (\E x \in Keys : Lookup(h, x)) \/ HandlerStep(h) \/ HandlerDies(h)
  <2>1. PICK h \in Handlers :
          (\E x \in Keys : Lookup(h, x)) \/ HandlerStep(h) \/ HandlerDies(h)
    BY <1>1
  <2> QED BY <1>0, <2>1 DEF Lookup, HandlerStep, HandlerDies, InsertJob, Enqueue,
             RecordStreamId, MarkUnavailable, Rows, db
<1>2. ASSUME NEW w \in Workers, WorkerStep(w) \/ WorkerDies(w)
      PROVE  jobs[k].status = "COMPLETED" \/ (worker[w].pc = "complete" /\ Key(w) = k)
  <2>1. CASE Start(w)
    BY <1>0, <2>1 DEF Start, WrittenStatus, Rows
  <2>2. CASE Complete(w)
    BY <1>0, <2>2 DEF Complete, Moves, Rows
  <2>3. CASE Decide(w)
    BY <1>0, <2>3 DEF Decide, WrittenStatus, Verdict, Rows
  <2>4. CASE UNCHANGED jobs
    BY <2>4
  <2> QED BY <1>2, <2>1, <2>2, <2>3, <2>4 DEF WorkerStep, WorkerDies, Read, Fetch,
      ProcessOk, ProcessFails, Reload, CommitFails, Ack, AckRaises, Failed, DeadLetter,
      Retry, AckFailure, FailureRaises, Loads, db
<1> QED BY <1>1, <1>2 DEF Next

LEMMA StoredGrows == ASSUME Next PROVE stored \subseteq stored'
<1>1. CASE \E h \in Handlers :
             (\E x \in Keys : Lookup(h, x)) \/ HandlerStep(h) \/ HandlerDies(h)
  BY <1>1 DEF Lookup, HandlerStep, HandlerDies, InsertJob, Enqueue, RecordStreamId,
     MarkUnavailable, db
<1>2. ASSUME NEW w \in Workers, WorkerStep(w) \/ WorkerDies(w)
      PROVE  stored \subseteq stored'
  BY <1>2 DEF WorkerStep, WorkerDies, Read, Fetch, Start, ProcessOk, ProcessFails, Reload,
     Complete, CommitFails, Ack, AckRaises, Failed, Decide, DeadLetter, Retry, AckFailure,
     FailureRaises, Loads, db
<1> QED BY <1>1, <1>2 DEF Next

\* Whatever workers, threads and failures do to a row, COMPLETED is in it only if the
\* telemetry is in the database.
THEOREM CompletedIsTrue == Spec => []CompletedIsStored
<1>1. Init => CompletedIsStored
  BY DEF Init, CompletedIsStored, NoRow
<1>2. NInv /\ CompletedIsStored /\ [Next]_vars => CompletedIsStored'
  <2> SUFFICES ASSUME NInv, CompletedIsStored, [Next]_vars,
                      NEW k \in Keys, jobs'[k].status = "COMPLETED"
               PROVE  k \in stored'
    BY DEF CompletedIsStored
  <2>1. CASE UNCHANGED vars
    BY <2>1 DEF vars, CompletedIsStored
  <2>2. CASE Next
    <3>1. CASE jobs[k].status = "COMPLETED"
      BY <2>2, <3>1, StoredGrows DEF CompletedIsStored
    <3>2. CASE \E w \in Workers : worker[w].pc = "complete" /\ Key(w) = k
      BY <2>2, <3>2, StoredGrows DEF NInv, Settled
    <3> QED BY <2>2, <3>1, <3>2, CompletedWrites DEF NInv
  <2> QED BY <2>1, <2>2
<1> QED BY <1>1, <1>2, NInvHolds, PTL DEF Spec

-----------------------------------------------------------------------------
(* A job has one live entry. *)

\* Every entry is a job's; a thread that is about to enqueue a job is the only one,
\* and the job has had no entry.
Tracked == \A i \in Entries : jobs[stream[i]].status # "ABSENT"
Submissions ==
  \A h \in Handlers : handler[h].pc = "xadd" =>
    /\ jobs[handler[h].key].status # "ABSENT"
    /\ \A i \in Entries : stream[i] # handler[h].key
    /\ \A g \in Handlers : handler[g].pc = "xadd" /\ handler[g].key = handler[h].key => g = h

\* Workers have different entries before them, and an idle one none.
Disjoint == \A v, w \in Workers : v # w => Ahead(v) \cap Ahead(w) = {}
IdleIsFree == \A w \in Workers : worker[w].pc = "idle" => worker[w] = Waiting

LInv == TypeOK /\ Tracked /\ Submissions /\ Disjoint /\ IdleIsFree /\ OneLiveEntry

LEMMA AheadIsDelivered ==
  ASSUME TypeOK, IdleIsFree, NEW w \in Workers
  PROVE  Ahead(w) \subseteq 1..cursor /\ cursor \in Nat /\ cursor <= Len(stream)
         /\ Len(stream) \in Nat
<1>1. cursor \in Nat /\ cursor <= Len(stream) /\ Len(stream) \in Nat
  BY DEF TypeOK, RedisType
<1>2. CASE worker[w].pc = "idle"
  BY <1>1, <1>2 DEF IdleIsFree, Waiting, Batch, Ahead
<1>3. CASE worker[w].pc # "idle"
  BY <1>1, <1>3 DEF TypeOK, WorkerType, Ahead
<1> QED BY <1>1, <1>2, <1>3

LEMMA LiveAreEntries ==
  ASSUME TypeOK, IdleIsFree
  PROVE  Live \subseteq Entries
<1>1. cursor \in Nat /\ cursor <= Len(stream) /\ Len(stream) \in Nat
  BY DEF TypeOK, RedisType
<1>2. (cursor + 1)..Len(stream) \subseteq Entries /\ 1..cursor \subseteq Entries
  BY <1>1 DEF Entries
<1> QED BY <1>2, AheadIsDelivered DEF Live

\* A worker deals with what it has before it, and nothing is delivered or appended.
LEMMA AheadShrinks ==
  ASSUME LInv, NEW w \in Workers, UNCHANGED <<stream, cursor>>,
         \A v \in Workers : v # w => worker'[v] = worker[v],
         Ahead(w)' \subseteq Ahead(w)
  PROVE  OneLiveEntry' /\ Disjoint'
<1>1. \A v \in Workers : v # w => Ahead(v)' = Ahead(v)
  BY DEF Ahead
<1>2. \A v \in Workers : Ahead(v)' \subseteq Ahead(v)
  BY <1>1
<1>3. Live' \subseteq Live
  BY <1>2 DEF Live
<1>4. OneLiveEntry'
  BY <1>3 DEF LInv, OneLiveEntry
<1>5. Disjoint'
  BY <1>2 DEF LInv, Disjoint
<1> QED BY <1>4, <1>5

\* A worker gets entries that were nobody's.
LEMMA AheadIsHanded ==
  ASSUME LInv, NEW w \in Workers, UNCHANGED stream,
         \A v \in Workers : v # w => worker'[v] = worker[v],
         cursor' \in Nat, cursor <= cursor', cursor' <= Len(stream),
         Ahead(w)' \subseteq (cursor + 1)..cursor'
  PROVE  OneLiveEntry' /\ Disjoint'
<1>0. TypeOK /\ IdleIsFree /\ cursor \in Nat /\ Len(stream) \in Nat
  BY DEF LInv, TypeOK, RedisType
<1>1. \A v \in Workers : v # w => Ahead(v)' = Ahead(v)
  BY DEF Ahead
<1>2. (cursor' + 1)..Len(stream) \subseteq (cursor + 1)..Len(stream)
      /\ (cursor + 1)..cursor' \subseteq (cursor + 1)..Len(stream)
  BY <1>0
<1>3. Live' \subseteq Live
  BY <1>1, <1>2 DEF Live
<1>4. OneLiveEntry'
  BY <1>3 DEF LInv, OneLiveEntry
<1>5. ASSUME NEW v \in Workers, v # w PROVE Ahead(v)' \cap Ahead(w)' = {}
  <2>1. Ahead(v)' \subseteq 1..cursor
    BY <1>0, <1>1, <1>5, AheadIsDelivered
  <2> QED BY <1>0, <2>1
<1>6. Disjoint'
  BY <1>1, <1>5 DEF LInv, Disjoint
<1> QED BY <1>4, <1>6

\* A worker appends an entry for the job it is at and is done with the old one.
LEMMA EntryIsReplaced ==
  ASSUME LInv, NEW w \in Workers, UNCHANGED cursor, stream' = Append(stream, Key(w)),
         \A v \in Workers : v # w => worker'[v] = worker[v],
         worker[w].pc = "route", Ahead(w)' \subseteq Ahead(w) \ {worker[w].item}
  PROVE  OneLiveEntry' /\ Disjoint'
<1> DEFINE e == worker[w].item
           n == Len(stream) + 1
<1>0. /\ TypeOK /\ IdleIsFree /\ cursor \in Nat /\ cursor <= Len(stream)
      /\ Len(stream) \in Nat /\ stream \in Seq(Keys)
  BY DEF LInv, TypeOK, RedisType
<1>1. e \in 1..cursor /\ Key(w) \in Keys /\ Key(w) = stream[e] /\ e \in Ahead(w)
  BY <1>0, WorkerKey DEF Key, Ahead, TypeOK, WorkerType
<1>2. /\ Len(stream') = n /\ stream'[n] = stream[e]
      /\ \A i \in Entries : stream'[i] = stream[i]
  BY <1>0, <1>1 DEF Entries
<1>3. \A v \in Workers : v # w => Ahead(v)' = Ahead(v)
  BY DEF Ahead
<1>4. ASSUME NEW i \in Live' PROVE i = n \/ (i \in Live /\ i # e)
  <2>1. CASE i \in (cursor + 1)..n
    <3>1. i # e /\ (i = n \/ i \in (cursor + 1)..Len(stream))
      BY <1>0, <1>1, <2>1
    <3> QED BY <3>1 DEF Live
  <2>2. CASE \E v \in Workers : i \in Ahead(v)'
    <3>1. PICK v \in Workers : i \in Ahead(v)'
      BY <2>2
    <3>2. CASE v = w
      BY <3>1, <3>2 DEF Live
    <3>3. CASE v # w
      BY <1>1, <1>3, <3>1, <3>3 DEF Live, LInv, Disjoint
    <3> QED BY <3>2, <3>3
  <2> QED BY <1>2, <2>1, <2>2 DEF Live
<1>5. e \in Live /\ Live \subseteq Entries
  BY <1>0, <1>1, LiveAreEntries DEF Live
<1>6. OneLiveEntry'
  <2> SUFFICES ASSUME NEW i \in Live', NEW j \in Live', stream'[i] = stream'[j]
               PROVE  i = j
    BY DEF OneLiveEntry
  <2>0. \A m \in Live' : m # n => stream'[m] # stream'[n]
    <3> SUFFICES ASSUME NEW m \in Live', m # n PROVE stream'[m] # stream'[n]
      OBVIOUS
    <3>1. m \in Live /\ m # e
      BY <1>4
    <3>2. stream[m] # stream[e]
      BY <1>5, <3>1 DEF LInv, OneLiveEntry
    <3> QED BY <1>2, <1>5, <3>1, <3>2
  <2>1. CASE i = n /\ j = n
    BY <2>1
  <2>2. CASE i = n /\ j # n
    BY <2>0, <2>2
  <2>3. CASE i # n /\ j = n
    BY <2>0, <2>3
  <2>4. CASE i # n /\ j # n
    <3>1. i \in Live /\ j \in Live
      BY <1>4, <2>4
    <3>2. stream[i] = stream[j]
      BY <1>2, <1>5, <3>1
    <3> QED BY <3>1, <3>2 DEF LInv, OneLiveEntry
  <2> QED BY <2>1, <2>2, <2>3, <2>4
<1>7. Disjoint'
  BY <1>3 DEF LInv, Disjoint
<1> QED BY <1>6, <1>7

\* A thread appends the first entry of a job.
LEMMA EntryIsFirst ==
  ASSUME LInv, NEW k \in Keys, UNCHANGED <<cursor, worker>>,
         stream' = Append(stream, k), \A i \in Entries : stream[i] # k
  PROVE  OneLiveEntry' /\ Disjoint'
<1> DEFINE n == Len(stream) + 1
<1>0. /\ TypeOK /\ IdleIsFree /\ cursor \in Nat /\ cursor <= Len(stream)
      /\ Len(stream) \in Nat /\ stream \in Seq(Keys)
  BY DEF LInv, TypeOK, RedisType
<1>2. /\ Len(stream') = n /\ stream'[n] = k
      /\ \A i \in Entries : stream'[i] = stream[i]
  BY <1>0 DEF Entries
<1>3. \A v \in Workers : Ahead(v)' = Ahead(v)
  BY DEF Ahead
<1>4. \A i \in Live' : i = n \/ i \in Live
  <2>1. \A i \in (cursor + 1)..n : i = n \/ i \in (cursor + 1)..Len(stream)
    BY <1>0
  <2> QED BY <1>2, <1>3, <2>1 DEF Live
<1>5. Live \subseteq Entries
  BY <1>0, LiveAreEntries
<1>6. OneLiveEntry'
  BY <1>2, <1>4, <1>5 DEF LInv, OneLiveEntry
<1>7. Disjoint'
  BY <1>3 DEF LInv, Disjoint
<1> QED BY <1>6, <1>7

LEMMA LInvInit == Init => LInv
<1> SUFFICES ASSUME Init PROVE LInv
  OBVIOUS
<1>1. TypeOK
  BY InitType
<1>2. Entries = {} /\ \A w \in Workers : worker[w] = Waiting /\ Ahead(w) = {}
  BY DEF Init, Entries, Ahead, Waiting, Batch
<1>3. Live = {}
  BY <1>2 DEF Init, Live
<1>4. \A h \in Handlers : handler[h].pc # "xadd"
  BY DEF Init, Idle, Request
<1> QED BY <1>1, <1>2, <1>3, <1>4
        DEF LInv, Tracked, Submissions, Disjoint, IdleIsFree, OneLiveEntry

\* No row is ever deleted.
LEMMA RowsStay ==
  ASSUME TypeOK, Next, NEW k \in Keys, jobs[k].status # "ABSENT"
  PROVE  jobs'[k].status # "ABSENT"
<1>0. jobs \in [Keys -> Rows]
  BY DEF TypeOK, TablesType
<1>1. CASE \E h \in Handlers :
             (\E x \in Keys : Lookup(h, x)) \/ HandlerStep(h) \/ HandlerDies(h)
  <2>1. PICK h \in Handlers :
          (\E x \in Keys : Lookup(h, x)) \/ HandlerStep(h) \/ HandlerDies(h)
    BY <1>1
  <2>2. CASE InsertJob(h)
    BY <1>0, <2>2 DEF InsertJob, Rows
  <2>3. CASE RecordStreamId(h)
    BY <1>0, <2>3 DEF RecordStreamId, Rows
  <2>4. CASE MarkUnavailable(h)
    BY <1>0, <2>4 DEF MarkUnavailable, Rows
  <2>5. CASE UNCHANGED jobs
    BY <2>5
  <2> QED BY <2>1, <2>2, <2>3, <2>4, <2>5 DEF Lookup, HandlerStep, HandlerDies, Enqueue, db
<1>2. ASSUME NEW w \in Workers, WorkerStep(w) \/ WorkerDies(w)
      PROVE  jobs'[k].status # "ABSENT"
  <2>1. CASE Start(w)
    BY <1>0, <2>1 DEF Start, WrittenStatus, Rows
  <2>2. CASE Complete(w)
    BY <1>0, <2>2 DEF Complete, WrittenStatus, Rows
  <2>3. CASE Decide(w)
    BY <1>0, <2>3 DEF Decide, WrittenStatus, Verdict, Rows
  <2>4. CASE UNCHANGED jobs
    BY <2>4
  <2> QED BY <1>2, <2>1, <2>2, <2>3, <2>4 DEF WorkerStep, WorkerDies, Read, Fetch,
      ProcessOk, ProcessFails, Reload, CommitFails, Ack, AckRaises, Failed, DeadLetter,
      Retry, AckFailure, FailureRaises, Loads, db
<1> QED BY <1>1, <1>2 DEF Next

LEMMA HandlerStepLInv ==
  ASSUME LInv, NEW h \in Handlers,
         (\E k \in Keys : Lookup(h, k)) \/ HandlerStep(h) \/ HandlerDies(h)
  PROVE  LInv'
<1>a. /\ TypeOK /\ TypeOK' /\ Next
      /\ handler[h].pc # "idle" => handler[h].key \in Keys
  BY HandlerStepType DEF LInv, TypeOK, HandlerType, Next
<1>b. /\ stream \in Seq(Keys) /\ Len(stream) \in Nat /\ jobs \in [Keys -> Rows]
      /\ \A i \in Entries : stream[i] \in Keys
  BY <1>a DEF TypeOK, RedisType, TablesType, Entries
<1>c. UNCHANGED <<worker, cursor>>
  BY DEF Lookup, HandlerStep, InsertJob, Enqueue, RecordStreamId, MarkUnavailable,
     HandlerDies, redis
<1>0. /\ TypeOK /\ TypeOK' /\ Next /\ UNCHANGED <<worker, cursor>>
      /\ stream \in Seq(Keys) /\ Len(stream) \in Nat /\ jobs \in [Keys -> Rows]
      /\ handler[h].pc # "idle" => handler[h].key \in Keys
      /\ \A i \in Entries : stream[i] \in Keys
  BY <1>a, <1>b, <1>c
<1>1. \A g \in Handlers : g # h => handler'[g] = handler[g]
  BY <1>0 DEF TypeOK, HandlerType, Lookup, HandlerStep, InsertJob, Enqueue, RecordStreamId,
     MarkUnavailable, HandlerDies, Becomes
<1>2. IdleIsFree'
  BY <1>0 DEF LInv, IdleIsFree, Waiting
<1>3. ASSUME stream' = stream
      PROVE  OneLiveEntry' /\ Disjoint' /\ Tracked'
  <2>1. Live' = Live /\ \A v \in Workers : Ahead(v)' = Ahead(v)
    BY <1>0, <1>3 DEF Live, Ahead
  <2>2. OneLiveEntry' /\ Disjoint'
    BY <1>3, <2>1 DEF LInv, OneLiveEntry, Disjoint
  <2>3. Tracked'
    BY <1>0, <1>3, RowsStay DEF LInv, Tracked, Entries
  <2> QED BY <2>2, <2>3
<1>4. ASSUME stream' = stream, handler'[h].pc # "xadd"
      PROVE  LInv'
  <2>1. Submissions'
    <3> SUFFICES ASSUME NEW g \in Handlers, handler'[g].pc = "xadd"
                 PROVE  /\ jobs'[handler'[g].key].status # "ABSENT"
                        /\ \A i \in Entries' : stream'[i] # handler'[g].key
                        /\ \A f \in Handlers :
                             handler'[f].pc = "xadd" /\ handler'[f].key = handler'[g].key
                               => f = g
      BY DEF Submissions
    <3>1. g # h /\ handler'[g] = handler[g] /\ handler[g].pc = "xadd"
      BY <1>1, <1>4
    <3>2. handler[g].key \in Keys
      BY <1>0, <3>1 DEF TypeOK, HandlerType
    <3>3. Entries' = Entries
      BY <1>4 DEF Entries
    <3> QED BY <1>0, <1>1, <1>4, <3>1, <3>2, <3>3, RowsStay DEF LInv, Submissions
  <2> QED BY <1>0, <1>2, <1>3, <1>4, <2>1 DEF LInv
<1>5. CASE InsertJob(h) /\ jobs[handler[h].key].status = "ABSENT"
  <2> DEFINE k == handler[h].key
  <2>1. /\ k \in Keys /\ UNCHANGED redis /\ jobs'[k].status = "QUEUED"
        /\ handler'[h].pc = "xadd" /\ handler'[h].key = k
    BY <1>0, <1>5 DEF InsertJob, Becomes, Request, TypeOK, HandlerType, Rows
  <2>2. Entries' = Entries /\ stream' = stream
    BY <2>1 DEF redis, Entries
  <2>3. \A i \in Entries : stream[i] # k
    BY <1>5 DEF LInv, Tracked
  <2>4. \A g \in Handlers : handler[g].pc = "xadd" => handler[g].key # k
    BY <1>5 DEF LInv, Submissions
  <2>5. Submissions'
    <3> SUFFICES ASSUME NEW g \in Handlers, handler'[g].pc = "xadd"
                 PROVE  /\ jobs'[handler'[g].key].status # "ABSENT"
                        /\ \A i \in Entries : stream[i] # handler'[g].key
                        /\ \A f \in Handlers :
                             handler'[f].pc = "xadd" /\ handler'[f].key = handler'[g].key
                               => f = g
      BY <2>2 DEF Submissions
    <3>1. CASE g = h
      BY <1>1, <2>1, <2>3, <2>4, <3>1
    <3>2. CASE g # h
      <4>1. handler'[g] = handler[g] /\ handler[g].pc = "xadd" /\ handler[g].key \in Keys
        BY <1>0, <1>1, <3>2 DEF TypeOK, HandlerType
      <4>2. jobs'[handler[g].key].status # "ABSENT"
        BY <1>0, <4>1, RowsStay DEF LInv, Submissions
      <4> QED BY <1>1, <2>1, <2>4, <3>2, <4>1, <4>2 DEF LInv, Submissions
    <3> QED BY <3>1, <3>2
  <2> QED BY <1>0, <1>2, <1>3, <2>2, <2>5 DEF LInv
<1>6. CASE Enqueue(h)
  <2> DEFINE k == handler[h].key
  <2>1. handler[h].pc = "xadd" /\ k \in Keys /\ handler'[h].pc # "xadd"
    BY <1>0, <1>6 DEF Enqueue, Becomes, Request, TypeOK, HandlerType
  <2>2. CASE stream' = stream
    BY <1>4, <2>1, <2>2
  <2>3. CASE stream' = Append(stream, k)
    <3>1. (\A i \in Entries : stream[i] # k) /\ jobs[k].status # "ABSENT"
      BY <2>1 DEF LInv, Submissions
    <3>2. OneLiveEntry' /\ Disjoint'
      BY <1>0, <2>1, <2>3, <3>1, EntryIsFirst
    <3>3. \A i \in Entries' : (i \in Entries /\ stream'[i] = stream[i]) \/ stream'[i] = k
      BY <1>0, <2>1, <2>3 DEF Entries
    <3>4. Tracked'
      BY <1>0, <2>1, <3>1, <3>3, RowsStay DEF LInv, Tracked
    <3>5. Submissions'
      <4> SUFFICES ASSUME NEW g \in Handlers, handler'[g].pc = "xadd"
                   PROVE  /\ jobs'[handler'[g].key].status # "ABSENT"
                          /\ \A i \in Entries' : stream'[i] # handler'[g].key
                          /\ \A f \in Handlers :
                               handler'[f].pc = "xadd" /\ handler'[f].key = handler'[g].key
                                 => f = g
        BY DEF Submissions
      <4>1. g # h /\ handler'[g] = handler[g] /\ handler[g].pc = "xadd"
        BY <1>1, <2>1
      <4>2. handler[g].key \in Keys /\ handler[g].key # k
        BY <1>0, <2>1, <4>1 DEF TypeOK, HandlerType, LInv, Submissions
      <4> QED BY <1>0, <1>1, <2>1, <3>3, <4>1, <4>2, RowsStay DEF LInv, Submissions
    <3> QED BY <1>0, <1>2, <3>2, <3>4, <3>5 DEF LInv
  <2> QED BY <1>6, <2>2, <2>3 DEF Enqueue, Xadd, XaddRaises
<1>7. CASE \E k \in Keys : Lookup(h, k)
  <2>1. UNCHANGED <<stream, jobs>> /\ handler'[h].pc # "xadd"
    BY <1>0, <1>7 DEF Lookup, Becomes, Request, TypeOK, HandlerType, redis, db
  <2> QED BY <1>4, <2>1
<1>8. CASE \/ InsertJob(h) /\ jobs[handler[h].key].status # "ABSENT"
           \/ RecordStreamId(h) \/ MarkUnavailable(h) \/ HandlerDies(h)
  <2>1. stream' = stream /\ handler'[h].pc # "xadd"
    BY <1>0, <1>8 DEF InsertJob, RecordStreamId, MarkUnavailable, HandlerDies, Becomes, Idle,
       Request, TypeOK, HandlerType, redis
  <2> QED BY <1>4, <2>1
<1> QED BY <1>5, <1>6, <1>7, <1>8 DEF HandlerStep

\* What is before a worker when it goes on with its entry.
LEMMA AheadWithin ==
  ASSUME TypeOK, NEW w \in Workers, NEW pc, NEW row,
         worker[w].pc \notin {"dlqack", "retryack"},
         \/ worker' = [worker EXCEPT ![w].pc = pc]
         \/ worker' = [worker EXCEPT ![w] = Batch(pc, worker[w].item, worker[w].last, row)]
  PROVE  /\ Ahead(w)' \subseteq Ahead(w)
         /\ pc \in {"dlqack", "retryack"} =>
              Ahead(w)' \subseteq Ahead(w) \ {worker[w].item}
<1>1. worker \in [Workers -> [pc : WorkerPCs, item : Nat, last : Nat, row : Rows]]
  BY DEF TypeOK, WorkerType
<1>2. /\ worker'[w].pc = pc /\ worker'[w].item = worker[w].item
      /\ worker'[w].last = worker[w].last
  BY <1>1 DEF Batch
<1> QED BY <1>2 DEF Ahead

\* What is before a worker when it takes the next entry or gives up.
LEMMA AheadAfter ==
  ASSUME TypeOK, NEW w \in Workers
  PROVE  /\ NextItem(w) => Ahead(w)' \subseteq Ahead(w)
         /\ Abandons(w) => Ahead(w)' = {}
<1>1. /\ worker \in [Workers -> [pc : WorkerPCs, item : Nat, last : Nat, row : Rows]]
      /\ worker[w].item \in Nat /\ worker[w].last \in Nat
  BY DEF TypeOK, WorkerType
<1>3. ASSUME NextItem(w) PROVE Ahead(w)' \subseteq Ahead(w)
  <2>1. CASE worker[w].item < worker[w].last
    <3>1. /\ worker'[w].item = worker[w].item + 1 /\ worker'[w].last = worker[w].last
      BY <1>1, <1>3, <2>1 DEF NextItem, Batch
    <3>2. \A i \in (worker[w].item + 1)..worker[w].last :
            i \in worker[w].item..worker[w].last /\ i # worker[w].item
      BY <1>1
    <3> QED BY <3>1, <3>2 DEF Ahead
  <2>2. CASE ~(worker[w].item < worker[w].last)
    <3>1. worker'[w].item = 1 /\ worker'[w].last = 0
      BY <1>1, <1>3, <2>2 DEF NextItem, Waiting, Batch
    <3> QED BY <3>1 DEF Ahead
  <2> QED BY <2>1, <2>2
<1>4. ASSUME Abandons(w) PROVE Ahead(w)' = {}
  <2>1. worker'[w].item = 1 /\ worker'[w].last = 0
    BY <1>1, <1>4 DEF Abandons, Waiting, Batch
  <2> QED BY <2>1 DEF Ahead
<1> QED BY <1>3, <1>4

\* A worker step keeps the stream, or appends an entry for the job at hand.
LEMMA WorkerStepLive ==
  ASSUME LInv, NEW w \in Workers, WorkerStep(w) \/ WorkerDies(w)
  PROVE  /\ OneLiveEntry' /\ Disjoint'
         /\ \/ stream' = stream
            \/ worker[w].pc # "idle" /\ stream' = Append(stream, Key(w))
<1>0. /\ TypeOK /\ TypeOK' /\ IdleIsFree
      /\ \A v \in Workers : v # w => worker'[v] = worker[v]
  BY WorkerStepType DEF LInv, TypeOK, WorkerType, WorkerStep, WorkerDies, Read, Fetch, Start,
     ProcessOk, ProcessFails, Reload, Complete, CommitFails, Ack, AckRaises, Failed,
     Decide, DeadLetter, Retry, AckFailure, FailureRaises, Moves, Loads, NextItem, Abandons
<1>1. CASE Read(w)
  <2>1. /\ cursor \in Nat /\ Len(stream) \in Nat /\ cursor < Len(stream)
        /\ stream' = stream /\ cursor' = BatchEnd
    BY <1>0, <1>1 DEF Read, Deliver, TypeOK, RedisType
  <2>2. BatchEnd \in Nat /\ cursor <= BatchEnd /\ BatchEnd <= Len(stream)
    BY <2>1, BatchAssumption DEF BatchEnd
  <2>3. CASE worker' = worker
    <3>1. worker[w].item = 1 /\ worker[w].last = 0
      BY <1>0, <1>1 DEF Read, IdleIsFree, Waiting, Batch
    <3>2. Ahead(w)' = {}
      BY <2>3, <3>1 DEF Ahead
    <3> QED BY <1>0, <2>1, <2>2, <3>2, AheadIsHanded
  <2>4. CASE worker' = [worker EXCEPT ![w] = Batch("fetch", cursor + 1, BatchEnd, NoRow)]
    <3>1. worker'[w].item = cursor + 1 /\ worker'[w].last = BatchEnd
      BY <1>0, <2>4 DEF TypeOK, WorkerType, Batch
    <3>2. Ahead(w)' \subseteq (cursor + 1)..cursor'
      BY <2>1, <3>1 DEF Ahead
    <3> QED BY <1>0, <2>1, <2>2, <3>2, AheadIsHanded
  <2> QED BY <1>1, <2>3, <2>4 DEF Read
<1>2. CASE Retry(w)
  <2>1. Ahead(w)' \subseteq Ahead(w) \ {worker[w].item}
    BY <1>0, <1>2, AheadWithin DEF Retry, Moves
  <2> QED BY <1>0, <1>2, <2>1, EntryIsReplaced DEF Retry, Moves, Xadd
<1>3. CASE FailureRaises(w) /\ stream' # stream
  <2>1. Ahead(w)' = {} /\ worker[w].pc = "route" /\ stream' = Append(stream, Key(w))
        /\ cursor' = cursor
    BY <1>0, <1>3, AheadAfter DEF FailureRaises, redis, Acked
  <2> QED BY <1>0, <2>1, EntryIsReplaced
<1>4. ASSUME UNCHANGED <<stream, cursor>>, worker[w].pc # "idle",
             Ahead(w)' \subseteq Ahead(w)
      PROVE  OneLiveEntry' /\ Disjoint'
  BY <1>0, <1>4, AheadShrinks
<1>5. CASE \/ Start(w) \/ ProcessOk(w) \/ ProcessFails(w) \/ Complete(w) \/ CommitFails(w)
           \/ AckRaises(w) \/ Decide(w) \/ DeadLetter(w)
  <2>1. \E from, to : Moves(w, from, to) /\ from \notin {"idle", "dlqack", "retryack"}
    BY <1>5 DEF Start, ProcessOk, ProcessFails, Complete, CommitFails, AckRaises, Decide,
       DeadLetter
  <2>2. worker[w].pc # "idle" /\ Ahead(w)' \subseteq Ahead(w)
    BY <1>0, <2>1, AheadWithin DEF Moves
  <2>3. UNCHANGED <<stream, cursor>>
    BY <1>5 DEF Start, ProcessOk, ProcessFails, Complete, CommitFails, AckRaises, Decide,
       DeadLetter, redis, Acked
  <2> QED BY <1>4, <2>2, <2>3
<1>6. CASE Fetch(w) \/ Reload(w) \/ Failed(w)
  <2>1. \E from, to : Loads(w, from, to) /\ from \notin {"idle", "dlqack", "retryack"}
    BY <1>6 DEF Fetch, Reload, Failed
  <2>2. worker[w].pc # "idle" /\ Ahead(w)' \subseteq Ahead(w)
    BY <1>0, <2>1, AheadWithin DEF Loads
  <2> QED BY <1>4, <1>6, <2>2 DEF Fetch, Reload, Failed, Loads, redis
<1>7. CASE Ack(w) \/ AckFailure(w)
  <2>1. worker[w].pc # "idle" /\ NextItem(w) /\ UNCHANGED <<stream, cursor>>
    BY <1>7 DEF Ack, AckFailure, Acked
  <2> QED BY <1>0, <1>4, <2>1, AheadAfter
<1>8. CASE WorkerDies(w) \/ (FailureRaises(w) /\ stream' = stream)
  <2>1. worker[w].pc # "idle" /\ Abandons(w) /\ UNCHANGED <<stream, cursor>>
    BY <1>8 DEF WorkerDies, FailureRaises, Acked, redis
  <2> QED BY <1>0, <1>4, <2>1, AheadAfter
<1> QED BY <1>1, <1>2, <1>3, <1>5, <1>6, <1>7, <1>8 DEF WorkerStep

LEMMA WorkerStepLInv ==
  ASSUME LInv, NEW w \in Workers, WorkerStep(w) \/ WorkerDies(w)
  PROVE  LInv'
<1>1. TypeOK /\ TypeOK' /\ Next
  BY WorkerStepType DEF LInv, Next
<1>2. handler' = handler
  BY DEF WorkerStep, WorkerDies, Read, Fetch, Start, ProcessOk, ProcessFails, Reload,
     Complete, CommitFails, Ack, AckRaises, Failed, Decide, DeadLetter, Retry, AckFailure,
     FailureRaises, Moves, Loads, NextItem, Abandons
<1>3. OneLiveEntry' /\ Disjoint'
  BY WorkerStepLive
\* Every job that has an entry had one before.
<1>4. \A i \in Entries' : \E j \in Entries : stream'[i] = stream[j]
  <2>1. stream \in Seq(Keys) /\ Len(stream) \in Nat
    BY <1>1 DEF TypeOK, RedisType
  <2>2. CASE stream' = stream
    BY <2>2 DEF Entries
  <2>3. CASE worker[w].pc # "idle" /\ stream' = Append(stream, Key(w))
    <3>1. worker[w].item \in Entries /\ Key(w) = stream[worker[w].item] /\ Key(w) \in Keys
      BY <1>1, <2>3, WorkerKey DEF Key, Entries
    <3>2. \A i \in Entries' : (i \in Entries /\ stream'[i] = stream[i]) \/ stream'[i] = Key(w)
      BY <2>1, <2>3, <3>1 DEF Entries
    <3> QED BY <3>1, <3>2
  <2> QED BY <2>2, <2>3, WorkerStepLive
<1>5. \A i \in Entries : stream[i] \in Keys
  BY <1>1 DEF TypeOK, RedisType, Entries
<1>6. Tracked'
  BY <1>1, <1>4, <1>5, RowsStay DEF LInv, Tracked
<1>7. Submissions'
  <2> SUFFICES ASSUME NEW h \in Handlers, handler[h].pc = "xadd"
               PROVE  /\ jobs'[handler[h].key].status # "ABSENT"
                      /\ \A i \in Entries' : stream'[i] # handler[h].key
                      /\ \A g \in Handlers :
                           handler[g].pc = "xadd" /\ handler[g].key = handler[h].key => g = h
    BY <1>2 DEF Submissions
  <2>1. handler[h].key \in Keys
    BY <1>1 DEF TypeOK, HandlerType
  <2> QED BY <1>1, <1>4, <2>1, RowsStay DEF LInv, Submissions
<1>8. IdleIsFree'
  <2>1. \A v \in Workers : v # w => worker'[v] = worker[v]
    BY <1>1 DEF TypeOK, WorkerType, WorkerStep, WorkerDies, Read, Fetch, Start,
       ProcessOk, ProcessFails, Reload, Complete, CommitFails, Ack, AckRaises, Failed,
       Decide, DeadLetter, Retry, AckFailure, FailureRaises, Moves, Loads, NextItem, Abandons
  <2>2. worker'[w].pc = "idle" => worker'[w] = Waiting
    BY <1>1 DEF TypeOK, WorkerType, LInv, IdleIsFree, Batch, WorkerStep, WorkerDies, Read,
       Fetch, Start, ProcessOk, ProcessFails, Reload, Complete, CommitFails, Ack, AckRaises,
       Failed, Decide, DeadLetter, Retry, AckFailure, FailureRaises, Moves, Loads, NextItem,
       Abandons
  <2> QED BY <2>1, <2>2 DEF LInv, IdleIsFree, Waiting
<1> QED BY <1>1, <1>3, <1>6, <1>7, <1>8 DEF LInv

LEMMA LInvHolds == Spec => []LInv
<1>1. LInv /\ UNCHANGED vars => LInv'
  BY TypeStutter DEF vars, LInv, Tracked, Submissions, Disjoint, IdleIsFree, OneLiveEntry,
     Live, Ahead, Entries, Waiting
<1>2. LInv /\ Next => LInv'
  BY HandlerStepLInv, WorkerStepLInv DEF Next
<1> QED BY LInvInit, <1>1, <1>2, PTL DEF Spec

\* Whatever fails, no two entries of a job are ever with workers or on their way to
\* them: no job is processed twice at a time.
THEOREM OneEntryPerJob == Spec => []OneLiveEntry
<1>1. LInv => OneLiveEntry
  BY DEF LInv
<1> QED BY <1>1, LInvHolds, PTL

-----------------------------------------------------------------------------
(* Rows go through the states of the ledger, as long as Redis answers. *)

Calm == Faults \subseteq {"crash", "db"}

Open(row) == row.status \notin {"ABSENT", "COMPLETED", "DEAD_LETTER"}
Ready(k) == Open(jobs[k]) /\ jobs[k].attempts < MaxAttempts

AsLoaded(w) ==
  /\ worker[w].row.status = jobs[Key(w)].status
  /\ worker[w].row.attempts = jobs[Key(w)].attempts

\* What each step of a worker finds in the row of the job it is at.
Stage(w) ==
  /\ worker[w].pc \in {"fetch", "start"} => Ready(Key(w))
  /\ worker[w].pc \in {"start", "decide"} => AsLoaded(w)
  /\ worker[w].pc \in {"process", "reload", "complete"} =>
       Open(jobs[Key(w)]) /\ jobs[Key(w)].attempts \in 1..MaxAttempts
  /\ worker[w].pc = "complete" => worker[w].row.status # "COMPLETED"
  /\ worker[w].pc \in {"failed", "decide"} =>
       Open(jobs[Key(w)]) /\ jobs[Key(w)].attempts \in 0..MaxAttempts
  /\ worker[w].pc = "route" => IsDead(w) \/ Ready(Key(w))

\* The jobs of the entries nobody works on, with a worker, in the stream and on
\* their way to it, may be attempted.
Waits(w) ==
  worker[w].pc # "idle" =>
    \A i \in (worker[w].item + 1)..worker[w].last : Ready(stream[i])
Undelivered == \A i \in (cursor + 1)..Len(stream) : Ready(stream[i])
Submitted ==
  \A h \in Handlers :
    /\ handler[h].pc # "unavailable"
    /\ handler[h].pc = "xadd" => Ready(handler[h].key)
Fresh == \A k \in Keys : jobs[k].status = "ABSENT" => jobs[k].attempts = 0

PInv ==
  LInv /\ Undelivered /\ Submitted /\ Fresh /\ \A w \in Workers : Stage(w) /\ Waits(w)

\* The ledger does not see a change of the row of k.
SameFor(k) ==
  jobs'[k].status = jobs[k].status /\ jobs'[k].attempts = jobs[k].attempts

\* Entries stay as they are.
Appends == \A i \in Entries : stream'[i] = stream[i]

LEMMA PInvInit == Init => PInv
<1> SUFFICES ASSUME Init PROVE PInv
  OBVIOUS
<1>1. LInv
  BY LInvInit
<1>2. Undelivered
  BY DEF Init, Undelivered
<1>3. Submitted
  BY DEF Init, Submitted, Idle, Request
<1>4. Fresh
  BY DEF Init, Fresh, NoRow
<1>5. \A w \in Workers : Stage(w) /\ Waits(w)
  BY DEF Init, Stage, Waits, Waiting, Batch
<1> QED BY <1>1, <1>2, <1>3, <1>4, <1>5 DEF PInv

LEMMA ReadyStays == ASSUME NEW k, Ready(k), SameFor(k) PROVE Ready(k)'
  BY DEF Ready, SameFor, Open

\* Nothing changes for a worker that does nothing while the rows of its jobs stay.
LEMMA StageStays ==
  ASSUME LInv, NEW v \in Workers, Stage(v), Waits(v), worker'[v] = worker[v], Appends,
         \A i \in Ahead(v) : SameFor(stream[i])
  PROVE  Stage(v)' /\ Waits(v)'
<1>1. CASE worker[v].pc = "idle"
  BY <1>1 DEF Stage, Waits
<1>2. CASE worker[v].pc # "idle"
  <2>1. /\ worker[v].item \in Nat /\ worker[v].last \in Nat
        /\ worker[v].item <= worker[v].last
        /\ worker[v].item \in Entries /\ Key(v) = stream[worker[v].item]
    BY <1>2, WorkerKey DEF LInv, TypeOK, WorkerType, Key, Entries
  <2>2. Key(v)' = Key(v)
    BY <2>1 DEF Key, Appends
  <2>3. worker[v].pc \notin {"dlqack", "retryack"} => SameFor(Key(v))
    BY <2>1 DEF Ahead
  <2>4. Stage(v)'
    BY <2>2, <2>3 DEF Stage, SameFor, AsLoaded, Ready, Open, IsDead
  <2>5. ASSUME NEW i \in (worker[v].item + 1)..worker[v].last
        PROVE  Ready(stream[i])'
    <3>1. i \in Ahead(v) /\ Ready(stream[i])
      BY <1>2, <2>1, <2>5 DEF Ahead, Waits
    <3>2. i \in Entries
      BY <3>1, LiveAreEntries DEF LInv, Live
    <3>3. stream'[i] = stream[i] /\ SameFor(stream[i])
      BY <3>1, <3>2 DEF Appends
    <3> QED BY <3>1, <3>3 DEF Ready, SameFor, Open
  <2> QED BY <2>4, <2>5 DEF Waits
<1> QED BY <1>1, <1>2

\* A worker changes no row but that of the job it is at, which has no other entry.
LEMMA OthersStay ==
  ASSUME LInv, NEW w \in Workers, WorkerStep(w) \/ WorkerDies(w)
  PROVE  /\ \A k \in Keys : SameFor(k) \/ (worker[w].pc # "idle" /\ k = Key(w))
         /\ \A i \in Live : i \notin Ahead(w) \/ i # worker[w].item => SameFor(stream[i])
<1>0. jobs \in [Keys -> Rows] /\ TypeOK
  BY DEF LInv, TypeOK, TablesType
<1>1. \/ UNCHANGED jobs
      \/ /\ worker[w].pc \in {"start", "complete", "decide"}
         /\ \A k \in Keys : k # Key(w) => jobs'[k] = jobs[k]
  <2>1. CASE Start(w)
    BY <1>0, <2>1 DEF Start, Moves
  <2>2. CASE Complete(w)
    BY <1>0, <2>2 DEF Complete, Moves
  <2>3. CASE Decide(w)
    BY <1>0, <2>3 DEF Decide, Moves
  <2>4. CASE UNCHANGED jobs
    BY <2>4
  <2> QED BY <2>1, <2>2, <2>3, <2>4 DEF WorkerStep, WorkerDies, Read, Fetch,
      ProcessOk, ProcessFails, Reload, CommitFails, Ack, AckRaises, Failed, DeadLetter,
      Retry, AckFailure, FailureRaises, Loads, db
<1>2. \A k \in Keys : SameFor(k) \/ (worker[w].pc # "idle" /\ k = Key(w))
  BY <1>1 DEF SameFor
<1>3. ASSUME NEW i \in Live, i \notin Ahead(w) \/ i # worker[w].item
      PROVE  SameFor(stream[i])
  <2>1. CASE UNCHANGED jobs
    BY <2>1 DEF SameFor
  <2>2. CASE /\ worker[w].pc \in {"start", "complete", "decide"}
             /\ \A k \in Keys : k # Key(w) => jobs'[k] = jobs[k]
    <3>1. worker[w].item \in Ahead(w) /\ Key(w) = stream[worker[w].item]
      BY <1>0, <2>2 DEF Ahead, Key, TypeOK, WorkerType
    <3>2. i # worker[w].item /\ worker[w].item \in Live
      BY <1>3, <3>1 DEF Live
    <3>3. stream[i] # Key(w)
      BY <3>1, <3>2 DEF LInv, OneLiveEntry
    <3>4. stream[i] \in Keys
      BY <1>0, LiveAreEntries DEF LInv, TypeOK, RedisType, Entries
    <3> QED BY <2>2, <3>3, <3>4 DEF SameFor
  <2> QED BY <1>1, <2>1, <2>2
<1> QED BY <1>2, <1>3

\* Neither the next entry of a batch nor the ones after it have been attempted in vain.
LEMMA NextItemStage ==
  ASSUME PInv, NEW w \in Workers, worker[w].pc # "idle", UNCHANGED <<jobs, stream>>,
         NextItem(w) \/ Abandons(w)
  PROVE  Stage(w)' /\ Waits(w)'
<1>0. worker \in [Workers -> [pc : WorkerPCs, item : Nat, last : Nat, row : Rows]]
      /\ worker[w].item \in Nat /\ worker[w].last \in Nat /\ Waits(w)
  BY DEF PInv, LInv, TypeOK, WorkerType
<1>1. CASE NextItem(w) /\ worker[w].item < worker[w].last
  <2>1. /\ worker'[w].pc = "fetch" /\ worker'[w].item = worker[w].item + 1
        /\ worker'[w].last = worker[w].last
    BY <1>0, <1>1 DEF NextItem, Batch
  <2>2. \A i \in (worker[w].item + 1)..worker[w].last : Ready(stream[i])'
    BY <1>0 DEF Waits, Ready, Open
  <2>3. worker[w].item + 1 \in (worker[w].item + 1)..worker[w].last
        /\ \A i \in (worker[w].item + 1 + 1)..worker[w].last :
              i \in (worker[w].item + 1)..worker[w].last
    BY <1>0, <1>1
  <2>4. Ready(Key(w))'
    BY <2>1, <2>2, <2>3 DEF Key
  <2> QED BY <2>1, <2>2, <2>3, <2>4 DEF Stage, Waits
<1>2. CASE Abandons(w) \/ ~(worker[w].item < worker[w].last)
  <2>1. worker'[w].pc = "idle"
    BY <1>0, <1>2 DEF NextItem, Abandons, Waiting, Batch
  <2> QED BY <2>1 DEF Stage, Waits
<1> QED BY <1>1, <1>2

\* What a worker finds when it goes on with its entry.
LEMMA OwnStage ==
  ASSUME PInv, Calm, NEW w \in Workers, WorkerStep(w) \/ WorkerDies(w)
  PROVE  Stage(w)' /\ Waits(w)'
<1>0. /\ worker \in [Workers -> [pc : WorkerPCs, item : Nat, last : Nat, row : Rows]]
      /\ jobs \in [Keys -> Rows] /\ LInv /\ Stage(w) /\ Waits(w) /\ TypeOK
      /\ worker[w].pc # "idle" => Key(w) \in Keys
  BY WorkerKey DEF PInv, LInv, TypeOK, WorkerType, TablesType
<1>1. CASE Read(w)
  <2>1. /\ cursor \in Nat /\ Len(stream) \in Nat /\ cursor < Len(stream)
        /\ UNCHANGED <<stream, jobs>> /\ worker[w].pc = "idle"
    BY <1>0, <1>1 DEF Read, Deliver, db, TypeOK, RedisType
  <2>2. BatchEnd \in Nat /\ BatchEnd <= Len(stream) /\ cursor + 1 <= BatchEnd
    BY <2>1, BatchAssumption DEF BatchEnd
  <2>3. \A i \in (cursor + 1)..Len(stream) : Ready(stream[i])'
    BY <2>1 DEF PInv, Undelivered, Ready, Open
  <2>4. CASE worker' = worker
    BY <2>1, <2>4 DEF Stage, Waits
  <2>5. CASE worker' = [worker EXCEPT ![w] = Batch("fetch", cursor + 1, BatchEnd, NoRow)]
    <3>1. /\ worker'[w].pc = "fetch" /\ worker'[w].item = cursor + 1
          /\ worker'[w].last = BatchEnd
      BY <1>0, <2>5 DEF Batch
    <3>2. /\ cursor + 1 \in (cursor + 1)..Len(stream)
          /\ \A i \in (cursor + 1 + 1)..BatchEnd : i \in (cursor + 1)..Len(stream)
      BY <2>1, <2>2
    <3>3. Ready(Key(w))'
      BY <2>3, <3>1, <3>2 DEF Key
    <3> QED BY <2>3, <3>1, <3>2, <3>3 DEF Stage, Waits
  <2> QED BY <1>1, <2>4, <2>5 DEF Read
<1>2. CASE Ack(w) \/ AckFailure(w) \/ WorkerDies(w) \/ FailureRaises(w)
  <2>1. worker[w].pc # "idle" /\ UNCHANGED <<jobs, stream>> /\ (NextItem(w) \/ Abandons(w))
    BY <1>2 DEF Ack, AckFailure, WorkerDies, FailureRaises, Acked, Fault, Calm, db, redis
  <2> QED BY <2>1, NextItemStage
\* The entries after this one, when the worker goes on with this one.
<1>3. ASSUME worker[w].pc # "idle", worker'[w].item = worker[w].item,
             worker'[w].last = worker[w].last, Appends
      PROVE  Waits(w)' /\ Key(w)' = Key(w)
  <2>1. /\ worker[w].item \in Nat /\ worker[w].last \in Nat
        /\ worker[w].item \in Entries
    BY <1>0, <1>3, WorkerKey DEF TypeOK, WorkerType, Entries
  <2>2. ASSUME NEW i \in (worker[w].item + 1)..worker[w].last
        PROVE  Ready(stream[i])'
    <3>1. i \in Ahead(w) /\ i # worker[w].item /\ i \in Live /\ Ready(stream[i])
      BY <1>0, <1>3, <2>1, <2>2 DEF Ahead, Live, Waits
    <3>2. i \in Entries /\ SameFor(stream[i])
      BY <1>0, <3>1, LiveAreEntries, OthersStay DEF LInv
    <3>3. stream'[i] = stream[i]
      BY <1>3, <3>2 DEF Appends
    <3> QED BY <3>1, <3>2, <3>3 DEF Ready, SameFor, Open
  <2> QED BY <1>3, <2>1, <2>2 DEF Waits, Key, Appends
<1>4. CASE Fetch(w) \/ Reload(w) \/ Failed(w)
  <2>1. /\ worker[w].pc # "idle" /\ worker'[w].item = worker[w].item
        /\ worker'[w].last = worker[w].last /\ UNCHANGED <<jobs, stream>>
        /\ worker'[w].row = jobs[Key(w)]
        /\ \/ worker[w].pc = "fetch" /\ worker'[w].pc = "start"
           \/ worker[w].pc = "reload" /\ worker'[w].pc = "complete"
           \/ worker[w].pc = "failed" /\ worker'[w].pc = "decide"
    BY <1>0, <1>4 DEF Fetch, Reload, Failed, Loads, Batch, db, redis
  <2>2. Waits(w)' /\ Key(w)' = Key(w)
    BY <1>3, <2>1 DEF Appends
  <2>3. Stage(w)'
    BY <1>0, <2>1, <2>2 DEF Stage, AsLoaded, Ready, Open
  <2> QED BY <2>2, <2>3
<1>5. ASSUME NEW from, NEW to, Moves(w, from, to), from # "idle", Appends
      PROVE  /\ worker[w].pc = from /\ worker'[w].pc = to /\ worker'[w].row = worker[w].row
             /\ Waits(w)' /\ Key(w)' = Key(w)
  <2>1. /\ worker[w].pc = from /\ worker'[w].pc = to /\ worker'[w].row = worker[w].row
        /\ worker'[w].item = worker[w].item /\ worker'[w].last = worker[w].last
    BY <1>0, <1>5 DEF Moves
  <2> QED BY <1>3, <1>5, <2>1
<1>6. CASE Start(w)
  <2>1. Appends
    BY <1>6 DEF Start, redis, Appends
  <2>2. /\ worker[w].pc = "start" /\ worker'[w].pc = "process"
        /\ Waits(w)' /\ Key(w)' = Key(w)
    BY <1>5, <1>6, <2>1 DEF Start
  <2>3. /\ jobs'[Key(w)].attempts = jobs[Key(w)].attempts + 1
        /\ jobs'[Key(w)].status = "PROCESSING"
    BY <1>0, <1>6, <2>2 DEF Start, Stage, AsLoaded, WrittenStatus
  <2>4. jobs[Key(w)].attempts \in Nat /\ jobs[Key(w)].attempts < MaxAttempts
    BY <1>0, <2>2 DEF Stage, Ready, Rows
  <2>5. jobs[Key(w)].attempts + 1 \in 1..MaxAttempts
    BY <2>4, AttemptsAssumption
  <2> QED BY <2>2, <2>3, <2>5 DEF Stage, Open
<1>7. CASE ProcessOk(w) \/ ProcessFails(w) \/ CommitFails(w)
  <2>1. Appends /\ UNCHANGED jobs
    BY <1>7 DEF ProcessOk, ProcessFails, CommitFails, redis, db, Appends
  <2>2. /\ Waits(w)' /\ Key(w)' = Key(w)
        /\ \/ worker[w].pc = "process" /\ worker'[w].pc \in {"reload", "failed"}
           \/ worker[w].pc \in {"start", "complete"} /\ worker'[w].pc = "failed"
    BY <1>5, <1>7, <2>1 DEF ProcessOk, ProcessFails, CommitFails
  <2>3. worker[w].pc \in {"process", "start", "complete"} =>
          Open(jobs[Key(w)]) /\ jobs[Key(w)].attempts \in 0..MaxAttempts
    BY <1>0, AttemptsAssumption DEF Stage, Ready, Rows
  <2> QED BY <1>0, <2>1, <2>2, <2>3 DEF Stage, Open
<1>8. CASE Complete(w)
  <2>1. Appends
    BY <1>8 DEF Complete, redis, Appends
  <2> QED BY <1>5, <1>8, <2>1 DEF Complete, Stage
<1>9. CASE Decide(w)
  <2>1. Appends
    BY <1>9 DEF Decide, redis, Appends
  <2>2. /\ worker[w].pc = "decide" /\ worker'[w].pc = "route"
        /\ Waits(w)' /\ Key(w)' = Key(w)
    BY <1>5, <1>9, <2>1 DEF Decide
  <2>3. /\ jobs'[Key(w)].attempts = jobs[Key(w)].attempts
        /\ jobs'[Key(w)].status = Verdict(worker[w].row)
    BY <1>0, <1>9, <2>2 DEF Decide, Stage, AsLoaded, WrittenStatus, Rows
  <2>4. CASE worker[w].row.attempts >= MaxAttempts
    BY <2>2, <2>3, <2>4 DEF Stage, Verdict, IsDead
  <2>5. CASE ~(worker[w].row.attempts >= MaxAttempts)
    <3>1. jobs[Key(w)].attempts < MaxAttempts
      BY <1>0, <2>2, <2>5, AttemptsAssumption DEF Stage, AsLoaded
    <3> QED BY <2>2, <2>3, <2>5, <3>1 DEF Stage, Verdict, Ready, Open
  <2> QED BY <2>4, <2>5
<1>10. CASE DeadLetter(w) \/ Retry(w)
  <2>1. Appends
    BY <1>0, <1>10 DEF DeadLetter, Retry, Xadd, Appends, TypeOK, RedisType, Entries, Moves
  <2>2. Waits(w)' /\ worker'[w].pc \in {"dlqack", "retryack"}
    BY <1>5, <1>10, <2>1 DEF DeadLetter, Retry
  <2> QED BY <2>2 DEF Stage
<1>11. ~AckRaises(w)
  BY DEF AckRaises, Fault, Calm
<1> QED BY <1>1, <1>2, <1>4, <1>6, <1>7, <1>8, <1>9, <1>10, <1>11 DEF WorkerStep

\* A step of a worker adds at most one entry, the one a retry puts back.
LEMMA WorkerEntries ==
  ASSUME PInv, Calm, NEW w \in Workers, WorkerStep(w) \/ WorkerDies(w)
  PROVE  /\ handler' = handler /\ cursor <= cursor' /\ Appends
         /\ \/ stream' = stream
            \/ /\ stream' = Append(stream, Key(w)) /\ cursor' = cursor /\ UNCHANGED jobs
               /\ Ready(Key(w)) /\ Key(w) \in Keys
<1>0. stream \in Seq(Keys) /\ cursor \in Nat /\ Len(stream) \in Nat /\ TypeOK
      /\ (worker[w].pc # "idle" => Key(w) \in Keys)
  BY WorkerKey DEF PInv, LInv, TypeOK, RedisType
<1>1. handler' = handler
  BY DEF WorkerStep, WorkerDies, Read, Fetch, Start, ProcessOk, ProcessFails, Reload,
     Complete, CommitFails, Ack, AckRaises, Failed, Decide, DeadLetter, Retry, AckFailure,
     FailureRaises, Moves, Loads, NextItem, Abandons
<1>2. CASE Retry(w)
  <2>1. /\ stream' = Append(stream, Key(w)) /\ cursor' = cursor /\ UNCHANGED jobs
        /\ worker[w].pc = "route" /\ ~IsDead(w)
    BY <1>2 DEF Retry, Xadd, Moves, db
  <2>2. Ready(Key(w)) /\ Key(w) \in Keys
    BY <1>0, <2>1 DEF PInv, Stage
  <2>3. Appends
    BY <1>0, <2>1, <2>2 DEF Appends, Entries
  <2> QED BY <1>0, <1>1, <2>1, <2>2, <2>3
<1>3. CASE Read(w)
  <2>1. /\ stream' = stream /\ cursor' = BatchEnd /\ cursor < Len(stream)
    BY <1>3 DEF Read, Deliver
  <2>2. cursor <= BatchEnd
    BY <1>0, <2>1, BatchAssumption DEF BatchEnd
  <2> QED BY <1>1, <2>1, <2>2 DEF Appends
<1>4. CASE UNCHANGED <<stream, cursor>>
  BY <1>0, <1>1, <1>4 DEF Appends
<1>5. Retry(w) \/ Read(w) \/ UNCHANGED <<stream, cursor>>
  BY DEF Calm, Fault, WorkerStep, WorkerDies, Fetch, Start, ProcessOk, ProcessFails, Reload,
     Complete, CommitFails, Ack, AckRaises, Failed, Decide, DeadLetter, AckFailure,
     FailureRaises, Acked, redis, Loads
<1> QED BY <1>2, <1>3, <1>4, <1>5

LEMMA RangeWithin ==
  ASSUME NEW a \in Nat, NEW b \in Nat, a <= b, NEW n \in Nat
  PROVE  (b + 1)..n \subseteq (a + 1)..n
  OBVIOUS

LEMMA WorkerStepPInv ==
  ASSUME PInv, Calm, NEW w \in Workers, WorkerStep(w) \/ WorkerDies(w)
  PROVE  PInv'
<1>0. /\ LInv /\ LInv' /\ TypeOK /\ TypeOK' /\ Next /\ Stage(w)' /\ Waits(w)'
      /\ Undelivered /\ Submitted /\ Fresh
  BY WorkerStepLInv, OwnStage DEF PInv, LInv, Next
<1>1. /\ handler' = handler /\ cursor <= cursor' /\ Appends
      /\ \/ stream' = stream
         \/ /\ stream' = Append(stream, Key(w)) /\ cursor' = cursor /\ UNCHANGED jobs
            /\ Ready(Key(w)) /\ Key(w) \in Keys
  BY WorkerEntries
<1>2. /\ \A k \in Keys : SameFor(k) \/ (worker[w].pc # "idle" /\ k = Key(w))
      /\ \A i \in Live : i \notin Ahead(w) \/ i # worker[w].item => SameFor(stream[i])
  BY <1>0, OthersStay
<1>3. /\ stream \in Seq(Keys) /\ cursor \in Nat /\ cursor' \in Nat /\ Len(stream) \in Nat
      /\ cursor <= Len(stream) /\ \A i \in Entries : stream[i] \in Keys
  BY <1>0 DEF TypeOK, RedisType, Entries
<1>4. ASSUME NEW v \in Workers, v # w
      PROVE  Stage(v)' /\ Waits(v)'
  <2>1. worker'[v] = worker[v]
    BY <1>0, <1>4 DEF TypeOK, WorkerType, WorkerStep, WorkerDies, Read, Fetch, Start,
       ProcessOk, ProcessFails, Reload, Complete, CommitFails, Ack, AckRaises, Failed,
       Decide, DeadLetter, Retry, AckFailure, FailureRaises, Moves, Loads, NextItem, Abandons
  <2>2. ASSUME NEW i \in Ahead(v) PROVE SameFor(stream[i])
    <3>1. i \in Live /\ i \notin Ahead(w)
      BY <1>0, <1>4, <2>2 DEF Live, LInv, Disjoint
    <3> QED BY <1>2, <3>1
  <2>3. Stage(v) /\ Waits(v)
    BY DEF PInv
  <2> QED BY <1>0, <1>1, <2>1, <2>2, <2>3, StageStays
<1>5. Undelivered'
  <2> SUFFICES ASSUME NEW i \in (cursor' + 1)..Len(stream')
               PROVE  Ready(stream[i])'
    BY DEF Undelivered
  <2>1. CASE i \in (cursor + 1)..Len(stream)
    <3>1. i \in Live /\ i \in Entries /\ Ready(stream[i]) /\ stream'[i] = stream[i]
      BY <1>0, <1>1, <1>3, <2>1 DEF Live, Entries, Undelivered, Appends
    <3>2. i \notin Ahead(w) \/ i # worker[w].item
      BY <1>0, <1>3, <2>1, AheadIsDelivered DEF LInv
    <3>3. SameFor(stream[i])
      BY <1>2, <3>1, <3>2
    <3> QED BY <3>1, <3>3 DEF Ready, SameFor, Open
  <2>2. CASE i \notin (cursor + 1)..Len(stream)
    <3>0. i \in (cursor + 1)..Len(stream')
      <4>1. Len(stream') \in Nat
        BY <1>0 DEF TypeOK, RedisType
      <4> QED BY <1>1, <1>3, <4>1, RangeWithin
    <3>1. /\ stream' = Append(stream, Key(w)) /\ UNCHANGED jobs
          /\ Ready(Key(w)) /\ Key(w) \in Keys
      <4>1. stream' # stream
        BY <1>3, <2>2, <3>0
      <4> QED BY <1>1, <4>1
    <3>2. Len(stream') = Len(stream) + 1 /\ i \in Int /\ i <= Len(stream') /\ cursor + 1 <= i
      BY <1>3, <3>0, <3>1
    <3>3. i = Len(stream) + 1
      BY <1>3, <2>2, <3>2
    <3>4. stream'[i] = Key(w)
      BY <1>3, <3>1, <3>3
    <3> QED BY <3>1, <3>4 DEF Ready, Open
  <2> QED BY <2>1, <2>2
<1>6. Submitted'
  <2> SUFFICES ASSUME NEW h \in Handlers, handler[h].pc = "xadd"
               PROVE  Ready(handler[h].key)'
    BY <1>0, <1>1 DEF Submitted
  <2>1. handler[h].key \in Keys /\ Ready(handler[h].key)
    BY <1>0 DEF TypeOK, HandlerType, Submitted
  <2>2. worker[w].pc # "idle" => handler[h].key # Key(w)
    BY <1>0, WorkerKey DEF LInv, Submissions, Key, Entries
  <2>3. SameFor(handler[h].key)
    BY <1>2, <2>1, <2>2
  <2> QED BY <1>1, <2>1, <2>3 DEF Ready, SameFor, Open
<1>7. Fresh'
  <2> SUFFICES ASSUME NEW k \in Keys, jobs'[k].status = "ABSENT"
               PROVE  jobs'[k].attempts = 0
    BY DEF Fresh
  <2>1. jobs[k].status = "ABSENT"
    BY <1>0, RowsStay
  <2>2. worker[w].pc # "idle" => k # Key(w)
    BY <1>0, <2>1, WorkerKey DEF LInv, Tracked, Key, Entries
  <2> QED BY <1>0, <1>2, <2>1, <2>2 DEF Fresh, SameFor
<1> QED BY <1>0, <1>4, <1>5, <1>6, <1>7 DEF PInv

LEMMA HandlerStepPInv ==
  ASSUME PInv, Calm, NEW h \in Handlers,
         (\E k \in Keys : Lookup(h, k)) \/ HandlerStep(h) \/ HandlerDies(h)
  PROVE  PInv'
<1>0. /\ LInv /\ LInv' /\ TypeOK /\ TypeOK' /\ Next /\ UNCHANGED <<worker, cursor>>
      /\ Undelivered /\ Submitted /\ Fresh /\ jobs \in [Keys -> Rows]
      /\ handler[h].pc # "idle" => handler[h].key \in Keys
  <2>1. LInv /\ LInv' /\ TypeOK /\ TypeOK' /\ Next
    BY HandlerStepLInv DEF PInv, LInv, Next
  <2>2. UNCHANGED <<worker, cursor>>
    BY DEF Lookup, HandlerStep, InsertJob, Enqueue, RecordStreamId, MarkUnavailable,
       HandlerDies, redis
  <2> QED BY <2>1, <2>2 DEF PInv, TypeOK, TablesType, HandlerType
<1>1. /\ stream \in Seq(Keys) /\ cursor \in Nat /\ Len(stream) \in Nat
      /\ cursor <= Len(stream) /\ \A i \in Entries : stream[i] \in Keys
      /\ handler \in [Handlers -> [pc : HandlerPCs, key : Keys \cup {NoKey}, id : Nat]]
  BY <1>0 DEF TypeOK, RedisType, HandlerType, Entries
<1>2. \A g \in Handlers : g # h => handler'[g] = handler[g]
  BY <1>1 DEF Becomes, Lookup, HandlerStep, InsertJob, Enqueue, RecordStreamId,
     MarkUnavailable, HandlerDies
<1>3. handler'[h].pc # "unavailable"
  <2>1. ASSUME NEW r, Becomes(h, r) PROVE handler'[h] = r
    BY <1>1, <2>1 DEF Becomes
  <2>2. ~XaddRaises(handler[h].key)
    BY DEF XaddRaises, Fault, Calm
  <2>3. handler[h].pc # "unavailable"
    BY <1>0 DEF Submitted
  <2>4. CASE handler' = handler
    BY <2>3, <2>4
  <2>5. CASE \E k \in Keys : Becomes(h, Request("insert", k, 0))
    BY <2>1, <2>5 DEF Request
  <2>6. CASE HandlerStep(h) \/ HandlerDies(h)
    BY <2>1, <2>2, <2>3, <2>6 DEF HandlerStep, InsertJob, Enqueue, RecordStreamId,
       MarkUnavailable, HandlerDies, Request, Idle
  <2> QED BY <2>4, <2>5, <2>6 DEF Lookup
\* The row of a job changes when it is inserted, and then nobody knew the job.
<1>4. \/ \A k \in Keys : SameFor(k)
      \/ /\ handler[h].pc = "insert" /\ jobs[handler[h].key].status = "ABSENT"
         /\ jobs' = [jobs EXCEPT ![handler[h].key].status = "QUEUED"]
         /\ \A k \in Keys : k # handler[h].key => SameFor(k)
         /\ Ready(handler[h].key)' /\ handler'[h].key = handler[h].key /\ UNCHANGED stream
  <2>1. CASE InsertJob(h) /\ jobs' # jobs
    <3>1. /\ handler[h].pc = "insert" /\ jobs[handler[h].key].status = "ABSENT"
          /\ jobs' = [jobs EXCEPT ![handler[h].key].status = "QUEUED"] /\ UNCHANGED stream
          /\ handler' = [handler EXCEPT ![h] = Request("xadd", handler[h].key, 0)]
      BY <2>1 DEF InsertJob, Becomes, redis
    <3>2. handler'[h].key = handler[h].key /\ handler[h].key \in Keys
      BY <1>0, <1>1, <3>1 DEF Request
    <3>3. /\ jobs'[handler[h].key].status = "QUEUED"
          /\ jobs'[handler[h].key].attempts = jobs[handler[h].key].attempts
      BY <1>0, <3>1, <3>2 DEF Rows
    <3>4. jobs[handler[h].key].attempts = 0
      BY <1>0, <3>1, <3>2 DEF Fresh
    <3>5. Ready(handler[h].key)'
      BY <3>2, <3>3, <3>4, AttemptsAssumption DEF Ready, Open
    <3>6. \A k \in Keys : k # handler[h].key => SameFor(k)
      BY <1>0, <3>1 DEF SameFor
    <3> QED BY <3>1, <3>2, <3>5, <3>6
  <2>2. CASE RecordStreamId(h)
    BY <1>0, <2>2 DEF RecordStreamId, SameFor, Rows
  <2>3. CASE UNCHANGED jobs
    BY <2>3 DEF SameFor
  <2>4. ~MarkUnavailable(h)
    BY <1>0 DEF MarkUnavailable, Submitted
  <2> QED BY <2>1, <2>2, <2>3, <2>4 DEF Lookup, HandlerStep, Enqueue, HandlerDies, db
<1>5. /\ Appends
      /\ \/ stream' = stream
         \/ /\ stream' = Append(stream, handler[h].key) /\ UNCHANGED jobs
            /\ handler[h].pc = "xadd" /\ handler[h].key \in Keys
  <2>1. CASE stream' = stream
    BY <2>1 DEF Appends
  <2>2. CASE Enqueue(h) /\ stream' # stream
    <3>1. /\ stream' = Append(stream, handler[h].key) /\ UNCHANGED jobs
          /\ handler[h].pc = "xadd" /\ handler[h].key \in Keys
      BY <1>0, <2>2 DEF Enqueue, Xadd, XaddRaises, Fault, Calm, db
    <3> QED BY <1>1, <3>1 DEF Appends, Entries
  <2> QED BY <2>1, <2>2 DEF Lookup, HandlerStep, InsertJob, RecordStreamId, MarkUnavailable,
      HandlerDies, redis
<1>6. \A i \in Entries : SameFor(stream[i])
  <2> SUFFICES ASSUME NEW i \in Entries PROVE SameFor(stream[i])
    OBVIOUS
  <2>1. stream[i] \in Keys /\ jobs[stream[i]].status # "ABSENT"
    BY <1>0, <1>1 DEF LInv, Tracked
  <2> QED BY <1>4, <2>1
<1>7. ASSUME NEW v \in Workers
      PROVE  Stage(v)' /\ Waits(v)'
  <2>1. Ahead(v) \subseteq Entries
    BY <1>0, LiveAreEntries DEF LInv, Live
  <2>2. Stage(v) /\ Waits(v)
    BY DEF PInv
  <2> QED BY <1>0, <1>5, <1>6, <2>1, <2>2, StageStays
<1>8. Undelivered'
  <2> SUFFICES ASSUME NEW i \in (cursor' + 1)..Len(stream')
               PROVE  Ready(stream[i])'
    BY DEF Undelivered
  <2>1. CASE i \in (cursor + 1)..Len(stream)
    <3>1. i \in Entries /\ Ready(stream[i])
      BY <1>0, <1>1, <2>1 DEF Entries, Undelivered
    <3>2. SameFor(stream[i]) /\ stream'[i] = stream[i]
      BY <1>5, <1>6, <3>1 DEF Appends
    <3> QED BY <3>1, <3>2 DEF Ready, SameFor, Open
  <2>2. CASE i \notin (cursor + 1)..Len(stream)
    <3>1. stream' = Append(stream, handler[h].key) /\ UNCHANGED jobs
          /\ handler[h].pc = "xadd" /\ handler[h].key \in Keys
      BY <1>0, <1>5, <2>2
    <3>2. Len(stream') = Len(stream) + 1 /\ i \in Int /\ i <= Len(stream') /\ cursor + 1 <= i
      BY <1>0, <1>1, <3>1
    <3>3. i = Len(stream) + 1
      BY <1>1, <2>2, <3>2
    <3>4. stream'[i] = handler[h].key
      BY <1>1, <3>1, <3>3
    <3>5. Ready(handler[h].key)
      BY <1>0, <3>1 DEF Submitted
    <3> QED BY <3>1, <3>4, <3>5 DEF Ready, Open
  <2> QED BY <2>1, <2>2
<1>9. Submitted'
  <2>1. ASSUME NEW g \in Handlers, g # h
        PROVE  handler'[g].pc # "unavailable" /\ (handler'[g].pc = "xadd" => Ready(handler[g].key)')
    <3>1. handler'[g] = handler[g] /\ handler[g].pc # "unavailable"
          /\ (handler[g].pc = "xadd" => Ready(handler[g].key))
      BY <1>0, <1>2, <2>1 DEF Submitted
    <3>2. ASSUME handler[g].pc = "xadd" PROVE SameFor(handler[g].key)
      <4>1. handler[g].key \in Keys /\ jobs[handler[g].key].status # "ABSENT"
        BY <1>0, <3>2 DEF TypeOK, HandlerType, LInv, Submissions
      <4> QED BY <1>4, <4>1
    <3> QED BY <3>1, <3>2 DEF Ready, SameFor, Open
  <2>2. ASSUME handler'[h].pc = "xadd" PROVE Ready(handler[h].key)'
    <3>1. InsertJob(h) /\ jobs' # jobs
      <4>1. CASE InsertJob(h)
        <5>1. jobs[handler[h].key].status = "ABSENT"
              /\ jobs' = [jobs EXCEPT ![handler[h].key].status = "QUEUED"]
          BY <1>1, <2>2, <4>1 DEF InsertJob, Becomes, Idle, Request
        <5>2. handler[h].key \in Keys
          BY <1>0, <4>1 DEF InsertJob
        <5>3. jobs'[handler[h].key].status = "QUEUED"
          BY <1>0, <5>1, <5>2 DEF Rows
        <5> QED BY <4>1, <5>1, <5>3
      <4>2. CASE (\E k \in Keys : Lookup(h, k)) /\ ~InsertJob(h)
        <5>1. PICK k \in Keys : Lookup(h, k)
          BY <4>2
        <5>2. handler[h].pc = "idle" /\ (handler' = handler
                \/ handler' = [handler EXCEPT ![h] = Request("insert", k, 0)])
          BY <5>1 DEF Lookup, Becomes
        <5> QED BY <1>1, <2>2, <5>2 DEF Request
      <4>3. CASE Enqueue(h) \/ RecordStreamId(h) \/ MarkUnavailable(h) \/ HandlerDies(h)
        BY <1>1, <2>2, <4>3 DEF Enqueue, RecordStreamId, MarkUnavailable, HandlerDies,
           Becomes, Idle, Request
      <4> QED BY <4>1, <4>2, <4>3 DEF HandlerStep
    <3>2. handler[h].pc = "insert" /\ handler[h].key \in Keys
      BY <1>0, <3>1 DEF InsertJob
    <3>3. /\ jobs[handler[h].key].status = "ABSENT"
          /\ jobs' = [jobs EXCEPT ![handler[h].key].status = "QUEUED"]
      BY <3>1 DEF InsertJob
    <3>4. ~SameFor(handler[h].key)
      BY <1>0, <3>2, <3>3 DEF SameFor, Rows
    <3>5. Ready(handler[h].key)' /\ handler'[h].key = handler[h].key
      BY <1>4, <3>2, <3>4
    <3> QED BY <3>5 DEF Ready
  <2> QED BY <1>3, <2>1, <2>2 DEF Submitted
<1>10. Fresh'
  <2> SUFFICES ASSUME NEW k \in Keys, jobs'[k].status = "ABSENT"
               PROVE  jobs'[k].attempts = 0
    BY DEF Fresh
  <2>1. jobs[k].status = "ABSENT" /\ jobs[k].attempts = 0
    BY <1>0, RowsStay DEF Fresh
  <2>2. SameFor(k) \/ k = handler[h].key
    BY <1>4
  <2>3. CASE k = handler[h].key /\ ~SameFor(k)
    BY <1>0, <1>4, <2>3 DEF Rows
  <2> QED BY <2>1, <2>2, <2>3 DEF SameFor
<1> QED BY <1>0, <1>7, <1>8, <1>9, <1>10 DEF PInv

LEMMA PInvNext == ASSUME PInv, Calm, [Next]_vars PROVE PInv'
<1>1. CASE UNCHANGED vars
  <2>1. LInv'
    BY <1>1, TypeStutter DEF PInv, vars, LInv, Tracked, Submissions, Disjoint, IdleIsFree,
       OneLiveEntry, Live, Ahead, Entries, Waiting
  <2>2. Undelivered' /\ Submitted' /\ Fresh'
    BY <1>1 DEF PInv, vars, Undelivered, Submitted, Fresh, Ready, Open
  <2>3. \A w \in Workers : Stage(w)' /\ Waits(w)'
    BY <1>1 DEF PInv, vars, Stage, Waits, AsLoaded, Ready, Open, IsDead, Key
  <2> QED BY <2>1, <2>2, <2>3 DEF PInv
<1> QED BY <1>1, HandlerStepPInv, WorkerStepPInv DEF Next

\* What the ledger shows of a job changes only with its row.
LEMMA BookOf ==
  ASSUME NEW k \in Keys
  PROVE  /\ Book[k].state = StateOf(jobs[k].status) /\ Book[k].attempts = jobs[k].attempts
         /\ Book[k] = [state |-> Book[k].state, attempts |-> Book[k].attempts]
  BY DEF Book

\* A step that changes one row changes the ledger of that job.
LEMMA BookChanges ==
  ASSUME NEW k \in Keys, \A x \in Keys : x # k => SameFor(x),
         NEW state, NEW attempts,
         StateOf(jobs'[k].status) = state, jobs'[k].attempts = attempts
  PROVE  Book' = [Book EXCEPT ![k] = [state |-> state, attempts |-> attempts]]
  BY DEF Book, SameFor

LEMMA BookStays == ASSUME \A k \in Keys : SameFor(k) PROVE Book' = Book
  BY DEF Book, SameFor

\* Each step that the ledger shows is one of its own.
LEMMA HandlerStepLedger ==
  ASSUME PInv, Calm, NEW h \in Handlers,
         (\E k \in Keys : Lookup(h, k)) \/ HandlerStep(h) \/ HandlerDies(h)
  PROVE  Ledger!Next \/ Book' = Book
<1>0. /\ jobs \in [Keys -> Rows] /\ handler[h].pc # "unavailable"
      /\ handler[h].pc # "idle" => handler[h].key \in Keys
  BY DEF PInv, LInv, TypeOK, TablesType, HandlerType, Submitted
<1>1. CASE InsertJob(h) /\ jobs' # jobs
  <2>1. /\ handler[h].key \in Keys /\ jobs[handler[h].key].status = "ABSENT"
        /\ jobs' = [jobs EXCEPT ![handler[h].key].status = "QUEUED"]
    BY <1>0, <1>1 DEF InsertJob
  <2> DEFINE k == handler[h].key
  <2>2. /\ jobs'[k].status = "QUEUED" /\ jobs'[k].attempts = jobs[k].attempts
        /\ \A x \in Keys : x # k => SameFor(x)
    BY <1>0, <2>1 DEF SameFor, Rows
  <2>3. Book[k].state = "absent"
    BY <2>1 DEF Book, StateOf
  <2>4. StateOf(jobs'[k].status) = "open"
    BY <2>2 DEF StateOf
  <2>5. Book' = [Book EXCEPT ![k].state = "open"]
    BY <2>1, <2>2, <2>4 DEF Book, SameFor
  <2>6. Ledger!Submit(k)
    BY <2>3, <2>5 DEF Ledger!Submit
  <2> QED BY <2>1, <2>6 DEF Ledger!Next
<1>2. CASE RecordStreamId(h)
  BY <1>0, <1>2, BookStays DEF RecordStreamId, SameFor, Rows
<1>3. CASE UNCHANGED jobs
  BY <1>3, BookStays DEF SameFor
<1>4. ~MarkUnavailable(h)
  BY <1>0 DEF MarkUnavailable
<1> QED BY <1>1, <1>2, <1>3, <1>4 DEF Lookup, HandlerStep, Enqueue, HandlerDies, db

LEMMA WorkerStepLedger ==
  ASSUME PInv, Calm, NEW w \in Workers, WorkerStep(w) \/ WorkerDies(w)
  PROVE  Ledger!Next \/ Book' = Book
<1> DEFINE k == Key(w)
<1>0. /\ jobs \in [Keys -> Rows] /\ LInv /\ TypeOK /\ Stage(w)
      /\ worker[w].pc # "idle" => k \in Keys
      /\ \A x \in Keys : SameFor(x) \/ (worker[w].pc # "idle" /\ x = k)
  BY WorkerKey, OthersStay DEF PInv, LInv, TypeOK, TablesType
<1>1. CASE Start(w)
  <2>1. /\ k \in Keys /\ Ready(k) /\ worker[w].row.attempts = jobs[k].attempts
        /\ worker[w].row.status = jobs[k].status
    BY <1>0, <1>1 DEF Start, Moves, Stage, AsLoaded
  <2>2. /\ jobs'[k].attempts = jobs[k].attempts + 1
        /\ jobs'[k].status = "PROCESSING"
    BY <1>0, <1>1, <2>1 DEF Start, WrittenStatus
  <2>3. StateOf(jobs'[k].status) = "open" /\ StateOf(jobs[k].status) = "open"
    BY <2>1, <2>2 DEF StateOf, Ready, Open
  <2>4. /\ Book[k].state = "open" /\ Book[k].attempts < MaxAttempts
        /\ Book[k].attempts = jobs[k].attempts
    BY <2>1, <2>3 DEF Book, Ready
  <2>5. Book' = [Book EXCEPT ![k].attempts = @ + 1]
    BY <1>0, <2>1, <2>2, <2>3 DEF Book, SameFor
  <2>6. Ledger!Attempt(k)
    BY <2>4, <2>5 DEF Ledger!Attempt
  <2> QED BY <2>1, <2>6 DEF Ledger!Next, Ledger!Progress
<1>2. CASE Complete(w)
  <2>1. /\ k \in Keys /\ Open(jobs[k]) /\ jobs[k].attempts \in 1..MaxAttempts
        /\ worker[w].row.status # "COMPLETED"
    BY <1>0, <1>2 DEF Complete, Moves, Stage
  <2>2. jobs'[k].attempts = jobs[k].attempts /\ jobs'[k].status = "COMPLETED"
    BY <1>0, <1>2, <2>1 DEF Complete, WrittenStatus, Rows
  <2>3. StateOf(jobs'[k].status) = "done" /\ StateOf(jobs[k].status) = "open"
    BY <2>1, <2>2 DEF StateOf, Open
  <2>4. Book[k].state = "open" /\ Book[k].attempts > 0
    BY <2>1, <2>3, AttemptsAssumption DEF Book
  <2>5. Book' = [Book EXCEPT ![k].state = "done"]
    BY <1>0, <2>1, <2>2, <2>3 DEF Book, SameFor
  <2>6. Ledger!Finish(k)
    BY <2>4, <2>5 DEF Ledger!Finish
  <2> QED BY <2>1, <2>6 DEF Ledger!Next, Ledger!Progress
<1>3. CASE Decide(w)
  <2>1. /\ k \in Keys /\ Open(jobs[k]) /\ jobs[k].attempts \in 0..MaxAttempts
        /\ worker[w].row.attempts = jobs[k].attempts
        /\ worker[w].row.status = jobs[k].status
    BY <1>0, <1>3 DEF Decide, Moves, Stage, AsLoaded
  <2>2. /\ jobs'[k].attempts = jobs[k].attempts
        /\ jobs'[k].status = Verdict(worker[w].row)
    BY <1>0, <1>3, <2>1 DEF Decide, WrittenStatus, Rows
  <2>3. CASE Verdict(worker[w].row) = "DEAD_LETTER"
    <3>1. StateOf(jobs'[k].status) = "dead" /\ StateOf(jobs[k].status) = "open"
      BY <2>1, <2>2, <2>3 DEF StateOf, Open
    <3>2. Book[k].state = "open" /\ Book[k].attempts = MaxAttempts
      BY <2>1, <2>3, <3>1, AttemptsAssumption DEF Book, Verdict
    <3>3. Book' = [Book EXCEPT ![k].state = "dead"]
      BY <1>0, <2>1, <2>2, <3>1 DEF Book, SameFor
    <3>4. Ledger!GiveUp(k)
      BY <3>2, <3>3 DEF Ledger!GiveUp
    <3> QED BY <2>1, <3>4 DEF Ledger!Next, Ledger!Progress
  <2>4. CASE Verdict(worker[w].row) = "RETRYING"
    <3>1. StateOf(jobs'[k].status) = "open" /\ StateOf(jobs[k].status) = "open"
      BY <2>1, <2>2, <2>4 DEF StateOf, Open
    <3> QED BY <1>0, <2>1, <2>2, <3>1 DEF Book, SameFor
  <2> QED BY <2>3, <2>4 DEF Verdict
<1>4. CASE UNCHANGED jobs
  BY <1>4, BookStays DEF SameFor
<1> QED BY <1>1, <1>2, <1>3, <1>4 DEF WorkerStep, WorkerDies, Read, Fetch,
    ProcessOk, ProcessFails, Reload, CommitFails, Ack, AckRaises, Failed, DeadLetter,
    Retry, AckFailure, FailureRaises, Loads, db

\* As long as Redis does what it is asked and answers, whatever dies and whichever
\* commit fails, the row of a job only ever goes through the states of the ledger.
THEOREM LedgerIsImplemented == Calm => (Spec => ImplementsLedger)
<1> SUFFICES ASSUME Calm PROVE Spec => ImplementsLedger
  OBVIOUS
<1>1. Init => Ledger!Init
  BY DEF Init, Ledger!Init, Book, StateOf, NoRow
<1>2. PInv /\ [Next]_vars => PInv'
  BY PInvNext
<1>3. PInv /\ [Next]_vars => [Ledger!Next]_Book
  <2>1. CASE UNCHANGED vars
    BY <2>1 DEF vars, Book
  <2> QED BY <2>1, HandlerStepLedger, WorkerStepLedger DEF Next
<1> QED BY <1>1, <1>2, <1>3, PInvInit, PTL DEF Spec, ImplementsLedger, Ledger!Spec

-----------------------------------------------------------------------------
(* Dead letters are earned. *)

\* Within the bound on attempts, and dead only at it.
Accounted ==
  \A k \in Keys : /\ jobs[k].attempts <= MaxAttempts
                  /\ jobs[k].status = "DEAD_LETTER" => jobs[k].attempts = MaxAttempts

\* A dead letter is a dead job's, appears once, and is not yet there when a worker
\* is about to write it.
Buried ==
  /\ \A i \in 1..Len(dlq) : jobs[dlq[i]].status = "DEAD_LETTER"
  /\ \A i, j \in 1..Len(dlq) : dlq[i] = dlq[j] => i = j
  /\ \A w \in Workers : worker[w].pc = "route" => Key(w) \notin DeadLetters

EInv == PInv /\ Accounted /\ Buried

\* A step of the ledger keeps the account, and the dead stay dead.
LEMMA LedgerAccount ==
  ASSUME TypeOK, TypeOK', Accounted, Ledger!Next \/ Book' = Book
  PROVE  /\ Accounted'
         /\ \A k \in Keys : jobs[k].status = "DEAD_LETTER" => jobs'[k].status = "DEAD_LETTER"
<1>0. jobs \in [Keys -> Rows] /\ jobs' \in [Keys -> Rows]
  BY DEF TypeOK, TablesType
<1>1. \A k \in Keys :
        /\ Book[k].attempts = jobs[k].attempts /\ Book[k].attempts \in Nat
        /\ Book[k].state = "dead" <=> jobs[k].status = "DEAD_LETTER"
        /\ Book'[k].attempts = jobs'[k].attempts
        /\ Book'[k].state = "dead" <=> jobs'[k].status = "DEAD_LETTER"
  BY <1>0 DEF Book, StateOf, Rows
<1>2. CASE Book' = Book
  BY <1>1, <1>2 DEF Accounted
<1>3. ASSUME NEW k \in Keys, Ledger!Submit(k) \/ Ledger!Progress(k)
      PROVE  \A x \in Keys :
               /\ Book'[x].attempts <= MaxAttempts
               /\ Book'[x].state = "dead" => Book'[x].attempts = MaxAttempts
               /\ Book[x].state = "dead" => Book'[x].state = "dead"
  <2>1. Book = [x \in Keys |-> [state |-> StateOf(jobs[x].status), attempts |-> jobs[x].attempts]]
    BY DEF Book
  <2>2. \A x \in Keys :
          /\ Book[x].attempts <= MaxAttempts
          /\ Book[x].state = "dead" => Book[x].attempts = MaxAttempts
    BY <1>1 DEF Accounted
  <2>3. CASE Ledger!Submit(k)
    <3>1. /\ Book[k].state = "absent"
          /\ Book' = [Book EXCEPT ![k].state = "open"]
      BY <2>3 DEF Ledger!Submit
    <3>2. /\ Book'[k].state = "open" /\ Book'[k].attempts = Book[k].attempts
          /\ \A x \in Keys : x # k => Book'[x] = Book[x]
      BY <2>1, <3>1
    <3> QED BY <2>2, <3>1, <3>2
  <2>4. CASE Ledger!Attempt(k)
    <3>1. /\ Book[k].state = "open" /\ Book[k].attempts < MaxAttempts
          /\ Book' = [Book EXCEPT ![k].attempts = @ + 1]
      BY <2>4 DEF Ledger!Attempt
    <3>2. /\ Book'[k].state = "open" /\ Book'[k].attempts = Book[k].attempts + 1
          /\ \A x \in Keys : x # k => Book'[x] = Book[x]
      BY <2>1, <3>1
    <3>3. Book'[k].attempts <= MaxAttempts
      BY <1>1, <3>1, <3>2, AttemptsAssumption
    <3> QED BY <2>2, <3>1, <3>2, <3>3
  <2>5. CASE Ledger!Finish(k)
    <3>1. /\ Book[k].state = "open"
          /\ Book' = [Book EXCEPT ![k].state = "done"]
      BY <2>5 DEF Ledger!Finish
    <3>2. /\ Book'[k].state = "done" /\ Book'[k].attempts = Book[k].attempts
          /\ \A x \in Keys : x # k => Book'[x] = Book[x]
      BY <2>1, <3>1
    <3> QED BY <2>2, <3>1, <3>2
  <2>6. CASE Ledger!GiveUp(k)
    <3>1. /\ Book[k].state = "open" /\ Book[k].attempts = MaxAttempts
          /\ Book' = [Book EXCEPT ![k].state = "dead"]
      BY <2>6 DEF Ledger!GiveUp
    <3>2. /\ Book'[k].state = "dead" /\ Book'[k].attempts = Book[k].attempts
          /\ \A x \in Keys : x # k => Book'[x] = Book[x]
      BY <2>1, <3>1
    <3> QED BY <2>2, <3>1, <3>2
  <2> QED BY <1>3, <2>3, <2>4, <2>5, <2>6 DEF Ledger!Progress
<1>4. CASE Ledger!Next
  <2>1. \A x \in Keys :
          /\ Book'[x].attempts <= MaxAttempts
          /\ Book'[x].state = "dead" => Book'[x].attempts = MaxAttempts
          /\ Book[x].state = "dead" => Book'[x].state = "dead"
    BY <1>3, <1>4 DEF Ledger!Next
  <2> QED BY <1>1, <2>1 DEF Accounted
<1> QED BY <1>2, <1>4

LEMMA BuriedStays ==
  ASSUME EInv, Calm, Next, PInv',
         \A k \in Keys : jobs[k].status = "DEAD_LETTER" => jobs'[k].status = "DEAD_LETTER"
  PROVE  Buried'
<1>0. /\ LInv /\ TypeOK /\ TypeOK' /\ dlq \in Seq(Keys) /\ Len(dlq) \in Nat
      /\ \A i \in 1..Len(dlq) : dlq[i] \in Keys
  BY DEF EInv, PInv, LInv, TypeOK, RedisType
<1>1. CASE \E h \in Handlers : (\E k \in Keys : Lookup(h, k)) \/ HandlerStep(h) \/ HandlerDies(h)
  <2>1. PICK h \in Handlers : (\E k \in Keys : Lookup(h, k)) \/ HandlerStep(h) \/ HandlerDies(h)
    BY <1>1
  <2>2. UNCHANGED <<dlq, worker>>
    BY <2>1 DEF Lookup, HandlerStep, InsertJob, Enqueue, RecordStreamId, MarkUnavailable,
       HandlerDies, redis
  <2>3. \A w \in Workers : worker[w].pc = "route" => Key(w)' = Key(w)
    <3>1. stream \in Seq(Keys)
      BY <1>0 DEF TypeOK, RedisType
    <3>2. stream' = stream \/ stream' = Append(stream, handler[h].key)
      BY <2>1 DEF Lookup, HandlerStep, InsertJob, Enqueue, Xadd, XaddRaises, RecordStreamId,
         MarkUnavailable, HandlerDies, redis
    <3> QED BY <1>0, <2>2, <3>1, <3>2, WorkerKey DEF Key
  <2> QED BY <1>0, <2>2, <2>3 DEF EInv, Buried, DeadLetters
<1>2. CASE \E w \in Workers : WorkerStep(w) \/ WorkerDies(w)
  <2>1. PICK w \in Workers : WorkerStep(w) \/ WorkerDies(w)
    BY <1>2
  <2>2. /\ \A v \in Workers : v # w => worker'[v] = worker[v]
        /\ worker'[w].pc = "route" => Decide(w)
    <3>0. worker \in [Workers -> [pc : WorkerPCs, item : Nat, last : Nat, row : Rows]]
      BY <1>0 DEF TypeOK, WorkerType
    <3>1. CASE Decide(w)
      BY <3>0, <3>1 DEF Decide, Moves
    <3>2. CASE Ack(w) \/ AckFailure(w) \/ WorkerDies(w) \/ FailureRaises(w) \/ Read(w)
      BY <3>0, <3>2 DEF Ack, AckFailure, WorkerDies, FailureRaises, Read, NextItem, Abandons,
         Waiting, Batch
    <3>3. CASE Fetch(w) \/ Reload(w) \/ Failed(w)
      BY <3>0, <3>3 DEF Fetch, Reload, Failed, Loads, Batch
    <3>4. CASE \/ Start(w) \/ ProcessOk(w) \/ ProcessFails(w) \/ Complete(w) \/ CommitFails(w)
               \/ AckRaises(w) \/ DeadLetter(w) \/ Retry(w)
      BY <3>0, <3>4 DEF Start, ProcessOk, ProcessFails, Complete, CommitFails, AckRaises,
         DeadLetter, Retry, Moves
    <3> QED BY <2>1, <3>1, <3>2, <3>3, <3>4 DEF WorkerStep
  <2>3. \A v \in Workers : worker[v].pc # "idle" /\ worker'[v].item = worker[v].item =>
          Key(v)' = Key(v)
    BY <1>0, <2>1, WorkerEntries, WorkerKey DEF EInv, Appends, Key, Entries
  <2>4. \/ dlq' = dlq
        \/ /\ worker[w].pc = "route" /\ IsDead(w) /\ dlq' = Append(dlq, Key(w))
           /\ UNCHANGED jobs
    <3>1. CASE DeadLetter(w)
      BY <3>1 DEF DeadLetter, Moves, db
    <3>2. ~DeadLetter(w) => dlq' = dlq
      BY <2>1 DEF Calm, Fault, WorkerStep, WorkerDies, Read, Deliver, Fetch, Start, ProcessOk,
         ProcessFails, Reload, Complete, CommitFails, Ack, AckRaises, Failed, Decide,
         Retry, Xadd, AckFailure, FailureRaises, Acked, redis, Loads
    <3> QED BY <3>1, <3>2
  <2>5. worker'[w].pc = "route" => Key(w)' \notin DeadLetters /\ dlq' = dlq
    <3> SUFFICES ASSUME worker'[w].pc = "route"
                 PROVE  Key(w)' \notin DeadLetters /\ dlq' = dlq
      OBVIOUS
    <3>1. /\ Decide(w) /\ worker[w].pc = "decide" /\ worker'[w].item = worker[w].item
          /\ dlq' = dlq
      BY <1>0, <2>2 DEF Decide, Moves, redis, TypeOK, WorkerType
    <3>2. Open(jobs[Key(w)]) /\ Key(w)' = Key(w)
      BY <2>3, <3>1 DEF EInv, PInv, Stage
    <3> QED BY <3>1, <3>2 DEF EInv, Buried, DeadLetters, Open
  <2>6. \A v \in Workers : v # w /\ worker'[v].pc = "route" =>
          /\ Key(v)' = Key(v) /\ Key(v) \notin DeadLetters
          /\ worker[w].pc = "route" => Key(v) # Key(w)
    <3> SUFFICES ASSUME NEW v \in Workers, v # w, worker'[v].pc = "route"
                 PROVE  /\ Key(v)' = Key(v) /\ Key(v) \notin DeadLetters
                        /\ worker[w].pc = "route" => Key(v) # Key(w)
      OBVIOUS
    <3>1. worker'[v] = worker[v] /\ worker[v].pc = "route"
      BY <2>2
    <3>2. Key(v)' = Key(v) /\ Key(v) \notin DeadLetters
      BY <2>3, <3>1 DEF EInv, Buried
    <3>3. ASSUME worker[w].pc = "route" PROVE Key(v) # Key(w)
      <4>1. worker[v].item \in Ahead(v) /\ worker[w].item \in Ahead(w)
        <5>1. ASSUME NEW x \in Workers, worker[x].pc = "route"
              PROVE  worker[x].item \in Ahead(x)
          <6>1. worker[x].item \in 1..worker[x].last /\ worker[x].last \in Nat
            BY <1>0, <5>1 DEF TypeOK, WorkerType
          <6>2. worker[x].item \in worker[x].item..worker[x].last
            BY <6>1
          <6> QED BY <5>1, <6>2 DEF Ahead
        <5> QED BY <3>1, <3>3, <5>1
      <4>2. worker[v].item # worker[w].item
        BY <1>0, <4>1 DEF LInv, Disjoint
      <4> QED BY <1>0, <4>1, <4>2 DEF LInv, OneLiveEntry, Live, Key
    <3> QED BY <3>2, <3>3
  <2>7. CASE dlq' = dlq
    BY <1>0, <2>2, <2>5, <2>6, <2>7 DEF EInv, Buried, DeadLetters
  <2>8. CASE /\ worker[w].pc = "route" /\ IsDead(w) /\ dlq' = Append(dlq, Key(w))
             /\ UNCHANGED jobs
    <3>1. Key(w) \in Keys /\ Key(w) \notin DeadLetters
      BY <1>0, <2>8, WorkerKey DEF EInv, Buried
    <3>2. \A i \in 1..Len(dlq') : \/ i \in 1..Len(dlq) /\ dlq'[i] = dlq[i]
                                  \/ i = Len(dlq) + 1 /\ dlq'[i] = Key(w)
      BY <1>0, <2>8, <3>1
    <3>3. \A i \in 1..Len(dlq') : jobs'[dlq'[i]].status = "DEAD_LETTER"
      BY <2>8, <3>2 DEF EInv, Buried, IsDead
    <3>4. \A i, j \in 1..Len(dlq') : dlq'[i] = dlq'[j] => i = j
      BY <3>1, <3>2 DEF EInv, Buried, DeadLetters
    <3>5. DeadLetters' = DeadLetters \cup {Key(w)}
      <4>1. Len(dlq') = Len(dlq) + 1 /\ dlq'[Len(dlq) + 1] = Key(w)
            /\ \A i \in 1..Len(dlq) : dlq'[i] = dlq[i]
        BY <1>0, <2>8, <3>1
      <4> QED BY <1>0, <3>2, <4>1 DEF DeadLetters
    <3>6. worker'[w].pc # "route"
      <4>1. dlq' # dlq
        BY <1>0, <2>8, <3>1
      <4> QED BY <2>5, <4>1
    <3> QED BY <2>2, <2>6, <2>8, <3>3, <3>4, <3>5, <3>6 DEF Buried
  <2> QED BY <2>4, <2>7, <2>8
<1> QED BY <1>1, <1>2 DEF Next

\* As long as Redis does what it is asked and answers, no job has more attempts than it
\* is granted, and the dead-letter stream holds each job that has used them up once.
THEOREM DeadLettersAreEarned == Calm => (Spec => []DeadLetterEarned)
<1> SUFFICES ASSUME Calm PROVE Spec => []DeadLetterEarned
  OBVIOUS
<1>1. Init => EInv
  <2>1. Init => Accounted
    <3>1. ASSUME Init, NEW k \in Keys
          PROVE  jobs[k].status = "ABSENT" /\ jobs[k].attempts = 0
      BY <3>1 DEF Init, NoRow
    <3>2. 0 <= MaxAttempts
      BY AttemptsAssumption
    <3> QED BY <3>1, <3>2 DEF Accounted
  <2>2. Init => Buried
    BY DEF Init, Buried, Waiting, Batch
  <2> QED BY <2>1, <2>2, PInvInit DEF EInv
<1>2. EInv /\ [Next]_vars => EInv'
  <2> SUFFICES ASSUME EInv, [Next]_vars PROVE EInv'
    OBVIOUS
  <2>1. PInv'
    BY PInvNext DEF EInv
  <2>2. CASE UNCHANGED vars
    BY <2>1, <2>2 DEF vars, EInv, Accounted, Buried, DeadLetters, Key
  <2>3. CASE Next
    <3>1. Ledger!Next \/ Book' = Book
      BY <2>3, HandlerStepLedger, WorkerStepLedger DEF EInv, Next
    <3>2. /\ Accounted'
          /\ \A k \in Keys : jobs[k].status = "DEAD_LETTER" => jobs'[k].status = "DEAD_LETTER"
      BY <2>1, <3>1, LedgerAccount DEF EInv, PInv, LInv
    <3> QED BY <2>1, <2>3, <3>2, BuriedStays DEF EInv
  <2> QED BY <2>2, <2>3
<1>3. EInv => DeadLetterEarned
  <2> SUFFICES ASSUME EInv PROVE DeadLetterEarned
    OBVIOUS
  <2>1. Overrun = 0
    BY DEF Overrun, Calm
  <2>2. jobs \in [Keys -> Rows] /\ \A i \in 1..Len(dlq) : dlq[i] \in Keys
    BY DEF EInv, PInv, LInv, TypeOK, TablesType, RedisType
  <2>3. \A k \in Keys :
          /\ jobs[k].status = "DEAD_LETTER" => jobs[k].attempts >= MaxAttempts
          /\ jobs[k].attempts <= MaxAttempts + Overrun
    <3>1. MaxAttempts >= MaxAttempts /\ MaxAttempts + Overrun = MaxAttempts
      BY <2>1, AttemptsAssumption
    <3> QED BY <3>1 DEF EInv, Accounted
  <2>4. \A i \in 1..Len(dlq) :
          /\ jobs[dlq[i]].attempts >= MaxAttempts
          /\ \A j \in 1..Len(dlq) : dlq[i] = dlq[j] => i = j
    BY <2>2, <2>3 DEF EInv, Buried
  <2> QED BY <2>3, <2>4 DEF DeadLetterEarned
<1> QED BY <1>1, <1>2, <1>3, PTL DEF Spec
=============================================================================
