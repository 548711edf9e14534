------------------------------ MODULE Correlation ------------------------------
(***************************************************************************)
(* The telemetry pipeline (pipeline.py) and the opening and enrichment of  *)
(* cases (create_or_update_incidents), as transactions on PostgreSQL at    *)
(* READ COMMITTED: each statement sees what is committed when it runs,     *)
(* plus what its own transaction has flushed.  Analysts close cases at any *)
(* time, and a worker that gets a batch again runs it again.               *)
(*                                                                         *)
(* Detection and grouping are parameters; scores, texts, actions and risk  *)
(* history are left out, and so is the limit of 1000 rows per query.       *)
(***************************************************************************)
EXTENDS Integers, FiniteSets, Playbook

CONSTANTS
  Events,     \* the telemetry
  Time,       \* the minute of each event
  User,       \* the principal of each event
  Related,    \* <<d, e>>: e has the user, the host, the device or an address of d
  Own,        \* the flags the rules give to an event by itself
  Travel,     \* <<earlier, later>> logins that make an impossible travel
  Groups,     \* connected_groups, for each set of suspicious events
  Window,     \* minutes of history detection and correlation look at
  MaxSpan,    \* settings.max_incident_span_minutes
  Batches,    \* the batches workers are handed, each perhaps more than once
  Pipelines,  \* threads that run process_raw_telemetry
  CaseIds     \* incident ids (bounds the number of cases)

ASSUME DataAssumption ==
  /\ Time \in [Events -> Nat] /\ Own \in [Events -> SUBSET Flags]
  /\ IsFiniteSet(Events) /\ Travel \cup Related \subseteq Events \X Events
  /\ Groups \in [SUBSET Events -> SUBSET SUBSET Events]
  /\ \A S \in SUBSET Events : \A g \in Groups[S] : g # {} /\ g \subseteq S
ASSUME TravelAssumption ==
  \A t \in Travel : /\ <<t[1], t[2]>> \in Related /\ <<t[2], t[1]>> \in Related
                    /\ Time[t[1]] <= Time[t[2]] /\ Time[t[2]] <= Time[t[1]] + Window
ASSUME WindowAssumption == Window \in Nat /\ MaxSpan \in Nat \ {0}
ASSUME BatchesAssumption == Batches \subseteq (SUBSET Events) \ {{}}

VARIABLES
  stored,    \* events committed
  findings,  \* <<event, flag>> rows committed
  cases,     \* incidents committed: a row for each id in use
  pipe,      \* the transaction of each pipeline
  last       \* history: the batch of the last commit that nothing has disturbed

vars == <<stored, findings, cases, pipe, last>>

Statuses == {"OPEN", "CLOSED"}  \* NEW or INVESTIGATING; CONTAINED or RESOLVED

\* A fingerprint hashes these; ids is {} but for the second of its kind.
Fingerprint(type, user, start, ids) ==
  [type |-> type, user |-> user, bucket |-> start \div MaxSpan, ids |-> ids]

Case(fp, type, status, events) ==
  [fp |-> fp, type |-> type, status |-> status, events |-> events]

\* A transaction: the events and findings it has inserted, the groups it has still
\* to deal with, the case rows it has loaded (base), what it has made of them
\* (view) and what of that it has flushed; fresh until another one commits.
Transaction(pc, batch, new, found, todo, base, view, flushed, fresh) ==
  [pc |-> pc, batch |-> batch, new |-> new, found |-> found, todo |-> todo,
   base |-> base, view |-> view, flushed |-> flushed, fresh |-> fresh]

NoCases == [i \in {} |-> {}]
Idle == Transaction("idle", {}, {}, {}, {}, NoCases, NoCases, NoCases, TRUE)

Init ==
  /\ stored = {} /\ findings = {} /\ cases = NoCases
  /\ pipe = [p \in Pipelines |-> Idle] /\ last = {}

-----------------------------------------------------------------------------
(* What a transaction sees. *)

\* f with the rest of g, and f with row at i.
Over(f, g) == [j \in DOMAIN f \cup DOMAIN g |-> IF j \in DOMAIN f THEN f[j] ELSE g[j]]
With(f, i, row) == Over([j \in {i} |-> row], f)

Seen(p) == stored \cup pipe[p].new
Known(p) == findings \cup pipe[p].found
Rows(p) == Over(pipe[p].flushed, cases)

\* The session's object for case i, with changes it has not flushed.
Object(p, i) == IF i \in DOMAIN pipe[p].view THEN pipe[p].view[i] ELSE Rows(p)[i]

Others(p) == Pipelines \ {p}

Earliest(S) == CHOOSE e \in S : \A d \in S : Time[e] <= Time[d]
Start(S) == Time[Earliest(S)]
End(S) == Time[CHOOSE e \in S : \A d \in S : Time[e] >= Time[d]]

\* The user most events have, the first to appear if there is a tie.
Count(S, u) == Cardinality({e \in S : User[e] = u})
Principal(S) ==
  User[Earliest({e \in S : \A d \in S : Count(S, User[d]) <= Count(S, User[e])})]

FlagsOf(S, F) == {f[2] : f \in {row \in F : row[1] \in S}}
CaseType(S, F) == infer_incident_type(FlagsOf(S, F))
CaseFingerprint(S, F) == Fingerprint(CaseType(S, F), Principal(S), Start(S), {})

-----------------------------------------------------------------------------
(* Detection. *)

\* Mutant: telemetry that is not committed is read as well.
Context_Dirty(p) ==
  LET batch == pipe[p].batch IN
  {e \in Events : /\ \E d \in batch : <<d, e>> \in Related
                  /\ Time[e] + Window >= Start(batch) /\ Time[e] <= End(batch)}

\* Events related to one of the batch, from before it up to its end.
Context(p) ==
  LET batch == pipe[p].batch IN
  {e \in Seen(p) : /\ \E d \in batch : <<d, e>> \in Related
                   /\ Time[e] + Window >= Start(batch) /\ Time[e] <= End(batch)}

run_detection(S) ==
  {f \in S \X Flags :
     \/ f[2] \in Own[f[1]]
     \/ /\ f[2] = "IMPOSSIBLE_TRAVEL"
        /\ \E d \in S : {<<d, f[1]>>, <<f[1], d>>} \cap Travel # {}}

\* The earlier login gets a finding that adds nothing to its risk score.
Suspicious(e, F) ==
  \E f \in FlagsOf({e}, F) :
    f \in Own[e] \/ (f = "IMPOSSIBLE_TRAVEL" /\ \E d \in Events : <<d, e>> \in Travel)

Moves(p, t) == pipe' = [pipe EXCEPT ![p] = t]
RollsBack(p) == Moves(p, Idle) /\ UNCHANGED <<stored, findings, cases, last>>

\* db.get of every event of the batch; those there already are kept as they are.
Begin(p, batch) ==
  /\ pipe[p].pc = "idle"
  /\ Moves(p, Transaction("insert", batch, batch \ stored, {}, {}, NoCases, NoCases, NoCases, TRUE))
  /\ UNCHANGED <<stored, findings, cases, last>>

\* The flush: an id another transaction is inserting is waited for; one that has
\* been committed since db.get fails the primary key, and the batch is rolled back.
Insert(p) ==
  /\ pipe[p].pc = "insert"
  /\ \A q \in Others(p) : pipe[q].pc \in {"idle", "insert"} \/ pipe[q].new \cap pipe[p].new = {}
  /\ \/ /\ pipe[p].new \cap stored = {}
        /\ Moves(p, [pipe[p] EXCEPT !.pc = "detect"])
        /\ UNCHANGED <<stored, findings, cases, last>>
     \/ pipe[p].new \cap stored # {} /\ RollsBack(p)

Found(t, found) ==
  Transaction("gather", t.batch, t.new, found, t.todo, t.base, t.view, t.flushed, t.fresh)

\* Mutant: the new telemetry is looked at without its history.
Detect_NoHistory(p) ==
  LET found == run_detection(pipe[p].batch) \ findings IN
  /\ pipe[p].pc = "detect"
  /\ \A q \in Others(p) : pipe[q].found \cap found = {}
  /\ Moves(p, Found(pipe[p], found))
  /\ UNCHANGED <<stored, findings, cases, last>>

\* Findings on the batch and its context that are not rows yet. The read and the
\* flush are one step, which another transaction that is inserting one of them
\* keeps from being taken (uq_finding); a transaction that has read before such a
\* one commits, and flushes after it, fails: it is one of those that Abort ends.
Detect(p) ==
  LET found == run_detection(Context(p) \cup pipe[p].batch) \ findings IN
  /\ pipe[p].pc = "detect"
  /\ \A q \in Others(p) : pipe[q].found \cap found = {}
  /\ Moves(p, Found(pipe[p], found))
  /\ UNCHANGED <<stored, findings, cases, last>>

-----------------------------------------------------------------------------
(* Correlation. *)

\* Groups of the suspicious events around the batch that carry two flags or more,
\* each with the findings read with it.
Candidates(p) ==
  LET batch == pipe[p].batch IN
  {e \in Seen(p) : /\ Time[e] + Window >= Start(batch) /\ Time[e] <= End(batch) + Window
                   /\ Suspicious(e, Known(p))}

CaseGroups(p) ==
  {g \in Groups[Candidates(p)] : Cardinality(FlagsOf(g, Known(p))) >= 2}

\* The transaction with these groups, loaded rows, objects and flushed rows.
Correlating(t, todo, base, view, flushed) ==
  Transaction("correlate", t.batch, t.new, t.found, todo, base, view, flushed, t.fresh)

Gather(p) ==
  /\ pipe[p].pc = "gather"
  /\ Moves(p, Correlating(pipe[p],
       {[events |-> g, findings |-> {f \in Known(p) : f[1] \in g}] : g \in CaseGroups(p)},
       NoCases, NoCases, NoCases))
  /\ UNCHANGED <<stored, findings, cases, last>>

\* The open case of that fingerprint, or else any open one that shares evidence.
ByFingerprint(p, fp) ==
  {i \in DOMAIN Rows(p) : Rows(p)[i].fp = fp /\ Rows(p)[i].status = "OPEN"}
ByEvidence(p, events) ==
  {i \in DOMAIN Rows(p) : Rows(p)[i].status = "OPEN" /\ Object(p, i).events \cap events # {}}

\* Mutant: the lookup is left out.
Existing_Never(p, g) == {}

Existing(p, g) ==
  LET same == ByFingerprint(p, CaseFingerprint(g.events, g.findings)) IN
  IF same # {} THEN same ELSE ByEvidence(p, g.events)

FingerprintsBut(p, ids) == {Rows(p)[j].fp : j \in DOMAIN Rows(p) \ ids}

\* Mutants: the case is given the evidence of the new group only; its evidence is
\* left as it was; the new fingerprint is taken unseen.
Enriched_Replaced(p, i, g) ==
  LET row == Object(p, i) IN
  Case(row.fp, CaseType(g.events, Known(p)), row.status, g.events)
Enriched_NotAdded(p, i, g) ==
  LET row == Object(p, i)
      all == {e \in row.events : e \in Seen(p)} \cup g.events
  IN Case(row.fp, CaseType(all, Known(p)), row.status, row.events)
Enriched_Unchecked(p, i, g) ==
  LET row == Object(p, i)
      all == {e \in row.events : e \in Seen(p)} \cup g.events
  IN Case(CaseFingerprint(all, Known(p)), CaseType(all, Known(p)), row.status, all)

\* The case with the evidence added and everything derived again; it keeps its
\* fingerprint if the new one belongs to another case.
Enriched(p, i, g) ==
  LET row == Object(p, i)
      all == {e \in row.events : e \in Seen(p)} \cup g.events
      fp == CaseFingerprint(all, Known(p))
  IN Case(IF fp \in FingerprintsBut(p, {i}) THEN row.fp ELSE fp, CaseType(all, Known(p)),
          row.status, all)

Enrich(p, g, i) ==
  LET t == pipe[p] IN
  /\ t.pc = "correlate" /\ i \in Existing(p, g)
  /\ Moves(p, Correlating(t, t.todo \ {g},
       IF i \in DOMAIN t.view THEN t.base ELSE With(t.base, i, Rows(p)[i]),
       With(t.view, i, Enriched(p, i, g)), t.flushed))
  /\ UNCHANGED <<stored, findings, cases, last>>

\* What a flush of view writes: the new cases, and of the others that differ from
\* what was loaded the columns that do, whatever the row has become since.
Merged(row, base, now) ==
  Case(IF row.fp = base.fp THEN now.fp ELSE row.fp,
       IF row.type = base.type THEN now.type ELSE row.type,
       now.status,
       IF row.events = base.events THEN now.events ELSE row.events)

Writes(p, view) ==
  LET base == pipe[p].base
      changed == {i \in DOMAIN view : i \in DOMAIN base => view[i] # base[i]}
  IN [i \in changed |-> IF i \in DOMAIN base THEN Merged(view[i], base[i], cases[i])
                                             ELSE view[i]]

\* A row, or a fingerprint, that another transaction has flushed is waited for; a
\* fingerprint of another row makes the flush fail.
Blocked(p, rows) ==
  \E q \in Others(p) :
    \/ DOMAIN rows \cap DOMAIN pipe[q].flushed # {}
    \/ \E i \in DOMAIN rows, j \in DOMAIN pipe[q].flushed :
         rows[i].fp = pipe[q].flushed[j].fp
Clash(rows) ==
  \/ \E i, j \in DOMAIN rows : i # j /\ rows[i].fp = rows[j].fp
  \/ \E i \in DOMAIN rows, j \in DOMAIN cases \ DOMAIN rows : rows[i].fp = cases[j].fp

FreeIds == CaseIds \ UNION ({DOMAIN cases} \cup {DOMAIN pipe[q].view : q \in Pipelines})

Opened(p, g) ==
  LET fp == CaseFingerprint(g.events, g.findings) IN
  Case(IF fp \in FingerprintsBut(p, {}) THEN [fp EXCEPT !.ids = g.events] ELSE fp,
       CaseType(g.events, g.findings), "OPEN", g.events)

\* A new case; its flush writes all that is pending.
WithOpened(p, g) == With(pipe[p].view, CHOOSE i \in FreeIds : TRUE, Opened(p, g))
Pending(p, g) == Writes(p, WithOpened(p, g))

Open(p, g) ==
  /\ pipe[p].pc = "correlate" /\ Existing(p, g) = {} /\ FreeIds # {}
  /\ ~Blocked(p, Pending(p, g))
  /\ \/ /\ ~Clash(Pending(p, g))
        /\ Moves(p, Correlating(pipe[p], pipe[p].todo \ {g}, pipe[p].base,
                                WithOpened(p, g), Pending(p, g)))
        /\ UNCHANGED <<stored, findings, cases, last>>
     \/ Clash(Pending(p, g)) /\ RollsBack(p)

\* The batch, unless another transaction or the closing of an enriched case has
\* come between its reads and its commit.
Settled(p) ==
  IF pipe[p].fresh /\ \A i \in DOMAIN pipe[p].view \cap DOMAIN cases : cases[i].status = "OPEN"
  THEN pipe[p].batch ELSE {}

Overtaken(t) ==
  Transaction(t.pc, t.batch, t.new, t.found, t.todo, t.base, t.view, t.flushed, FALSE)

\* Mutant: the findings are not committed with the cases that rest on them.
Committed_NoFindings(p, rows) ==
  /\ stored' = Seen(p) /\ UNCHANGED findings /\ cases' = Over(rows, cases)
  /\ last' = Settled(p)
  /\ pipe' = [q \in Pipelines |->
                IF q = p THEN Idle ELSE Overtaken(pipe[q])]

Committed(p, rows) ==
  /\ stored' = Seen(p) /\ findings' = Known(p) /\ cases' = Over(rows, cases)
  /\ last' = Settled(p)
  /\ pipe' = [q \in Pipelines |->
                IF q = p THEN Idle ELSE Overtaken(pipe[q])]

\* The commit flushes what is pending first, and fails like it.
Commit(p) ==
  LET rows == Writes(p, pipe[p].view) IN
  /\ pipe[p].pc = "correlate" /\ pipe[p].todo = {}
  /\ ~Blocked(p, rows)
  /\ \/ ~Clash(rows) /\ Committed(p, rows)
     \/ Clash(rows) /\ RollsBack(p)

\* The process dies, or the database ends the transaction (a deadlock of waits).
Abort(p) == pipe[p].pc # "idle" /\ RollsBack(p)

\* An analyst resolves the case, or its response contains it.
CloseCase(i) ==
  /\ cases[i].status = "OPEN"
  /\ cases' = With(cases, i, Case(cases[i].fp, cases[i].type, "CLOSED", cases[i].events))
  /\ last' = {}
  /\ UNCHANGED <<stored, findings, pipe>>

Next ==
  \/ \E p \in Pipelines :
       \/ \E batch \in Batches : Begin(p, batch)
       \/ Insert(p) \/ Detect(p) \/ Gather(p)
       \/ \E g \in pipe[p].todo : Open(p, g) \/ \E i \in CaseIds : Enrich(p, g, i)
       \/ Commit(p) \/ Abort(p)
  \/ \E i \in DOMAIN cases : CloseCase(i)

Spec == Init /\ [][Next]_vars

-----------------------------------------------------------------------------
(* What correlation promises. *)

CaseRows ==
  [fp : [type : IncidentTypes, user : {User[e] : e \in Events}, bucket : Nat,
         ids : SUBSET Events],
   type : IncidentTypes, status : Statuses, events : SUBSET Events]

TypeOK ==
  /\ stored \subseteq Events /\ findings \subseteq stored \X Flags
  /\ DOMAIN cases \subseteq CaseIds /\ \A i \in DOMAIN cases : cases[i] \in CaseRows
  /\ last \in Batches \cup {{}}
  /\ \A p \in Pipelines :
       /\ pipe[p].pc \in {"idle", "insert", "detect", "gather", "correlate"}
       /\ pipe[p].batch \in Batches \cup {{}} /\ pipe[p].new \subseteq pipe[p].batch
       /\ pipe[p].found \subseteq Seen(p) \X Flags
       /\ DOMAIN pipe[p].base \cup DOMAIN pipe[p].flushed \subseteq DOMAIN pipe[p].view

\* However transactions overlap, a case stands on stored events that carry two
\* independent flags or more, each of them a stored finding.
CasesAreGrounded ==
  \A i \in DOMAIN cases :
    /\ cases[i].events \subseteq stored
    /\ Cardinality(FlagsOf(cases[i].events, findings)) >= 2

\* Two of its cases have come to the same fingerprint.
Twins(view) == \E i, j \in DOMAIN view : i # j /\ view[i].fp = view[j].fp

\* As long as no case has been closed, no flush of a transaction that nobody has
\* overtaken fails, so that the worker never gives up on its batch: the fingerprint
\* a case keeps or gets is free, unless the batch gives it to another of its cases
\* as well before either is flushed.
BatchesGoThrough ==
  (\A i \in DOMAIN cases : cases[i].status = "OPEN") =>
    \A p \in Pipelines : pipe[p].fresh /\ pipe[p].pc = "correlate" =>
      /\ pipe[p].todo = {} /\ ~Twins(pipe[p].view) => ~Clash(Writes(p, pipe[p].view))
      /\ \A g \in pipe[p].todo :
           Existing(p, g) = {} /\ FreeIds # {} /\ ~Twins(WithOpened(p, g)) =>
             ~Clash(Pending(p, g))

\* A transaction that no other has overtaken since it began.
CommitsFresh(p) ==
  /\ pipe[p].fresh /\ pipe[p].pc = "correlate" /\ pipe[p].todo = {}
  /\ Committed(p, Writes(p, pipe[p].view))

\* Evidence is taken off a case only by a commit that another one has overtaken.
EvidenceKept ==
  [][(\A p \in Pipelines : Commit(p) => pipe[p].fresh) =>
       \A i \in DOMAIN cases : cases[i].events \subseteq cases'[i].events]_vars

\* When a batch is committed every group of flagged events around it is evidence
\* of one case, as a whole.
GroupsAreCased ==
  [][\A p \in Pipelines : CommitsFresh(p) =>
       \A g \in CaseGroups(p) : \E i \in DOMAIN cases' : g \subseteq cases'[i].events]_vars

\* An event is committed with the findings that the telemetry before it implies.
HistoryIsSeen ==
  [][\A p \in Pipelines : CommitsFresh(p) =>
       \A e \in pipe[p].new, d \in stored' :
         /\ <<d, e>> \in Travel => <<e, "IMPOSSIBLE_TRAVEL">> \in findings'
         /\ \A f \in Own[e] : <<e, f>> \in findings']_vars

\* Open cases share no evidence, and the fingerprint of a group, which is looked up
\* first, leads to no other case than the one that has the group.
OpenCases == {i \in DOMAIN cases : cases[i].status = "OPEN"}
Disjoint ==
  \A i, j \in OpenCases : i # j => cases[i].events \cap cases[j].events = {}
Unmistaken(p) ==
  \A g \in CaseGroups(p) : \A i \in ByFingerprint(p, CaseFingerprint(g, Known(p))) :
    g \subseteq cases[i].events

\* Running a batch again, with nothing else done in between, stores nothing, finds
\* nothing and opens no case (the worker may be handed it again after its pipeline
\* has committed).  Each group finds the case that has it, and leaves of it all but
\* the fingerprint as it was (one that was taken then may be free now), if there is
\* only one case to be found.
RedeliveryIsNoOp ==
  [][\A p \in Pipelines : CommitsFresh(p) /\ last = pipe[p].batch =>
       /\ UNCHANGED <<stored, findings>> /\ DOMAIN cases' = DOMAIN cases
       /\ Disjoint /\ Unmistaken(p) =>
            \A i \in DOMAIN cases :
              cases'[i] = Case(cases'[i].fp, cases[i].type, cases[i].status, cases[i].events)]_vars

(* What the documentation says, and the code does not do. *)

\* Exact evidence-set matching prevents duplicate incidents.
NoDuplicates ==
  \A i, j \in DOMAIN cases : cases[i].events = cases[j].events => i = j
=============================================================================
