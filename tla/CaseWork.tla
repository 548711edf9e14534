------------------------------- MODULE CaseWork -------------------------------
(***************************************************************************)
(* What analysts do with one case: notes, bookmarks, the disposition       *)
(* (main.py) and questions to the investigator (investigation_ai.py),      *)
(* while the pipeline adds evidence to the case and retention deletes      *)
(* telemetry.  A request loads the case, works on what it has loaded and   *)
(* commits; SQLAlchemy writes only the columns it has changed.             *)
(* Enrichments overlap each other too: what the one that commits first has *)
(* added, the other one takes away again.                                  *)
(***************************************************************************)
EXTENDS Naturals, FiniteSets, Sequences

CONSTANTS
  CaseEvents,    \* telemetry, in the case or not
  Aged,          \* telemetry that retention reaches
  Analysts,      \* analysts with a request under way
  Enrichers,     \* pipeline transactions that may enrich the case
  Dispositions,  \* what they may set, UNSET included
  ClaimCap,      \* claims of a local answer (8)
  MaxEntries,    \* bound on the rows of the audit trail
  MaxBusy        \* bound on the transactions under way at once

ASSUME CaseAssumption ==
  /\ IsFiniteSet(CaseEvents) /\ Aged \subseteq CaseEvents
  /\ "UNSET" \in Dispositions
  /\ MaxEntries \in Nat /\ MaxBusy \in Nat /\ ClaimCap \in Nat

VARIABLES
  file,     \* the row of the case: its evidence and disposition
  desk,     \* the bookmarks and the number of notes
  trail,    \* the audit rows of this work
  session,  \* each analyst's request
  enricher, \* the pipeline's transactions on the case
  purged,   \* telemetry that retention has ever deleted
  dropped   \* evidence taken away by an enrichment that was overtaken
caseVars == <<file, desk, trail, session, enricher, purged, dropped>>

CaseRow == [evidence : SUBSET CaseEvents, disposition : Dispositions]

\* A DISPOSITION row.  Its timestamp is taken between the load and the commit of
\* its request; since: how many of them had been committed when it loaded.
Decision == [choice : Dispositions, since : Nat]

\* marked: EVIDENCE_BOOKMARKED rows of each event.  decisions: in the order of
\* their commits, which is that of their timestamps unless requests overlap.
Trail == [marked : [CaseEvents -> Nat], noted : Nat, decisions : Seq(Decision)]

\* row: what the request still needs of the row it has loaded.  cites: the event
\* to bookmark, or what the answer cites.
Session ==
  [ pc : {"idle", "look", "insert", "decide", "ask", "again", "local", "answered"},
    row : CaseRow, cites : SUBSET CaseEvents, choice : Dispositions, since : Nat,
    mode : {"none", "openai", "local"}, validated : BOOLEAN ]

NoCase == [evidence |-> {}, disposition |-> "UNSET"]

\* A request at step pc that has loaded the row.
Working(pc, row, cites, choice) ==
  [ pc |-> pc, row |-> row, cites |-> cites, choice |-> choice, since |-> 0,
    mode |-> "none", validated |-> FALSE ]
NoSession == Working("idle", NoCase, {}, "UNSET")

\* overtaken: another enrichment has committed since this one loaded the row.
Enricher == [busy : BOOLEAN, row : CaseRow, overtaken : BOOLEAN]
NoEnricher == [busy |-> FALSE, row |-> NoCase, overtaken |-> FALSE]

CaseTypeOK ==
  /\ file \in CaseRow
  /\ desk \in [bookmarks : SUBSET CaseEvents, notes : Nat]
  /\ trail \in Trail
  /\ session \in [Analysts -> Session]
  /\ enricher \in [Enrichers -> Enricher]
  /\ purged \subseteq Aged /\ dropped \subseteq CaseEvents

CaseInit ==
  /\ \E evidence \in SUBSET CaseEvents :
       evidence # {} /\ file = [evidence |-> evidence, disposition |-> "UNSET"]
  /\ desk = [bookmarks |-> {}, notes |-> 0]
  /\ trail = [marked |-> [e \in CaseEvents |-> 0], noted |-> 0, decisions |-> <<>>]
  /\ session = [a \in Analysts |-> NoSession]
  /\ enricher = [w \in Enrichers |-> NoEnricher]
  /\ purged = {} /\ dropped = {}

-----------------------------------------------------------------------------
\* a's request goes on to s, or has ended.
Goto(a, s) == session' = [session EXCEPT ![a] = s]
Ends(a) == Goto(a, NoSession)

\* The bounds: another transaction may begin, another entry be made.
MayBegin ==
  Cardinality({a \in Analysts : session[a].pc # "idle"})
    + Cardinality({w \in Enrichers : enricher[w].busy}) < MaxBusy
HasRoom ==
  Cardinality(desk.bookmarks) + desk.notes + Len(trail.decisions) < MaxEntries

\* A note and its audit row, in one commit.
AddNote(a) ==
  /\ session[a].pc = "idle" /\ HasRoom
  /\ desk' = [desk EXCEPT !.notes = @ + 1]
  /\ trail' = [trail EXCEPT !.noted = @ + 1]
  /\ UNCHANGED <<file, session, enricher, purged, dropped>>

\* 400 unless the event belongs to the case.
LoadForBookmark(a, e) ==
  /\ session[a].pc = "idle" /\ MayBegin /\ HasRoom /\ e \in file.evidence
  /\ Goto(a, Working("look", NoCase, {e}, "UNSET"))
  /\ UNCHANGED <<file, desk, trail, enricher, purged, dropped>>

\* 409 if it is bookmarked.
LookForBookmark(a) ==
  /\ session[a].pc = "look"
  /\ IF session[a].cites \subseteq desk.bookmarks THEN Ends(a)
     ELSE Goto(a, Working("insert", NoCase, session[a].cites, "UNSET"))
  /\ UNCHANGED <<file, desk, trail, enricher, purged, dropped>>

\* The bookmark and its audit row; uq_bookmark_incident_event refuses both when
\* another request has been faster.
InsertBookmark(a) ==
  /\ session[a].pc = "insert" /\ HasRoom
  /\ session[a].cites \cap desk.bookmarks = {}
  /\ desk' = [bookmarks |-> desk.bookmarks \cup session[a].cites, notes |-> desk.notes]
  /\ trail' = [trail EXCEPT !.marked =
                 [e \in CaseEvents |->
                    IF e \in session[a].cites THEN trail.marked[e] + 1 ELSE trail.marked[e]]]
  /\ Ends(a)
  /\ UNCHANGED <<file, enricher, purged, dropped>>

LoadForDisposition(a, choice) ==
  /\ session[a].pc = "idle" /\ MayBegin /\ HasRoom
  /\ Goto(a, [Working("decide", [evidence |-> {}, disposition |-> file.disposition], {},
                     choice) EXCEPT !.since = Len(trail.decisions)])
  /\ UNCHANGED <<file, desk, trail, enricher, purged, dropped>>

\* Setting what was loaded writes no column, and is audited all the same.
CommitDisposition(a) ==
  LET s == session[a] IN
  /\ s.pc = "decide" /\ HasRoom
  /\ file' = IF s.choice = s.row.disposition THEN file
             ELSE [evidence |-> file.evidence, disposition |-> s.choice]
  /\ trail' = [trail EXCEPT !.decisions =
                 Append(@, [choice |-> s.choice, since |-> s.since])]
  /\ Ends(a)
  /\ UNCHANGED <<desk, enricher, purged, dropped>>

-----------------------------------------------------------------------------
\* With a key the question goes to the external model, without one it does not.
LoadForAsk(a, pc) ==
  /\ session[a].pc = "idle" /\ MayBegin /\ pc \in {"ask", "local"}
  /\ Goto(a, Working(pc, [evidence |-> file.evidence, disposition |-> "UNSET"], {}, "UNSET"))
  /\ UNCHANGED <<file, desk, trail, enricher, purged, dropped>>

\* Mutant: one citation of the case validates the others.
validate_structure_Some(cites, evidence) == cites \cap evidence # {}

\* Claims there are, and all the events they cite are the case's.
validate_structure(cites, evidence) == cites # {} /\ cites \subseteq evidence

Answered(a, mode, cites) ==
  Goto(a, [ pc |-> "answered", row |-> NoCase, cites |-> cites,
            choice |-> "UNSET", since |-> 0, mode |-> mode,
            validated |-> validate_structure(cites, session[a].row.evidence) ])

\* The external model answers: what is grounded is accepted, at the first
\* attempt or the second.
ExternalAnswer(a, cites) ==
  /\ session[a].pc \in {"ask", "again"}
  /\ validate_structure(cites, session[a].row.evidence)
  /\ Answered(a, "openai", cites)
  /\ UNCHANGED <<file, desk, trail, enricher, purged, dropped>>

\* It fails, answers something malformed or cites what the case does not have:
\* the question is asked once more, then the local answer takes its place.
ExternalFails(a) ==
  /\ session[a].pc \in {"ask", "again"}
  /\ Goto(a, Working(IF session[a].pc = "ask" THEN "again" ELSE "local",
                     session[a].row, {}, "UNSET"))
  /\ UNCHANGED <<file, desk, trail, enricher, purged, dropped>>

\* One claim for each of the first events of the case that carry a risk and are
\* still stored, if there are such.
LocalAnswer(a, cites) ==
  /\ session[a].pc = "local"
  /\ cites \subseteq session[a].row.evidence /\ Cardinality(cites) <= ClaimCap
  /\ Answered(a, "local", cites)
  /\ UNCHANGED <<file, desk, trail, enricher, purged, dropped>>

\* The response is delivered; or a request dies, a constraint refuses it, the
\* event does not belong: its transaction leaves nothing behind.
RequestEnds(a) ==
  /\ session[a].pc # "idle"
  /\ Ends(a)
  /\ UNCHANGED <<file, desk, trail, enricher, purged, dropped>>

-----------------------------------------------------------------------------
LoadToEnrich(w) ==
  /\ ~enricher[w].busy /\ MayBegin
  /\ enricher' = [enricher EXCEPT ![w] = [busy |-> TRUE, row |-> file, overtaken |-> FALSE]]
  /\ UNCHANGED <<file, desk, trail, session, purged, dropped>>

\* w's enrichment leaves the case with `evidence`: the others, if there are, have
\* been overtaken, and what w did not know of is dropped.
Enriches(w, evidence) ==
  /\ enricher' = [v \in Enrichers |->
       IF v = w \/ ~enricher[v].busy THEN NoEnricher
       ELSE [enricher[v] EXCEPT !.overtaken = TRUE]]
  /\ dropped' = (IF enricher[w].overtaken THEN dropped \cup file.evidence ELSE dropped)
                \ evidence
  /\ UNCHANGED <<desk, trail, session, purged>>

\* Mutant: the whole row is written back.
CommitEnrichment_WholeRow(w, batch, gone) ==
  LET evidence == (enricher[w].row.evidence \ gone) \cup batch IN
  /\ enricher[w].busy
  /\ file' = [evidence |-> evidence, disposition |-> enricher[w].row.disposition]
  /\ Enriches(w, evidence)

\* The evidence is what the database still has of it, and the batch.  That column
\* is written whole; what was loaded is written again only if events of one
\* timestamp have come in another order.  The disposition is not written.
CommitEnrichment(w, batch, gone) ==
  LET loaded == enricher[w].row.evidence
      found  == (loaded \ gone) \cup batch
  IN
  /\ enricher[w].busy
  /\ \E evidence \in {found, IF found = loaded THEN file.evidence ELSE found} :
       /\ file' = [evidence |-> evidence, disposition |-> file.disposition]
       /\ Enriches(w, evidence)

EnrichmentGone(w) ==
  /\ enricher[w].busy
  /\ enricher' = [enricher EXCEPT ![w] = NoEnricher]
  /\ UNCHANGED <<file, desk, trail, session, purged, dropped>>

\* scripts/retention.py deletes telemetry; cases go on naming it.
Purge(e) ==
  /\ purged' = purged \cup {e}
  /\ UNCHANGED <<file, desk, trail, session, enricher, dropped>>

CaseNext ==
  \/ \E a \in Analysts :
       \/ AddNote(a)
       \/ \E e \in CaseEvents : LoadForBookmark(a, e)
       \/ LookForBookmark(a)
       \/ InsertBookmark(a)
       \/ \E choice \in Dispositions : LoadForDisposition(a, choice)
       \/ CommitDisposition(a)
       \/ \E pc \in {"ask", "local"} : LoadForAsk(a, pc)
       \/ \E cites \in SUBSET CaseEvents : ExternalAnswer(a, cites) \/ LocalAnswer(a, cites)
       \/ ExternalFails(a)
       \/ RequestEnds(a)
  \/ \E w \in Enrichers :
       \/ LoadToEnrich(w)
       \/ \E batch \in SUBSET CaseEvents, gone \in SUBSET purged :
            CommitEnrichment(w, batch, gone)
       \/ EnrichmentGone(w)
  \/ \E e \in Aged : Purge(e)

CaseSpec == CaseInit /\ [][CaseNext]_caseVars

-----------------------------------------------------------------------------
\* Bookmarks name events of the case, and so does every answer, from whatever
\* was loaded when the question came, unless retention has deleted the telemetry
\* since, or an enrichment that another one had overtaken has written the
\* evidence without it; an answer that passes for validated cites something, and
\* none of the external model's is given unvalidated.
CitesTheCase ==
  LET known == file.evidence \cup purged \cup dropped IN
  /\ desk.bookmarks \subseteq known
  /\ \A a \in Analysts :
       session[a].pc = "answered" =>
         /\ session[a].cites \subseteq known
         /\ session[a].validated <=> session[a].cites # {}
         /\ session[a].mode = "openai" => session[a].validated

\* The disposition in force is that of the i-th DISPOSITION row (or the first one
\* of the case), and no request for another one has begun since that was committed.
InForce(i) ==
  LET rows == trail.decisions IN
  /\ file.disposition = IF i = 0 THEN "UNSET" ELSE rows[i].choice
  /\ \A j \in DOMAIN rows : rows[j].choice # file.disposition => rows[j].since < i

\* The audit trail tells what was done: one row for each bookmark and each
\* note, none besides; and the disposition in force is one it names and no later
\* request replaces by another.  So it is the last one of the trail, which is read
\* in the order of timestamps, unless requests for dispositions overlap.
TrailIsExact ==
  /\ \A e \in CaseEvents : trail.marked[e] = IF e \in desk.bookmarks THEN 1 ELSE 0
  /\ trail.noted = desk.notes
  /\ \E i \in 0..Len(trail.decisions) : InForce(i)
=============================================================================
