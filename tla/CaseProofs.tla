------------------------------ MODULE CaseProofs ------------------------------
(***************************************************************************)
(* CitesTheCase and TrailIsExact for any analysts, telemetry and pipeline  *)
(* batches.  The invariant: what a request has loaded is still the case's, *)
(* or has been deleted or dropped; and a request that has begun after the  *)
(* disposition in force was committed has loaded that one.                 *)
(***************************************************************************)
EXTENDS CaseWork, TLAPS

\* What the case has, or had until it was deleted or dropped.
Known == file.evidence \cup purged \cup dropped

SessionKnows(s) ==
  /\ s.pc \in {"look", "insert", "answered"} => s.cites \subseteq Known
  /\ s.pc \in {"ask", "again", "local"} => s.row.evidence \subseteq Known
  /\ s.pc = "answered" =>
       /\ s.validated <=> s.cites # {}
       /\ s.mode = "openai" => s.validated

SessionsKnow == \A a \in Analysts : SessionKnows(session[a])

\* Only enrichments write the evidence.
EnricherKnows ==
  \A w \in Enrichers :
    enricher[w].busy /\ ~enricher[w].overtaken => enricher[w].row.evidence = file.evidence

Counted ==
  /\ \A e \in CaseEvents : trail.marked[e] = IF e \in desk.bookmarks THEN 1 ELSE 0
  /\ trail.noted = desk.notes

\* A decision is committed after those its request has seen.
Ordered ==
  \A j \in DOMAIN trail.decisions : trail.decisions[j].since < j

\* A request that has begun since the i-th decision has loaded the one in force.
NoneMissed(i, s) ==
  s.pc = "decide" =>
    /\ s.since <= Len(trail.decisions)
    /\ s.since >= i => s.row.disposition = file.disposition

Decided == \E i \in 0..Len(trail.decisions) :
             InForce(i) /\ \A a \in Analysts : NoneMissed(i, session[a])

CaseInv ==
  /\ CaseTypeOK
  /\ desk.bookmarks \subseteq Known
  /\ SessionsKnow
  /\ EnricherKnows
  /\ Counted
  /\ Ordered /\ Decided

LEMMA NoSessionType == NoSession \in Session /\ NoSession.pc = "idle"
  BY CaseAssumption DEF NoSession, Working, Session, NoCase, CaseRow

LEMMA CaseInitInv == CaseInit => CaseInv
<1> SUFFICES ASSUME CaseInit PROVE CaseInv
  OBVIOUS
<1>1. CaseTypeOK
  BY CaseAssumption, NoSessionType
  DEF CaseInit, CaseTypeOK, Trail, Enricher, NoEnricher, NoCase, CaseRow
<1>2. SessionsKnow
  BY NoSessionType DEF CaseInit, SessionsKnow, SessionKnows
<1>3. EnricherKnows
  BY DEF CaseInit, EnricherKnows, NoEnricher
<1>4. Decided
  <2>1. Len(trail.decisions) = 0 /\ 0 \in 0..0 /\ DOMAIN trail.decisions = {}
    BY DEF CaseInit
  <2>2. InForce(0)
    BY <2>1 DEF CaseInit, InForce
  <2>3. \A a \in Analysts : NoneMissed(0, session[a])
    BY NoSessionType DEF CaseInit, NoneMissed
  <2> QED BY <2>1, <2>2, <2>3 DEF Decided
<1>5. Ordered
  BY DEF CaseInit, Ordered
<1> QED BY <1>1, <1>2, <1>3, <1>4, <1>5 DEF CaseInit, CaseInv, Counted

-----------------------------------------------------------------------------
\* Where no decision is made and no request for one begins, what is in force stays.
LEMMA DecidedStays ==
  ASSUME Decided, trail'.decisions = trail.decisions, file'.disposition = file.disposition,
         \A a \in Analysts : session'[a] = session[a] \/ session'[a].pc # "decide"
  PROVE  Decided'
<1>1. PICK i \in 0..Len(trail.decisions) :
        InForce(i) /\ \A a \in Analysts : NoneMissed(i, session[a])
  BY DEF Decided
<1>2. InForce(i)'
  BY <1>1 DEF InForce
<1>3. ASSUME NEW a \in Analysts PROVE NoneMissed(i, session[a])'
  BY <1>1 DEF NoneMissed
<1> QED BY <1>1, <1>2, <1>3 DEF Decided

\* A step of one analyst that only moves on.
LEMMA OneSession ==
  ASSUME CaseInv, NEW a \in Analysts, NEW s \in Session, Goto(a, s), SessionKnows(s),
         s.pc = "decide" => s.since = Len(trail.decisions)
                              /\ s.row.disposition = file.disposition,
         UNCHANGED <<file, desk, trail, enricher, purged, dropped>>
  PROVE  CaseInv'
<1>1. session \in [Analysts -> Session]
  BY DEF CaseInv, CaseTypeOK
<1>2. session' \in [Analysts -> Session]
  BY <1>1 DEF Goto
<1>3. ASSUME NEW b \in Analysts PROVE session'[b] = IF b = a THEN s ELSE session[b]
  BY <1>1 DEF Goto
<1>4. ASSUME NEW b \in Analysts PROVE SessionKnows(session[b])'
  <2>1. SessionKnows(session'[b])
    BY <1>3 DEF CaseInv, SessionsKnow
  <2> QED BY <2>1 DEF SessionKnows, Known
<1>5. Decided'
  <2>1. PICK i \in 0..Len(trail.decisions) :
          InForce(i) /\ \A b \in Analysts : NoneMissed(i, session[b])
    BY DEF CaseInv, Decided
  <2>2. InForce(i)'
    BY <2>1 DEF InForce
  <2>3. Len(trail.decisions) \in Nat
    BY DEF CaseInv, CaseTypeOK, Trail
  <2>4. ASSUME NEW b \in Analysts PROVE NoneMissed(i, session[b])'
    BY <1>3, <2>1, <2>3 DEF NoneMissed
  <2> QED BY <2>1, <2>2, <2>4 DEF Decided
<1> QED BY <1>2, <1>4, <1>5
        DEF CaseInv, CaseTypeOK, SessionsKnow, Known, EnricherKnows, Counted, Ordered

\* What a session knows it goes on knowing when the known grows.
LEMMA KnownGrows ==
  ASSUME SessionsKnow, UNCHANGED session, Known \subseteq Known'
  PROVE  SessionsKnow'
  BY DEF SessionsKnow, SessionKnows

\* A request that ends knows nothing.
LEMMA SessionEndsInv ==
  ASSUME CaseInv, NEW a \in Analysts, Ends(a)
  PROVE  /\ session' \in [Analysts -> Session]
         /\ Known \subseteq Known' => SessionsKnow'
         /\ session'[a].pc # "decide"
         /\ \A b \in Analysts \ {a} : session'[b] = session[b]
<1>1. session \in [Analysts -> Session]
  BY DEF CaseInv, CaseTypeOK
<1>2. session' = [session EXCEPT ![a] = NoSession]
  BY DEF Ends, Goto
<1>3. session' \in [Analysts -> Session]
  BY <1>1, <1>2, NoSessionType
<1>4. ASSUME Known \subseteq Known', NEW b \in Analysts
      PROVE  SessionKnows(session[b])'
  <2>1. CASE b = a
    BY <1>1, <1>2, <2>1, NoSessionType DEF SessionKnows
  <2>2. CASE b # a
    BY <1>1, <1>2, <2>2, <1>4 DEF CaseInv, SessionsKnow, SessionKnows
  <2> QED BY <2>1, <2>2
<1>5. /\ session'[a].pc # "decide"
      /\ \A b \in Analysts \ {a} : session'[b] = session[b]
  BY <1>1, <1>2, NoSessionType
<1> QED BY <1>3, <1>4, <1>5 DEF SessionsKnow

-----------------------------------------------------------------------------
LEMMA WorkingKnows ==
  ASSUME NEW pc \in {"look", "insert", "decide", "ask", "again", "local"},
         NEW row \in CaseRow, NEW cites \in SUBSET CaseEvents, NEW choice \in Dispositions,
         pc \in {"look", "insert"} => cites \subseteq Known,
         pc \in {"ask", "again", "local"} => row.evidence \subseteq Known
  PROVE  /\ Working(pc, row, cites, choice) \in Session
         /\ SessionKnows(Working(pc, row, cites, choice))
         /\ Working(pc, row, cites, choice).pc = pc
  BY DEF Working, Session, SessionKnows

LEMMA BookmarkLoads ==
  ASSUME CaseInv, NEW a \in Analysts,
         (\E e \in CaseEvents : LoadForBookmark(a, e)) \/ LookForBookmark(a)
  PROVE  CaseInv'
<1>0. NoCase \in CaseRow /\ "UNSET" \in Dispositions
  BY CaseAssumption DEF NoCase, CaseRow
<1>1. ASSUME NEW e \in CaseEvents, LoadForBookmark(a, e) PROVE CaseInv'
  <2>1. {e} \subseteq Known
    BY <1>1 DEF LoadForBookmark, Known
  <2>2. {e} \in SUBSET CaseEvents
    OBVIOUS
  <2> QED BY <1>0, <1>1, <2>1, <2>2, WorkingKnows, OneSession DEF LoadForBookmark
<1>2. ASSUME LookForBookmark(a) PROVE CaseInv'
  <2>1. session[a] \in Session /\ SessionKnows(session[a]) /\ session[a].pc = "look"
    BY <1>2 DEF CaseInv, CaseTypeOK, SessionsKnow, LookForBookmark
  <2>2. session[a].cites \in SUBSET CaseEvents /\ session[a].cites \subseteq Known
    BY <2>1 DEF Session, SessionKnows
  <2>3. CASE Ends(a)
    BY <1>2, <2>3, NoSessionType, OneSession DEF Ends, LookForBookmark, SessionKnows
  <2>4. CASE Goto(a, Working("insert", NoCase, session[a].cites, "UNSET"))
    BY <1>0, <1>2, <2>2, <2>4, WorkingKnows, OneSession DEF LookForBookmark
  <2> QED BY <1>2, <2>3, <2>4 DEF LookForBookmark
<1> QED BY <1>1, <1>2

LEMMA BookmarkInserts ==
  ASSUME CaseInv, NEW a \in Analysts, InsertBookmark(a)
  PROVE  CaseInv'
<1> DEFINE cites == session[a].cites
<1>1. /\ session[a] \in Session /\ SessionKnows(session[a]) /\ session[a].pc = "insert"
      /\ cites \cap desk.bookmarks = {}
      /\ desk \in [bookmarks : SUBSET CaseEvents, notes : Nat] /\ trail \in Trail
  BY DEF CaseInv, CaseTypeOK, SessionsKnow, InsertBookmark
<1>2. cites \in SUBSET CaseEvents /\ cites \subseteq Known
  BY <1>1 DEF Session, SessionKnows
<1>3. /\ session' \in [Analysts -> Session] /\ SessionsKnow'
      /\ \A b \in Analysts : session'[b] = session[b] \/ session'[b].pc # "decide"
  BY SessionEndsInv DEF InsertBookmark, Known
<1>4. /\ desk' = [bookmarks |-> desk.bookmarks \cup cites, notes |-> desk.notes]
      /\ trail' = [trail EXCEPT !.marked =
                    [e \in CaseEvents |-> IF e \in cites THEN trail.marked[e] + 1
                                          ELSE trail.marked[e]]]
      /\ UNCHANGED <<file, enricher, purged, dropped>>
  BY DEF InsertBookmark
<1>5. /\ trail' \in Trail
      /\ \A e \in CaseEvents :
           trail'.marked[e] = IF e \in cites THEN trail.marked[e] + 1 ELSE trail.marked[e]
      /\ trail'.noted = trail.noted /\ trail'.decisions = trail.decisions
  <2> DEFINE m == [e \in CaseEvents |-> IF e \in cites THEN trail.marked[e] + 1
                                        ELSE trail.marked[e]]
  <2>1. m \in [CaseEvents -> Nat]
    BY <1>1 DEF Trail
  <2>2. trail' = [trail EXCEPT !.marked = m]
    BY <1>4
  <2> HIDE DEF m
  <2>3. /\ trail' \in Trail /\ trail'.marked = m
        /\ trail'.noted = trail.noted /\ trail'.decisions = trail.decisions
    BY <1>1, <2>1, <2>2 DEF Trail
  <2> QED BY <2>3 DEF m
<1>6. Counted'
  BY <1>1, <1>4, <1>5 DEF CaseInv, Counted
<1>7. Decided'
  BY <1>3, <1>4, <1>5, DecidedStays DEF CaseInv
<1> QED BY <1>2, <1>3, <1>4, <1>5, <1>6, <1>7 DEF CaseInv, CaseTypeOK, Known, EnricherKnows, Ordered

LEMMA NotesInv ==
  ASSUME CaseInv, NEW a \in Analysts, AddNote(a)
  PROVE  CaseInv'
<1>1. /\ desk \in [bookmarks : SUBSET CaseEvents, notes : Nat] /\ trail \in Trail
      /\ desk' = [desk EXCEPT !.notes = @ + 1] /\ trail' = [trail EXCEPT !.noted = @ + 1]
      /\ UNCHANGED <<file, session, enricher, purged, dropped>>
  BY DEF CaseInv, CaseTypeOK, AddNote
<1>2. /\ desk' \in [bookmarks : SUBSET CaseEvents, notes : Nat] /\ trail' \in Trail
      /\ desk'.bookmarks = desk.bookmarks /\ desk'.notes = desk.notes + 1
      /\ trail'.marked = trail.marked /\ trail'.noted = trail.noted + 1
      /\ trail'.decisions = trail.decisions
  <2>1. trail.noted + 1 \in Nat /\ trail.noted \in Nat /\ desk.notes \in Nat
    BY <1>1 DEF Trail
  <2>2. trail' \in Trail
    BY <1>1, <2>1 DEF Trail
  <2>3. /\ trail'.marked = trail.marked /\ trail'.noted = trail.noted + 1
        /\ trail'.decisions = trail.decisions
    BY <1>1 DEF Trail
  <2>4. /\ desk' \in [bookmarks : SUBSET CaseEvents, notes : Nat]
        /\ desk'.bookmarks = desk.bookmarks /\ desk'.notes = desk.notes + 1
    BY <1>1
  <2> QED BY <2>2, <2>3, <2>4
<1>3. SessionsKnow'
  BY <1>1, KnownGrows DEF CaseInv, Known
<1>4. Counted'
  BY <1>1, <1>2 DEF CaseInv, Counted
<1>5. Decided'
  BY <1>1, <1>2, DecidedStays DEF CaseInv
<1> QED BY <1>1, <1>2, <1>3, <1>4, <1>5
        DEF CaseInv, CaseTypeOK, Known, EnricherKnows, Ordered

LEMMA DispositionLoads ==
  ASSUME CaseInv, NEW a \in Analysts, NEW choice \in Dispositions,
         LoadForDisposition(a, choice)
  PROVE  CaseInv'
<1> DEFINE row == [evidence |-> {}, disposition |-> file.disposition]
           w == Working("decide", row, {}, choice)
           s == [w EXCEPT !.since = Len(trail.decisions)]
<1>1. row \in CaseRow /\ {} \in SUBSET CaseEvents /\ Len(trail.decisions) \in Nat
  BY DEF CaseInv, CaseTypeOK, CaseRow, Trail
<1>2. Goto(a, s) /\ UNCHANGED <<file, desk, trail, enricher, purged, dropped>>
  BY DEF LoadForDisposition
<1>3. w \in Session /\ w.pc = "decide" /\ w.row = row
  BY <1>1, WorkingKnows DEF Working
<1> HIDE DEF w, row
<1>4. s \in Session /\ s.pc = "decide" /\ s.since = Len(trail.decisions) /\ s.row = row
  BY <1>1, <1>3 DEF Session
<1>6. s.row.disposition = file.disposition
  BY <1>4 DEF row
<1> HIDE DEF s
<1>5. SessionKnows(s)
  BY <1>4 DEF SessionKnows
<1> QED BY <1>2, <1>4, <1>5, <1>6, OneSession

\* The new decision is in force, or names what was in force already, or has begun
\* before that.
LEMMA DecidedAnew ==
  ASSUME CaseInv, NEW a \in Analysts, CommitDisposition(a)
  PROVE  Decided' /\ Ordered'
<1> DEFINE s == session[a]
           D == trail.decisions
           d == [choice |-> s.choice, since |-> s.since]
<1>1. s \in Session /\ file \in CaseRow /\ trail \in Trail
  BY DEF CaseInv, CaseTypeOK
<1>2. d \in Decision /\ D \in Seq(Decision) /\ Len(D) \in Nat
  BY <1>1 DEF Session, Trail, Decision
<1>3. trail'.decisions = Append(D, d)
  BY <1>1 DEF CommitDisposition, Trail
<1>4. /\ Len(trail'.decisions) = Len(D) + 1 /\ DOMAIN D = 1..Len(D)
      /\ DOMAIN trail'.decisions = 1..(Len(D) + 1)
      /\ \A j \in 1..Len(D) : trail'.decisions[j] = D[j]
      /\ trail'.decisions[Len(D) + 1] = d
  BY <1>2, <1>3
<1>5. /\ session'[a].pc # "decide"
      /\ \A b \in Analysts \ {a} : session'[b] = session[b]
  BY SessionEndsInv DEF CommitDisposition
<1>6. PICK i \in 0..Len(D) : InForce(i) /\ \A b \in Analysts : NoneMissed(i, session[b])
  BY DEF CaseInv, Decided
<1>7. s.since \in Nat /\ s.since <= Len(D)
      /\ (s.since >= i => s.row.disposition = file.disposition)
  <2>1. s.since \in Nat
    BY <1>1 DEF Session
  <2>2. s.pc = "decide" /\ NoneMissed(i, s)
    BY <1>6 DEF CommitDisposition
  <2> QED BY <2>1, <2>2 DEF NoneMissed
<1>8. ASSUME NEW j \in 1..Len(D) PROVE D[j].since \in Nat /\ D[j].since < j
  <2>1. D[j] \in Decision
    BY <1>2
  <2> QED BY <1>4, <2>1 DEF Decision, CaseInv, Ordered
<1>11. Ordered'
  <2>1. ASSUME NEW j \in 1..(Len(D) + 1) PROVE trail'.decisions[j].since < j
    <3>1. CASE j = Len(D) + 1
      BY <1>2, <1>4, <1>7, <3>1
    <3>2. CASE j # Len(D) + 1
      <4>1. j \in 1..Len(D)
        BY <1>2, <3>2
      <4> QED BY <1>4, <1>8, <4>1
    <3> QED BY <3>1, <3>2
  <2> QED BY <1>4, <2>1 DEF Ordered
<1>9. CASE s.choice = s.row.disposition
  <2>1. file' = file
    BY <1>9 DEF CommitDisposition
  <2>2. InForce(i)'
    <3>1. ASSUME NEW j \in 1..(Len(D) + 1), trail'.decisions[j].choice # file.disposition
          PROVE  trail'.decisions[j].since < i
      <4>1. CASE j = Len(D) + 1
        BY <1>2, <1>4, <1>7, <1>9, <3>1, <4>1
      <4>2. CASE j \in 1..Len(D)
        BY <1>4, <1>6, <3>1, <4>2 DEF InForce
      <4> QED BY <1>2, <4>1, <4>2
    <3>2. file.disposition = IF i = 0 THEN "UNSET" ELSE trail'.decisions[i].choice
      BY <1>2, <1>4, <1>6 DEF InForce
    <3> QED BY <1>4, <2>1, <3>1, <3>2 DEF InForce
  <2>3. ASSUME NEW b \in Analysts PROVE NoneMissed(i, session[b])'
    <3>1. CASE b = a
      BY <1>5, <3>1 DEF NoneMissed
    <3>2. CASE b # a
      <4>1. session[b] \in Session /\ session'[b] = session[b] /\ NoneMissed(i, session[b])
        BY <1>5, <1>6, <3>2 DEF CaseInv, CaseTypeOK
      <4>2. session[b].since \in Nat
        BY <4>1 DEF Session
      <4> QED BY <1>2, <1>4, <2>1, <4>1, <4>2 DEF NoneMissed
    <3> QED BY <3>1, <3>2
  <2>4. i \in 0..Len(trail'.decisions)
    BY <1>2, <1>4
  <2> QED BY <1>11, <2>2, <2>3, <2>4 DEF Decided
<1>10. CASE s.choice # s.row.disposition
  <2>0. PICK n \in Nat : n = Len(D) + 1
    BY <1>2
  <2>1. file'.disposition = s.choice
    <3>1. file' = [evidence |-> file.evidence, disposition |-> s.choice]
      BY <1>10 DEF CommitDisposition
    <3> QED BY <3>1
  <2>2. InForce(n)'
    <3>1. ASSUME NEW j \in 1..n, trail'.decisions[j].choice # s.choice
          PROVE  trail'.decisions[j].since < n
      <4>1. j # n
        BY <1>4, <2>0, <3>1
      <4>2. j \in 1..Len(D) /\ trail'.decisions[j] = D[j]
        BY <1>2, <1>4, <2>0, <4>1
      <4> QED BY <1>2, <1>8, <2>0, <4>2
    <3>2. s.choice = trail'.decisions[n].choice /\ n # 0
      BY <1>2, <1>4, <2>0
    <3>3. file'.disposition = IF n = 0 THEN "UNSET" ELSE trail'.decisions[n].choice
      BY <2>1, <3>2
    <3>4. \A j \in 1..n : trail'.decisions[j].choice # file'.disposition =>
                          trail'.decisions[j].since < n
      BY <2>1, <3>1
    <3>5. DOMAIN trail'.decisions = 1..n
      BY <1>4, <2>0
    <3> QED BY <3>3, <3>4, <3>5 DEF InForce
  <2>3. ASSUME NEW b \in Analysts PROVE NoneMissed(n, session[b])'
    <3>1. CASE b = a
      BY <1>5, <3>1 DEF NoneMissed
    <3>2. CASE b # a
      <4>1. session[b] \in Session /\ session'[b] = session[b] /\ NoneMissed(i, session[b])
        BY <1>5, <1>6, <3>2 DEF CaseInv, CaseTypeOK
      <4>2. session[b].since \in Nat
        BY <4>1 DEF Session
      <4>3. session[b].pc = "decide" => session[b].since <= Len(D)
        BY <4>1 DEF NoneMissed
      <4>4. session[b].pc = "decide" =>
              session[b].since <= Len(trail'.decisions) /\ ~(session[b].since >= n)
        BY <1>2, <1>4, <2>0, <4>2, <4>3
      <4> QED BY <4>1, <4>4 DEF NoneMissed
    <3> QED BY <3>1, <3>2
  <2>4. n \in 0..Len(trail'.decisions)
    BY <1>4, <2>0
  <2> QED BY <1>11, <2>2, <2>3, <2>4 DEF Decided
<1> QED BY <1>9, <1>10, <1>11

LEMMA DispositionCommits ==
  ASSUME CaseInv, NEW a \in Analysts, CommitDisposition(a)
  PROVE  CaseInv'
<1> DEFINE s == session[a]
<1>1. s \in Session /\ file \in CaseRow /\ trail \in Trail
  BY DEF CaseInv, CaseTypeOK
<1>2. s.choice \in Dispositions /\ s.since \in Nat
  BY <1>1 DEF Session
<1>3. file' \in CaseRow /\ file'.evidence = file.evidence
  BY <1>1, <1>2 DEF CommitDisposition, CaseRow
<1>4. /\ trail' = [trail EXCEPT !.decisions =
                     Append(@, [choice |-> s.choice, since |-> s.since])]
      /\ UNCHANGED <<desk, enricher, purged, dropped>> /\ Ends(a)
  BY DEF CommitDisposition
<1>5. trail' \in Trail /\ trail'.marked = trail.marked /\ trail'.noted = trail.noted
  <2> DEFINE d == [choice |-> s.choice, since |-> s.since]
  <2>1. d \in Decision /\ trail.decisions \in Seq(Decision)
    BY <1>1, <1>2 DEF Trail, Decision
  <2>2. Append(trail.decisions, d) \in Seq(Decision)
    BY <2>1
  <2>3. trail' = [trail EXCEPT !.decisions = Append(trail.decisions, d)]
    BY <1>4
  <2> HIDE DEF d
  <2> QED BY <1>1, <2>2, <2>3 DEF Trail
<1>6. session' \in [Analysts -> Session] /\ SessionsKnow'
  BY <1>3, <1>4, SessionEndsInv DEF Known
<1>7. Counted'
  BY <1>4, <1>5 DEF CaseInv, Counted
<1> QED BY <1>3, <1>4, <1>5, <1>6, <1>7, DecidedAnew
        DEF CaseInv, CaseTypeOK, Known, EnricherKnows

-----------------------------------------------------------------------------
LEMMA AskLoads ==
  ASSUME CaseInv, NEW a \in Analysts, NEW pc \in {"ask", "local"}, LoadForAsk(a, pc)
  PROVE  CaseInv'
<1> DEFINE row == [evidence |-> file.evidence, disposition |-> "UNSET"]
<1>1. row \in CaseRow /\ {} \in SUBSET CaseEvents /\ "UNSET" \in Dispositions
  BY CaseAssumption DEF CaseInv, CaseTypeOK, CaseRow
<1> QED BY <1>1, WorkingKnows, OneSession DEF LoadForAsk, Known

LEMMA AskAgain ==
  ASSUME CaseInv, NEW a \in Analysts, ExternalFails(a)
  PROVE  CaseInv'
<1>1. /\ session[a] \in Session /\ SessionKnows(session[a])
      /\ session[a].pc \in {"ask", "again"}
  BY DEF CaseInv, CaseTypeOK, SessionsKnow, ExternalFails
<1>2. /\ session[a].row \in CaseRow /\ session[a].row.evidence \subseteq Known
      /\ {} \in SUBSET CaseEvents /\ "UNSET" \in Dispositions
  BY <1>1, CaseAssumption DEF Session, SessionKnows
<1>3. (IF session[a].pc = "ask" THEN "again" ELSE "local") \in {"again", "local"}
  OBVIOUS
<1> QED BY <1>2, <1>3, WorkingKnows, OneSession DEF ExternalFails

\* An answer that cites what the case has.
LEMMA AnswerInv ==
  ASSUME CaseInv, NEW a \in Analysts, NEW cites \in SUBSET CaseEvents,
         NEW mode \in {"openai", "local"}, Answered(a, mode, cites),
         session[a].pc \in {"ask", "again", "local"},
         cites \subseteq session[a].row.evidence,
         mode = "openai" => cites # {},
         UNCHANGED <<file, desk, trail, enricher, purged, dropped>>
  PROVE  CaseInv'
<1> DEFINE valid == validate_structure(cites, session[a].row.evidence)
           s == [ pc |-> "answered", row |-> NoCase, cites |-> cites, choice |-> "UNSET",
                  since |-> 0, mode |-> mode, validated |-> valid ]
<1>1. cites \subseteq Known
  BY DEF CaseInv, SessionsKnow, SessionKnows
<1>2. valid \in BOOLEAN /\ (valid <=> cites # {})
  BY DEF validate_structure
<1>3. NoCase \in CaseRow /\ "UNSET" \in Dispositions
  BY CaseAssumption DEF NoCase, CaseRow
<1>4. Goto(a, s)
  BY DEF Answered
<1> HIDE DEF valid
<1>5. s \in Session /\ SessionKnows(s) /\ s.pc # "decide"
  BY <1>1, <1>2, <1>3 DEF Session, SessionKnows
<1> QED BY <1>4, <1>5, OneSession

LEMMA AnswersInv ==
  ASSUME CaseInv, NEW a \in Analysts, NEW cites \in SUBSET CaseEvents,
         ExternalAnswer(a, cites) \/ LocalAnswer(a, cites)
  PROVE  CaseInv'
<1>1. CASE ExternalAnswer(a, cites)
  BY <1>1, AnswerInv DEF ExternalAnswer, validate_structure
<1>2. CASE LocalAnswer(a, cites)
  BY <1>2, AnswerInv DEF LocalAnswer
<1> QED BY <1>1, <1>2

LEMMA RequestEndsInv ==
  ASSUME CaseInv, NEW a \in Analysts, RequestEnds(a)
  PROVE  CaseInv'
  BY NoSessionType, OneSession DEF RequestEnds, Ends, SessionKnows

-----------------------------------------------------------------------------
\* An enrichment has loaded the case as it is, or is over.
LEMMA EnrichmentLoads ==
  ASSUME CaseInv, NEW w \in Enrichers, LoadToEnrich(w) \/ EnrichmentGone(w)
  PROVE  CaseInv'
<1>0. NoCase \in CaseRow /\ file \in CaseRow /\ enricher \in [Enrichers -> Enricher]
  BY CaseAssumption DEF NoCase, CaseRow, CaseInv, CaseTypeOK
<1>1. UNCHANGED <<file, desk, trail, session, purged, dropped>>
  BY DEF LoadToEnrich, EnrichmentGone
<1>2. \E r \in Enricher : enricher' = [enricher EXCEPT ![w] = r] /\ (r.busy => r.row = file)
  <2>1. CASE LoadToEnrich(w)
    <3> DEFINE r == [busy |-> TRUE, row |-> file, overtaken |-> FALSE]
    <3>1. r \in Enricher /\ r.row = file
      BY <1>0 DEF Enricher
    <3>2. enricher' = [enricher EXCEPT ![w] = r]
      BY <2>1 DEF LoadToEnrich
    <3> QED BY <3>1, <3>2
  <2>2. CASE EnrichmentGone(w)
    <3>1. NoEnricher \in Enricher /\ ~NoEnricher.busy
      BY <1>0 DEF Enricher, NoEnricher
    <3>2. enricher' = [enricher EXCEPT ![w] = NoEnricher]
      BY <2>2 DEF EnrichmentGone
    <3> QED BY <3>1, <3>2
  <2> QED BY <2>1, <2>2
<1>3. enricher' \in [Enrichers -> Enricher] /\ EnricherKnows'
  BY <1>0, <1>1, <1>2 DEF CaseInv, EnricherKnows
<1>4. SessionsKnow' /\ Decided'
  BY <1>1, KnownGrows, DecidedStays DEF CaseInv, Known
<1> QED BY <1>1, <1>3, <1>4 DEF CaseInv, CaseTypeOK, Known, Counted, Ordered

LEMMA EnrichmentCommits ==
  ASSUME CaseInv, NEW w \in Enrichers, NEW batch \in SUBSET CaseEvents,
         NEW gone \in SUBSET purged, CommitEnrichment(w, batch, gone)
  PROVE  CaseInv'
<1> DEFINE loaded == enricher[w].row.evidence
           found  == (loaded \ gone) \cup batch
<1>1. /\ file \in CaseRow /\ enricher \in [Enrichers -> Enricher]
      /\ enricher[w].busy /\ enricher[w] \in Enricher /\ dropped \subseteq CaseEvents
  BY DEF CaseInv, CaseTypeOK, CommitEnrichment
<1>2. PICK evidence \in {found, IF found = loaded THEN file.evidence ELSE found} :
        /\ file' = [evidence |-> evidence, disposition |-> file.disposition]
        /\ Enriches(w, evidence)
  BY DEF CommitEnrichment
<1>3. evidence \subseteq CaseEvents
  BY <1>1 DEF Enricher, CaseRow
<1>4. /\ file' \in CaseRow /\ file'.disposition = file.disposition
      /\ file'.evidence = evidence
  BY <1>1, <1>2, <1>3 DEF CaseRow
<1>5. /\ dropped' = (IF enricher[w].overtaken THEN dropped \cup file.evidence ELSE dropped)
                    \ evidence
      /\ UNCHANGED <<desk, trail, session, purged>>
  BY <1>2 DEF Enriches
<1>6. ~enricher[w].overtaken => file.evidence \ gone \subseteq evidence
  BY <1>1 DEF CaseInv, EnricherKnows
<1>7. Known \subseteq Known' /\ dropped' \subseteq CaseEvents
  <2>1. ASSUME NEW e \in Known PROVE e \in evidence \cup purged' \cup dropped'
    BY <1>5, <1>6, <2>1 DEF Known
  <2>2. dropped' \subseteq CaseEvents
    BY <1>1, <1>5 DEF CaseRow
  <2> QED BY <1>4, <2>1, <2>2 DEF Known
<1>8. NoEnricher \in Enricher /\ ~NoEnricher.busy
  BY CaseAssumption DEF NoEnricher, Enricher, NoCase, CaseRow
<1>9. ASSUME NEW v \in Enrichers
      PROVE  enricher'[v] \in Enricher /\ (enricher'[v].busy => enricher'[v].overtaken)
  <2>1. enricher'[v] = IF v = w \/ ~enricher[v].busy THEN NoEnricher
                       ELSE [enricher[v] EXCEPT !.overtaken = TRUE]
    BY <1>2 DEF Enriches
  <2>2. enricher[v] \in Enricher
    BY <1>1
  <2>3. CASE v = w \/ ~enricher[v].busy
    BY <1>8, <2>1, <2>3
  <2>4. CASE ~(v = w \/ ~enricher[v].busy)
    BY <2>1, <2>2, <2>4 DEF Enricher
  <2> QED BY <2>3, <2>4
<1>10. enricher' \in [Enrichers -> Enricher] /\ EnricherKnows'
  <2>1. DOMAIN enricher' = Enrichers /\ enricher' = [v \in Enrichers |-> enricher'[v]]
    BY <1>2 DEF Enriches
  <2> QED BY <1>9, <2>1 DEF EnricherKnows
<1>11. SessionsKnow' /\ Decided'
  BY <1>4, <1>5, <1>7, KnownGrows, DecidedStays DEF CaseInv
<1> QED BY <1>4, <1>5, <1>7, <1>10, <1>11 DEF CaseInv, CaseTypeOK, Counted, Ordered

LEMMA PurgeInv ==
  ASSUME CaseInv, NEW e \in Aged, Purge(e)
  PROVE  CaseInv'
<1>1. /\ purged' = purged \cup {e} /\ purged \subseteq Aged
      /\ UNCHANGED <<file, desk, trail, session, enricher, dropped>>
  BY DEF Purge, CaseInv, CaseTypeOK
<1>2. Known \subseteq Known'
  BY <1>1 DEF Known
<1>3. SessionsKnow' /\ Decided'
  BY <1>1, <1>2, KnownGrows, DecidedStays DEF CaseInv
<1> QED BY <1>1, <1>2, <1>3 DEF CaseInv, CaseTypeOK, EnricherKnows, Counted, Ordered

LEMMA CaseNextInv == CaseInv /\ [CaseNext]_caseVars => CaseInv'
<1> SUFFICES ASSUME CaseInv, [CaseNext]_caseVars PROVE CaseInv'
  OBVIOUS
<1>1. ASSUME NEW a \in Analysts,
             \/ AddNote(a)
             \/ \E e \in CaseEvents : LoadForBookmark(a, e)
             \/ LookForBookmark(a)
             \/ InsertBookmark(a)
             \/ \E choice \in Dispositions : LoadForDisposition(a, choice)
             \/ CommitDisposition(a)
      PROVE  CaseInv'
  BY <1>1, NotesInv, BookmarkLoads, BookmarkInserts, DispositionLoads, DispositionCommits
<1>2. ASSUME NEW a \in Analysts,
             \/ \E pc \in {"ask", "local"} : LoadForAsk(a, pc)
             \/ \E cites \in SUBSET CaseEvents :
                  ExternalAnswer(a, cites) \/ LocalAnswer(a, cites)
             \/ ExternalFails(a)
             \/ RequestEnds(a)
      PROVE  CaseInv'
  BY <1>2, AskLoads, AnswersInv, AskAgain, RequestEndsInv
<1>3. CASE UNCHANGED caseVars
  <2>1. UNCHANGED <<file, desk, trail, session, enricher, purged, dropped>>
    BY <1>3 DEF caseVars
  <2>2. SessionsKnow' /\ Decided'
    BY <2>1, KnownGrows, DecidedStays DEF CaseInv, Known
  <2> QED BY <2>1, <2>2 DEF CaseInv, CaseTypeOK, Known, EnricherKnows, Counted, Ordered
<1> QED
  BY <1>1, <1>2, <1>3, EnrichmentLoads, EnrichmentCommits, PurgeInv DEF CaseNext

LEMMA CaseInvariant == CaseSpec => []CaseInv
  BY CaseInitInv, CaseNextInv, PTL DEF CaseSpec

\* However requests and enrichments overlap, bookmarks and answers cite what the
\* case has, or had until retention deleted it or an enrichment that was overtaken
\* dropped it.
THEOREM CitationsStand == CaseSpec => []CitesTheCase
<1>1. CaseInv => CitesTheCase
  BY DEF CaseInv, CitesTheCase, SessionsKnow, SessionKnows, Known
<1> QED BY <1>1, CaseInvariant, PTL

\* The audit trail has exactly the bookmarks and notes there are, and names the
\* disposition in force; whoever has since asked for another one had begun before
\* that was committed.
THEOREM TrailIsAlwaysExact == CaseSpec => []TrailIsExact
<1>1. CaseInv => TrailIsExact
  BY DEF CaseInv, Counted, Decided, TrailIsExact
<1> QED BY <1>1, CaseInvariant, PTL
=============================================================================
