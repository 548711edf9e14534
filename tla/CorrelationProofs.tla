-------------------------- MODULE CorrelationProofs --------------------------
(***************************************************************************)
(* Theorems of Correlation, for any telemetry, detection, grouping,        *)
(* batches, number of pipelines and interleaving of their transactions.    *)
(* Each section strengthens the inductive invariant of the one before it:  *)
(*   IInv  cases stand on stored evidence,                                 *)
(*   EInv  evidence is kept,                                               *)
(*   GInv  groups have cases, and findings follow from history,            *)
(*   TInv  rows are well formed,                                           *)
(*   CInv  fingerprints are free,                                          *)
(*   RInv  a batch that is run again changes nothing.                      *)
(***************************************************************************)
EXTENDS Correlation, OrderLemmas, TLAPS

-----------------------------------------------------------------------------
(* The inductive invariant. *)

Grounded(S, known, F) == S \subseteq known /\ Cardinality(FlagsOf(S, F)) >= 2
OfFlags(F) == \A f \in F : f[2] \in Flags

\* What the steps of a transaction keep true of it: what it enriches or opens, and
\* what it has still to deal with, stands on what it will have committed.
Sound(t) ==
  /\ t = Transaction(t.pc, t.batch, t.new, t.found, t.todo, t.base, t.view, t.flushed, t.fresh)
  /\ t.batch \subseteq Events /\ t.new \subseteq Events /\ OfFlags(t.found)
  /\ t.pc \in {"insert", "detect"} => t.todo = {} /\ DOMAIN t.view = {}
  /\ DOMAIN t.flushed \subseteq DOMAIN t.view /\ DOMAIN t.base \subseteq DOMAIN cases
  /\ \A g \in t.todo :
       g.findings \subseteq findings \cup t.found
       /\ Grounded(g.events, stored \cup t.new, g.findings)
  /\ \A i \in DOMAIN t.view :
       Grounded(t.view[i].events, stored \cup t.new, findings \cup t.found)

CasesGrounded == \A i \in DOMAIN cases : Grounded(cases[i].events, stored, findings)

IInv ==
  /\ stored \subseteq Events /\ OfFlags(findings) /\ CasesGrounded
  /\ pipe = [p \in Pipelines |-> pipe[p]]
  /\ \A p \in Pipelines : Sound(pipe[p])

-----------------------------------------------------------------------------
(* Flags are finitely many, so more evidence and findings never ground less. *)

LEMMA FlagsFinite == IsFiniteSet(Flags)
<1> DEFINE A == {"IMPOSSIBLE_TRAVEL"} \cup {"MFA_FATIGUE"} \cup {"NEW_DEVICE"}
           B == {"SUSPICIOUS_POWERSHELL"} \cup {"CREDENTIAL_ACCESS"} \cup {"KNOWN_MALICIOUS_IP"}
           C == {"UNUSUAL_EGRESS"} \cup {"SENSITIVE_RESOURCE_ACCESS"} \cup {"MASS_DOWNLOAD"}
           D == {"DATA_EXFILTRATION"} \cup {"OTHER"}
<1>1. \A x : IsFiniteSet({x})
  BY FS_Singleton
<1>2. \A S, T : IsFiniteSet(S) /\ IsFiniteSet(T) => IsFiniteSet(S \cup T)
  BY FS_Union
<1>3. IsFiniteSet(A) /\ IsFiniteSet(B) /\ IsFiniteSet(C) /\ IsFiniteSet(D)
  BY <1>1, <1>2
<1>4. Flags = (A \cup B) \cup (C \cup D)
  BY DEF Flags
<1> HIDE DEF A, B, C, D
<1> QED BY <1>2, <1>3, <1>4

LEMMA GroundedGrows ==
  ASSUME NEW S, NEW S2, NEW known, NEW known2, NEW F, NEW F2,
         Grounded(S, known, F), S \subseteq S2, S2 \subseteq known2, F \subseteq F2, OfFlags(F2)
  PROVE  Grounded(S2, known2, F2)
<1>1. FlagsOf(S, F) \subseteq FlagsOf(S2, F2) /\ FlagsOf(S2, F2) \subseteq Flags
  BY DEF FlagsOf, OfFlags
<1>2. IsFiniteSet(FlagsOf(S2, F2)) /\ IsFiniteSet(FlagsOf(S, F))
  BY <1>1, FlagsFinite, FS_Subset
<1>3. Cardinality(FlagsOf(S, F)) <= Cardinality(FlagsOf(S2, F2))
  BY <1>1, <1>2, FS_Subset
<1>4. Cardinality(FlagsOf(S, F)) \in Nat /\ Cardinality(FlagsOf(S2, F2)) \in Nat
  BY <1>2, FS_CardinalityType
<1> QED BY <1>3, <1>4 DEF Grounded

LEMMA GroundedStays ==
  ASSUME NEW S, NEW known, NEW known2, NEW F, NEW F2,
         Grounded(S, known, F), known \subseteq known2, F \subseteq F2, OfFlags(F2)
  PROVE  Grounded(S, known2, F2)
<1>1. S \subseteq known2
  BY DEF Grounded
<1> QED BY <1>1, GroundedGrows

-----------------------------------------------------------------------------
(* Steps inside a transaction. *)

LEMMA IdleIsSound == Sound(Idle)
  BY DEF Sound, Idle, Transaction, NoCases, OfFlags

LEMMA LocalStep ==
  ASSUME IInv, NEW p \in Pipelines, NEW t, Sound(t), Moves(p, t),
         UNCHANGED <<stored, findings, cases>>
  PROVE  IInv'
<1>1. \A q \in Pipelines : Sound(pipe'[q])
  BY DEF IInv, Moves
<1>2. \A q \in Pipelines : Sound(pipe[q])'
  BY <1>1 DEF Sound, Grounded
<1>3. pipe' = [q \in Pipelines |-> pipe'[q]]
  BY DEF IInv, Moves
<1> QED BY <1>2, <1>3 DEF IInv, CasesGrounded, Grounded

LEMMA RollBackStep ==
  ASSUME IInv, NEW p \in Pipelines, RollsBack(p)
  PROVE  IInv'
  BY IdleIsSound, LocalStep DEF RollsBack

LEMMA BeginStep ==
  ASSUME IInv, NEW p \in Pipelines, NEW batch \in Batches, Begin(p, batch)
  PROVE  IInv'
<1> DEFINE t == Transaction("insert", batch, batch \ stored, {}, {}, NoCases, NoCases, NoCases, TRUE)
<1>1. batch \subseteq Events
  BY BatchesAssumption
<1>2. Sound(t)
  BY <1>1 DEF Sound, Transaction, NoCases, OfFlags
<1> QED BY <1>2, LocalStep DEF Begin

\* A step that only moves the program counter.
LEMMA Advanced ==
  ASSUME NEW t, Sound(t), t.pc = "insert"
  PROVE  Sound([t EXCEPT !.pc = "detect"])
<1> DEFINE u == Transaction("detect", t.batch, t.new, t.found, t.todo, t.base, t.view, t.flushed, t.fresh)
<1>1. [t EXCEPT !.pc = "detect"] = u
  BY DEF Sound, Transaction
<1>2. /\ u.batch = t.batch /\ u.new = t.new /\ u.found = t.found /\ u.todo = t.todo
      /\ u.base = t.base /\ u.view = t.view /\ u.flushed = t.flushed
      /\ u = Transaction(u.pc, u.batch, u.new, u.found, u.todo, u.base, u.view, u.flushed, u.fresh)
  BY DEF Transaction
<1> HIDE DEF u
<1>3. Sound(u)
  BY <1>2 DEF Sound
<1> QED BY <1>1, <1>3

LEMMA InsertStep ==
  ASSUME IInv, NEW p \in Pipelines, Insert(p)
  PROVE  IInv'
<1>1. CASE Moves(p, [pipe[p] EXCEPT !.pc = "detect"]) /\ UNCHANGED <<stored, findings, cases, last>>
  <2>1. Sound([pipe[p] EXCEPT !.pc = "detect"])
    BY Advanced DEF IInv, Insert
  <2> QED BY <1>1, <2>1, LocalStep
<1>2. CASE RollsBack(p)
  BY <1>2, RollBackStep
<1> QED BY <1>1, <1>2 DEF Insert

LEMMA DetectStep ==
  ASSUME IInv, NEW p \in Pipelines, Detect(p)
  PROVE  IInv'
<1> DEFINE t == pipe[p]
           found == run_detection(Context(p) \cup t.batch) \ findings
           u == Found(t, found)
<1>1. Sound(t) /\ t.todo = {} /\ DOMAIN t.view = {}
  BY DEF IInv, Sound, Detect
<1>2. OfFlags(found)
  BY DEF OfFlags, run_detection
<1> HIDE DEF found
<1>3. /\ u.batch = t.batch /\ u.new = t.new /\ u.found = found /\ u.todo = {}
      /\ u.base = t.base /\ u.view = t.view /\ u.flushed = t.flushed /\ u.pc = "gather"
      /\ u = Transaction(u.pc, u.batch, u.new, u.found, u.todo, u.base, u.view, u.flushed, u.fresh)
  BY <1>1 DEF Found, Transaction
<1> HIDE DEF u
<1>4. Sound(u)
  BY <1>1, <1>2, <1>3 DEF Sound
<1>5. Moves(p, u) /\ UNCHANGED <<stored, findings, cases>>
  BY DEF Detect, u, found
<1> QED BY <1>4, <1>5, LocalStep

\* A transaction that goes on correlating, with sound groups and objects.
LEMMA Correlates ==
  ASSUME IInv, NEW p \in Pipelines, NEW todo, NEW base, NEW view, NEW flushed,
         Moves(p, Correlating(pipe[p], todo, base, view, flushed)),
         UNCHANGED <<stored, findings, cases>>,
         DOMAIN flushed \subseteq DOMAIN view, DOMAIN base \subseteq DOMAIN cases,
         \A g \in todo : g.findings \subseteq Known(p) /\ Grounded(g.events, Seen(p), g.findings),
         \A i \in DOMAIN view : Grounded(view[i].events, Seen(p), Known(p))
  PROVE  IInv'
<1> DEFINE t == pipe[p]
           u == Correlating(t, todo, base, view, flushed)
<1>1. Sound(t)
  BY DEF IInv
<1>2. /\ u.batch = t.batch /\ u.new = t.new /\ u.found = t.found /\ u.todo = todo
      /\ u.base = base /\ u.view = view /\ u.flushed = flushed /\ u.pc = "correlate"
      /\ u = Transaction(u.pc, u.batch, u.new, u.found, u.todo, u.base, u.view, u.flushed, u.fresh)
  BY DEF Correlating, Transaction
<1> HIDE DEF u
<1>3. Sound(u)
  BY <1>1, <1>2 DEF Sound, Seen, Known
<1>4. Moves(p, u)
  BY DEF u
<1> QED BY <1>3, <1>4, LocalStep

LEMMA KnownOfFlags ==
  ASSUME IInv, NEW p \in Pipelines
  PROVE  OfFlags(Known(p)) /\ Seen(p) \subseteq Events
  BY DEF IInv, Sound, OfFlags, Known, Seen

LEMMA GatherStep ==
  ASSUME IInv, NEW p \in Pipelines, Gather(p)
  PROVE  IInv'
<1> DEFINE todo == {[events |-> g, findings |-> {f \in Known(p) : f[1] \in g}] : g \in CaseGroups(p)}
<1>1. Candidates(p) \in SUBSET Events /\ Candidates(p) \subseteq Seen(p)
  BY KnownOfFlags DEF Candidates
<1>2. \A g \in CaseGroups(p) : g \subseteq Seen(p) /\ Cardinality(FlagsOf(g, Known(p))) >= 2
  BY <1>1, DataAssumption DEF CaseGroups
<1>3. \A g : FlagsOf(g, {f \in Known(p) : f[1] \in g}) = FlagsOf(g, Known(p))
  BY DEF FlagsOf
<1>4. \A g \in todo : g.findings \subseteq Known(p) /\ Grounded(g.events, Seen(p), g.findings)
  BY <1>2, <1>3 DEF Grounded
<1>5. DOMAIN NoCases = {}
  BY DEF NoCases
<1> HIDE DEF todo
<1> QED
  <2>1. Moves(p, Correlating(pipe[p], todo, NoCases, NoCases, NoCases))
    BY DEF Gather, todo
  <2> QED BY <1>4, <1>5, <2>1, Correlates DEF Gather

\* Rows put into a table.
LEMMA WithIs ==
  ASSUME NEW f, NEW i, NEW row
  PROVE  /\ DOMAIN With(f, i, row) = DOMAIN f \cup {i}
         /\ With(f, i, row)[i] = row
         /\ \A j \in DOMAIN f \ {i} : With(f, i, row)[j] = f[j]
  BY DEF With, Over

LEMMA EnrichStep ==
  ASSUME IInv, NEW p \in Pipelines, NEW g \in pipe[p].todo, NEW i \in CaseIds, Enrich(p, g, i)
  PROVE  IInv'
<1> DEFINE t == pipe[p]
           view == With(t.view, i, Enriched(p, i, g))
           base == IF i \in DOMAIN t.view THEN t.base ELSE With(t.base, i, Rows(p)[i])
<1>1. Sound(t) /\ OfFlags(Known(p))
  BY KnownOfFlags DEF IInv
<1>2. g.findings \subseteq Known(p) /\ Grounded(g.events, Seen(p), g.findings)
  BY <1>1 DEF Sound, Known, Seen
<1>3. Grounded(Enriched(p, i, g).events, Seen(p), Known(p))
  <2> DEFINE all == {e \in Object(p, i).events : e \in Seen(p)} \cup g.events
  <2>1. Enriched(p, i, g).events = all
    BY DEF Enriched, Case
  <2>2. g.events \subseteq all /\ all \subseteq Seen(p)
    BY <1>2 DEF Grounded
  <2> QED BY <1>1, <1>2, <2>1, <2>2, GroundedGrows
<1>4. \A j \in DOMAIN view : Grounded(view[j].events, Seen(p), Known(p))
  <2>1. DOMAIN view = DOMAIN t.view \cup {i}
    BY WithIs
  <2>3. view[i] = Enriched(p, i, g)
    BY DEF With, Over
  <2>4. ASSUME NEW j \in DOMAIN t.view \ {i} PROVE view[j] = t.view[j]
    BY DEF With, Over
  <2>2. \A j \in DOMAIN t.view : Grounded(t.view[j].events, Seen(p), Known(p))
    BY <1>1 DEF Sound, Seen, Known
  <2> HIDE DEF view
  <2> QED BY <1>3, <2>1, <2>2, <2>3, <2>4
<1>5. DOMAIN t.flushed \subseteq DOMAIN view
  <2>1. DOMAIN view = DOMAIN t.view \cup {i}
    BY WithIs
  <2> HIDE DEF view
  <2> QED BY <1>1, <2>1 DEF Sound
<1>6. DOMAIN base \subseteq DOMAIN cases
  <2>1. i \in DOMAIN t.flushed \cup DOMAIN cases
    BY DEF Enrich, Existing, ByFingerprint, ByEvidence, Rows, Over
  <2>2. DOMAIN t.base \subseteq DOMAIN cases /\ DOMAIN t.flushed \subseteq DOMAIN t.view
    BY <1>1 DEF Sound
  <2>3. DOMAIN base = IF i \in DOMAIN t.view THEN DOMAIN t.base ELSE DOMAIN t.base \cup {i}
    BY WithIs
  <2> HIDE DEF base
  <2> QED BY <2>1, <2>2, <2>3
<1>7. \A h \in t.todo \ {g} :
        h.findings \subseteq Known(p) /\ Grounded(h.events, Seen(p), h.findings)
  BY <1>1 DEF Sound, Known, Seen
<1> HIDE DEF view, base
<1>8. /\ Moves(p, Correlating(t, t.todo \ {g}, base, view, t.flushed))
      /\ UNCHANGED <<stored, findings, cases>>
  BY DEF Enrich, view, base
<1> QED BY <1>4, <1>5, <1>6, <1>7, <1>8, Correlates

LEMMA OpenStep ==
  ASSUME IInv, NEW p \in Pipelines, NEW g \in pipe[p].todo, Open(p, g)
  PROVE  IInv'
<1> DEFINE t == pipe[p]
           view == WithOpened(p, g)
           flushed == Pending(p, g)
<1>1. Sound(t) /\ OfFlags(Known(p))
  BY KnownOfFlags DEF IInv
<1>2. g.findings \subseteq Known(p) /\ Grounded(g.events, Seen(p), g.findings)
  BY <1>1 DEF Sound, Known, Seen
<1>3. Grounded(Opened(p, g).events, Seen(p), Known(p))
  <2>1. Opened(p, g).events = g.events
    BY DEF Opened, Case
  <2> QED BY <1>1, <1>2, <2>1, GroundedGrows DEF Grounded
<1>4. \A j \in DOMAIN view : Grounded(view[j].events, Seen(p), Known(p))
  <2> DEFINE i == CHOOSE i \in FreeIds : TRUE
  <2>1. view = With(t.view, i, Opened(p, g))
    BY DEF WithOpened
  <2> HIDE DEF i, view
  <2>2. DOMAIN view = DOMAIN t.view \cup {i}
    BY <2>1, WithIs
  <2>3. view[i] = Opened(p, g)
    BY <2>1 DEF With, Over
  <2>4. ASSUME NEW j \in DOMAIN t.view \ {i} PROVE view[j] = t.view[j]
    BY <2>1 DEF With, Over
  <2>5. \A j \in DOMAIN t.view : Grounded(t.view[j].events, Seen(p), Known(p))
    BY <1>1 DEF Sound, Seen, Known
  <2> QED BY <1>3, <2>2, <2>3, <2>4, <2>5
<1>5. DOMAIN flushed \subseteq DOMAIN view
  BY DEF Pending, Writes
<1>6. DOMAIN t.base \subseteq DOMAIN cases
  BY <1>1 DEF Sound
<1>7. \A h \in t.todo \ {g} :
        h.findings \subseteq Known(p) /\ Grounded(h.events, Seen(p), h.findings)
  BY <1>1 DEF Sound, Known, Seen
<1> HIDE DEF view, flushed
<1>8. CASE /\ Moves(p, Correlating(t, t.todo \ {g}, t.base, view, flushed))
           /\ UNCHANGED <<stored, findings, cases>>
  BY <1>4, <1>5, <1>6, <1>7, <1>8, Correlates
<1>9. CASE RollsBack(p)
  BY <1>9, RollBackStep
<1> QED BY <1>8, <1>9 DEF Open, view, flushed

-----------------------------------------------------------------------------
(* Steps that change what is committed. *)

LEMMA Grown ==
  ASSUME NEW t, Sound(t), stored \subseteq stored', findings \subseteq findings',
         OfFlags(findings'), DOMAIN cases \subseteq DOMAIN cases'
  PROVE  Sound(t)'
<1>1. OfFlags(findings' \cup t.found) /\ OfFlags(t.found)
  BY DEF Sound, OfFlags
<1>2. \A g \in t.todo : /\ g.findings \subseteq findings' \cup t.found
                        /\ Grounded(g.events, stored' \cup t.new, g.findings)
  BY DEF Sound, Grounded
<1>3. ASSUME NEW i \in DOMAIN t.view
      PROVE  Grounded(t.view[i].events, stored' \cup t.new, findings' \cup t.found)
  <2>1. Grounded(t.view[i].events, stored \cup t.new, findings \cup t.found)
    BY DEF Sound
  <2>2. stored \cup t.new \subseteq stored' \cup t.new /\ findings \cup t.found \subseteq findings' \cup t.found
    OBVIOUS
  <2> QED BY <1>1, <2>1, <2>2, GroundedStays
<1> QED BY <1>1, <1>2, <1>3 DEF Sound

LEMMA NotFresh ==
  ASSUME NEW t, Sound(t)
  PROVE  Sound(Overtaken(t))
<1> DEFINE u == Overtaken(t)
<1>1. /\ u.batch = t.batch /\ u.new = t.new /\ u.found = t.found /\ u.todo = t.todo /\ u.pc = t.pc
      /\ u.base = t.base /\ u.view = t.view /\ u.flushed = t.flushed
      /\ u = Transaction(u.pc, u.batch, u.new, u.found, u.todo, u.base, u.view, u.flushed, u.fresh)
  BY DEF Overtaken, Transaction
<1> HIDE DEF u
<1>2. Sound(u)
  BY <1>1 DEF Sound
<1> QED BY <1>2 DEF u

\* What a flush leaves in a row is what the transaction made of the evidence, or what
\* is committed by then.
LEMMA WrittenRows ==
  ASSUME NEW p \in Pipelines, NEW i \in DOMAIN Writes(p, pipe[p].view)
  PROVE  /\ i \in DOMAIN pipe[p].view
         /\ Writes(p, pipe[p].view)[i].events = pipe[p].view[i].events
            \/ (i \in DOMAIN pipe[p].base
                /\ Writes(p, pipe[p].view)[i].events = cases[i].events)
  BY DEF Writes, Merged, Case

LEMMA CommitStep ==
  ASSUME IInv, NEW p \in Pipelines, Committed(p, Writes(p, pipe[p].view))
  PROVE  IInv'
<1> DEFINE t == pipe[p]
           rows == Writes(p, t.view)
<1>1. Sound(t) /\ OfFlags(Known(p)) /\ Seen(p) \subseteq Events
  BY KnownOfFlags DEF IInv
<1>2. /\ stored' = Seen(p) /\ findings' = Known(p) /\ cases' = Over(rows, cases)
      /\ stored \subseteq stored' /\ findings \subseteq findings' /\ OfFlags(findings')
  BY <1>1 DEF Committed, Seen, Known
<1>3. DOMAIN cases' = DOMAIN rows \cup DOMAIN cases
      /\ \A i \in DOMAIN cases' : cases'[i] = IF i \in DOMAIN rows THEN rows[i] ELSE cases[i]
  BY <1>2 DEF Over
<1>4. ASSUME NEW i \in DOMAIN cases PROVE Grounded(cases[i].events, stored', findings')
  <2>1. Grounded(cases[i].events, stored, findings)
    BY DEF IInv, CasesGrounded
  <2> QED BY <1>2, <2>1, GroundedStays
<1>5. ASSUME NEW i \in DOMAIN rows PROVE Grounded(rows[i].events, stored', findings')
  <2>1. CASE rows[i].events = t.view[i].events
    <3>1. i \in DOMAIN t.view
      BY WrittenRows
    <3>2. Grounded(t.view[i].events, Seen(p), Known(p))
      BY <1>1, <3>1 DEF Sound, Seen, Known
    <3> QED BY <1>2, <2>1, <3>2
  <2>2. CASE i \in DOMAIN t.base /\ rows[i].events = cases[i].events
    <3>1. i \in DOMAIN cases
      BY <1>1, <2>2 DEF Sound
    <3> QED BY <1>4, <2>2, <3>1
  <2> QED BY <2>1, <2>2, WrittenRows
<1> HIDE DEF rows
<1>6. CasesGrounded'
  BY <1>3, <1>4, <1>5 DEF CasesGrounded, Grounded
<1>7. ASSUME NEW q \in Pipelines PROVE Sound(pipe[q])'
  <2>1. pipe'[q] = IF q = p THEN Idle ELSE Overtaken(pipe[q])
    BY DEF Committed
  <2>2. Sound(pipe'[q])
    BY <2>1, IdleIsSound, NotFresh DEF IInv
  <2>3. ASSUME NEW u, Sound(u) PROVE Sound(u)'
    BY <2>3, <1>2, <1>3, Grown
  <2> QED BY <2>2, <2>3
<1>8. pipe' = [q \in Pipelines |-> pipe'[q]]
  BY DEF Committed
<1> QED BY <1>1, <1>2, <1>6, <1>7, <1>8 DEF IInv

LEMMA CloseStep ==
  ASSUME IInv, NEW i \in DOMAIN cases, CloseCase(i)
  PROVE  IInv'
<1>1. /\ UNCHANGED <<stored, findings, pipe>>
      /\ cases' = With(cases, i, Case(cases[i].fp, cases[i].type, "CLOSED", cases[i].events))
  BY DEF CloseCase
<1>2. DOMAIN cases' = DOMAIN cases
  BY <1>1 DEF With, Over
<1>3. ASSUME NEW j \in DOMAIN cases PROVE cases'[j].events = cases[j].events
  BY <1>1 DEF With, Over, Case
<1>4. CasesGrounded'
  BY <1>1, <1>2, <1>3 DEF IInv, CasesGrounded, Grounded
<1>5. ASSUME NEW p \in Pipelines PROVE Sound(pipe[p])'
  <2>1. Sound(pipe[p])
    BY DEF IInv
  <2> QED BY <1>1, <1>2, <2>1 DEF Sound, Grounded
<1> QED BY <1>1, <1>4, <1>5 DEF IInv

-----------------------------------------------------------------------------

LEMMA InitInvariant == Init => IInv
  BY IdleIsSound DEF Init, IInv, NoCases, CasesGrounded, OfFlags

LEMMA NextInvariant == IInv /\ [Next]_vars => IInv'
<1> SUFFICES ASSUME IInv, [Next]_vars PROVE IInv'
  OBVIOUS
<1>1. ASSUME NEW p \in Pipelines, NEW batch \in Batches, Begin(p, batch) PROVE IInv'
  BY <1>1, BeginStep
<1>2. ASSUME NEW p \in Pipelines, Insert(p) \/ Detect(p) \/ Gather(p) PROVE IInv'
  BY <1>2, InsertStep, DetectStep, GatherStep
<1>3. ASSUME NEW p \in Pipelines, NEW g \in pipe[p].todo,
             Open(p, g) \/ \E i \in CaseIds : Enrich(p, g, i)
      PROVE  IInv'
  BY <1>3, OpenStep, EnrichStep
<1>4. ASSUME NEW p \in Pipelines, Commit(p) PROVE IInv'
  BY <1>4, CommitStep, RollBackStep DEF Commit
<1>5. ASSUME NEW p \in Pipelines, Abort(p) PROVE IInv'
  BY <1>5, RollBackStep DEF Abort
<1>6. ASSUME NEW i \in DOMAIN cases, CloseCase(i) PROVE IInv'
  BY <1>6, CloseStep
<1>7. CASE UNCHANGED vars
  BY <1>7 DEF vars, IInv, Sound, CasesGrounded, Grounded
<1> QED BY <1>1, <1>2, <1>3, <1>4, <1>5, <1>6, <1>7 DEF Next

\* However transactions overlap, fail and are run again and whenever cases are closed,
\* a case stands on stored events that carry two independent flags or more, all of
\* them stored findings (create_or_update_incidents and its one transaction per batch).
THEOREM CasesStandOnEvidence == Spec => []CasesAreGrounded
<1>1. IInv => CasesAreGrounded
  BY DEF IInv, CasesGrounded, Grounded, CasesAreGrounded
<1> QED BY InitInvariant, NextInvariant, <1>1, PTL DEF Spec

-----------------------------------------------------------------------------
(* Evidence is kept.  A transaction that nobody has overtaken has loaded the      *)
(* evidence the cases still have, and has only added to it; the ids of new cases  *)
(* are in no committed row, and no two transactions have the same ones.           *)

NewIds(t) == DOMAIN t.view \ DOMAIN t.base

Kept(t) ==
  /\ DOMAIN t.base \subseteq DOMAIN t.view
  /\ t.fresh => \A i \in DOMAIN t.base : /\ t.base[i].events = cases[i].events
                                        /\ cases[i].events \subseteq t.view[i].events

Apart ==
  \A p \in Pipelines :
    /\ NewIds(pipe[p]) \cap DOMAIN cases = {}
    /\ \A q \in Pipelines \ {p} : NewIds(pipe[p]) \cap NewIds(pipe[q]) = {}

EInv == IInv /\ Apart /\ \A p \in Pipelines : Kept(pipe[p])

LEMMA EInvLocal ==
  ASSUME EInv, IInv', NEW p \in Pipelines, NEW t, Kept(t), Moves(p, t), UNCHANGED cases,
         NEW ids, NewIds(t) \subseteq NewIds(pipe[p]) \cup ids, ids \cap DOMAIN cases = {},
         \A q \in Pipelines : ids \cap DOMAIN pipe[q].view = {}
  PROVE  EInv'
<1>1. pipe'[p] = t /\ \A q \in Pipelines \ {p} : pipe'[q] = pipe[q]
  BY DEF EInv, IInv, Moves
<1>2. \A q \in Pipelines : Kept(pipe[q])'
  BY <1>1 DEF EInv, Kept
<1>3. \A q \in Pipelines : ids \cap NewIds(pipe[q]) = {}
  BY DEF NewIds
<1>4. \A q \in Pipelines : NewIds(pipe'[q]) = NewIds(pipe[q])'
  BY DEF NewIds
<1>5. \A q \in Pipelines : NewIds(pipe'[q]) \cap DOMAIN cases = {}
  BY <1>1 DEF EInv, Apart
<1>6. \A q, r \in Pipelines : q # r => NewIds(pipe'[q]) \cap NewIds(pipe'[r]) = {}
  <2>1. \A q, r \in Pipelines : q # r => NewIds(pipe[q]) \cap NewIds(pipe[r]) = {}
    BY DEF EInv, Apart
  <2>2. \A q \in Pipelines \ {p} : NewIds(t) \cap NewIds(pipe[q]) = {}
    BY <1>3, <2>1
  <2> SUFFICES ASSUME NEW q \in Pipelines, NEW r \in Pipelines, q # r
               PROVE  NewIds(pipe'[q]) \cap NewIds(pipe'[r]) = {}
    OBVIOUS
  <2>3. CASE q = p
    BY <1>1, <2>2, <2>3
  <2>4. CASE r = p
    BY <1>1, <2>2, <2>4
  <2>5. CASE q # p /\ r # p
    BY <1>1, <2>1, <2>5
  <2> QED BY <2>3, <2>4, <2>5
<1>7. Apart'
  BY <1>4, <1>5, <1>6 DEF Apart
<1> QED BY <1>2, <1>7 DEF EInv

\* Steps that leave the objects alone, or forget all of them.
LEMMA EInvPlain ==
  ASSUME EInv, IInv', NEW p \in Pipelines, NEW t, Moves(p, t), UNCHANGED cases,
         \/ t.view = pipe[p].view /\ t.base = pipe[p].base /\ t.fresh = pipe[p].fresh
         \/ t.view = NoCases /\ t.base = NoCases
  PROVE  EInv'
<1>1. Kept(t)
  <2>1. CASE t.view = NoCases /\ t.base = NoCases
    BY <2>1 DEF Kept, NoCases
  <2>2. CASE t.view = pipe[p].view /\ t.base = pipe[p].base /\ t.fresh = pipe[p].fresh
    BY <2>2 DEF EInv, Kept
  <2> QED BY <2>1, <2>2
<1> DEFINE none == {}
<1>2. NewIds(t) \subseteq NewIds(pipe[p]) \cup none
  <2>1. CASE t.view = pipe[p].view /\ t.base = pipe[p].base
    BY <2>1 DEF NewIds
  <2>2. CASE t.view = NoCases
    BY <2>2 DEF NewIds, NoCases
  <2> QED BY <2>1, <2>2
<1>3. none \cap DOMAIN cases = {} /\ \A q \in Pipelines : none \cap DOMAIN pipe[q].view = {}
  OBVIOUS
<1> HIDE DEF none
<1> QED BY <1>1, <1>2, <1>3, EInvLocal

LEMMA EnrichKeeps ==
  ASSUME EInv, IInv', NEW p \in Pipelines, NEW g \in pipe[p].todo, NEW i \in CaseIds,
         Enrich(p, g, i)
  PROVE  EInv'
<1> DEFINE t == pipe[p]
           row == Enriched(p, i, g)
           view == With(t.view, i, row)
           base == IF i \in DOMAIN t.view THEN t.base ELSE With(t.base, i, Rows(p)[i])
           u == Correlating(t, t.todo \ {g}, base, view, t.flushed)
<1>1. Sound(t) /\ Kept(t) /\ CasesGrounded
  BY DEF EInv, IInv
<1>2. i \in DOMAIN t.flushed \cup DOMAIN cases
  BY DEF Enrich, Existing, ByFingerprint, ByEvidence, Rows, Over
<1>3. Moves(p, u) /\ UNCHANGED cases
  BY DEF Enrich
<1>4. u.view = view /\ u.base = base /\ u.fresh = t.fresh
  BY DEF Correlating, Transaction
<1>5. DOMAIN view = DOMAIN t.view \cup {i} /\ view[i] = row
      /\ \A j \in DOMAIN t.view \ {i} : view[j] = t.view[j]
  BY DEF With, Over
<1>6. {e \in Object(p, i).events : e \in Seen(p)} \subseteq row.events
  BY DEF Enriched, Case
<1> HIDE DEF u, view, row
<1>9. {} \cap DOMAIN cases = {} /\ \A q \in Pipelines : {} \cap DOMAIN pipe[q].view = {}
  OBVIOUS
<1>7. CASE i \in DOMAIN t.view
  <2>1. base = t.base /\ DOMAIN view = DOMAIN t.view
    BY <1>5, <1>7
  <2>2. t.view[i].events \subseteq row.events
    BY <1>1, <1>6, <1>7 DEF Object, Sound, Grounded, Seen
  <2>3. Kept(u)
    BY <1>1, <1>4, <1>5, <2>1, <2>2 DEF Kept
  <2>4. NewIds(u) \subseteq NewIds(t) \cup {}
    BY <1>4, <2>1 DEF NewIds
  <2> QED BY <1>3, <1>9, <2>3, <2>4, EInvLocal
<1>8. CASE i \notin DOMAIN t.view
  <2>1. i \in DOMAIN cases /\ i \notin DOMAIN t.flushed
    BY <1>1, <1>2, <1>8 DEF Sound
  <2>2. Rows(p)[i] = cases[i] /\ Object(p, i) = cases[i]
    BY <1>8, <2>1 DEF Rows, Over, Object
  <2>3. cases[i].events \subseteq row.events
    BY <1>1, <1>6, <2>1, <2>2 DEF CasesGrounded, Grounded, Seen
  <2>4. base = With(t.base, i, cases[i])
    BY <1>8, <2>2
  <2> HIDE DEF base
  <2>5. DOMAIN base = DOMAIN t.base \cup {i} /\ base[i] = cases[i]
        /\ \A j \in DOMAIN t.base \ {i} : base[j] = t.base[j]
    BY <2>4 DEF With, Over
  <2>6. Kept(u)
    <3>1. DOMAIN base \subseteq DOMAIN view
      BY <1>1, <1>5, <2>5 DEF Kept
    <3>2. ASSUME t.fresh, NEW j \in DOMAIN base
          PROVE  base[j].events = cases[j].events /\ cases[j].events \subseteq view[j].events
      <4>1. CASE j = i
        BY <1>5, <2>3, <2>5, <4>1
      <4>2. CASE j # i
        BY <1>1, <1>5, <2>5, <3>2, <4>2 DEF Kept
      <4> QED BY <4>1, <4>2
    <3> QED BY <1>4, <3>1, <3>2 DEF Kept
  <2>7. NewIds(u) \subseteq NewIds(t) \cup {}
    BY <1>4, <1>5, <2>5 DEF NewIds
  <2> QED BY <1>3, <1>9, <2>6, <2>7, EInvLocal
<1> QED BY <1>7, <1>8

LEMMA OpenKeeps ==
  ASSUME EInv, IInv', NEW p \in Pipelines, NEW g \in pipe[p].todo, Open(p, g)
  PROVE  EInv'
<1> DEFINE t == pipe[p]
           i == CHOOSE i \in FreeIds : TRUE
           view == With(t.view, i, Opened(p, g))
           u == Correlating(t, t.todo \ {g}, t.base, view, Pending(p, g))
<1>1. Kept(t)
  BY DEF EInv
<1>2. CASE Moves(p, u) /\ UNCHANGED cases
  <2>1. i \in FreeIds
    BY DEF Open
  <2>2. {i} \cap DOMAIN cases = {} /\ \A q \in Pipelines : {i} \cap DOMAIN pipe[q].view = {}
    BY <2>1 DEF FreeIds
  <2>3. u.view = view /\ u.base = t.base /\ u.fresh = t.fresh
    BY DEF Correlating, Transaction
  <2> HIDE DEF i
  <2>4. DOMAIN view = DOMAIN t.view \cup {i} /\ \A j \in DOMAIN t.view \ {i} : view[j] = t.view[j]
    BY DEF With, Over
  <2> HIDE DEF view, u
  <2>5. Kept(u)
    <3>1. i \notin DOMAIN t.view
      BY <2>2
    <3> QED BY <1>1, <2>3, <2>4, <3>1 DEF Kept
  <2>6. NewIds(u) \subseteq NewIds(t) \cup {i}
    BY <2>3, <2>4 DEF NewIds
  <2> QED BY <1>2, <2>2, <2>5, <2>6, EInvLocal
<1>3. CASE RollsBack(p)
  <2>1. Idle.view = NoCases /\ Idle.base = NoCases
    BY DEF Idle, Transaction
  <2> QED BY <1>3, <2>1, EInvPlain DEF RollsBack
<1> QED BY <1>2, <1>3 DEF Open, WithOpened

\* A commit overtakes the others; what it writes to a case it has loaded adds to the
\* evidence, if nobody has overtaken it.
LEMMA CommitKeeps ==
  ASSUME EInv, IInv', NEW p \in Pipelines, Committed(p, Writes(p, pipe[p].view))
  PROVE  /\ EInv'
         /\ pipe[p].fresh => \A i \in DOMAIN cases : cases[i].events \subseteq cases'[i].events
<1> DEFINE t == pipe[p]
           rows == Writes(p, t.view)
<1>1. Sound(t) /\ Kept(t)
  BY DEF EInv, IInv
<1>2. DOMAIN rows \subseteq DOMAIN t.view
  BY DEF Writes
<1>3. DOMAIN rows \subseteq NewIds(t) \cup DOMAIN cases
  BY <1>1, <1>2 DEF NewIds, Sound
<1>4. ASSUME NEW i \in DOMAIN rows \cap DOMAIN cases, t.fresh
      PROVE  cases[i].events \subseteq rows[i].events
  <2>1. i \in DOMAIN t.base
    BY <1>2 DEF EInv, Apart, NewIds
  <2>2. rows[i].events = cases[i].events \/ rows[i].events = t.view[i].events
    BY <1>2, <2>1 DEF Writes, Merged, Case
  <2> QED BY <1>1, <1>4, <2>1, <2>2 DEF Kept
<1>5. cases' = Over(rows, cases) /\ \A q \in Pipelines : pipe'[q] = IF q = p THEN Idle ELSE Overtaken(pipe[q])
  BY DEF Committed
<1> HIDE DEF rows
<1>6. DOMAIN cases' = DOMAIN rows \cup DOMAIN cases
      /\ \A i \in DOMAIN cases : cases'[i] = IF i \in DOMAIN rows THEN rows[i] ELSE cases[i]
  BY <1>5 DEF Over
<1>7. Idle.view = NoCases /\ Idle.base = NoCases /\ DOMAIN NoCases = {}
  BY DEF Idle, Transaction, NoCases
<1>8. \A u : Overtaken(u).view = u.view /\ Overtaken(u).base = u.base /\ Overtaken(u).fresh = FALSE
  BY DEF Overtaken, Transaction
<1>9. \A q \in Pipelines : Kept(pipe[q])'
  <2> SUFFICES ASSUME NEW q \in Pipelines PROVE Kept(pipe[q])'
    OBVIOUS
  <2>1. CASE q = p
    BY <1>5, <1>7, <2>1 DEF Kept
  <2>2. CASE q # p
    BY <1>5, <1>8, <2>2 DEF EInv, Kept
  <2> QED BY <2>1, <2>2
<1>10. NewIds(pipe'[p]) = {} /\ \A q \in Pipelines \ {p} : NewIds(pipe'[q]) = NewIds(pipe[q])
  BY <1>5, <1>7, <1>8 DEF NewIds
<1>11. \A q \in Pipelines : NewIds(pipe'[q]) = NewIds(pipe[q])'
  BY DEF NewIds
<1>12. \A q \in Pipelines : NewIds(pipe'[q]) \cap DOMAIN cases' = {}
  BY <1>3, <1>6, <1>10 DEF EInv, Apart
<1>13. \A q, r \in Pipelines : q # r => NewIds(pipe'[q]) \cap NewIds(pipe'[r]) = {}
  BY <1>10 DEF EInv, Apart
<1>14. EInv'
  BY <1>9, <1>11, <1>12, <1>13 DEF EInv, Apart
<1> QED BY <1>4, <1>6, <1>14

LEMMA CloseKeeps ==
  ASSUME EInv, IInv', NEW i \in DOMAIN cases, CloseCase(i)
  PROVE  EInv' /\ \A j \in DOMAIN cases : cases[j].events \subseteq cases'[j].events
<1>1. /\ UNCHANGED pipe
      /\ cases' = With(cases, i, Case(cases[i].fp, cases[i].type, "CLOSED", cases[i].events))
  BY DEF CloseCase
<1>2. DOMAIN cases' = DOMAIN cases
  BY <1>1 DEF With, Over
<1>3. ASSUME NEW j \in DOMAIN cases PROVE cases'[j].events = cases[j].events
  BY <1>1 DEF With, Over, Case
<1>4. Apart'
  BY <1>1, <1>2 DEF EInv, Apart, NewIds
<1>5. ASSUME NEW p \in Pipelines PROVE Kept(pipe[p])'
  <2>1. Kept(pipe[p]) /\ DOMAIN pipe[p].base \subseteq DOMAIN cases
    BY DEF EInv, IInv, Sound
  <2> QED BY <1>1, <1>3, <2>1 DEF Kept
<1> QED BY <1>3, <1>4, <1>5 DEF EInv

LEMMA PlainKeeps ==
  ASSUME EInv, IInv', NEW p \in Pipelines,
         \/ \E batch \in Batches : Begin(p, batch)
         \/ Insert(p) \/ Detect(p) \/ Gather(p) \/ RollsBack(p)
  PROVE  EInv' /\ UNCHANGED cases
<1>1. RollsBack(p) => EInv' /\ UNCHANGED cases
  <2>1. Idle.view = NoCases /\ Idle.base = NoCases
    BY DEF Idle, Transaction
  <2> QED BY <2>1, EInvPlain DEF RollsBack
<1>2. ASSUME NEW batch \in Batches, Begin(p, batch) PROVE EInv' /\ UNCHANGED cases
  <2> DEFINE t == Transaction("insert", batch, batch \ stored, {}, {}, NoCases, NoCases, NoCases, TRUE)
  <2>1. t.view = NoCases /\ t.base = NoCases
    BY DEF Transaction
  <2>2. Moves(p, t) /\ UNCHANGED cases
    BY <1>2 DEF Begin
  <2> HIDE DEF t
  <2> QED BY <2>1, <2>2, EInvPlain
<1>3. CASE Insert(p)
  <2> DEFINE t == [pipe[p] EXCEPT !.pc = "detect"]
  <2>1. t.view = pipe[p].view /\ t.base = pipe[p].base /\ t.fresh = pipe[p].fresh
    BY DEF EInv, IInv, Sound, Transaction
  <2>2. CASE Moves(p, t) /\ UNCHANGED cases
    <3> HIDE DEF t
    <3> QED BY <2>1, <2>2, EInvPlain
  <2> QED BY <1>1, <1>3, <2>2 DEF Insert
<1>4. CASE Detect(p)
  <2> DEFINE found == run_detection(Context(p) \cup pipe[p].batch) \ findings
             t == Found(pipe[p], found)
  <2>1. t.view = pipe[p].view /\ t.base = pipe[p].base /\ t.fresh = pipe[p].fresh
    BY DEF Found, Transaction
  <2>2. Moves(p, t) /\ UNCHANGED cases
    BY <1>4 DEF Detect
  <2> HIDE DEF t
  <2> QED BY <2>1, <2>2, EInvPlain
<1>5. CASE Gather(p)
  <2> DEFINE todo == {[events |-> g, findings |-> {f \in Known(p) : f[1] \in g}] : g \in CaseGroups(p)}
             t == Correlating(pipe[p], todo, NoCases, NoCases, NoCases)
  <2>1. t.view = NoCases /\ t.base = NoCases
    BY DEF Correlating, Transaction
  <2>2. Moves(p, t) /\ UNCHANGED cases
    BY <1>5 DEF Gather
  <2> HIDE DEF t
  <2> QED BY <2>1, <2>2, EInvPlain
<1> QED BY <1>1, <1>2, <1>3, <1>4, <1>5

LEMMA EvidenceInit == Init => EInv
<1> SUFFICES ASSUME Init PROVE EInv
  OBVIOUS
<1>1. Idle.view = NoCases /\ Idle.base = NoCases /\ DOMAIN NoCases = {}
  BY DEF Idle, Transaction, NoCases
<1>2. \A p \in Pipelines : pipe[p] = Idle
  BY DEF Init
<1> QED BY <1>1, <1>2, InitInvariant DEF EInv, Apart, Kept, NewIds

\* What a step may do to the evidence of a case.
Keeps ==
  (\A p \in Pipelines : Commit(p) => pipe[p].fresh) =>
    \A i \in DOMAIN cases : cases[i].events \subseteq cases'[i].events

LEMMA EvidenceNext == EInv /\ [Next]_vars => EInv' /\ (Keeps \/ UNCHANGED vars)
<1> SUFFICES ASSUME EInv, [Next]_vars PROVE EInv' /\ (Keeps \/ UNCHANGED vars)
  OBVIOUS
<1>1. IInv'
  BY NextInvariant DEF EInv
<1>2. ASSUME UNCHANGED cases PROVE Keeps
  BY <1>2 DEF Keeps
<1>3. ASSUME NEW p \in Pipelines,
             \/ \E batch \in Batches : Begin(p, batch)
             \/ Insert(p) \/ Detect(p) \/ Gather(p) \/ RollsBack(p)
      PROVE  EInv' /\ Keeps
  BY <1>1, <1>2, <1>3, PlainKeeps
<1>4. ASSUME NEW p \in Pipelines, NEW g \in pipe[p].todo, NEW i \in CaseIds, Enrich(p, g, i)
      PROVE  EInv' /\ Keeps
  BY <1>1, <1>2, <1>4, EnrichKeeps DEF Enrich
<1>5. ASSUME NEW p \in Pipelines, NEW g \in pipe[p].todo, Open(p, g) PROVE EInv' /\ Keeps
  <2>1. UNCHANGED cases
    BY <1>5 DEF Open, RollsBack
  <2> QED BY <1>1, <1>2, <1>5, <2>1, OpenKeeps
<1>6. ASSUME NEW p \in Pipelines, Commit(p) PROVE EInv' /\ Keeps
  <2>1. CASE Committed(p, Writes(p, pipe[p].view))
    BY <1>1, <1>6, <2>1, CommitKeeps DEF Keeps
  <2>2. CASE RollsBack(p)
    BY <1>3, <2>2
  <2> QED BY <1>6, <2>1, <2>2 DEF Commit
<1>7. ASSUME NEW p \in Pipelines, Abort(p) PROVE EInv' /\ Keeps
  BY <1>3, <1>7 DEF Abort
<1>8. ASSUME NEW i \in DOMAIN cases, CloseCase(i) PROVE EInv' /\ Keeps
  BY <1>1, <1>8, CloseKeeps DEF Keeps
<1>9. CASE UNCHANGED vars
  <2>1. UNCHANGED <<cases, pipe>>
    BY <1>9 DEF vars
  <2> QED BY <1>1, <1>9, <2>1 DEF EInv, Apart, Kept, NewIds
<1> QED BY <1>3, <1>4, <1>5, <1>6, <1>7, <1>8, <1>9 DEF Next

\* Evidence is taken off a case only by a commit that another one has overtaken,
\* whatever batches are processed, by however many pipelines, and whatever fails (the
\* write of Incident.event_ids in create_or_update_incidents).
THEOREM EvidenceIsKept == Spec => EvidenceKept
<1>1. EInv /\ [Next]_vars => EInv'
  BY EvidenceNext
<1>2. EInv /\ [Next]_vars =>
        [(\A p \in Pipelines : Commit(p) => pipe[p].fresh) =>
           \A i \in DOMAIN cases : cases[i].events \subseteq cases'[i].events]_vars
  BY EvidenceNext DEF Keeps
<1> QED BY EvidenceInit, <1>1, <1>2, PTL DEF Spec, EvidenceKept

-----------------------------------------------------------------------------
(* A transaction that nobody has overtaken knows what detection finds in the     *)
(* telemetry it can see, and has every group it gathered before it still, or in  *)
(* one of its objects.                                                           *)

Searched(p) ==
  /\ pipe[p].new \subseteq pipe[p].batch /\ pipe[p].batch \in Batches \cup {{}}
  /\ pipe[p].pc \in {"gather", "correlate"} /\ pipe[p].fresh =>
       run_detection(Context(p) \cup pipe[p].batch) \subseteq Known(p)

Covered(p) ==
  pipe[p].pc = "correlate" /\ pipe[p].fresh =>
    \A g \in CaseGroups(p) :
      \/ \E h \in pipe[p].todo : h.events = g
      \/ \E i \in DOMAIN pipe[p].view : g \subseteq pipe[p].view[i].events

GInv == EInv /\ \A p \in Pipelines : Searched(p) /\ Covered(p)

\* Context and groups depend on what is committed and on what the transaction has
\* inserted.
LEMMA GroupsStay ==
  ASSUME NEW p, UNCHANGED <<stored, findings>>, pipe'[p].batch = pipe[p].batch,
         pipe'[p].new = pipe[p].new, pipe'[p].found = pipe[p].found
  PROVE  /\ CaseGroups(p)' = CaseGroups(p)
         /\ Known(p)' = Known(p) /\ Context(p)' = Context(p)
<1>1. Seen(p)' = Seen(p) /\ Known(p)' = Known(p)
  BY DEF Seen, Known
<1>2. Candidates(p)' = Candidates(p)
  BY <1>1 DEF Candidates
<1>3. Context(p)' = Context(p)
  BY <1>1 DEF Context
<1> QED BY <1>1, <1>2, <1>3 DEF CaseGroups

LEMMA SearchedStays ==
  ASSUME NEW p, Searched(p), UNCHANGED <<stored, findings>>, pipe'[p].batch = pipe[p].batch,
         pipe'[p].new = pipe[p].new, pipe'[p].found = pipe[p].found,
         pipe'[p].fresh = pipe[p].fresh,
         pipe'[p].pc \in {"gather", "correlate"} => pipe[p].pc \in {"gather", "correlate"}
  PROVE  Searched(p)'
<1>1. Known(p)' = Known(p) /\ Context(p)' = Context(p)
  BY GroupsStay
<1> QED BY <1>1 DEF Searched

\* A step of one pipeline that commits nothing leaves what the others have covered.
LEMMA CoveredLocal ==
  ASSUME GInv, EInv', NEW p \in Pipelines, NEW t, Moves(p, t), UNCHANGED <<stored, findings>>,
         Searched(p)', Covered(p)'
  PROVE  GInv'
<1>1. ASSUME NEW q \in Pipelines \ {p} PROVE Searched(q)' /\ Covered(q)'
  <2>1. pipe'[q] = pipe[q]
    BY DEF GInv, EInv, IInv, Moves
  <2>2. CaseGroups(q)' = CaseGroups(q)
    BY <2>1, GroupsStay
  <2>3. Searched(q)'
    BY <2>1, SearchedStays DEF GInv
  <2> QED BY <2>1, <2>2, <2>3 DEF GInv, Covered
<1> QED BY <1>1 DEF GInv

LEMMA MovesTo ==
  ASSUME IInv, NEW p \in Pipelines, NEW t, Moves(p, t)
  PROVE  pipe'[p] = t
  BY DEF IInv, Moves

LEMMA GatherCovers ==
  ASSUME GInv, EInv', NEW p \in Pipelines, Gather(p)
  PROVE  GInv'
<1> DEFINE todo == {[events |-> g, findings |-> {f \in Known(p) : f[1] \in g}] : g \in CaseGroups(p)}
           t == Correlating(pipe[p], todo, NoCases, NoCases, NoCases)
<1>1. Moves(p, t) /\ UNCHANGED <<stored, findings>>
  BY DEF Gather
<1>2. ASSUME NEW g \in CaseGroups(p) PROVE \E h \in todo : h.events = g
  <2> DEFINE h == [events |-> g, findings |-> {f \in Known(p) : f[1] \in g}]
  <2>1. h \in todo /\ h.events = g
    OBVIOUS
  <2> HIDE DEF h, todo
  <2> QED BY <2>1
<1>3. /\ t.todo = todo /\ t.batch = pipe[p].batch /\ t.new = pipe[p].new
      /\ t.found = pipe[p].found /\ t.fresh = pipe[p].fresh /\ pipe[p].pc = "gather"
  BY DEF Correlating, Transaction, Gather
<1> HIDE DEF t, todo
<1>4. pipe'[p] = t
  BY <1>1, MovesTo DEF GInv, EInv
<1>5. CaseGroups(p)' = CaseGroups(p)
  BY <1>1, <1>3, <1>4, GroupsStay
<1>6. Covered(p)'
  BY <1>2, <1>3, <1>4, <1>5 DEF Covered
<1>7. Searched(p)'
  BY <1>1, <1>3, <1>4, SearchedStays DEF GInv
<1> QED BY <1>1, <1>6, <1>7, CoveredLocal

\* A step that deals with one group and keeps the objects, or adds to them.
LEMMA DealtWith ==
  ASSUME GInv, EInv', NEW p \in Pipelines, NEW g \in pipe[p].todo, NEW base, NEW view, NEW flushed,
         pipe[p].pc = "correlate",
         Moves(p, Correlating(pipe[p], pipe[p].todo \ {g}, base, view, flushed)),
         UNCHANGED <<stored, findings>>,
         DOMAIN pipe[p].view \subseteq DOMAIN view,
         \A i \in DOMAIN pipe[p].view : pipe[p].view[i].events \subseteq view[i].events,
         \E i \in DOMAIN view : g.events \subseteq view[i].events
  PROVE  GInv'
<1> DEFINE t == Correlating(pipe[p], pipe[p].todo \ {g}, base, view, flushed)
<1>1. /\ t.todo = pipe[p].todo \ {g} /\ t.batch = pipe[p].batch /\ t.new = pipe[p].new
      /\ t.found = pipe[p].found /\ t.view = view /\ t.fresh = pipe[p].fresh
  BY DEF Correlating, Transaction
<1>2. Moves(p, t)
  OBVIOUS
<1> HIDE DEF t
<1>3. pipe'[p] = t
  BY <1>2, MovesTo DEF GInv, EInv
<1>4. CaseGroups(p)' = CaseGroups(p)
  BY <1>1, <1>3, GroupsStay
<1>5. ASSUME NEW c \in CaseGroups(p), pipe[p].fresh
      PROVE  \/ \E h \in t.todo : h.events = c
             \/ \E i \in DOMAIN view : c \subseteq view[i].events
  <2>1. CASE \E h \in pipe[p].todo : h.events = c
    BY <1>1, <2>1
  <2>2. CASE \E i \in DOMAIN pipe[p].view : c \subseteq pipe[p].view[i].events
    BY <2>2
  <2> QED BY <1>5, <2>1, <2>2 DEF GInv, Covered
<1>6. Covered(p)'
  BY <1>1, <1>3, <1>4, <1>5 DEF Covered
<1>7. Searched(p)'
  BY <1>1, <1>3, SearchedStays DEF GInv
<1> QED BY <1>2, <1>6, <1>7, CoveredLocal

LEMMA EnrichCovers ==
  ASSUME GInv, EInv', NEW p \in Pipelines, NEW g \in pipe[p].todo, NEW i \in CaseIds,
         Enrich(p, g, i)
  PROVE  GInv'
<1> DEFINE t == pipe[p]
           row == Enriched(p, i, g)
           base == IF i \in DOMAIN t.view THEN t.base ELSE With(t.base, i, Rows(p)[i])
           view == With(t.view, i, row)
<1>1. Sound(t)
  BY DEF GInv, EInv, IInv
<1>2. DOMAIN view = DOMAIN t.view \cup {i} /\ view[i] = row
      /\ \A j \in DOMAIN t.view \ {i} : view[j] = t.view[j]
  BY DEF With, Over
<1>3. {e \in Object(p, i).events : e \in Seen(p)} \cup g.events \subseteq row.events
  BY DEF Enriched, Case
<1>4. i \in DOMAIN t.view => t.view[i].events \subseteq row.events
  BY <1>1, <1>3 DEF Object, Sound, Grounded, Seen
<1>5. /\ t.pc = "correlate" /\ UNCHANGED <<stored, findings>>
      /\ Moves(p, Correlating(t, t.todo \ {g}, base, view, t.flushed))
  BY DEF Enrich
<1> HIDE DEF row, base, view
<1>6. \A j \in DOMAIN t.view : t.view[j].events \subseteq view[j].events
  BY <1>2, <1>4
<1> QED BY <1>2, <1>3, <1>5, <1>6, DealtWith

\* A rollback forgets the transaction.
LEMMA RollBackCovers ==
  ASSUME GInv, EInv', NEW p \in Pipelines, RollsBack(p)
  PROVE  GInv'
<1>1. pipe'[p] = Idle /\ Idle.pc = "idle" /\ Idle.new = {} /\ Idle.batch = {}
  BY MovesTo DEF GInv, EInv, RollsBack, Idle, Transaction
<1>2. Searched(p)' /\ Covered(p)'
  BY <1>1 DEF Searched, Covered
<1> QED BY <1>2, CoveredLocal DEF RollsBack

LEMMA OpenCovers ==
  ASSUME GInv, EInv', NEW p \in Pipelines, NEW g \in pipe[p].todo, Open(p, g)
  PROVE  GInv'
<1> DEFINE t == pipe[p]
           i == CHOOSE i \in FreeIds : TRUE
           view == With(t.view, i, Opened(p, g))
<1>1. CASE Moves(p, Correlating(t, t.todo \ {g}, t.base, view, Pending(p, g)))
           /\ UNCHANGED <<stored, findings, cases, last>>
  <2>1. i \in FreeIds /\ t.pc = "correlate"
    BY DEF Open
  <2>2. i \notin DOMAIN t.view
    BY <2>1 DEF FreeIds
  <2>3. Opened(p, g).events = g.events
    BY DEF Opened, Case
  <2> HIDE DEF i
  <2>4. DOMAIN view = DOMAIN t.view \cup {i} /\ view[i] = Opened(p, g)
        /\ \A j \in DOMAIN t.view \ {i} : view[j] = t.view[j]
    BY DEF With, Over
  <2> HIDE DEF view
  <2>5. \A j \in DOMAIN t.view : t.view[j].events \subseteq view[j].events
    BY <2>2, <2>4
  <2>6. DOMAIN t.view \subseteq DOMAIN view /\ \E j \in DOMAIN view : g.events \subseteq view[j].events
    BY <2>3, <2>4
  <2> HIDE DEF t
  <2>7. Moves(p, Correlating(t, t.todo \ {g}, t.base, view, Pending(p, g)))
        /\ UNCHANGED <<stored, findings>>
    BY <1>1
  <2> QED BY <2>1, <2>5, <2>6, <2>7, DealtWith DEF t
<1>2. CASE RollsBack(p)
  BY <1>2, RollBackCovers
<1> QED BY <1>1, <1>2 DEF Open, WithOpened

\* Before detection there is nothing to know or to cover.
LEMMA EarlyCovers ==
  ASSUME GInv, EInv', NEW p \in Pipelines, NEW t, Moves(p, t), t.pc \in {"insert", "detect"},
         t.new \subseteq t.batch, t.batch \in Batches \cup {{}}, UNCHANGED <<stored, findings>>
  PROVE  GInv'
<1>1. pipe'[p] = t
  BY MovesTo DEF GInv, EInv
<1>2. Searched(p)' /\ Covered(p)'
  BY <1>1 DEF Searched, Covered
<1> QED BY <1>2, CoveredLocal

LEMMA DetectCovers ==
  ASSUME GInv, EInv', NEW p \in Pipelines, Detect(p)
  PROVE  GInv'
<1> DEFINE found == run_detection(Context(p) \cup pipe[p].batch) \ findings
           t == Found(pipe[p], found)
<1>1. t.pc = "gather" /\ t.batch = pipe[p].batch /\ t.new = pipe[p].new /\ t.found = found
  BY DEF Found, Transaction
<1>2. Moves(p, t) /\ UNCHANGED <<stored, findings>>
  BY DEF Detect
<1> HIDE DEF t
<1>3. pipe'[p] = t
  BY <1>2, MovesTo DEF GInv, EInv
<1>4. Seen(p)' = Seen(p)
  BY <1>1, <1>2, <1>3 DEF Seen
<1>5. Context(p)' = Context(p)
  BY <1>1, <1>3, <1>4 DEF Context
<1>6. Known(p)' = findings \cup found
  BY <1>1, <1>2, <1>3 DEF Known
<1>7. Searched(p)'
  BY <1>1, <1>3, <1>5, <1>6 DEF GInv, Searched
<1>8. Covered(p)'
  BY <1>1, <1>3 DEF Covered
<1> QED BY <1>2, <1>7, <1>8, CoveredLocal

\* A commit overtakes the others.
LEMMA CommitCovers ==
  ASSUME GInv, EInv', NEW p \in Pipelines, NEW rows, Committed(p, rows)
  PROVE  GInv'
<1>1. /\ Idle.pc = "idle" /\ Idle.new = {} /\ Idle.batch = {}
      /\ \A t : /\ Overtaken(t).fresh = FALSE /\ Overtaken(t).new = t.new
                /\ Overtaken(t).batch = t.batch
  BY DEF Idle, Overtaken, Transaction
<1>2. ASSUME NEW q \in Pipelines PROVE Searched(q)' /\ Covered(q)'
  BY <1>1 DEF Committed, Searched, Covered, GInv
<1> QED BY <1>2 DEF GInv

LEMMA GroupsInit == Init => GInv
<1>1. Idle.pc = "idle" /\ Idle.new = {} /\ Idle.batch = {}
  BY DEF Idle, Transaction
<1>2. Init => \A p \in Pipelines : Searched(p) /\ Covered(p)
  BY <1>1 DEF Init, Searched, Covered
<1> QED BY <1>2, EvidenceInit DEF GInv

LEMMA GroupsNext == GInv /\ [Next]_vars => GInv'
<1> SUFFICES ASSUME GInv, [Next]_vars PROVE GInv'
  OBVIOUS
<1>1. EInv'
  BY EvidenceNext DEF GInv
<1>2. ASSUME NEW p \in Pipelines, NEW batch \in Batches, Begin(p, batch) PROVE GInv'
  <2> DEFINE t == Transaction("insert", batch, batch \ stored, {}, {}, NoCases, NoCases, NoCases, TRUE)
  <2>1. /\ t.pc = "insert" /\ t.new = batch \ stored /\ t.batch = batch
        /\ Moves(p, t) /\ UNCHANGED <<stored, findings>>
    BY <1>2 DEF Begin, Transaction
  <2> HIDE DEF t
  <2> QED BY <1>1, <2>1, EarlyCovers
<1>3. ASSUME NEW p \in Pipelines, Insert(p) PROVE GInv'
  <2> DEFINE t == [pipe[p] EXCEPT !.pc = "detect"]
  <2>1. t.pc = "detect" /\ t.new = pipe[p].new /\ t.batch = pipe[p].batch
    BY DEF GInv, EInv, IInv, Sound, Transaction
  <2>2. CASE Moves(p, t) /\ UNCHANGED <<stored, findings, cases, last>>
    <3> HIDE DEF t
    <3> QED BY <1>1, <2>1, <2>2, EarlyCovers DEF GInv, Searched
  <2>3. CASE RollsBack(p)
    BY <1>1, <2>3, RollBackCovers
  <2> QED BY <1>3, <2>2, <2>3 DEF Insert
<1>4. ASSUME NEW p \in Pipelines, Detect(p) PROVE GInv'
  BY <1>1, <1>4, DetectCovers
<1>5. ASSUME NEW p \in Pipelines, Gather(p) PROVE GInv'
  BY <1>1, <1>5, GatherCovers
<1>6. ASSUME NEW p \in Pipelines, NEW g \in pipe[p].todo, Open(p, g) PROVE GInv'
  BY <1>1, <1>6, OpenCovers
<1>7. ASSUME NEW p \in Pipelines, NEW g \in pipe[p].todo, NEW i \in CaseIds, Enrich(p, g, i)
      PROVE  GInv'
  BY <1>1, <1>7, EnrichCovers
<1>8. ASSUME NEW p \in Pipelines, Commit(p) PROVE GInv'
  <2>1. CASE Committed(p, Writes(p, pipe[p].view))
    BY <1>1, <2>1, CommitCovers
  <2>2. CASE RollsBack(p)
    BY <1>1, <2>2, RollBackCovers
  <2> QED BY <1>8, <2>1, <2>2 DEF Commit
<1>9. ASSUME NEW p \in Pipelines, Abort(p) PROVE GInv'
  BY <1>1, <1>9, RollBackCovers DEF Abort
<1>10. ASSUME UNCHANGED <<stored, findings, pipe>> PROVE GInv'
  <2> SUFFICES ASSUME NEW p \in Pipelines PROVE Searched(p)' /\ Covered(p)'
    BY <1>1 DEF GInv
  <2>1. CaseGroups(p)' = CaseGroups(p) /\ Searched(p)'
    BY <1>10, GroupsStay, SearchedStays DEF GInv
  <2> QED BY <1>10, <2>1 DEF GInv, Covered
<1>11. ASSUME NEW i \in DOMAIN cases, CloseCase(i) PROVE GInv'
  BY <1>10, <1>11 DEF CloseCase
<1>12. CASE UNCHANGED vars
  BY <1>10, <1>12 DEF vars
<1> QED BY <1>2, <1>3, <1>4, <1>5, <1>6, <1>7, <1>8, <1>9, <1>11, <1>12 DEF Next

\* What a commit that nobody has overtaken writes is what the transaction made of
\* each case it holds.
LEMMA FreshRows ==
  ASSUME EInv, NEW p \in Pipelines, CommitsFresh(p), NEW i \in DOMAIN pipe[p].view
  PROVE  i \in DOMAIN cases' /\ cases'[i].events = pipe[p].view[i].events
<1> DEFINE t == pipe[p]
           rows == Writes(p, t.view)
<1>1. Sound(t) /\ Kept(t) /\ t.fresh
  BY DEF EInv, IInv, CommitsFresh
<1>2. cases' = Over(rows, cases)
  BY DEF CommitsFresh, Committed
<1>3. i \in DOMAIN rows => rows[i].events = t.view[i].events
  <2>1. CASE i \notin DOMAIN t.base
    BY <2>1 DEF Writes
  <2>2. CASE i \in DOMAIN t.base
    <3>1. i \in DOMAIN rows => rows[i] = Merged(t.view[i], t.base[i], cases[i])
      BY <2>2 DEF Writes
    <3>2. t.base[i].events = cases[i].events
      BY <1>1, <2>2 DEF Kept
    <3> QED BY <3>1, <3>2 DEF Merged, Case
  <2> QED BY <2>1, <2>2
<1>4. i \notin DOMAIN rows => i \in DOMAIN t.base /\ t.view[i] = t.base[i]
  BY DEF Writes
<1>5. i \in DOMAIN t.base => i \in DOMAIN cases /\ t.base[i].events = cases[i].events
  BY <1>1 DEF Sound, Kept
<1> HIDE DEF rows
<1>6. DOMAIN cases' = DOMAIN rows \cup DOMAIN cases
      /\ \A j \in DOMAIN cases' : cases'[j] = IF j \in DOMAIN rows THEN rows[j] ELSE cases[j]
  BY <1>2 DEF Over
<1> QED BY <1>3, <1>4, <1>5, <1>6

\* A batch that nobody overtakes is committed with every group of flagged events
\* around it in one case, as a whole: none is dropped, and no enrichment or merge of
\* columns takes apart what an earlier one put together (create_or_update_incidents).
THEOREM GroupsHaveCases == Spec => GroupsAreCased
<1> DEFINE A == \A p \in Pipelines : CommitsFresh(p) =>
                  \A g \in CaseGroups(p) : \E i \in DOMAIN cases' : g \subseteq cases'[i].events
<1>1. ASSUME GInv, NEW p \in Pipelines, CommitsFresh(p), NEW g \in CaseGroups(p)
      PROVE  \E i \in DOMAIN cases' : g \subseteq cases'[i].events
  <2>1. PICK i \in DOMAIN pipe[p].view : g \subseteq pipe[p].view[i].events
    BY <1>1 DEF GInv, Covered, CommitsFresh
  <2>2. i \in DOMAIN cases' /\ cases'[i].events = pipe[p].view[i].events
    BY <1>1, FreshRows DEF GInv
  <2> QED BY <2>1, <2>2
<1>2. GInv => A
  BY <1>1
<1>3. GInv /\ [Next]_vars => [A]_vars
  BY <1>2
<1> QED BY GroupsInit, GroupsNext, <1>3, PTL DEF Spec, GroupsAreCased

\* No event of a batch is before its start or after its end.
LEMMA StartAndEnd ==
  ASSUME NEW S \in SUBSET Events, NEW e \in S
  PROVE  Start(S) \in Nat /\ End(S) \in Nat /\ Start(S) <= Time[e] /\ Time[e] <= End(S)
<1>1. IsFiniteSet(S) /\ S # {} /\ \A d \in S : Time[d] \in Nat
  BY FS_Subset, DataAssumption
<1>2. \E d \in S : \A c \in S : Time[d] <= Time[c]
  BY <1>1, LeastBy
<1>3. \E d \in S : \A c \in S : Time[d] >= Time[c]
  <2>1. PICK d \in S : \A c \in S : Time[c] <= Time[d]
    BY <1>1, GreatestBy
  <2>2. \A c \in S : Time[d] >= Time[c]
    BY <1>1, <2>1
  <2> QED BY <2>2
<1>4. Earliest(S) \in S /\ \A c \in S : Time[Earliest(S)] <= Time[c]
  BY <1>2 DEF Earliest
<1> DEFINE latest == CHOOSE d \in S : \A c \in S : Time[d] >= Time[c]
<1>5. latest \in S /\ \A c \in S : Time[latest] >= Time[c]
  BY <1>3
<1>6. Start(S) = Time[Earliest(S)] /\ End(S) = Time[latest]
  BY DEF Start, End
<1> HIDE DEF latest
<1> QED BY <1>1, <1>4, <1>5, <1>6

\* The history of an event of the batch that matters to detection is in its context.
LEMMA TravelInContext ==
  ASSUME GInv, NEW p \in Pipelines, NEW e \in pipe[p].batch, NEW d \in Seen(p), <<d, e>> \in Travel
  PROVE  d \in Context(p)
<1> DEFINE batch == pipe[p].batch
<1>1. batch \in SUBSET Events /\ d \in Events
  BY KnownOfFlags DEF GInv, EInv, IInv, Sound
<1>2. Start(batch) \in Nat /\ End(batch) \in Nat /\ Start(batch) <= Time[e] /\ Time[e] <= End(batch)
  BY <1>1, StartAndEnd
<1>3. <<e, d>> \in Related /\ Time[d] <= Time[e] /\ Time[e] <= Time[d] + Window
  BY TravelAssumption
<1>4. Time[d] \in Nat /\ Time[e] \in Nat /\ Window \in Nat
  BY <1>1, DataAssumption, WindowAssumption
<1>5. Time[d] + Window >= Start(batch) /\ Time[d] <= End(batch)
  BY <1>2, <1>3, <1>4
<1> QED BY <1>3, <1>5 DEF Context

\* A batch that nobody overtakes is committed with every finding that its events and
\* the telemetry stored before them imply, however that telemetry was cut into batches
\* (historical_context and the insertion of findings in process_raw_telemetry).
THEOREM FindingsOfHistory == Spec => HistoryIsSeen
<1> DEFINE A == \A p \in Pipelines : CommitsFresh(p) =>
                  \A e \in pipe[p].new, d \in stored' :
                    /\ <<d, e>> \in Travel => <<e, "IMPOSSIBLE_TRAVEL">> \in findings'
                    /\ \A f \in Own[e] : <<e, f>> \in findings'
<1>1. ASSUME GInv, NEW p \in Pipelines, CommitsFresh(p), NEW e \in pipe[p].new, NEW d \in stored'
      PROVE  /\ <<d, e>> \in Travel => <<e, "IMPOSSIBLE_TRAVEL">> \in findings'
             /\ \A f \in Own[e] : <<e, f>> \in findings'
  <2> DEFINE S == Context(p) \cup pipe[p].batch
  <2>1. stored' = Seen(p) /\ findings' = Known(p)
    BY <1>1 DEF CommitsFresh, Committed
  <2>2. run_detection(S) \subseteq Known(p) /\ e \in pipe[p].batch
    BY <1>1 DEF CommitsFresh, GInv, Searched
  <2>3. e \in Events /\ "IMPOSSIBLE_TRAVEL" \in Flags
    BY <1>1, <2>2, DataAssumption DEF GInv, EInv, IInv, Sound, Flags
  <2>4. ASSUME <<d, e>> \in Travel PROVE <<e, "IMPOSSIBLE_TRAVEL">> \in findings'
    <3>1. d \in S
      BY <1>1, <2>1, <2>2, <2>4, TravelInContext
    <3> HIDE DEF S
    <3>2. e \in S
      BY <2>2 DEF S
    <3>3. <<e, "IMPOSSIBLE_TRAVEL">> \in run_detection(S)
      BY <2>3, <2>4, <3>1, <3>2 DEF run_detection
    <3> QED BY <2>1, <2>2, <3>3
  <2>5. ASSUME NEW f \in Own[e] PROVE <<e, f>> \in findings'
    <3>1. f \in Flags
      BY <2>3, DataAssumption
    <3>2. <<e, f>> \in run_detection(S)
      BY <2>2, <3>1 DEF run_detection
    <3> QED BY <2>1, <2>2, <3>2
  <2> QED BY <2>4, <2>5
<1>2. GInv => A
  BY <1>1
<1>3. GInv /\ [Next]_vars => [A]_vars
  BY <1>2
<1> QED BY GroupsInit, GroupsNext, <1>3, PTL DEF Spec, HistoryIsSeen

-----------------------------------------------------------------------------
(* Types.  Every row a transaction has loaded, made or flushed is a case row. *)

CaseTable(f) == DOMAIN f \subseteq CaseIds /\ \A i \in DOMAIN f : f[i] \in CaseRows

Typed(t) ==
  /\ t.pc \in {"idle", "insert", "detect", "gather", "correlate"}
  /\ t.batch \subseteq stored \cup t.new /\ t.found \subseteq (stored \cup t.new) \X Flags
  /\ CaseTable(t.base) /\ CaseTable(t.view) /\ CaseTable(t.flushed)

TInv ==
  /\ GInv /\ findings \subseteq stored \X Flags /\ CaseTable(cases)
  /\ last \in Batches \cup {{}}
  /\ \A p \in Pipelines : Typed(pipe[p])

\* The principal of some events is the user of one of them.
LEMMA PrincipalIsUser ==
  ASSUME NEW S \in SUBSET Events, S # {}
  PROVE  Principal(S) \in {User[e] : e \in Events}
<1> DEFINE m == [e \in S |-> Count(S, User[e])]
           top == {e \in S : \A d \in S : Count(S, User[d]) <= Count(S, User[e])}
<1>1. IsFiniteSet(S)
  BY FS_Subset, DataAssumption
<1>2. ASSUME NEW e \in S PROVE Count(S, User[e]) \in Nat
  <2>1. {d \in S : User[d] = User[e]} \in SUBSET S
    OBVIOUS
  <2>2. IsFiniteSet({d \in S : User[d] = User[e]})
    BY <1>1, <2>1, FS_Subset
  <2> QED BY <2>2, FS_CardinalityType DEF Count
<1>3. \A e \in S : m[e] \in Nat
  BY <1>2
<1>4. PICK e \in S : \A d \in S : m[d] <= m[e]
  <2> HIDE DEF m
  <2> QED BY <1>1, <1>3, GreatestBy
<1>5. e \in top
  BY <1>4
<1>6. top \in SUBSET Events /\ \A d \in top : Time[d] \in Nat
  BY DataAssumption
<1> HIDE DEF top
<1>7. \E d \in top : \A c \in top : Time[d] <= Time[c]
  BY <1>5, <1>6, LeastBy
<1>8. Earliest(top) \in top
  BY <1>7 DEF Earliest
<1>9. Principal(S) = User[Earliest(top)]
  BY DEF Principal, top
<1> QED BY <1>6, <1>8, <1>9

LEMMA FingerprintType ==
  ASSUME NEW S \in SUBSET Events, S # {}, NEW F
  PROVE  /\ CaseType(S, F) \in IncidentTypes
         /\ CaseFingerprint(S, F) \in [type : IncidentTypes, user : {User[e] : e \in Events},
                                       bucket : Nat, ids : SUBSET Events]
<1>1. CaseType(S, F) \in IncidentTypes
  BY DEF CaseType, infer_incident_type, IncidentTypes
<1>2. PICK e \in S : TRUE
  OBVIOUS
<1>3. Start(S) \in Nat /\ MaxSpan \in Nat \ {0}
  BY <1>2, StartAndEnd, WindowAssumption
<1>4. Start(S) \div MaxSpan \in Nat
  BY <1>3
<1>5. Principal(S) \in {User[d] : d \in Events}
  BY PrincipalIsUser
<1> QED BY <1>1, <1>4, <1>5 DEF CaseFingerprint, Fingerprint

LEMMA CaseIsRow ==
  ASSUME NEW fp \in [type : IncidentTypes, user : {User[e] : e \in Events}, bucket : Nat,
                     ids : SUBSET Events],
         NEW type \in IncidentTypes, NEW status \in Statuses, NEW events \in SUBSET Events
  PROVE  Case(fp, type, status, events) \in CaseRows
  BY DEF Case, CaseRows

LEMMA RowFields ==
  ASSUME NEW row \in CaseRows
  PROVE  /\ row.fp \in [type : IncidentTypes, user : {User[e] : e \in Events}, bucket : Nat,
                        ids : SUBSET Events]
         /\ row.type \in IncidentTypes /\ row.status \in Statuses /\ row.events \in SUBSET Events
  BY DEF CaseRows

LEMMA TableWith ==
  ASSUME NEW f, CaseTable(f), NEW i \in CaseIds, NEW row \in CaseRows
  PROVE  CaseTable(With(f, i, row))
<1>1. /\ DOMAIN With(f, i, row) = DOMAIN f \cup {i} /\ With(f, i, row)[i] = row
      /\ \A j \in DOMAIN f \ {i} : With(f, i, row)[j] = f[j]
  BY DEF With, Over
<1> DEFINE g == With(f, i, row)
<1> HIDE DEF g
<1>2. DOMAIN g = DOMAIN f \cup {i} /\ g[i] = row /\ \A j \in DOMAIN f \ {i} : g[j] = f[j]
  BY <1>1 DEF g
<1>3. CaseTable(g)
  BY <1>2 DEF CaseTable
<1> QED BY <1>3 DEF g

LEMMA TableOver ==
  ASSUME NEW f, NEW g, CaseTable(f), CaseTable(g)
  PROVE  CaseTable(Over(f, g))
  BY DEF Over, CaseTable

LEMMA TableOfNone == CaseTable(NoCases)
  BY DEF CaseTable, NoCases

LEMMA TypedLocal ==
  ASSUME TInv, GInv', NEW p \in Pipelines, NEW t, Typed(t), Moves(p, t),
         UNCHANGED <<stored, findings, cases, last>>
  PROVE  TInv'
<1>1. \A q \in Pipelines : pipe'[q] = IF q = p THEN t ELSE pipe[q]
  BY DEF TInv, GInv, EInv, IInv, Moves
<1>2. \A q \in Pipelines : Typed(pipe'[q])
  BY <1>1 DEF TInv
<1>3. \A q \in Pipelines : Typed(pipe[q])'
  BY <1>2 DEF Typed
<1> QED BY <1>3 DEF TInv, CaseTable

LEMMA RollBackTypes ==
  ASSUME TInv, GInv', NEW p \in Pipelines, RollsBack(p)
  PROVE  TInv'
<1>1. Typed(Idle)
  BY TableOfNone DEF Typed, Idle, Transaction
<1> QED BY <1>1, TypedLocal DEF RollsBack

LEMMA DetectTypes ==
  ASSUME TInv, GInv', NEW p \in Pipelines, Detect(p)
  PROVE  TInv'
<1> DEFINE found == run_detection(Context(p) \cup pipe[p].batch) \ findings
           t == Found(pipe[p], found)
<1>1. Context(p) \cup pipe[p].batch \subseteq stored \cup pipe[p].new
  BY DEF TInv, Typed, Context, Seen
<1>2. found \subseteq (stored \cup pipe[p].new) \X Flags
  BY <1>1 DEF run_detection
<1> HIDE DEF found
<1>3. /\ t.pc = "gather" /\ t.batch = pipe[p].batch /\ t.new = pipe[p].new /\ t.found = found
      /\ t.base = pipe[p].base /\ t.view = pipe[p].view /\ t.flushed = pipe[p].flushed
  BY DEF Found, Transaction
<1>4. Moves(p, t) /\ UNCHANGED <<stored, findings, cases, last>>
  BY DEF Detect, found
<1> HIDE DEF t
<1>5. Typed(t)
  BY <1>2, <1>3 DEF TInv, Typed
<1> QED BY <1>4, <1>5, TypedLocal

LEMMA CorrelatingTypes ==
  ASSUME TInv, GInv', NEW p \in Pipelines, NEW todo, NEW base, NEW view, NEW flushed,
         Moves(p, Correlating(pipe[p], todo, base, view, flushed)),
         UNCHANGED <<stored, findings, cases, last>>,
         CaseTable(base), CaseTable(view), CaseTable(flushed)
  PROVE  TInv'
<1> DEFINE t == Correlating(pipe[p], todo, base, view, flushed)
<1>1. /\ t.pc = "correlate" /\ t.batch = pipe[p].batch /\ t.new = pipe[p].new
      /\ t.found = pipe[p].found /\ t.base = base /\ t.view = view /\ t.flushed = flushed
  BY DEF Correlating, Transaction
<1>2. Moves(p, t)
  OBVIOUS
<1> HIDE DEF t
<1>3. Typed(t)
  BY <1>1 DEF TInv, Typed
<1> QED BY <1>2, <1>3, TypedLocal

\* The events of a group are events, and at least one.
LEMMA GroupType ==
  ASSUME IInv, NEW p \in Pipelines, NEW g \in pipe[p].todo
  PROVE  g.events \in SUBSET Events /\ g.events # {} /\ g.events \subseteq Seen(p)
<1>1. Grounded(g.events, Seen(p), g.findings) /\ Seen(p) \subseteq Events
  BY KnownOfFlags DEF IInv, Sound, Seen
<1>2. g.events = {} => FlagsOf(g.events, g.findings) = {}
  BY DEF FlagsOf
<1>3. g.events # {}
  BY <1>1, <1>2, FS_EmptySet DEF Grounded
<1> QED BY <1>1, <1>3 DEF Grounded

LEMMA RowsTyped ==
  ASSUME TInv, NEW p \in Pipelines
  PROVE  CaseTable(Rows(p)) /\ \A i \in DOMAIN Rows(p) : Object(p, i) \in CaseRows
<1>1. CaseTable(cases) /\ CaseTable(pipe[p].flushed) /\ CaseTable(pipe[p].view)
  BY DEF TInv, Typed
<1>2. CaseTable(Rows(p))
  BY <1>1, TableOver DEF Rows
<1> QED BY <1>1, <1>2 DEF Object, CaseTable

LEMMA EnrichTypes ==
  ASSUME TInv, GInv', NEW p \in Pipelines, NEW g \in pipe[p].todo, NEW i \in CaseIds, Enrich(p, g, i)
  PROVE  TInv'
<1> DEFINE t == pipe[p]
           row == Object(p, i)
           all == {e \in row.events : e \in Seen(p)} \cup g.events
           base == IF i \in DOMAIN t.view THEN t.base ELSE With(t.base, i, Rows(p)[i])
           view == With(t.view, i, Enriched(p, i, g))
<1>1. i \in DOMAIN Rows(p)
  BY DEF Enrich, Existing, ByFingerprint, ByEvidence
<1>2. CaseTable(Rows(p)) /\ row \in CaseRows /\ Rows(p)[i] \in CaseRows
  BY <1>1, RowsTyped DEF CaseTable
<1>3. IInv
  BY DEF TInv, GInv, EInv
<1>4. all \in SUBSET Events /\ all # {}
  BY <1>3, GroupType, KnownOfFlags
<1>5. Enriched(p, i, g) \in CaseRows
  <2> DEFINE fp == CaseFingerprint(all, Known(p))
  <2>1. Enriched(p, i, g) = Case(IF fp \in FingerprintsBut(p, {i}) THEN row.fp ELSE fp,
                                 CaseType(all, Known(p)), row.status, all)
    BY DEF Enriched
  <2> HIDE DEF row, all
  <2>2. /\ CaseType(all, Known(p)) \in IncidentTypes
        /\ fp \in [type : IncidentTypes, user : {User[e] : e \in Events}, bucket : Nat,
                   ids : SUBSET Events]
    BY <1>4, FingerprintType
  <2>3. /\ row.fp \in [type : IncidentTypes, user : {User[e] : e \in Events}, bucket : Nat,
                       ids : SUBSET Events]
        /\ row.status \in Statuses
    BY <1>2, RowFields
  <2> HIDE DEF fp
  <2> QED BY <1>4, <2>1, <2>2, <2>3, CaseIsRow
<1>6. CaseTable(t.base) /\ CaseTable(t.view) /\ CaseTable(t.flushed)
  BY DEF TInv, Typed
<1>7. CaseTable(base) /\ CaseTable(view)
  BY <1>2, <1>5, <1>6, TableWith
<1>8. /\ Moves(p, Correlating(t, t.todo \ {g}, base, view, t.flushed))
      /\ UNCHANGED <<stored, findings, cases, last>>
  BY DEF Enrich
<1> HIDE DEF base, view
<1> QED BY <1>6, <1>7, <1>8, CorrelatingTypes

\* What a flush writes of typed objects is typed.
LEMMA WritesTyped ==
  ASSUME TInv, NEW p \in Pipelines, NEW view, CaseTable(view)
  PROVE  CaseTable(Writes(p, view))
<1> DEFINE base == pipe[p].base
           rows == Writes(p, view)
<1>1. CaseTable(cases) /\ CaseTable(base) /\ DOMAIN base \subseteq DOMAIN cases
  BY DEF TInv, Typed, GInv, EInv, IInv, Sound
<1>2. DOMAIN rows \subseteq DOMAIN view
  BY DEF Writes
<1>3. ASSUME NEW i \in DOMAIN rows PROVE rows[i] \in CaseRows
  <2>1. CASE i \notin DOMAIN base
    BY <1>2, <2>1 DEF Writes, CaseTable
  <2>2. CASE i \in DOMAIN base
    <3>1. rows[i] = Merged(view[i], base[i], cases[i])
      BY <2>2 DEF Writes
    <3>2. view[i] \in CaseRows /\ base[i] \in CaseRows /\ cases[i] \in CaseRows
      BY <1>1, <1>2, <2>2 DEF CaseTable
    <3>3. \A a, b, c \in CaseRows : Merged(a, b, c) \in CaseRows
      BY RowFields, CaseIsRow DEF Merged
    <3> QED BY <3>1, <3>2, <3>3
  <2> QED BY <2>1, <2>2
<1> QED BY <1>2, <1>3 DEF CaseTable

LEMMA OpenTypes ==
  ASSUME TInv, GInv', NEW p \in Pipelines, NEW g \in pipe[p].todo, Open(p, g)
  PROVE  TInv'
<1> DEFINE t == pipe[p]
           i == CHOOSE i \in FreeIds : TRUE
           view == WithOpened(p, g)
           flushed == Pending(p, g)
<1>1. i \in CaseIds
  BY DEF Open, FreeIds
<1>2. IInv
  BY DEF TInv, GInv, EInv
<1>3. Opened(p, g) \in CaseRows
  <2> DEFINE S == g.events
             F == g.findings
             fp == CaseFingerprint(S, F)
             fpp == IF fp \in FingerprintsBut(p, {}) THEN [fp EXCEPT !.ids = S] ELSE fp
  <2>1. S \in SUBSET Events /\ S # {}
    BY <1>2, GroupType
  <2>2. Opened(p, g) = Case(fpp, CaseType(S, F), "OPEN", S)
    BY DEF Opened
  <2> HIDE DEF S, F
  <2>3. /\ CaseType(S, F) \in IncidentTypes
        /\ fp \in [type : IncidentTypes, user : {User[e] : e \in Events}, bucket : Nat,
                   ids : SUBSET Events]
    BY <2>1, FingerprintType
  <2> HIDE DEF fp
  <2>4. fpp \in [type : IncidentTypes, user : {User[e] : e \in Events}, bucket : Nat,
                 ids : SUBSET Events]
    BY <2>1, <2>3
  <2> HIDE DEF fpp
  <2>5. "OPEN" \in Statuses
    BY DEF Statuses
  <2> QED BY <2>1, <2>2, <2>3, <2>4, <2>5, CaseIsRow
<1>4. CaseTable(t.base) /\ CaseTable(t.view)
  BY DEF TInv, Typed
<1>5. CaseTable(view)
  BY <1>1, <1>3, <1>4, TableWith DEF WithOpened
<1>6. CaseTable(flushed)
  BY <1>5, WritesTyped DEF Pending
<1> HIDE DEF view, flushed
<1>7. CASE /\ Moves(p, Correlating(t, t.todo \ {g}, t.base, view, flushed))
           /\ UNCHANGED <<stored, findings, cases, last>>
  BY <1>4, <1>5, <1>6, <1>7, CorrelatingTypes
<1>8. CASE RollsBack(p)
  BY <1>8, RollBackTypes
<1> QED BY <1>7, <1>8 DEF Open, view, flushed

LEMMA CommitTypes ==
  ASSUME TInv, GInv', NEW p \in Pipelines, Committed(p, Writes(p, pipe[p].view))
  PROVE  TInv'
<1> DEFINE rows == Writes(p, pipe[p].view)
<1>1. CaseTable(cases) /\ CaseTable(pipe[p].view)
  BY DEF TInv, Typed
<1>2. CaseTable(rows)
  BY <1>1, WritesTyped
<1>3. /\ stored' = Seen(p) /\ findings' = Known(p) /\ cases' = Over(rows, cases)
      /\ last' = Settled(p)
      /\ \A q \in Pipelines : pipe'[q] = IF q = p THEN Idle ELSE Overtaken(pipe[q])
  BY DEF Committed
<1> HIDE DEF rows
<1>4. CaseTable(cases')
  BY <1>1, <1>2, <1>3, TableOver
<1>5. stored \subseteq stored' /\ findings' \subseteq stored' \X Flags
  BY <1>3 DEF TInv, Typed, Seen, Known
<1>6. last' \in Batches \cup {{}}
  BY <1>3 DEF Settled, TInv, GInv, Searched
<1>7. /\ Idle.pc = "idle" /\ Idle.new = {} /\ Idle.batch = {} /\ Idle.found = {}
      /\ Idle.base = NoCases /\ Idle.view = NoCases /\ Idle.flushed = NoCases
  BY DEF Idle, Transaction
<1>8. \A t : LET u == Overtaken(t) IN
        /\ u.pc = t.pc /\ u.new = t.new /\ u.batch = t.batch /\ u.found = t.found
        /\ u.base = t.base /\ u.view = t.view /\ u.flushed = t.flushed
  BY DEF Overtaken, Transaction
<1>9. ASSUME NEW q \in Pipelines PROVE Typed(pipe[q])'
  <2>1. CASE q = p
    BY <1>3, <1>7, <2>1, TableOfNone DEF Typed, CaseTable
  <2>2. CASE q # p
    <3>1. Typed(pipe[q]) /\ pipe'[q] = Overtaken(pipe[q])
      BY <1>3, <2>2 DEF TInv
    <3> QED BY <1>5, <1>8, <3>1 DEF Typed, CaseTable
  <2> QED BY <2>1, <2>2
<1> QED BY <1>4, <1>5, <1>6, <1>9 DEF TInv, CaseTable

LEMMA CloseTypes ==
  ASSUME TInv, GInv', NEW i \in DOMAIN cases, CloseCase(i)
  PROVE  TInv'
<1>1. /\ cases' = With(cases, i, Case(cases[i].fp, cases[i].type, "CLOSED", cases[i].events))
      /\ last' = {} /\ UNCHANGED <<stored, findings, pipe>>
  BY DEF CloseCase
<1>2. CaseTable(cases) /\ cases[i] \in CaseRows /\ i \in CaseIds
  BY DEF TInv, CaseTable
<1>3. Case(cases[i].fp, cases[i].type, "CLOSED", cases[i].events) \in CaseRows
  BY <1>2, RowFields, CaseIsRow DEF Statuses
<1>4. CaseTable(cases')
  BY <1>1, <1>2, <1>3, TableWith
<1>5. \A q \in Pipelines : Typed(pipe[q])'
  BY <1>1 DEF TInv, Typed, CaseTable
<1> QED BY <1>1, <1>4, <1>5 DEF TInv, CaseTable

LEMMA TypesInit == Init => TInv
<1>1. Typed(Idle)
  BY TableOfNone DEF Typed, Idle, Transaction
<1>2. Init => GInv /\ \A p \in Pipelines : Typed(pipe[p])
  BY <1>1, GroupsInit DEF Init
<1> QED BY <1>2, TableOfNone DEF Init, TInv

LEMMA TypesNext == TInv /\ [Next]_vars => TInv'
<1> SUFFICES ASSUME TInv, [Next]_vars PROVE TInv'
  OBVIOUS
<1>1. GInv'
  BY GroupsNext DEF TInv
<1>2. ASSUME NEW p \in Pipelines, NEW batch \in Batches, Begin(p, batch) PROVE TInv'
  <2> DEFINE t == Transaction("insert", batch, batch \ stored, {}, {}, NoCases, NoCases, NoCases, TRUE)
  <2>1. Typed(t)
    BY TableOfNone DEF Typed, Transaction
  <2>2. Moves(p, t) /\ UNCHANGED <<stored, findings, cases, last>>
    BY <1>2 DEF Begin
  <2> HIDE DEF t
  <2> QED BY <1>1, <2>1, <2>2, TypedLocal
<1>3. ASSUME NEW p \in Pipelines, Insert(p) PROVE TInv'
  <2> DEFINE t == [pipe[p] EXCEPT !.pc = "detect"]
  <2>1. /\ t.pc = "detect" /\ t.batch = pipe[p].batch /\ t.new = pipe[p].new
        /\ t.found = pipe[p].found /\ t.base = pipe[p].base /\ t.view = pipe[p].view
        /\ t.flushed = pipe[p].flushed
    BY DEF TInv, GInv, EInv, IInv, Sound, Transaction
  <2>2. CASE Moves(p, t) /\ UNCHANGED <<stored, findings, cases, last>>
    <3> HIDE DEF t
    <3>1. Typed(t)
      BY <2>1 DEF TInv, Typed
    <3> QED BY <1>1, <2>2, <3>1, TypedLocal
  <2>3. CASE RollsBack(p)
    BY <1>1, <2>3, RollBackTypes
  <2> QED BY <1>3, <2>2, <2>3 DEF Insert
<1>4. ASSUME NEW p \in Pipelines, Detect(p) PROVE TInv'
  BY <1>1, <1>4, DetectTypes
<1>5. ASSUME NEW p \in Pipelines, Gather(p) PROVE TInv'
  BY <1>1, <1>5, TableOfNone, CorrelatingTypes DEF Gather
<1>6. ASSUME NEW p \in Pipelines, NEW g \in pipe[p].todo, Open(p, g) PROVE TInv'
  BY <1>1, <1>6, OpenTypes
<1>7. ASSUME NEW p \in Pipelines, NEW g \in pipe[p].todo, NEW i \in CaseIds, Enrich(p, g, i)
      PROVE  TInv'
  BY <1>1, <1>7, EnrichTypes
<1>8. ASSUME NEW p \in Pipelines, Commit(p) PROVE TInv'
  <2>1. CASE Committed(p, Writes(p, pipe[p].view))
    BY <1>1, <2>1, CommitTypes
  <2>2. CASE RollsBack(p)
    BY <1>1, <2>2, RollBackTypes
  <2> QED BY <1>8, <2>1, <2>2 DEF Commit
<1>9. ASSUME NEW p \in Pipelines, Abort(p) PROVE TInv'
  BY <1>1, <1>9, RollBackTypes DEF Abort
<1>10. ASSUME NEW i \in DOMAIN cases, CloseCase(i) PROVE TInv'
  BY <1>1, <1>10, CloseTypes
<1>11. CASE UNCHANGED vars
  BY <1>1, <1>11 DEF vars, TInv, Typed, CaseTable
<1> QED BY <1>2, <1>3, <1>4, <1>5, <1>6, <1>7, <1>8, <1>9, <1>10, <1>11 DEF Next

\* Every row, finding and transaction is well formed: no identifier outside the ids
\* of cases, no finding on telemetry that its transaction cannot see, a fingerprint
\* with a principal and a time bucket for every case.
THEOREM TablesAreTyped == Spec => []TypeOK
<1>1. ASSUME TInv PROVE TypeOK
  <2>1. stored \subseteq Events /\ findings \subseteq stored \X Flags /\ last \in Batches \cup {{}}
    BY <1>1 DEF TInv, GInv, EInv, IInv
  <2>2. DOMAIN cases \subseteq CaseIds /\ \A i \in DOMAIN cases : cases[i] \in CaseRows
    BY <1>1 DEF TInv, CaseTable
  <2>3. ASSUME NEW p \in Pipelines
        PROVE  /\ pipe[p].pc \in {"idle", "insert", "detect", "gather", "correlate"}
               /\ pipe[p].batch \in Batches \cup {{}} /\ pipe[p].new \subseteq pipe[p].batch
               /\ pipe[p].found \subseteq Seen(p) \X Flags
               /\ DOMAIN pipe[p].base \cup DOMAIN pipe[p].flushed \subseteq DOMAIN pipe[p].view
    <3>1. Typed(pipe[p]) /\ Searched(p) /\ Kept(pipe[p]) /\ Sound(pipe[p])
      BY <1>1 DEF TInv, GInv, EInv, IInv
    <3> QED BY <3>1 DEF Typed, Searched, Kept, Sound, Seen
  <2> QED BY <2>1, <2>2, <2>3 DEF TypeOK
<1> QED BY TypesInit, TypesNext, <1>1, PTL DEF Spec

-----------------------------------------------------------------------------
(* Fingerprints.  A transaction that nobody has overtaken gives no case of its own *)
(* a fingerprint that a case outside of it has, as long as no case is closed.  The *)
(* second fingerprint of a kind hashes evidence as well: whatever transactions     *)
(* make of a case, it keeps the evidence its fingerprint is made of, so that no     *)
(* other can be opened on the same.                                                *)

\* What a case is by what is committed, or by what a transaction has made of it.
VersionsOf(i) ==
  {cases[j] : j \in DOMAIN cases \cap {i}}
    \cup {pipe[p].view[i] : p \in {q \in Pipelines : i \in DOMAIN pipe[q].view}}

CarriedBy(S) == \A v, w \in S : v.fp.ids \subseteq w.events
Carried == \A i \in CaseIds : CarriedBy(VersionsOf(i))

Distinct == \A i, j \in DOMAIN cases : i # j => cases[i].fp # cases[j].fp

AllOpen == \A i \in DOMAIN cases : cases[i].status = "OPEN"

Based(t) ==
  t.fresh => \A i \in DOMAIN t.base :
               t.base[i].fp = cases[i].fp /\ t.base[i].type = cases[i].type

Unclaimed(t) ==
  t.fresh /\ AllOpen =>
    \A i \in DOMAIN t.view, j \in DOMAIN cases \ DOMAIN t.view : t.view[i].fp # cases[j].fp

CInv ==
  /\ TInv /\ Carried /\ Distinct
  /\ \A p \in Pipelines : Based(pipe[p]) /\ Unclaimed(pipe[p])

LEMMA InVersions ==
  ASSUME NEW i
  PROVE  /\ i \in DOMAIN cases => cases[i] \in VersionsOf(i)
         /\ \A p \in Pipelines : i \in DOMAIN pipe[p].view => pipe[p].view[i] \in VersionsOf(i)
  BY DEF VersionsOf

LEMMA NewVersions ==
  ASSUME IInv, NEW p \in Pipelines, NEW t, Moves(p, t), UNCHANGED cases, NEW i,
         NEW v \in VersionsOf(i)'
  PROVE  v \in VersionsOf(i) \/ (i \in DOMAIN t.view /\ v = t.view[i])
<1>1. \A q \in Pipelines : pipe'[q] = IF q = p THEN t ELSE pipe[q]
  BY DEF IInv, Moves
<1>2. CASE i \in DOMAIN cases' /\ v = cases'[i]
  BY <1>2, InVersions
<1>3. CASE \E q \in Pipelines : i \in DOMAIN pipe'[q].view /\ v = pipe'[q].view[i]
  BY <1>1, <1>3, InVersions
<1> QED BY <1>2, <1>3 DEF VersionsOf

\* Versions made of old ones, with more evidence and no other events to hash.
LEMMA MadeOfOld ==
  ASSUME NEW S, NEW T, CarriedBy(S),
         \A v \in T : /\ v.fp.ids = {} \/ \E u \in S : v.fp.ids = u.fp.ids
                      /\ \E w \in S : w.events \subseteq v.events
  PROVE  CarriedBy(T)
  BY DEF CarriedBy

LEMMA ClaimsLocal ==
  ASSUME CInv, TInv', NEW p \in Pipelines, NEW t, Moves(p, t), UNCHANGED cases,
         Based(t), Unclaimed(t), Carried'
  PROVE  CInv'
<1>1. \A q \in Pipelines : pipe'[q] = IF q = p THEN t ELSE pipe[q]
  BY DEF CInv, TInv, GInv, EInv, IInv, Moves
<1>2. \A q \in Pipelines : Based(pipe'[q]) /\ Unclaimed(pipe'[q])
  BY <1>1 DEF CInv
<1>3. \A q \in Pipelines : Based(pipe[q])' /\ Unclaimed(pipe[q])'
  BY <1>2 DEF Based, Unclaimed, AllOpen
<1> QED BY <1>3 DEF CInv, Distinct

\* Steps that leave the objects alone, or forget all of them.
LEMMA ClaimsPlain ==
  ASSUME CInv, TInv', NEW p \in Pipelines, NEW t, Moves(p, t), UNCHANGED cases,
         \/ t.view = pipe[p].view /\ t.base = pipe[p].base /\ t.fresh = pipe[p].fresh
         \/ t.view = NoCases /\ t.base = NoCases
  PROVE  CInv'
<1>1. DOMAIN NoCases = {} /\ IInv
  BY DEF NoCases, CInv, TInv, GInv, EInv
<1>2. Based(t) /\ Unclaimed(t)
  BY <1>1 DEF CInv, Based, Unclaimed
<1>3. \A i \in CaseIds : VersionsOf(i)' \subseteq VersionsOf(i)
  BY <1>1, NewVersions, InVersions
<1>4. Carried'
  BY <1>3 DEF CInv, Carried, CarriedBy
<1> QED BY <1>2, <1>4, ClaimsLocal

\* The fingerprint of an enriched case is the one it had, or one that no other row has.
LEMMA EnrichedFingerprint ==
  ASSUME NEW p \in Pipelines, NEW i, NEW g
  PROVE  \/ Enriched(p, i, g).fp = Object(p, i).fp
         \/ /\ Enriched(p, i, g).fp \notin FingerprintsBut(p, {i})
            /\ Enriched(p, i, g).fp.ids = {}
<1> DEFINE all == {e \in Object(p, i).events : e \in Seen(p)} \cup g.events
           fp == CaseFingerprint(all, Known(p))
<1>1. fp.ids = {}
  BY DEF CaseFingerprint, Fingerprint
<1>2. Enriched(p, i, g).fp = IF fp \in FingerprintsBut(p, {i}) THEN Object(p, i).fp ELSE fp
  BY DEF Enriched, Case
<1> HIDE DEF fp
<1> QED BY <1>1, <1>2

LEMMA EnrichClaims ==
  ASSUME CInv, TInv', NEW p \in Pipelines, NEW g \in pipe[p].todo, NEW i \in CaseIds,
         Enrich(p, g, i)
  PROVE  CInv'
<1> DEFINE t == pipe[p]
           o == Object(p, i)
           row == Enriched(p, i, g)
           view == With(t.view, i, row)
           base == IF i \in DOMAIN t.view THEN t.base ELSE With(t.base, i, Rows(p)[i])
           u == Correlating(t, t.todo \ {g}, base, view, t.flushed)
<1>1. IInv /\ Sound(t) /\ CasesGrounded /\ Based(t) /\ Unclaimed(t)
  BY DEF CInv, TInv, GInv, EInv, IInv
<1>2. i \in DOMAIN t.flushed \cup DOMAIN cases
  BY DEF Enrich, Existing, ByFingerprint, ByEvidence, Rows, Over
<1>3. IF i \in DOMAIN t.view THEN o = t.view[i]
      ELSE i \in DOMAIN cases /\ o = cases[i] /\ Rows(p)[i] = cases[i]
  BY <1>1, <1>2 DEF Object, Rows, Over, Sound
<1>4. o \in VersionsOf(i) /\ o.events \subseteq Seen(p)
  BY <1>1, <1>3, InVersions DEF Sound, CasesGrounded, Grounded, Seen
<1>5. o.events \subseteq row.events
  BY <1>4 DEF Enriched, Case
<1>6. row.fp = o.fp \/ (row.fp \notin FingerprintsBut(p, {i}) /\ row.fp.ids = {})
  BY EnrichedFingerprint
<1>7. Moves(p, u) /\ UNCHANGED cases
  BY DEF Enrich
<1>8. u.view = view /\ u.base = base /\ u.fresh = t.fresh
  BY DEF Correlating, Transaction
<1>9. DOMAIN view = DOMAIN t.view \cup {i} /\ view[i] = row
      /\ \A j \in DOMAIN t.view \ {i} : view[j] = t.view[j]
  BY DEF With, Over
<1>10. Based(u)
  <2>1. CASE i \in DOMAIN t.view
    BY <1>1, <1>8, <2>1 DEF Based
  <2>2. CASE i \notin DOMAIN t.view
    <3>1. base = With(t.base, i, cases[i])
      BY <1>3, <2>2
    <3> HIDE DEF base
    <3>2. DOMAIN base = DOMAIN t.base \cup {i} /\ base[i] = cases[i]
          /\ \A j \in DOMAIN t.base \ {i} : base[j] = t.base[j]
      BY <3>1 DEF With, Over
    <3> HIDE DEF u
    <3> QED BY <1>1, <1>8, <3>2 DEF Based
  <2> QED BY <2>1, <2>2
<1> HIDE DEF u, view, row, o
<1>11. ASSUME NEW k \in CaseIds PROVE CarriedBy(VersionsOf(k)')
  <2>1. CarriedBy(VersionsOf(k))
    BY DEF CInv, Carried
  <2>2. ASSUME NEW v \in VersionsOf(k)'
        PROVE  /\ v.fp.ids = {} \/ \E w \in VersionsOf(k) : v.fp.ids = w.fp.ids
               /\ \E w \in VersionsOf(k) : w.events \subseteq v.events
    <3>1. CASE v \in VersionsOf(k)
      BY <3>1
    <3>2. CASE k \in DOMAIN u.view /\ v = u.view[k] /\ k # i
      BY <1>8, <1>9, <3>2, InVersions
    <3>3. CASE v = row /\ k = i
      BY <1>4, <1>5, <1>6, <3>3
    <3> QED BY <1>1, <1>7, <1>8, <1>9, <3>1, <3>2, <3>3, NewVersions
  <2> QED BY <2>1, <2>2, MadeOfOld
<1>12. Carried'
  BY <1>11 DEF Carried, CarriedBy
<1>13. Unclaimed(u)
  <2> SUFFICES ASSUME t.fresh, AllOpen, NEW k \in DOMAIN view, NEW j \in DOMAIN cases \ DOMAIN view
               PROVE  view[k].fp # cases[j].fp
    BY <1>8 DEF Unclaimed
  <2>1. j \notin DOMAIN t.view /\ j # i
    BY <1>9
  <2>2. CASE k # i
    BY <1>1, <1>9, <2>1, <2>2 DEF Unclaimed
  <2>3. CASE k = i /\ row.fp = o.fp
    BY <1>1, <1>3, <1>9, <2>1, <2>3 DEF Unclaimed, CInv, Distinct
  <2>4. CASE k = i /\ row.fp \notin FingerprintsBut(p, {i})
    <3>1. j \in DOMAIN Rows(p) \ {i} /\ Rows(p)[j] = cases[j]
      BY <1>1, <2>1 DEF Rows, Over, Sound
    <3> QED BY <1>9, <2>4, <3>1 DEF FingerprintsBut
  <2> QED BY <1>6, <2>2, <2>3, <2>4
<1> QED BY <1>7, <1>10, <1>12, <1>13, ClaimsLocal

\* While no case is closed, what is opened gets a fingerprint that no row has: one
\* that hashes the group's evidence is only that of a case which has this evidence.
LEMMA OpenedFingerprint ==
  ASSUME CInv, AllOpen, NEW p \in Pipelines, NEW g \in pipe[p].todo, Existing(p, g) = {},
         NEW j \in DOMAIN cases \ DOMAIN pipe[p].view
  PROVE  Opened(p, g).fp # cases[j].fp
<1> DEFINE fp == CaseFingerprint(g.events, g.findings)
<1>1. IInv /\ Sound(pipe[p])
  BY DEF CInv, TInv, GInv, EInv, IInv
<1>2. j \in DOMAIN Rows(p) /\ Rows(p)[j] = cases[j] /\ Object(p, j) = cases[j]
  BY <1>1 DEF Rows, Over, Sound, Object
<1>3. CASE fp \notin FingerprintsBut(p, {})
  <2>1. Opened(p, g).fp = fp
    BY <1>3 DEF Opened, Case
  <2> QED BY <1>2, <1>3, <2>1 DEF FingerprintsBut
<1>4. CASE fp \in FingerprintsBut(p, {})
  <2>1. Opened(p, g).fp.ids = g.events
    <3>1. fp = [type |-> fp.type, user |-> fp.user, bucket |-> fp.bucket, ids |-> fp.ids]
      BY DEF CaseFingerprint, Fingerprint
    <3>2. Opened(p, g).fp = [fp EXCEPT !.ids = g.events]
      BY <1>4 DEF Opened, Case
    <3> HIDE DEF fp
    <3> QED BY <3>1, <3>2
  <2>2. cases[j].events \cap g.events = {}
    <3>1. ByEvidence(p, g.events) = {}
      BY DEF Existing
    <3>2. Rows(p)[j].status = "OPEN"
      BY <1>2 DEF AllOpen
    <3> QED BY <1>2, <3>1, <3>2 DEF ByEvidence
  <2>3. g.events # {}
    BY <1>1, GroupType
  <2>4. j \in CaseIds
    BY DEF CInv, TInv, CaseTable
  <2>5. cases[j].fp.ids \subseteq cases[j].events
    BY <2>4, InVersions DEF CInv, Carried, CarriedBy
  <2> QED BY <2>1, <2>2, <2>3, <2>5
<1> QED BY <1>3, <1>4

LEMMA OpenClaims ==
  ASSUME CInv, TInv', NEW p \in Pipelines, NEW g \in pipe[p].todo, Open(p, g)
  PROVE  CInv'
<1> DEFINE t == pipe[p]
           i == CHOOSE i \in FreeIds : TRUE
           row == Opened(p, g)
           view == With(t.view, i, row)
           u == Correlating(t, t.todo \ {g}, t.base, view, Pending(p, g))
<1>1. IInv /\ Based(t) /\ Unclaimed(t)
  BY DEF CInv, TInv, GInv, EInv
<1>2. CASE Moves(p, u) /\ UNCHANGED cases
  <2>1. i \in FreeIds /\ Existing(p, g) = {}
    BY DEF Open
  <2>2. i \in CaseIds /\ i \notin DOMAIN cases /\ \A q \in Pipelines : i \notin DOMAIN pipe[q].view
    BY <2>1 DEF FreeIds
  <2>3. u.view = view /\ u.base = t.base /\ u.fresh = t.fresh
    BY DEF Correlating, Transaction
  <2> HIDE DEF i
  <2>4. DOMAIN view = DOMAIN t.view \cup {i} /\ view[i] = row
        /\ \A j \in DOMAIN t.view \ {i} : view[j] = t.view[j]
    BY DEF With, Over
  <2>5. row.events = g.events /\ (row.fp.ids = {} \/ row.fp.ids = g.events)
    <3> DEFINE fp == CaseFingerprint(g.events, g.findings)
    <3>1. fp = [type |-> fp.type, user |-> fp.user, bucket |-> fp.bucket, ids |-> {}]
      BY DEF CaseFingerprint, Fingerprint
    <3>2. row.fp = IF fp \in FingerprintsBut(p, {}) THEN [fp EXCEPT !.ids = g.events] ELSE fp
      BY DEF Opened, Case
    <3>3. row.events = g.events
      BY DEF Opened, Case
    <3> HIDE DEF fp, row
    <3> QED BY <3>1, <3>2, <3>3
  <2>6. VersionsOf(i) = {}
    BY <2>2 DEF VersionsOf
  <2> HIDE DEF u, view, row
  <2>7. ASSUME NEW k \in CaseIds PROVE CarriedBy(VersionsOf(k)')
    <3>1. CASE k = i
      <4>1. \A v \in VersionsOf(k)' : v = row
        BY <1>1, <1>2, <2>3, <2>4, <2>6, <3>1, NewVersions
      <4> QED BY <2>5, <4>1 DEF CarriedBy
    <3>2. CASE k # i
      <4>1. VersionsOf(k)' \subseteq VersionsOf(k)
        BY <1>1, <1>2, <2>3, <2>4, <3>2, NewVersions, InVersions
      <4> QED BY <4>1 DEF CInv, Carried, CarriedBy
    <3> QED BY <3>1, <3>2
  <2>8. Carried'
    BY <2>7 DEF Carried, CarriedBy
  <2>9. Based(u)
    BY <1>1, <2>3 DEF Based
  <2>10. Unclaimed(u)
    <3> SUFFICES ASSUME t.fresh, AllOpen, NEW k \in DOMAIN view,
                        NEW j \in DOMAIN cases \ DOMAIN view
                 PROVE  view[k].fp # cases[j].fp
      BY <2>3 DEF Unclaimed
    <3>1. CASE k # i
      BY <1>1, <2>4, <3>1 DEF Unclaimed
    <3>2. CASE k = i
      BY <2>1, <2>4, <3>2, OpenedFingerprint DEF row
    <3> QED BY <3>1, <3>2
  <2> QED BY <1>2, <2>8, <2>9, <2>10, ClaimsLocal
<1>3. CASE RollsBack(p)
  <2>1. Idle.view = NoCases /\ Idle.base = NoCases
    BY DEF Idle, Transaction
  <2> QED BY <1>3, <2>1, ClaimsPlain DEF RollsBack
<1> QED BY <1>2, <1>3 DEF Open, WithOpened

\* A row that is written has the fingerprint and the evidence of a version of its case.
LEMMA WrittenVersion ==
  ASSUME IInv, NEW p \in Pipelines, NEW i \in DOMAIN Writes(p, pipe[p].view)
  PROVE  /\ \E v \in VersionsOf(i) : Writes(p, pipe[p].view)[i].fp = v.fp
         /\ \E v \in VersionsOf(i) : Writes(p, pipe[p].view)[i].events = v.events
<1> DEFINE t == pipe[p]
           rows == Writes(p, t.view)
<1>1. i \in DOMAIN t.view /\ t.view[i] \in VersionsOf(i)
  BY InVersions DEF Writes
<1>2. i \in DOMAIN t.base => i \in DOMAIN cases /\ cases[i] \in VersionsOf(i)
  BY InVersions DEF IInv, Sound
<1>3. \/ rows[i] = t.view[i]
      \/ i \in DOMAIN t.base /\ rows[i] = Merged(t.view[i], t.base[i], cases[i])
  BY DEF Writes
<1>4. CASE i \in DOMAIN t.base /\ rows[i] = Merged(t.view[i], t.base[i], cases[i])
  <2>1. /\ rows[i].fp = t.view[i].fp \/ rows[i].fp = cases[i].fp
        /\ rows[i].events = t.view[i].events \/ rows[i].events = cases[i].events
    BY <1>4 DEF Merged, Case
  <2> HIDE DEF rows
  <2> QED BY <1>1, <1>2, <1>4, <2>1 DEF rows
<1> HIDE DEF rows
<1> QED BY <1>1, <1>3, <1>4 DEF rows

LEMMA CommitClaims ==
  ASSUME CInv, TInv', NEW p \in Pipelines, Committed(p, Writes(p, pipe[p].view)),
         ~Clash(Writes(p, pipe[p].view))
  PROVE  CInv'
<1> DEFINE t == pipe[p]
           rows == Writes(p, t.view)
<1>1. IInv
  BY DEF CInv, TInv, GInv, EInv
<1>2. /\ cases' = Over(rows, cases)
      /\ \A q \in Pipelines : pipe'[q] = IF q = p THEN Idle ELSE Overtaken(pipe[q])
  BY DEF Committed
<1>3. \A i \in DOMAIN rows : /\ \E v \in VersionsOf(i) : rows[i].fp = v.fp
                             /\ \E v \in VersionsOf(i) : rows[i].events = v.events
  BY <1>1, WrittenVersion
<1>4. ~Clash(rows)
  OBVIOUS
<1> HIDE DEF rows
<1>5. DOMAIN cases' = DOMAIN rows \cup DOMAIN cases
      /\ \A i \in DOMAIN cases' : cases'[i] = IF i \in DOMAIN rows THEN rows[i] ELSE cases[i]
  BY <1>2 DEF Over
<1>6. Distinct'
  BY <1>4, <1>5 DEF CInv, Distinct, Clash
<1>7. /\ Idle.view = NoCases /\ Idle.base = NoCases /\ DOMAIN NoCases = {}
      /\ \A u : Overtaken(u).view = u.view /\ Overtaken(u).fresh = FALSE
  BY DEF Idle, Overtaken, Transaction, NoCases
<1>8. ASSUME NEW q \in Pipelines PROVE Based(pipe[q])' /\ Unclaimed(pipe[q])'
  <2>1. pipe'[q].fresh = FALSE \/ (DOMAIN pipe'[q].view = {} /\ DOMAIN pipe'[q].base = {})
    BY <1>2, <1>7
  <2> QED BY <2>1 DEF Based, Unclaimed
<1>9. ASSUME NEW i \in CaseIds PROVE CarriedBy(VersionsOf(i)')
  <2>1. ASSUME NEW v \in VersionsOf(i)'
        PROVE  /\ \E w \in VersionsOf(i) : v.fp = w.fp
               /\ \E w \in VersionsOf(i) : v.events = w.events
    <3>1. CASE i \in DOMAIN cases' /\ v = cases'[i]
      BY <1>3, <1>5, <3>1, InVersions
    <3>2. CASE \E q \in Pipelines : i \in DOMAIN pipe'[q].view /\ v = pipe'[q].view[i]
      BY <1>2, <1>7, <3>2, InVersions
    <3> QED BY <3>1, <3>2 DEF VersionsOf
  <2>2. CarriedBy(VersionsOf(i))
    BY DEF CInv, Carried
  <2> QED BY <2>1, <2>2 DEF CarriedBy
<1>10. Carried'
  BY <1>9 DEF Carried, CarriedBy
<1> QED BY <1>6, <1>8, <1>10 DEF CInv

LEMMA CloseClaims ==
  ASSUME CInv, TInv', NEW i \in DOMAIN cases, CloseCase(i)
  PROVE  CInv'
<1>1. /\ UNCHANGED pipe
      /\ cases' = With(cases, i, Case(cases[i].fp, cases[i].type, "CLOSED", cases[i].events))
  BY DEF CloseCase
<1>2. DOMAIN cases' = DOMAIN cases
  BY <1>1 DEF With, Over
<1>3. \A j \in DOMAIN cases : cases'[j].events = cases[j].events /\ cases'[j].fp = cases[j].fp
                              /\ cases'[j].type = cases[j].type
  BY <1>1 DEF With, Over, Case
<1>4. cases'[i].status = "CLOSED"
  BY <1>1 DEF With, Over, Case
<1>5. Distinct' /\ ~AllOpen'
  BY <1>2, <1>3, <1>4 DEF CInv, Distinct, AllOpen
<1>6. ASSUME NEW p \in Pipelines PROVE Based(pipe[p])' /\ Unclaimed(pipe[p])'
  <2>1. Based(pipe[p]) /\ DOMAIN pipe[p].base \subseteq DOMAIN cases
    BY DEF CInv, TInv, GInv, EInv, IInv, Sound
  <2> QED BY <1>1, <1>3, <1>5, <2>1 DEF Based, Unclaimed
<1>7. ASSUME NEW k \in CaseIds PROVE CarriedBy(VersionsOf(k)')
  <2>1. ASSUME NEW v \in VersionsOf(k)'
        PROVE  \E w \in VersionsOf(k) : v.fp = w.fp /\ v.events = w.events
    <3>1. CASE k \in DOMAIN cases' /\ v = cases'[k]
      BY <1>2, <1>3, <3>1, InVersions
    <3>2. CASE \E q \in Pipelines : k \in DOMAIN pipe'[q].view /\ v = pipe'[q].view[k]
      BY <1>1, <3>2, InVersions
    <3> QED BY <3>1, <3>2 DEF VersionsOf
  <2>2. CarriedBy(VersionsOf(k))
    BY DEF CInv, Carried
  <2> QED BY <2>1, <2>2 DEF CarriedBy
<1>8. Carried'
  BY <1>7 DEF Carried, CarriedBy
<1> QED BY <1>5, <1>6, <1>8 DEF CInv

LEMMA ClaimsInit == Init => CInv
<1>1. Idle.view = NoCases /\ Idle.base = NoCases /\ DOMAIN NoCases = {}
  BY DEF Idle, Transaction, NoCases
<1> SUFFICES ASSUME Init PROVE CInv
  OBVIOUS
<1>2. DOMAIN cases = {} /\ \A p \in Pipelines : DOMAIN pipe[p].view = {} /\ DOMAIN pipe[p].base = {}
  BY <1>1 DEF Init
<1>3. \A i : VersionsOf(i) = {}
  BY <1>2 DEF VersionsOf
<1>4. Carried
  BY <1>3 DEF Carried, CarriedBy
<1> QED BY <1>2, <1>4, TypesInit DEF CInv, Distinct, Based, Unclaimed

LEMMA ClaimsNext == CInv /\ [Next]_vars => CInv'
<1> SUFFICES ASSUME CInv, [Next]_vars PROVE CInv'
  OBVIOUS
<1>1. TInv'
  BY TypesNext DEF CInv
<1>2. /\ Idle.view = NoCases /\ Idle.base = NoCases
      /\ \A p \in Pipelines : RollsBack(p) => CInv'
  <2>1. Idle.view = NoCases /\ Idle.base = NoCases
    BY DEF Idle, Transaction
  <2> QED BY <1>1, <2>1, ClaimsPlain DEF RollsBack
<1>3. ASSUME NEW p \in Pipelines, NEW batch \in Batches, Begin(p, batch) PROVE CInv'
  <2> DEFINE t == Transaction("insert", batch, batch \ stored, {}, {}, NoCases, NoCases, NoCases, TRUE)
  <2>1. t.view = NoCases /\ t.base = NoCases /\ Moves(p, t) /\ UNCHANGED cases
    BY <1>3 DEF Begin, Transaction
  <2> HIDE DEF t
  <2> QED BY <1>1, <2>1, ClaimsPlain
<1>4. ASSUME NEW p \in Pipelines, Insert(p) PROVE CInv'
  <2> DEFINE t == [pipe[p] EXCEPT !.pc = "detect"]
  <2>1. t.view = pipe[p].view /\ t.base = pipe[p].base /\ t.fresh = pipe[p].fresh
    BY DEF CInv, TInv, GInv, EInv, IInv, Sound, Transaction
  <2>2. CASE Moves(p, t) /\ UNCHANGED <<stored, findings, cases, last>>
    <3> HIDE DEF t
    <3> QED BY <1>1, <2>1, <2>2, ClaimsPlain
  <2> QED BY <1>2, <1>4, <2>2 DEF Insert
<1>5. ASSUME NEW p \in Pipelines, Detect(p) PROVE CInv'
  <2> DEFINE t == Found(pipe[p], run_detection(Context(p) \cup pipe[p].batch) \ findings)
  <2>1. /\ t.view = pipe[p].view /\ t.base = pipe[p].base /\ t.fresh = pipe[p].fresh
        /\ Moves(p, t) /\ UNCHANGED cases
    BY <1>5 DEF Detect, Found, Transaction
  <2> HIDE DEF t
  <2> QED BY <1>1, <2>1, ClaimsPlain
<1>6. ASSUME NEW p \in Pipelines, Gather(p) PROVE CInv'
  <2> DEFINE todo == {[events |-> g, findings |-> {f \in Known(p) : f[1] \in g}] : g \in CaseGroups(p)}
             t == Correlating(pipe[p], todo, NoCases, NoCases, NoCases)
  <2>1. t.view = NoCases /\ t.base = NoCases /\ Moves(p, t) /\ UNCHANGED cases
    BY <1>6 DEF Gather, Correlating, Transaction
  <2> HIDE DEF t
  <2> QED BY <1>1, <2>1, ClaimsPlain
<1>7. ASSUME NEW p \in Pipelines, NEW g \in pipe[p].todo, Open(p, g) PROVE CInv'
  BY <1>1, <1>7, OpenClaims
<1>8. ASSUME NEW p \in Pipelines, NEW g \in pipe[p].todo, NEW i \in CaseIds, Enrich(p, g, i)
      PROVE  CInv'
  BY <1>1, <1>8, EnrichClaims
<1>9. ASSUME NEW p \in Pipelines, Commit(p) PROVE CInv'
  BY <1>1, <1>2, <1>9, CommitClaims DEF Commit
<1>10. ASSUME NEW p \in Pipelines, Abort(p) PROVE CInv'
  BY <1>2, <1>10 DEF Abort
<1>11. ASSUME NEW i \in DOMAIN cases, CloseCase(i) PROVE CInv'
  BY <1>1, <1>11, CloseClaims
<1>12. CASE UNCHANGED vars
  BY <1>1, <1>12 DEF vars, CInv, Carried, CarriedBy, VersionsOf, Distinct, AllOpen, Based, Unclaimed
<1> QED BY <1>3, <1>4, <1>5, <1>6, <1>7, <1>8, <1>9, <1>10, <1>11, <1>12 DEF Next

\* What a transaction that nobody has overtaken writes has the fingerprints it has
\* given to its cases, and clashes only if two of these are the same.
LEMMA NoClash ==
  ASSUME CInv, NEW p \in Pipelines, pipe[p].fresh, NEW view,
         DOMAIN pipe[p].base \subseteq DOMAIN view, ~Twins(view),
         \A i \in DOMAIN view, j \in DOMAIN cases \ DOMAIN view : view[i].fp # cases[j].fp
  PROVE  ~Clash(Writes(p, view))
<1> DEFINE base == pipe[p].base
           rows == Writes(p, view)
<1>1. Based(pipe[p]) /\ DOMAIN base \subseteq DOMAIN cases
  BY DEF CInv, TInv, GInv, EInv, IInv, Sound
<1>2. \A i \in DOMAIN base : base[i].fp = cases[i].fp
  BY <1>1 DEF Based
<1>3. /\ DOMAIN rows \subseteq DOMAIN view
      /\ \A i \in DOMAIN view \ DOMAIN rows : i \in DOMAIN base /\ view[i] = base[i]
  BY DEF Writes
<1>4. ASSUME NEW i \in DOMAIN rows PROVE rows[i].fp = view[i].fp
  <2>1. CASE i \notin DOMAIN base
    BY <2>1 DEF Writes
  <2>2. CASE i \in DOMAIN base
    <3>1. rows[i] = Merged(view[i], base[i], cases[i])
      BY <2>2 DEF Writes
    <3> QED BY <1>2, <2>2, <3>1 DEF Merged, Case
  <2> QED BY <2>1, <2>2
<1> HIDE DEF rows
<1>5. ASSUME NEW i \in DOMAIN rows, NEW j \in DOMAIN cases \ DOMAIN rows
      PROVE  rows[i].fp # cases[j].fp
  <2>1. CASE j \in DOMAIN view
    <3>1. j \in DOMAIN base /\ view[j] = base[j]
      BY <1>3, <2>1
    <3>2. cases[j].fp = view[j].fp
      BY <1>2, <3>1
    <3> QED BY <1>3, <1>4, <2>1, <3>2 DEF Twins
  <2>2. CASE j \notin DOMAIN view
    BY <1>3, <1>4, <2>2
  <2> QED BY <2>1, <2>2
<1>6. ASSUME NEW i \in DOMAIN rows, NEW j \in DOMAIN rows, i # j
      PROVE  rows[i].fp # rows[j].fp
  BY <1>3, <1>4, <1>6 DEF Twins
<1>7. ~Clash(rows)
  BY <1>5, <1>6 DEF Clash
<1> QED BY <1>7 DEF rows

\* A batch that nobody overtakes, with no case closed, fails on no fingerprint that is
\* in the table (a unique column): the lookups of create_or_update_incidents
\* and of the refresh after it see to that, up to two cases of the batch that come to
\* the same fingerprint between two flushes.
THEOREM FreshBatchesGoThrough == Spec => []BatchesGoThrough
<1>1. ASSUME CInv PROVE BatchesGoThrough
  <2> SUFFICES ASSUME AllOpen, NEW p \in Pipelines, pipe[p].fresh, pipe[p].pc = "correlate"
               PROVE  /\ pipe[p].todo = {} /\ ~Twins(pipe[p].view) =>
                           ~Clash(Writes(p, pipe[p].view))
                      /\ \A g \in pipe[p].todo :
                           Existing(p, g) = {} /\ FreeIds # {} /\ ~Twins(WithOpened(p, g)) =>
                             ~Clash(Pending(p, g))
    BY DEF BatchesGoThrough, AllOpen
  <2>1. Unclaimed(pipe[p]) /\ DOMAIN pipe[p].base \subseteq DOMAIN pipe[p].view
    BY <1>1 DEF CInv, TInv, GInv, EInv, Kept
  <2>2. ASSUME ~Twins(pipe[p].view) PROVE ~Clash(Writes(p, pipe[p].view))
    BY <1>1, <2>1, <2>2, NoClash DEF Unclaimed
  <2>3. ASSUME NEW g \in pipe[p].todo, Existing(p, g) = {}, ~Twins(WithOpened(p, g))
        PROVE  ~Clash(Pending(p, g))
    <3> DEFINE i == CHOOSE i \in FreeIds : TRUE
               view == WithOpened(p, g)
    <3>1. view = With(pipe[p].view, i, Opened(p, g))
      BY DEF WithOpened
    <3> HIDE DEF view, i
    <3>2. /\ DOMAIN view = DOMAIN pipe[p].view \cup {i} /\ view[i] = Opened(p, g)
          /\ \A k \in DOMAIN pipe[p].view \ {i} : view[k] = pipe[p].view[k]
      BY <3>1 DEF With, Over
    <3>3. ASSUME NEW k \in DOMAIN view, NEW j \in DOMAIN cases \ DOMAIN view
          PROVE  view[k].fp # cases[j].fp
      <4>1. CASE k = i
        BY <1>1, <2>3, <3>2, <4>1, OpenedFingerprint
      <4>2. CASE k # i
        BY <2>1, <3>2, <4>2 DEF Unclaimed
      <4> QED BY <4>1, <4>2
    <3>4. DOMAIN pipe[p].base \subseteq DOMAIN view
      BY <2>1, <3>2
    <3>5. ~Twins(view)
      BY <2>3 DEF view
    <3>6. ~Clash(Writes(p, view))
      BY <1>1, <3>3, <3>4, <3>5, NoClash
    <3> QED BY <3>6 DEF view, Pending
  <2> QED BY <2>2, <2>3
<1> QED BY ClaimsInit, ClaimsNext, <1>1, PTL DEF Spec

-----------------------------------------------------------------------------
(* Redelivery.  After the commit of a batch that nothing has disturbed, running it *)
(* again stores nothing, finds nothing and has no group that no case has, so that   *)
(* it opens none; and each group finds the case it is in, if there is no other.     *)

\* What a transaction with this batch reads, if this is what it sees.
ContextOf(B, seen) ==
  {e \in seen : /\ \E d \in B : <<d, e>> \in Related
                /\ Time[e] + Window >= Start(B) /\ Time[e] <= End(B)}
CandidatesOf(B, seen, known) ==
  {e \in seen : /\ Time[e] + Window >= Start(B) /\ Time[e] <= End(B) + Window
                /\ Suspicious(e, known)}
GroupsOf(B, seen, known) ==
  {g \in Groups[CandidatesOf(B, seen, known)] : Cardinality(FlagsOf(g, known)) >= 2}

HasCase(g, i) ==
  /\ cases[i].status = "OPEN" /\ g \subseteq cases[i].events
  /\ cases[i].type = CaseType(cases[i].events, findings)

Settles ==
  last # {} =>
    /\ last \subseteq stored
    /\ run_detection(ContextOf(last, stored) \cup last) \subseteq findings
    /\ \A g \in GroupsOf(last, stored, findings) : \E i \in DOMAIN cases : HasCase(g, i)

\* Unmistaken, of the batch that was committed last.
Sure ==
  \A g \in GroupsOf(last, stored, findings) : \A i \in OpenCases :
    cases[i].fp = CaseFingerprint(g, findings) => g \subseteq cases[i].events

Typical(t) ==
  /\ t.pc # "idle" => t.batch # {}
  /\ t.batch \subseteq stored \cup t.new
  /\ \A i \in NewIds(t) : t.view[i].status = "OPEN"
  /\ t.fresh /\ t.pc = "correlate" =>
       /\ \A h \in t.todo :
            /\ h.events \in GroupsOf(t.batch, stored \cup t.new, findings \cup t.found)
            /\ h.findings = {f \in findings \cup t.found : f[1] \in h.events}
       /\ \A i \in DOMAIN t.view :
            t.view[i].type = CaseType(t.view[i].events, findings \cup t.found)

Same(row, old) == row.events = old.events /\ row.type = old.type

Repeat(t) ==
  t.fresh /\ t.pc # "idle" /\ t.batch = last =>
    /\ t.new = {} /\ t.found = {} /\ DOMAIN t.flushed = {} /\ DOMAIN t.view \subseteq DOMAIN cases
    /\ Disjoint /\ Sure => \A i \in DOMAIN t.view : Same(t.view[i], cases[i])

RInv == CInv /\ Settles /\ \A p \in Pipelines : Typical(pipe[p]) /\ Repeat(pipe[p])

LEMMA ReadsAre ==
  ASSUME NEW p
  PROVE  /\ Context(p) = ContextOf(pipe[p].batch, Seen(p))
         /\ CaseGroups(p) = GroupsOf(pipe[p].batch, Seen(p), Known(p))
  BY DEF Context, ContextOf, CaseGroups, Candidates, GroupsOf, CandidatesOf

\* The findings read with a group are all that its type depends on.
LEMMA FindingsRead ==
  ASSUME NEW S, NEW F
  PROVE  /\ CaseType(S, {f \in F : f[1] \in S}) = CaseType(S, F)
         /\ CaseFingerprint(S, {f \in F : f[1] \in S}) = CaseFingerprint(S, F)
<1>1. FlagsOf(S, {f \in F : f[1] \in S}) = FlagsOf(S, F)
  BY DEF FlagsOf
<1> QED BY <1>1 DEF CaseType, CaseFingerprint

\* A step of one pipeline that commits nothing.
LEMMA RepeatsLocal ==
  ASSUME RInv, CInv', NEW p \in Pipelines, NEW t, Moves(p, t),
         UNCHANGED <<stored, findings, cases, last>>, Typical(t), Repeat(t)
  PROVE  RInv'
<1>1. \A q \in Pipelines : pipe'[q] = IF q = p THEN t ELSE pipe[q]
  BY DEF RInv, CInv, TInv, GInv, EInv, IInv, Moves
<1>2. \A q \in Pipelines : Typical(pipe'[q]) /\ Repeat(pipe'[q])
  BY <1>1 DEF RInv
<1>3. Settles'
  BY DEF RInv, Settles, HasCase
<1>4. (Disjoint /\ Sure)' <=> Disjoint /\ Sure
  BY DEF Disjoint, Sure, OpenCases
<1>5. \A q \in Pipelines : Typical(pipe[q])' /\ Repeat(pipe[q])'
  BY <1>2, <1>4 DEF Typical, Repeat, NewIds
<1> QED BY <1>3, <1>5 DEF RInv

LEMMA RollBackRepeats ==
  ASSUME RInv, CInv', NEW p \in Pipelines, RollsBack(p)
  PROVE  RInv'
<1>1. Idle.pc = "idle" /\ Idle.batch = {} /\ DOMAIN Idle.view = {}
  BY DEF Idle, Transaction, NoCases
<1>2. Typical(Idle) /\ Repeat(Idle)
  BY <1>1 DEF Typical, Repeat, NewIds
<1> QED BY <1>2, RepeatsLocal DEF RollsBack

LEMMA BeginRepeats ==
  ASSUME RInv, CInv', NEW p \in Pipelines, NEW batch \in Batches, Begin(p, batch)
  PROVE  RInv'
<1> DEFINE t == Transaction("insert", batch, batch \ stored, {}, {}, NoCases, NoCases, NoCases, TRUE)
<1>1. /\ t.pc = "insert" /\ t.batch = batch /\ t.new = batch \ stored /\ t.found = {}
      /\ DOMAIN t.view = {} /\ DOMAIN t.flushed = {}
  BY DEF Transaction, NoCases
<1>2. Moves(p, t) /\ UNCHANGED <<stored, findings, cases, last>>
  BY DEF Begin
<1>3. batch # {}
  BY BatchesAssumption
<1> HIDE DEF t
<1>4. Typical(t)
  BY <1>1, <1>3 DEF Typical, NewIds
<1>5. batch = last => t.new = {}
  BY <1>1, <1>3 DEF RInv, Settles
<1>6. Repeat(t)
  BY <1>1, <1>5 DEF Repeat
<1> QED BY <1>2, <1>4, <1>6, RepeatsLocal

LEMMA InsertRepeats ==
  ASSUME RInv, CInv', NEW p \in Pipelines, Insert(p)
  PROVE  RInv'
<1> DEFINE t == [pipe[p] EXCEPT !.pc = "detect"]
<1>1. /\ t.pc = "detect" /\ t.batch = pipe[p].batch /\ t.new = pipe[p].new
      /\ t.found = pipe[p].found /\ t.base = pipe[p].base /\ t.view = pipe[p].view
      /\ t.flushed = pipe[p].flushed /\ t.fresh = pipe[p].fresh
  BY DEF RInv, CInv, TInv, GInv, EInv, IInv, Sound, Transaction
<1>2. pipe[p].pc = "insert" /\ Typical(pipe[p]) /\ Repeat(pipe[p])
  BY DEF Insert, RInv
<1>3. CASE Moves(p, t) /\ UNCHANGED <<stored, findings, cases, last>>
  <2> HIDE DEF t
  <2>1. Typical(t) /\ Repeat(t)
    BY <1>1, <1>2 DEF Typical, Repeat, NewIds
  <2> QED BY <1>3, <2>1, RepeatsLocal
<1> QED BY <1>3, RollBackRepeats DEF Insert

LEMMA DetectRepeats ==
  ASSUME RInv, CInv', NEW p \in Pipelines, Detect(p)
  PROVE  RInv'
<1> DEFINE found == run_detection(Context(p) \cup pipe[p].batch) \ findings
           t == Found(pipe[p], found)
<1>1. /\ t.pc = "gather" /\ t.batch = pipe[p].batch /\ t.new = pipe[p].new
      /\ t.found = found /\ t.base = pipe[p].base /\ t.view = pipe[p].view
      /\ t.flushed = pipe[p].flushed /\ t.fresh = pipe[p].fresh
  BY DEF Found, Transaction
<1>2. Moves(p, t) /\ UNCHANGED <<stored, findings, cases, last>> /\ pipe[p].pc = "detect"
  BY DEF Detect
<1>3. Typical(pipe[p]) /\ Repeat(pipe[p])
  BY DEF RInv
<1>4. pipe[p].fresh /\ pipe[p].batch = last => found = {}
  <2> SUFFICES ASSUME pipe[p].fresh, pipe[p].batch = last PROVE found = {}
    OBVIOUS
  <2>1. last # {} /\ Seen(p) = stored
    BY <1>2, <1>3 DEF Typical, Repeat, Seen
  <2>2. Context(p) = ContextOf(last, stored)
    BY <2>1, ReadsAre
  <2> QED BY <2>1, <2>2 DEF RInv, Settles
<1> HIDE DEF t, found
<1>5. Typical(t)
  BY <1>1, <1>2, <1>3 DEF Typical, NewIds
<1>6. Repeat(t)
  BY <1>1, <1>2, <1>3, <1>4 DEF Repeat
<1> QED BY <1>2, <1>5, <1>6, RepeatsLocal

LEMMA GatherRepeats ==
  ASSUME RInv, CInv', NEW p \in Pipelines, Gather(p)
  PROVE  RInv'
<1> DEFINE todo == {[events |-> g, findings |-> {f \in Known(p) : f[1] \in g}] : g \in CaseGroups(p)}
           t == Correlating(pipe[p], todo, NoCases, NoCases, NoCases)
<1>1. /\ t.pc = "correlate" /\ t.batch = pipe[p].batch /\ t.new = pipe[p].new
      /\ t.found = pipe[p].found /\ DOMAIN t.view = {} /\ DOMAIN t.flushed = {}
      /\ t.todo = todo /\ t.fresh = pipe[p].fresh
  BY DEF Correlating, Transaction, NoCases
<1>2. Moves(p, t) /\ UNCHANGED <<stored, findings, cases, last>> /\ pipe[p].pc = "gather"
  BY DEF Gather
<1>3. Typical(pipe[p]) /\ Repeat(pipe[p])
  BY DEF RInv
<1>4. \A h \in todo : /\ h.events \in CaseGroups(p)
                      /\ h.findings = {f \in Known(p) : f[1] \in h.events}
  OBVIOUS
<1>5. CaseGroups(p) = GroupsOf(t.batch, stored \cup t.new, findings \cup t.found)
      /\ Known(p) = findings \cup t.found
  BY <1>1, ReadsAre DEF Seen, Known
<1> HIDE DEF t, todo
<1>6. Typical(t)
  BY <1>1, <1>2, <1>3, <1>4, <1>5 DEF Typical, NewIds
<1>7. Repeat(t)
  BY <1>1, <1>2, <1>3 DEF Repeat
<1> QED BY <1>2, <1>6, <1>7, RepeatsLocal

RowsAreCases(p) ==
  DOMAIN Rows(p) = DOMAIN cases /\ \A j \in DOMAIN cases : Rows(p)[j] = cases[j]

\* On a repeat, a group that is to be dealt with is in an open case, which has it
\* still as the transaction sees it.
LEMMA RepeatedGroup ==
  ASSUME RInv, NEW p \in Pipelines, pipe[p].fresh, pipe[p].pc = "correlate",
         pipe[p].batch = last, NEW g \in pipe[p].todo
  PROVE  /\ Seen(p) = stored /\ Known(p) = findings /\ RowsAreCases(p)
         /\ g.events # {} /\ g.events \in GroupsOf(last, stored, findings)
         /\ CaseFingerprint(g.events, g.findings) = CaseFingerprint(g.events, findings)
         /\ \E k \in DOMAIN cases : HasCase(g.events, k) /\ k \in ByEvidence(p, g.events)
<1> DEFINE t == pipe[p]
<1>1. /\ Typical(t) /\ Repeat(t) /\ Settles /\ Kept(t) /\ IInv /\ Apart
  BY DEF RInv, CInv, TInv, GInv, EInv
<1>2. t.batch # {} /\ t.new = {} /\ t.found = {} /\ DOMAIN t.flushed = {}
  BY <1>1 DEF Typical, Repeat
<1>3. Seen(p) = stored /\ Known(p) = findings
  BY <1>2 DEF Seen, Known
<1>4. RowsAreCases(p)
  BY <1>1, <1>2 DEF Rows, Over, RowsAreCases
<1>5. g.events \in GroupsOf(last, stored, findings)
      /\ g.findings = {f \in findings : f[1] \in g.events}
  BY <1>1, <1>2 DEF Typical
<1>6. g.events # {}
  BY <1>1, GroupType
<1>7. PICK k \in DOMAIN cases : HasCase(g.events, k)
  BY <1>1, <1>2, <1>5 DEF Settles
<1>8. cases[k].events \subseteq Object(p, k).events
  <2>1. CASE k \in DOMAIN t.view
    <3>1. k \in DOMAIN t.base
      BY <1>1, <2>1 DEF Apart, NewIds
    <3> QED BY <1>1, <2>1, <3>1 DEF Kept, Object
  <2>2. CASE k \notin DOMAIN t.view
    BY <1>4, <2>2 DEF Object, RowsAreCases
  <2> QED BY <2>1, <2>2
<1>9. k \in ByEvidence(p, g.events)
  BY <1>4, <1>6, <1>7, <1>8 DEF ByEvidence, HasCase, RowsAreCases
<1>10. CaseFingerprint(g.events, g.findings) = CaseFingerprint(g.events, findings)
  BY <1>5, FindingsRead
<1> QED BY <1>3, <1>4, <1>5, <1>6, <1>7, <1>9, <1>10

LEMMA OpenRepeats ==
  ASSUME RInv, CInv', NEW p \in Pipelines, NEW g \in pipe[p].todo, Open(p, g)
  PROVE  RInv'
<1> DEFINE t == pipe[p]
           i == CHOOSE i \in FreeIds : TRUE
           row == Opened(p, g)
           view == With(t.view, i, row)
           u == Correlating(t, t.todo \ {g}, t.base, view, Pending(p, g))
<1>1. CASE Moves(p, u) /\ UNCHANGED <<stored, findings, cases, last>>
  <2>1. Typical(t) /\ t.pc = "correlate" /\ Existing(p, g) = {}
    BY DEF RInv, Open
  <2>2. ~(t.fresh /\ t.batch = last)
    BY <2>1, RepeatedGroup DEF Existing
  <2>3. /\ u.view = view /\ u.base = t.base /\ u.fresh = t.fresh /\ u.pc = "correlate"
        /\ u.batch = t.batch /\ u.new = t.new /\ u.found = t.found /\ u.todo = t.todo \ {g}
    BY DEF Correlating, Transaction
  <2> HIDE DEF i
  <2>4. DOMAIN view = DOMAIN t.view \cup {i} /\ view[i] = row
        /\ \A j \in DOMAIN t.view \ {i} : view[j] = t.view[j]
    BY DEF With, Over
  <2>5. /\ row.status = "OPEN" /\ row.events = g.events
        /\ row.type = CaseType(g.events, g.findings)
    BY DEF Opened, Case
  <2> HIDE DEF u, view, row
  <2>6. t.fresh => row.type = CaseType(row.events, findings \cup t.found)
    BY <2>1, <2>5, FindingsRead DEF Typical
  <2>7. Typical(u)
    <3>1. /\ t.pc # "idle" => t.batch # {}
          /\ t.batch \subseteq stored \cup t.new
          /\ \A j \in NewIds(t) : t.view[j].status = "OPEN"
      BY <2>1 DEF Typical
    <3>2. \A j \in NewIds(u) : u.view[j].status = "OPEN"
      BY <2>3, <2>4, <2>5, <3>1 DEF NewIds
    <3>3. CASE ~t.fresh
      BY <2>1, <2>3, <3>1, <3>2, <3>3 DEF Typical
    <3>4. CASE t.fresh
      <4>1. /\ \A h \in t.todo :
                 /\ h.events \in GroupsOf(t.batch, stored \cup t.new, findings \cup t.found)
                 /\ h.findings = {f \in findings \cup t.found : f[1] \in h.events}
            /\ \A j \in DOMAIN t.view :
                 t.view[j].type = CaseType(t.view[j].events, findings \cup t.found)
        BY <2>1, <3>4 DEF Typical
      <4>2. \A j \in DOMAIN view :
              view[j].type = CaseType(view[j].events, findings \cup t.found)
        <5> SUFFICES ASSUME NEW j \in DOMAIN view
                     PROVE  view[j].type = CaseType(view[j].events, findings \cup t.found)
          OBVIOUS
        <5>1. CASE j = i
          BY <2>4, <2>6, <3>4, <5>1
        <5>2. CASE j # i
          BY <2>4, <4>1, <5>2
        <5> QED BY <5>1, <5>2
      <4>3. \A h \in u.todo :
              /\ h.events \in GroupsOf(u.batch, stored \cup u.new, findings \cup u.found)
              /\ h.findings = {f \in findings \cup u.found : f[1] \in h.events}
        BY <2>3, <4>1
      <4>4. \A j \in DOMAIN u.view :
              u.view[j].type = CaseType(u.view[j].events, findings \cup u.found)
        BY <2>3, <4>2
      <4>5. (u.pc # "idle" => u.batch # {}) /\ u.batch \subseteq stored \cup u.new
        BY <2>1, <2>3, <3>1
      <4> HIDE DEF t
      <4> QED BY <3>2, <4>3, <4>4, <4>5 DEF Typical
    <3> QED BY <3>3, <3>4
  <2>8. Repeat(u)
    BY <2>2, <2>3 DEF Repeat
  <2> QED BY <1>1, <2>7, <2>8, RepeatsLocal
<1> QED BY <1>1, RollBackRepeats DEF Open, WithOpened

\* The case that a group finds on a repeat is the one it is in.
LEMMA FoundAgain ==
  ASSUME RInv, NEW p \in Pipelines, pipe[p].fresh, pipe[p].pc = "correlate",
         pipe[p].batch = last, NEW g \in pipe[p].todo, NEW i \in Existing(p, g), Disjoint, Sure
  PROVE  /\ HasCase(g.events, i) /\ i \in DOMAIN cases
         /\ Object(p, i).events = cases[i].events
<1>1. /\ RowsAreCases(p) /\ g.events # {} /\ g.events \in GroupsOf(last, stored, findings)
      /\ CaseFingerprint(g.events, g.findings) = CaseFingerprint(g.events, findings)
  BY RepeatedGroup
<1>2. PICK k \in DOMAIN cases : HasCase(g.events, k)
  BY RepeatedGroup
<1>3. i \in DOMAIN cases /\ cases[i].status = "OPEN"
  BY <1>1 DEF Existing, ByFingerprint, ByEvidence, RowsAreCases
<1>4. Object(p, i).events = cases[i].events
  <2>1. Repeat(pipe[p])
    BY DEF RInv
  <2>2. \A j \in DOMAIN pipe[p].view : pipe[p].view[j].events = cases[j].events
    BY <2>1 DEF Repeat, Same
  <2>3. Rows(p)[i] = cases[i]
    BY <1>1, <1>3 DEF RowsAreCases
  <2> QED BY <2>2, <2>3 DEF Object
<1>5. cases[i].events \cap g.events # {}
  <2>1. CASE i \in ByFingerprint(p, CaseFingerprint(g.events, g.findings))
    <3>1. cases[i].fp = CaseFingerprint(g.events, findings)
      BY <1>1, <2>1 DEF ByFingerprint, RowsAreCases
    <3>2. g.events \subseteq cases[i].events
      BY <1>1, <1>3, <3>1 DEF Sure, OpenCases
    <3> QED BY <1>1, <3>2
  <2>2. CASE i \in ByEvidence(p, g.events)
    BY <1>4, <2>2 DEF ByEvidence
  <2> QED BY <2>1, <2>2 DEF Existing
<1>6. i = k
  <2>1. i \in OpenCases /\ k \in OpenCases
    BY <1>2, <1>3 DEF OpenCases, HasCase
  <2>2. cases[i].events \cap cases[k].events # {}
    BY <1>2, <1>5 DEF HasCase
  <2> QED BY <2>1, <2>2 DEF Disjoint
<1> QED BY <1>2, <1>3, <1>4, <1>6

LEMMA EnrichRepeats ==
  ASSUME RInv, CInv', NEW p \in Pipelines, NEW g \in pipe[p].todo, NEW i \in CaseIds,
         Enrich(p, g, i)
  PROVE  RInv'
<1> DEFINE t == pipe[p]
           o == Object(p, i)
           row == Enriched(p, i, g)
           view == With(t.view, i, row)
           base == IF i \in DOMAIN t.view THEN t.base ELSE With(t.base, i, Rows(p)[i])
           u == Correlating(t, t.todo \ {g}, base, view, t.flushed)
<1>1. /\ Moves(p, u) /\ UNCHANGED <<stored, findings, cases, last>>
      /\ t.pc = "correlate" /\ i \in Existing(p, g)
  BY DEF Enrich
<1>2. Typical(t) /\ Repeat(t) /\ CasesGrounded
  BY DEF RInv, CInv, TInv, GInv, EInv, IInv
<1>3. /\ u.view = view /\ u.base = base /\ u.fresh = t.fresh /\ u.pc = "correlate"
      /\ u.batch = t.batch /\ u.new = t.new /\ u.found = t.found /\ u.todo = t.todo \ {g}
      /\ u.flushed = t.flushed
  BY DEF Correlating, Transaction
<1>4. DOMAIN view = DOMAIN t.view \cup {i} /\ view[i] = row
      /\ \A j \in DOMAIN t.view \ {i} : view[j] = t.view[j]
  BY DEF With, Over
<1>5. /\ row.events = {e \in o.events : e \in Seen(p)} \cup g.events
      /\ row.type = CaseType(row.events, Known(p)) /\ row.status = o.status
  BY DEF Enriched, Case
<1>6. NewIds(u) \subseteq NewIds(t) /\ (i \in NewIds(u) => o = t.view[i])
  <2>1. CASE i \in DOMAIN t.view
    BY <1>3, <1>4, <2>1 DEF NewIds, Object
  <2>2. CASE i \notin DOMAIN t.view
    <3>1. base = With(t.base, i, Rows(p)[i])
      BY <2>2
    <3> HIDE DEF base
    <3>2. DOMAIN base = DOMAIN t.base \cup {i}
      BY <3>1 DEF With, Over
    <3> HIDE DEF u, view
    <3> QED BY <1>3, <1>4, <3>2 DEF NewIds
  <2> QED BY <2>1, <2>2
<1> HIDE DEF u, view, base, row, o
<1>7. Typical(u)
  <2>1. \A j \in NewIds(u) : u.view[j].status = "OPEN"
    <3> SUFFICES ASSUME NEW j \in NewIds(u) PROVE view[j].status = "OPEN"
      BY <1>3
    <3>1. CASE j = i
      BY <1>2, <1>4, <1>5, <1>6, <3>1 DEF Typical
    <3>2. CASE j # i
      BY <1>2, <1>4, <1>6, <3>2 DEF Typical, NewIds
    <3> QED BY <3>1, <3>2
  <2>2. t.fresh => \A j \in DOMAIN view : view[j].type = CaseType(view[j].events, findings \cup t.found)
    BY <1>1, <1>2, <1>4, <1>5 DEF Typical, Known
  <2> QED BY <1>1, <1>2, <1>3, <2>1, <2>2 DEF Typical
<1>8. Repeat(u)
  <2> SUFFICES ASSUME t.fresh, t.batch = last
               PROVE  /\ t.new = {} /\ t.found = {} /\ DOMAIN t.flushed = {}
                      /\ DOMAIN view \subseteq DOMAIN cases
                      /\ Disjoint /\ Sure => \A j \in DOMAIN view : Same(view[j], cases[j])
    BY <1>3 DEF Repeat
  <2>1. t.new = {} /\ t.found = {} /\ DOMAIN t.flushed = {} /\ DOMAIN t.view \subseteq DOMAIN cases
    BY <1>1, <1>2 DEF Repeat
  <2>2. RowsAreCases(p) /\ Seen(p) = stored /\ Known(p) = findings
    BY <1>1, RepeatedGroup
  <2>3. i \in DOMAIN cases
    BY <1>1, <2>2 DEF Existing, ByFingerprint, ByEvidence, RowsAreCases
  <2>4. ASSUME Disjoint, Sure PROVE Same(row, cases[i])
    <3>1. HasCase(g.events, i) /\ o.events = cases[i].events
      BY <1>1, <2>4, FoundAgain DEF o
    <3>2. cases[i].events \subseteq stored
      BY <1>2, <2>3 DEF CasesGrounded, Grounded
    <3>3. row.events = cases[i].events
      BY <1>5, <2>2, <3>1, <3>2 DEF HasCase
    <3> QED BY <1>5, <2>2, <3>1, <3>3 DEF HasCase, Same
  <2>5. ASSUME Disjoint, Sure, NEW j \in DOMAIN view PROVE Same(view[j], cases[j])
    BY <1>1, <1>2, <1>4, <2>4, <2>5 DEF Repeat
  <2> QED BY <1>4, <2>1, <2>3, <2>5
<1> QED BY <1>1, <1>7, <1>8, RepeatsLocal

\* What a commit that nobody has overtaken writes has the types that the transaction
\* gave, and the cases it has opened are open.
LEMMA FreshTypes ==
  ASSUME CInv, NEW p \in Pipelines, CommitsFresh(p), NEW i \in DOMAIN pipe[p].view
  PROVE  /\ cases'[i].type = pipe[p].view[i].type
         /\ i \in DOMAIN pipe[p].base => i \in DOMAIN cases /\ cases'[i].status = cases[i].status
         /\ i \notin DOMAIN pipe[p].base => cases'[i] = pipe[p].view[i]
<1> DEFINE t == pipe[p]
           rows == Writes(p, t.view)
<1>1. DOMAIN t.base \subseteq DOMAIN cases /\ Based(t) /\ t.fresh
  BY DEF CInv, TInv, GInv, EInv, IInv, Sound, CommitsFresh
<1>2. cases' = Over(rows, cases)
  BY DEF CommitsFresh, Committed
<1>3. /\ i \in DOMAIN rows /\ i \notin DOMAIN t.base => rows[i] = t.view[i]
      /\ i \in DOMAIN rows /\ i \in DOMAIN t.base => rows[i] = Merged(t.view[i], t.base[i], cases[i])
      /\ i \notin DOMAIN rows => i \in DOMAIN t.base /\ t.view[i] = t.base[i]
  BY DEF Writes
<1> HIDE DEF rows
<1>4. DOMAIN cases' = DOMAIN rows \cup DOMAIN cases
      /\ \A j \in DOMAIN cases' : cases'[j] = IF j \in DOMAIN rows THEN rows[j] ELSE cases[j]
  BY <1>2 DEF Over
<1>5. CASE i \in DOMAIN t.base
  <2>1. i \in DOMAIN cases /\ t.base[i].type = cases[i].type
    BY <1>1, <1>5 DEF Based
  <2>2. CASE i \in DOMAIN rows
    <3>1. cases'[i] = Merged(t.view[i], t.base[i], cases[i])
      BY <1>3, <1>4, <1>5, <2>2
    <3>2. cases'[i].type = t.view[i].type /\ cases'[i].status = cases[i].status
      BY <2>1, <3>1 DEF Merged, Case
    <3> QED BY <1>5, <2>1, <3>2
  <2>3. CASE i \notin DOMAIN rows
    BY <1>3, <1>4, <1>5, <2>1, <2>3
  <2> QED BY <2>2, <2>3
<1>6. CASE i \notin DOMAIN t.base
  BY <1>3, <1>4, <1>6
<1> QED BY <1>5, <1>6

LEMMA CommitSettles ==
  ASSUME RInv, NEW p \in Pipelines, pipe[p].pc = "correlate", pipe[p].todo = {},
         Committed(p, Writes(p, pipe[p].view))
  PROVE  Settles'
<1> DEFINE t == pipe[p]
<1>1. /\ stored' = Seen(p) /\ findings' = Known(p) /\ last' = Settled(p)
  BY DEF Committed
<1> SUFFICES ASSUME Settled(p) # {} PROVE Settles'
  BY <1>1 DEF Settles
<1>2. /\ t.fresh /\ last' = t.batch
      /\ \A i \in DOMAIN t.view \cap DOMAIN cases : cases[i].status = "OPEN"
  BY <1>1 DEF Settled
<1>3. CommitsFresh(p)
  BY <1>2 DEF CommitsFresh
<1>4. CInv /\ EInv /\ Typical(t) /\ Searched(p) /\ Covered(p)
  BY DEF RInv, CInv, TInv, GInv
<1>5. last' \subseteq stored'
  BY <1>1, <1>2, <1>4 DEF Typical, Seen
<1>6. run_detection(ContextOf(last', stored') \cup last') \subseteq findings'
  BY <1>1, <1>2, <1>4, ReadsAre DEF Searched
<1>7. GroupsOf(last', stored', findings') = CaseGroups(p)
  BY <1>1, <1>2, ReadsAre
<1>8. ASSUME NEW g \in CaseGroups(p)
      PROVE  \E i \in DOMAIN cases' : /\ cases'[i].status = "OPEN" /\ g \subseteq cases'[i].events
                                      /\ cases'[i].type = CaseType(cases'[i].events, findings')
  <2>1. PICK i \in DOMAIN t.view : g \subseteq t.view[i].events
    BY <1>2, <1>4 DEF Covered
  <2>2. i \in DOMAIN cases' /\ cases'[i].events = t.view[i].events
    BY <1>3, <1>4, FreshRows
  <2>3. cases'[i].type = CaseType(t.view[i].events, findings')
    BY <1>1, <1>2, <1>3, <1>4, FreshTypes DEF Typical, Known
  <2>4. cases'[i].status = "OPEN"
    <3>1. CASE i \in DOMAIN t.base
      BY <1>2, <1>3, <1>4, <3>1, FreshTypes
    <3>2. CASE i \notin DOMAIN t.base
      BY <1>3, <1>4, <3>2, FreshTypes DEF Typical, NewIds
    <3> QED BY <3>1, <3>2
  <2> QED BY <2>1, <2>2, <2>3, <2>4
<1>9. \A g \in CaseGroups(p) : \E i \in DOMAIN cases' : HasCase(g, i)'
  BY <1>8 DEF HasCase
<1> QED BY <1>5, <1>6, <1>7, <1>9 DEF Settles

LEMMA CommitRepeats ==
  ASSUME RInv, CInv', NEW p \in Pipelines, pipe[p].pc = "correlate", pipe[p].todo = {},
         Committed(p, Writes(p, pipe[p].view))
  PROVE  RInv'
<1>1. /\ Idle.pc = "idle" /\ Idle.batch = {} /\ DOMAIN Idle.view = {}
      /\ \A u : /\ Overtaken(u).fresh = FALSE /\ Overtaken(u).pc = u.pc
                /\ Overtaken(u).batch = u.batch /\ Overtaken(u).new = u.new
                /\ Overtaken(u).view = u.view /\ Overtaken(u).base = u.base
  BY DEF Idle, Overtaken, Transaction, NoCases
<1>2. stored \subseteq stored'
  BY DEF Committed, Seen
<1>3. \A q \in Pipelines : pipe'[q] = IF q = p THEN Idle ELSE Overtaken(pipe[q])
  BY DEF Committed
<1>4. ASSUME NEW q \in Pipelines PROVE Typical(pipe[q])' /\ Repeat(pipe[q])'
  <2>1. CASE q = p
    BY <1>1, <1>3, <2>1 DEF Typical, Repeat, NewIds
  <2>2. CASE q # p
    <3>1. pipe'[q] = Overtaken(pipe[q]) /\ Typical(pipe[q])
      BY <1>3, <2>2 DEF RInv
    <3> QED BY <1>1, <1>2, <3>1 DEF Typical, Repeat, NewIds
  <2> QED BY <2>1, <2>2
<1>5. Settles'
  BY CommitSettles
<1> QED BY <1>4, <1>5 DEF RInv

LEMMA CloseRepeats ==
  ASSUME RInv, CInv', NEW i \in DOMAIN cases, CloseCase(i)
  PROVE  RInv'
<1>1. UNCHANGED <<stored, findings, pipe>> /\ last' = {}
  BY DEF CloseCase
<1>2. \A p \in Pipelines : Typical(pipe[p])' /\ Repeat(pipe[p])'
  BY <1>1 DEF RInv, Typical, Repeat, NewIds
<1> QED BY <1>1, <1>2 DEF RInv, Settles

LEMMA RepeatsInit == Init => RInv
<1>1. Idle.pc = "idle" /\ Idle.batch = {} /\ DOMAIN Idle.view = {}
  BY DEF Idle, Transaction, NoCases
<1>2. Init => /\ Settles
              /\ \A p \in Pipelines : Typical(pipe[p]) /\ Repeat(pipe[p])
  BY <1>1 DEF Init, Settles, Typical, Repeat, NewIds
<1> QED BY <1>2, ClaimsInit DEF RInv

LEMMA RepeatsNext == RInv /\ [Next]_vars => RInv'
<1> SUFFICES ASSUME RInv, [Next]_vars PROVE RInv'
  OBVIOUS
<1>1. CInv'
  BY ClaimsNext DEF RInv
<1>2. ASSUME NEW p \in Pipelines, NEW batch \in Batches, Begin(p, batch) PROVE RInv'
  BY <1>1, <1>2, BeginRepeats
<1>3. ASSUME NEW p \in Pipelines, Insert(p) PROVE RInv'
  BY <1>1, <1>3, InsertRepeats
<1>4. ASSUME NEW p \in Pipelines, Detect(p) PROVE RInv'
  BY <1>1, <1>4, DetectRepeats
<1>5. ASSUME NEW p \in Pipelines, Gather(p) PROVE RInv'
  BY <1>1, <1>5, GatherRepeats
<1>6. ASSUME NEW p \in Pipelines, NEW g \in pipe[p].todo, Open(p, g) PROVE RInv'
  BY <1>1, <1>6, OpenRepeats
<1>7. ASSUME NEW p \in Pipelines, NEW g \in pipe[p].todo, NEW i \in CaseIds, Enrich(p, g, i)
      PROVE  RInv'
  BY <1>1, <1>7, EnrichRepeats
<1>8. ASSUME NEW p \in Pipelines, Commit(p) PROVE RInv'
  BY <1>1, <1>8, CommitRepeats, RollBackRepeats DEF Commit
<1>9. ASSUME NEW p \in Pipelines, Abort(p) PROVE RInv'
  BY <1>1, <1>9, RollBackRepeats DEF Abort
<1>10. ASSUME NEW i \in DOMAIN cases, CloseCase(i) PROVE RInv'
  BY <1>1, <1>10, CloseRepeats
<1>11. CASE UNCHANGED vars
  <2>1. UNCHANGED <<stored, findings, cases, pipe, last>>
    BY <1>11 DEF vars
  <2>2. Settles'
    BY <2>1 DEF RInv, Settles, HasCase
  <2>3. (Disjoint /\ Sure)' <=> Disjoint /\ Sure
    BY <2>1 DEF Disjoint, Sure, OpenCases
  <2>4. \A p \in Pipelines : Typical(pipe[p])' /\ Repeat(pipe[p])'
    BY <2>1, <2>3 DEF RInv, Typical, Repeat, NewIds
  <2> QED BY <1>1, <2>2, <2>4 DEF RInv
<1> QED BY <1>2, <1>3, <1>4, <1>5, <1>6, <1>7, <1>8, <1>9, <1>10, <1>11 DEF Next

LEMMA RepeatedCommit ==
  ASSUME RInv, NEW p \in Pipelines, CommitsFresh(p), last = pipe[p].batch
  PROVE  /\ UNCHANGED <<stored, findings>> /\ DOMAIN cases' = DOMAIN cases
         /\ Disjoint /\ Unmistaken(p) =>
              \A i \in DOMAIN cases :
                cases'[i] = Case(cases'[i].fp, cases[i].type, cases[i].status, cases[i].events)
<1> DEFINE t == pipe[p]
           rows == Writes(p, t.view)
<1>1. /\ t.fresh /\ t.pc = "correlate" /\ Typical(t) /\ Repeat(t) /\ Apart
      /\ CaseTable(cases)
  BY DEF RInv, CInv, TInv, GInv, EInv, CommitsFresh
<1>2. /\ t.new = {} /\ t.found = {} /\ DOMAIN t.flushed = {} /\ DOMAIN t.view \subseteq DOMAIN cases
      /\ Disjoint /\ Sure => \A i \in DOMAIN t.view : Same(t.view[i], cases[i])
  BY <1>1 DEF Repeat
<1>3. Seen(p) = stored /\ Known(p) = findings
  BY <1>2 DEF Seen, Known
<1>4. stored' = stored /\ findings' = findings /\ cases' = Over(rows, cases)
  BY <1>3 DEF CommitsFresh, Committed
<1>5. DOMAIN rows \subseteq DOMAIN t.view
      /\ \A i \in DOMAIN rows : i \in DOMAIN t.base => rows[i] = Merged(t.view[i], t.base[i], cases[i])
  BY DEF Writes
<1>6. DOMAIN t.view \subseteq DOMAIN t.base
  BY <1>1, <1>2 DEF Apart, NewIds
<1> HIDE DEF rows
<1>7. DOMAIN cases' = DOMAIN cases
      /\ \A i \in DOMAIN cases : cases'[i] = IF i \in DOMAIN rows THEN rows[i] ELSE cases[i]
  BY <1>2, <1>4, <1>5 DEF Over
<1>8. Unmistaken(p) => Sure
  <2>1. CaseGroups(p) = GroupsOf(last, stored, findings)
    BY <1>3, ReadsAre
  <2>2. \A i \in OpenCases : i \in DOMAIN Rows(p) /\ Rows(p)[i] = cases[i] /\ cases[i].status = "OPEN"
    BY <1>2 DEF OpenCases, Rows, Over
  <2> QED BY <1>3, <2>1, <2>2 DEF Unmistaken, Sure, ByFingerprint
<1>9. ASSUME Disjoint, Unmistaken(p), NEW i \in DOMAIN cases
      PROVE  cases'[i] = Case(cases'[i].fp, cases[i].type, cases[i].status, cases[i].events)
  <2>1. CASE i \in DOMAIN rows
    <3>1. Same(t.view[i], cases[i])
      BY <1>2, <1>5, <1>8, <1>9, <2>1
    <3>2. cases'[i] = Merged(t.view[i], t.base[i], cases[i])
      BY <1>5, <1>6, <1>7, <2>1
    <3> QED BY <3>1, <3>2 DEF Same, Merged, Case
  <2>2. CASE i \notin DOMAIN rows
    <3>1. cases'[i] = cases[i] /\ cases[i] \in CaseRows
      BY <1>1, <1>7, <2>2 DEF CaseTable
    <3> QED BY <3>1 DEF CaseRows, Case
  <2> QED BY <2>1, <2>2
<1> QED BY <1>4, <1>7, <1>9

\* A worker that is handed a batch again after its pipeline has committed, with nothing
\* done in between, stores no event, no finding and no case again; and it leaves the
\* evidence, the type and the status of every case as they were if each group of the
\* batch finds the case it is in (process_raw_telemetry, create_or_update_incidents).
THEOREM RedeliveryIsHarmless == Spec => RedeliveryIsNoOp
<1> DEFINE A == \A p \in Pipelines : CommitsFresh(p) /\ last = pipe[p].batch =>
                  /\ UNCHANGED <<stored, findings>> /\ DOMAIN cases' = DOMAIN cases
                  /\ Disjoint /\ Unmistaken(p) =>
                       \A i \in DOMAIN cases :
                         cases'[i] = Case(cases'[i].fp, cases[i].type, cases[i].status,
                                          cases[i].events)
<1>1. RInv => A
  BY RepeatedCommit
<1>2. RInv /\ [Next]_vars => [A]_vars
  BY <1>1
<1> QED BY RepeatsInit, RepeatsNext, <1>2, PTL DEF Spec, RedeliveryIsNoOp

-----------------------------------------------------------------------------
(* What Ingestion takes a pipeline for. *)

AllOrNothing ==
  \/ UNCHANGED <<stored, findings, cases>>
  \/ UNCHANGED <<stored, findings>> /\ \E i \in DOMAIN cases : CloseCase(i)
  \/ \E p \in Pipelines : /\ pipe[p].batch \in Batches /\ pipe[p].todo = {}
                          /\ stored' = stored \cup pipe[p].batch /\ findings \subseteq findings'

\* A worker's call of process_raw_telemetry takes effect in one step or not at all,
\* whatever it is interleaved with: the whole batch is stored then, what was there at
\* db.get and what was not, and every group found has been dealt with.  This is the
\* step that stores a payload in Ingestion.
THEOREM BatchesAreAtomic == Spec => [][AllOrNothing]_vars
<1>1. ASSUME RInv, NEW p \in Pipelines, Commit(p) PROVE AllOrNothing
  <2>1. CASE RollsBack(p)
    BY <2>1 DEF RollsBack, AllOrNothing
  <2>2. CASE Committed(p, Writes(p, pipe[p].view))
    <3>1. Searched(p) /\ Typical(pipe[p]) /\ pipe[p].pc = "correlate" /\ pipe[p].todo = {}
      BY <1>1 DEF RInv, CInv, TInv, GInv, Commit
    <3>2. pipe[p].batch \in Batches /\ stored \cup pipe[p].new = stored \cup pipe[p].batch
      BY <3>1 DEF Searched, Typical
    <3> QED BY <2>2, <3>1, <3>2 DEF AllOrNothing, Committed, Seen, Known
  <2> QED BY <1>1, <2>1, <2>2 DEF Commit
<1>2. ASSUME RInv, Next PROVE AllOrNothing
  <2>1. ASSUME NEW p \in Pipelines, \E batch \in Batches : Begin(p, batch) PROVE AllOrNothing
    BY <2>1 DEF Begin, AllOrNothing
  <2>2. ASSUME NEW p \in Pipelines, Insert(p) PROVE AllOrNothing
    BY <2>2 DEF Insert, RollsBack, AllOrNothing
  <2>3. ASSUME NEW p \in Pipelines, Detect(p) \/ Gather(p) PROVE AllOrNothing
    BY <2>3 DEF Detect, Gather, AllOrNothing
  <2>4. ASSUME NEW p \in Pipelines, NEW g \in pipe[p].todo,
               Open(p, g) \/ \E i \in CaseIds : Enrich(p, g, i)
        PROVE  AllOrNothing
    BY <2>4 DEF Open, Enrich, RollsBack, AllOrNothing
  <2>5. ASSUME NEW p \in Pipelines, Abort(p) PROVE AllOrNothing
    BY <2>5 DEF Abort, RollsBack, AllOrNothing
  <2>6. ASSUME NEW i \in DOMAIN cases, CloseCase(i) PROVE AllOrNothing
    BY <2>6 DEF CloseCase, AllOrNothing
  <2> QED BY <1>1, <1>2, <2>1, <2>2, <2>3, <2>4, <2>5, <2>6 DEF Next
<1>3. RInv /\ [Next]_vars => [AllOrNothing]_vars
  BY <1>2
<1> QED BY RepeatsInit, RepeatsNext, <1>3, PTL DEF Spec
=============================================================================
