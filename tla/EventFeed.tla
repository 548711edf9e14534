------------------------------- MODULE EventFeed -------------------------------
(***************************************************************************)
(* A client reads the events table page by page while telemetry comes in   *)
(* and retention deletes: GET /api/v1/events/cursor goes by identifier,    *)
(* GET /api/events by offset, the newest first.  Each page is one query.   *)
(*                                                                         *)
(* Identifiers are numbers in the order the database compares them; an     *)
(* event carries the time its source stamped, whatever its identifier and  *)
(* whenever it arrives.                                                    *)
(***************************************************************************)
EXTENDS Naturals, FiniteSets

CONSTANTS
  EventIds,   \* identifiers, in the order of the primary key
  Stamp,      \* the timestamp of each event
  Asked,      \* the limits clients ask for
  CursorCap,  \* the largest page by cursor (500)
  OffsetCap   \* the largest page by offset (1000)

ASSUME FeedAssumption ==
  /\ EventIds \subseteq Nat \ {0} /\ IsFiniteSet(EventIds)
  /\ Stamp \in [EventIds -> Nat] /\ Asked \subseteq Nat
  /\ CursorCap \in Nat \ {0} /\ OffsetCap \in Nat \ {0}

VARIABLES
  table,   \* the events of the tenant
  reader,  \* the traversal: by which endpoint, how far, what it has been given
  steady   \* what has been in the table since the traversal began
feedVars == <<table, reader, steady>>

\* at: the cursor (0: none) or the offset.
Reader ==
  [ mode : {"idle", "cursor", "offset"}, at : Nat, limit : Nat,
    seen : SUBSET EventIds, done : BOOLEAN ]

FeedTypeOK ==
  table \subseteq EventIds /\ reader \in Reader /\ steady \subseteq EventIds

FeedInit ==
  /\ table \in SUBSET EventIds
  /\ reader = [mode |-> "idle", at |-> 0, limit |-> 1, seen |-> {}, done |-> FALSE]
  /\ steady = {}

-----------------------------------------------------------------------------
AtMost(n, cap) == IF n < cap THEN n ELSE cap

\* max(1, min(limit, 500)); the other endpoint refuses what is out of range.
CursorLimit(n) == IF n = 0 THEN 1 ELSE AtMost(n, CursorCap)

StartReading(mode, n) ==
  /\ reader.mode = "idle"
  /\ mode = "offset" => n \in 1..OffsetCap
  /\ reader' = [ mode |-> mode, at |-> 0,
                 limit |-> IF mode = "cursor" THEN CursorLimit(n) ELSE n,
                 seen |-> {}, done |-> FALSE ]
  /\ steady' = table
  /\ UNCHANGED table

\* The pipeline commits an event, late or in time.
InsertEvent(e) ==
  /\ e \notin table
  /\ table' = table \cup {e}
  /\ UNCHANGED <<reader, steady>>

\* scripts/retention.py with RETENTION_APPLY.
Retention(cutoff) ==
  LET kept == {e \in table : Stamp[e] >= cutoff} IN
  /\ kept # table
  /\ table' = kept
  /\ steady' = steady \cap kept
  /\ UNCHANGED reader

\* What the client has after a page, and where it goes on.
Given(page, at, done) ==
  [ mode |-> reader.mode, at |-> at, limit |-> reader.limit,
    seen |-> reader.seen \cup page, done |-> done ]

\* Mutant: the next cursor is the row the query fetched to look ahead.
CursorPage_LookAhead ==
  LET rest == {e \in table : e > reader.at} IN
  /\ reader.mode = "cursor" /\ ~reader.done
  /\ IF Cardinality(rest) <= reader.limit
     THEN reader' = Given(rest, reader.at, TRUE)
     ELSE \E next \in rest :
            LET page == {e \in rest : e < next} IN
            /\ Cardinality(page) = reader.limit
            /\ reader' = Given(page, next, FALSE)
  /\ UNCHANGED <<table, steady>>

\* One row more than the page is fetched, to know whether there is a next one;
\* the next cursor is the last row of the page itself.
CursorPage ==
  LET rest == {e \in table : e > reader.at} IN
  /\ reader.mode = "cursor" /\ ~reader.done
  /\ IF Cardinality(rest) <= reader.limit
     THEN reader' = Given(rest, reader.at, TRUE)
     ELSE \E last \in rest :
            LET page == {e \in rest : e <= last} IN
            /\ Cardinality(page) = reader.limit
            /\ reader' = Given(page, last, FALSE)
  /\ UNCHANGED <<table, steady>>

\* Nothing outside S is newer than what is in it: the rows of S may come first.
ComesFirst(S) == \A e \in S, f \in table \ S : Stamp[e] >= Stamp[f]

\* ORDER BY timestamp DESC OFFSET at LIMIT limit: events of one timestamp come
\* in any order, and in another one on the next page.
OffsetPage ==
  /\ reader.mode = "offset" /\ ~reader.done
  /\ \E skipped \in SUBSET table :
       \E page \in SUBSET (table \ skipped) :
         /\ ComesFirst(skipped) /\ ComesFirst(skipped \cup page)
         /\ Cardinality(skipped) = AtMost(reader.at, Cardinality(table))
         /\ Cardinality(page) = AtMost(reader.limit, Cardinality(table \ skipped))
         /\ reader' = Given(page, reader.at + reader.limit,
                            Cardinality(page) < reader.limit)
  /\ UNCHANGED <<table, steady>>

FeedNext ==
  \/ \E mode \in {"cursor", "offset"}, n \in Asked : StartReading(mode, n)
  \/ \E e \in EventIds : InsertEvent(e)
  \/ \E e \in EventIds : Retention(Stamp[e] + 1)
  \/ CursorPage
  \/ OffsetPage

FeedSpec == FeedInit /\ [][FeedNext]_feedVars

-----------------------------------------------------------------------------
\* Its place in the order by time is its own.
Untied(e) == \A f \in EventIds : Stamp[f] = Stamp[e] => f = e

\* A traversal that has come to its end was given every event that was in the
\* table all the while, however many came in and were deleted between its pages:
\* by cursor without exception, by offset those that share their timestamp with
\* no other.  (What comes in behind the cursor is on no page.)
FeedIsComplete ==
  reader.done =>
    \A e \in steady : reader.mode = "cursor" \/ Untied(e) => e \in reader.seen
=============================================================================
