----------------------------- MODULE MCIngestion -----------------------------
(* Instances of Ingestion for TLC. *)
EXTENDS Ingestion, TLC

\* Keys, threads and workers are interchangeable (safety runs only).
Symmetric == Permutations(Keys) \cup Permutations(Handlers) \cup Permutations(Workers)

\* What clients have been told guards no step and is in no invariant of the safety
\* run, so two states that differ in nothing else are one to it.
AllButAnswers ==
  <<jobs, stream, cursor, pel, dlq, stored, handler, worker, faults>>
=============================================================================
