------------------------------ MODULE JobLedger ------------------------------
(***************************************************************************)
(* What ingestion promises of a job, with no queue, no worker and no row:  *)
(* a submitted job is attempted a bounded number of times and ends either  *)
(* done, after at least one attempt, or dead, after the last one.          *)
(***************************************************************************)
EXTENDS Integers

CONSTANTS Keys, MaxAttempts

VARIABLE ledger  \* the state of each job and the attempts it has had

Init == ledger = [k \in Keys |-> [state |-> "absent", attempts |-> 0]]

Submit(k) ==
  /\ ledger[k].state = "absent"
  /\ ledger' = [ledger EXCEPT ![k].state = "open"]

Attempt(k) ==
  /\ ledger[k].state = "open" /\ ledger[k].attempts < MaxAttempts
  /\ ledger' = [ledger EXCEPT ![k].attempts = @ + 1]

Finish(k) ==
  /\ ledger[k].state = "open" /\ ledger[k].attempts > 0
  /\ ledger' = [ledger EXCEPT ![k].state = "done"]

GiveUp(k) ==
  /\ ledger[k].state = "open" /\ ledger[k].attempts = MaxAttempts
  /\ ledger' = [ledger EXCEPT ![k].state = "dead"]

Progress(k) == Attempt(k) \/ Finish(k) \/ GiveUp(k)

Next == \E k \in Keys : Submit(k) \/ Progress(k)

Spec == Init /\ [][Next]_ledger
FairSpec == Spec /\ \A k \in Keys : WF_ledger(Progress(k))
=============================================================================
