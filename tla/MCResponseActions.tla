-------------------------- MODULE MCResponseActions --------------------------
(* Instances of ResponseActions for TLC. *)
EXTENDS ResponseActions, TLC

\* Users and threads are interchangeable (safety runs only).
Symmetric == Permutations(Users) \cup Permutations(Threads)

\* A transfer and a login from a new device, to be contained; the login then
\* turns out to be the first of two that are too far apart.
TransferGroups ==
  {{<<"egress", "UNUSUAL_EGRESS">>, <<"egress", "MASS_DOWNLOAD">>, <<"login", "NEW_DEVICE">>}}
TakeoverBatches == {{<<"login", "IMPOSSIBLE_TRAVEL">>, <<"later", "IMPOSSIBLE_TRAVEL">>}}
NoBatches == {}
=============================================================================
