---------------------------- MODULE Auth0Connector ----------------------------
(***************************************************************************)
(* The live response connector (connectors.py, Auth0IdentityConnector).    *)
(* Threads share one connector object without a lock: its cached token,    *)
(* the count of consecutive failures and the time until which the circuit  *)
(* is open.  To block a user a thread makes up to three requests, each     *)
(* sent up to three times: for a token (unless one is cached), to look the *)
(* user up, to block.                                                      *)
(*                                                                         *)
(* Time is counted in steps of 60 seconds, and every deadline is what is   *)
(* left until it.                                                          *)
(***************************************************************************)
EXTENDS Naturals

CONSTANTS
  Callers,    \* threads that carry out actions
  Attempts,   \* times a request is sent (3)
  Threshold,  \* failures in a row that open the circuit (2)
  Recovery,   \* time the circuit stays open (2: 30 s end within the second step)
  Margin,     \* time a token is given up before it expires (1: 60 s)
  MinCache,   \* time a token is kept at least (1: 30 s, less than a step)
  Life        \* time the provider honours a token (expires_in)

\* A token that lives less than 90 seconds would be kept longer than it is
\* honoured: max(30, expires_in - 60) counts on expires_in >= 90.  And were two
\* tokens to live differently long, one could get the expiry of the other: the
\* two assignments of a refresh are not atomic.
ASSUME ConnectorAssumption ==
  /\ {Attempts, Threshold, Recovery, MinCache} \subseteq Nat \ {0}
  /\ Margin \in Nat /\ Life \in Nat /\ Life >= MinCache + Margin

VARIABLES
  token,    \* the current token: time until _token_expires_at, time it is honoured,
            \* its age when one of the two was last assigned
  breaker,  \* the failures counted (up to Threshold) and the time the circuit stays open
  up,       \* the provider is reachable and well
  caller    \* what each thread is doing
connectorVars == <<token, breaker, up, caller>>

Answers == {"none", "SUCCEEDED", "DRY_RUN", "REFUSED", "NOT_UNIQUE", "CIRCUIT_OPEN",
            "UNAVAILABLE", "REJECTED"}

\* stage: the request under way.  count: the failures it has read.  life: time
\* its token is honoured.  lost: time (up to Margin + 1) in which that token was
\* not looked at: from its issue to the assignments, and since it was found to
\* be current.  did: its request has blocked the user.
Caller ==
  [ pc : {"idle", "token", "circuit", "send", "count", "store", "trip", "succeed",
          "keep", "stamp", "take"},
    stage : {"token", "lookup", "block"}, attempt : 1..Attempts, count : 0..Threshold,
    life : 0..Life, lost : 0..Margin + 1, did : BOOLEAN, answer : Answers ]

Ended(answer, did) ==
  [ pc |-> "idle", stage |-> "token", attempt |-> 1, count |-> 0, life |-> 0, lost |-> 0,
    did |-> did, answer |-> answer ]

\* A thread within a call.
Within(pc, stage, attempt, count, life, lost, did) ==
  [ pc |-> pc, stage |-> stage, attempt |-> attempt, count |-> count, life |-> life,
    lost |-> lost, did |-> did, answer |-> "none" ]

\* It goes on, with the token it has.
Moved(r, pc, stage, attempt) == Within(pc, stage, attempt, 0, r.life, r.lost, r.did)

ConnectorTypeOK ==
  /\ token \in [cached : 0..Life, life : 0..Life, late : 0..Life]
  /\ breaker \in [failures : 0..Threshold, open : 0..Recovery]
  /\ up \in BOOLEAN
  /\ caller \in [Callers -> Caller]

ConnectorInit ==
  /\ token = [cached |-> 0, life |-> 0, late |-> 0]
  /\ breaker = [failures |-> 0, open |-> 0]
  /\ up = TRUE
  /\ caller = [c \in Callers |-> Ended("none", FALSE)]

Less(n) == IF n = 0 THEN 0 ELSE n - 1
Lost(n) == IF n > Margin THEN Margin + 1 ELSE n

-----------------------------------------------------------------------------
Becomes(c, r) == caller' = [caller EXCEPT ![c] = r]
Answer(c, answer) == Becomes(c, Ended(answer, caller[c].did))

\* execute(): what is no supported action or no allowlisted target is refused,
\* and a dry run is answered, before anything is sent.
AnswerAtOnce(c, answer) ==
  /\ caller[c].pc = "idle" /\ answer \in {"REFUSED", "DRY_RUN"}
  /\ Becomes(c, Ended(answer, FALSE))
  /\ UNCHANGED <<token, breaker, up>>

Execute(c) ==
  /\ caller[c].pc = "idle"
  /\ Becomes(c, Within("token", "token", 1, 0, 0, 0, FALSE))
  /\ UNCHANGED <<token, breaker, up>>

\* _access_token(): the cached one, or a request for a new one.
UseToken(c) ==
  /\ caller[c].pc = "token"
  /\ Becomes(c, IF token.cached > 0 THEN Within("take", "token", 1, 0, 0, 0, FALSE)
                ELSE Within("circuit", "token", 1, 0, 0, 0, FALSE))
  /\ UNCHANGED <<token, breaker, up>>

\* Mutant: a call that meets the open circuit counts as one more failure.
CheckCircuit_Extends(c) ==
  /\ caller[c].pc = "circuit"
  /\ IF breaker.open > 0
     THEN Answer(c, "CIRCUIT_OPEN") /\ breaker' = [failures |-> breaker.failures, open |-> Recovery]
     ELSE Becomes(c, Moved(caller[c], "send", caller[c].stage, 1)) /\ UNCHANGED breaker
  /\ UNCHANGED <<token, up>>

CheckCircuit(c) ==
  /\ caller[c].pc = "circuit"
  /\ IF breaker.open > 0 THEN Answer(c, "CIRCUIT_OPEN")
     ELSE Becomes(c, Moved(caller[c], "send", caller[c].stage, 1))
  /\ UNCHANGED <<token, breaker, up>>

\* The provider does what is asked; it honours a token it issues from now on.
SendOk(c) ==
  LET r == caller[c] IN
  /\ r.pc = "send" /\ up
  /\ Becomes(c, Within("succeed", r.stage, r.attempt, 0,
                       IF r.stage = "token" THEN Life ELSE r.life, r.lost,
                       r.stage = "block" \/ r.did))
  /\ UNCHANGED <<token, breaker, up>>

\* 429, 5xx, a timeout, a broken connection: the provider may have done what was
\* asked (effect).  After the last attempt it is counted.
SendFails(c, effect) ==
  LET r == caller[c]
      did == r.did \/ (effect /\ r.stage = "block") IN
  /\ r.pc = "send" /\ ~up
  /\ \/ /\ r.attempt < Attempts
        /\ Becomes(c, Within("send", r.stage, r.attempt + 1, 0, r.life, r.lost, did))
     \/ /\ r.attempt = Attempts
        /\ Becomes(c, Within("count", r.stage, r.attempt, 0, r.life, r.lost, did))
  /\ UNCHANGED <<token, breaker, up>>

\* Another 4xx: the provider has refused.
SendRejected(c) ==
  /\ caller[c].pc = "send"
  /\ Answer(c, "REJECTED")
  /\ UNCHANGED <<token, breaker, up>>

\* _record_retryable_failure(): += reads, then writes.
CountFailure(c) ==
  LET r == caller[c] IN
  /\ r.pc = "count"
  /\ Becomes(c, Within("store", r.stage, r.attempt, breaker.failures, r.life, r.lost, r.did))
  /\ UNCHANGED <<token, breaker, up>>

StoreFailure(c) ==
  /\ caller[c].pc = "store"
  /\ breaker' = [ failures |-> IF caller[c].count < Threshold THEN caller[c].count + 1
                               ELSE Threshold,
                  open |-> breaker.open ]
  /\ Becomes(c, Moved(caller[c], "trip", caller[c].stage, caller[c].attempt))
  /\ UNCHANGED <<token, up>>

Trip(c) ==
  /\ caller[c].pc = "trip"
  /\ breaker' = [ failures |-> breaker.failures,
                  open |-> IF breaker.failures >= Threshold THEN Recovery ELSE breaker.open ]
  /\ Answer(c, "UNAVAILABLE")
  /\ UNCHANGED <<token, up>>

\* Mutant: the block is not waited for.
Succeed_Early(c) ==
  /\ caller[c].pc = "succeed"
  /\ breaker' = [failures |-> 0, open |-> breaker.open]
  /\ IF caller[c].stage = "token" THEN Becomes(c, Moved(caller[c], "keep", "token", 1))
     ELSE Answer(c, "SUCCEEDED")
  /\ UNCHANGED <<token, up>>

\* The failures start again from zero, and the answer is taken up.
Succeed(c) ==
  /\ caller[c].pc = "succeed"
  /\ breaker' = [failures |-> 0, open |-> breaker.open]
  /\ \/ caller[c].stage = "token" /\ Becomes(c, Moved(caller[c], "keep", "token", 1))
     \/ caller[c].stage = "lookup" /\ Becomes(c, Moved(caller[c], "circuit", "block", 1))
     \/ caller[c].stage = "lookup" /\ Answer(c, "NOT_UNIQUE")
     \/ caller[c].stage = "block" /\ Answer(c, "SUCCEEDED")
  /\ UNCHANGED <<token, up>>

\* Two assignments, _token and _token_expires_at, which threads may make by turns.
KeepToken(c) ==
  /\ caller[c].pc = "keep"
  /\ token' = [ cached |-> token.cached, life |-> caller[c].life,
                late |-> Life - caller[c].life ]
  /\ Becomes(c, Within("stamp", "token", 1, 0, 0, 0, FALSE))
  /\ UNCHANGED <<breaker, up>>

\* The current token may be used for `cached` from now on.
Stamped(c, cached) ==
  /\ caller[c].pc = "stamp"
  /\ token' = [cached |-> cached, life |-> token.life, late |-> Life - token.life]
  /\ Becomes(c, Within("take", "token", 1, 0, 0, 0, FALSE))
  /\ UNCHANGED <<breaker, up>>

\* Mutant: the token is kept for all the time the provider says.
StampToken_NoMargin(c) == Stamped(c, Life)

StampToken(c) ==
  Stamped(c, IF Life > Margin + MinCache THEN Life - Margin ELSE MinCache)

\* The token is read after the check or the assignments, and may be another
\* thread's by then.  The thread goes on with it to look the user up.
TakeToken(c) ==
  /\ caller[c].pc = "take"
  /\ Becomes(c, Within("circuit", "lookup", 1, 0, token.life,
                       Lost(caller[c].lost + token.late), FALSE))
  /\ UNCHANGED <<token, breaker, up>>

-----------------------------------------------------------------------------
\* 60 seconds pass, wherever the threads are: httpx bounds each connect, read and
\* write by 8 seconds but no request as a whole, and a thread may be held up
\* between any two steps.
Tick ==
  /\ token' = [cached |-> Less(token.cached), life |-> Less(token.life), late |-> token.late]
  /\ breaker' = [failures |-> breaker.failures, open |-> Less(breaker.open)]
  /\ caller' = [c \in Callers |->
       LET r == caller[c]
           counts == r.pc = "take" \/ r.stage # "token" IN
       IF r.pc = "idle" THEN r
       ELSE Within(r.pc, r.stage, r.attempt, r.count, Less(r.life),
                   IF counts THEN Lost(r.lost + 1) ELSE r.lost, r.did)]
  /\ UNCHANGED up

Outage == up /\ up' = FALSE /\ UNCHANGED <<token, breaker, caller>>
Restored == ~up /\ up' = TRUE /\ UNCHANGED <<token, breaker, caller>>

CallerProceeds(c) ==
  \/ UseToken(c) \/ CheckCircuit(c)
  \/ SendOk(c) \/ (\E effect \in BOOLEAN : SendFails(c, effect)) 
  \/ SendRejected(c) \/ CountFailure(c) \/ StoreFailure(c) \/ Trip(c) \/ Succeed(c)
  \/ KeepToken(c) \/ StampToken(c) \/ TakeToken(c)

ConnectorNext ==
  \/ \E c \in Callers :
       \/ \E answer \in {"REFUSED", "DRY_RUN"} : AnswerAtOnce(c, answer)
       \/ Execute(c)
       \/ CallerProceeds(c)
  \/ Tick \/ Outage \/ Restored

ConnectorSpec == ConnectorInit /\ [][ConnectorNext]_connectorVars

\* A thread within a call goes on, and time passes.  Whether anybody calls, and
\* whether the provider comes back, is left open.
ConnectorFairness ==
  /\ \A c \in Callers : WF_connectorVars(CallerProceeds(c))
  /\ WF_connectorVars(Tick)

-----------------------------------------------------------------------------
\* No request is sent with a token the provider no longer honours, although
\* threads refresh the token at once and one may take the token of another under
\* the expiry of a third, unless more than the margin has gone by unseen: while
\* the answer with the token was on its way, and since the token was found to be
\* current.
TokenIsValid ==
  \A c \in Callers :
    caller[c].pc = "send" /\ caller[c].stage # "token" /\ caller[c].lost <= Margin =>
      caller[c].life > 0

\* SUCCEEDED is answered only when the user has been blocked, and dry runs,
\* refusals and an open circuit only when the call has changed nothing; what the
\* provider rejects or does not answer may have been done.
AnswersAreTrue ==
  \A c \in Callers :
    /\ caller[c].answer = "SUCCEEDED" => caller[c].did
    /\ caller[c].answer \in {"DRY_RUN", "REFUSED", "NOT_UNIQUE", "CIRCUIT_OPEN"} =>
         ~caller[c].did

\* Once the provider stays up the circuit closes for good, however many calls
\* are refused meanwhile and whatever failures are still to be counted.
CircuitRecovers == <>[]up => <>[](breaker.open = 0)
=============================================================================
