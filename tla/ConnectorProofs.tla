---------------------------- MODULE ConnectorProofs ----------------------------
(***************************************************************************)
(* TokenIsValid and AnswersAreTrue for any number of threads and attempts, *)
(* any times that satisfy ConnectorAssumption and any outages.  The        *)
(* invariant: the current token outlives its expiry by the margin, less    *)
(* its age when it was assigned, and of a token found to be current no     *)
(* more is gone than time has been lost.                                   *)
(***************************************************************************)
EXTENDS Auth0Connector, TLAPS

\* The answer a thread was given is true of what its last call has done.
Truthful(r) ==
  /\ r.answer = "SUCCEEDED" => r.did
  /\ r.answer \in {"DRY_RUN", "REFUSED", "NOT_UNIQUE", "CIRCUIT_OPEN"} => ~r.did

\* Where in a call the user may have been blocked, and where he has been.
Consistent(r) ==
  /\ r.pc # "idle" => r.answer = "none"
  /\ r.pc # "idle" /\ r.did => r.stage = "block" /\ r.pc # "circuit"
  /\ r.pc = "succeed" /\ r.stage = "block" => r.did
  /\ r.pc \in {"token", "keep", "stamp", "take"} => r.stage = "token"

\* A token found to be current lasts for the margin, less what has been lost of
\* it: first the shared one, then the one taken.
Holds(r, shared) ==
  /\ r.pc = "take" => shared.life + shared.late + r.lost > Margin
  /\ r.pc # "idle" /\ r.stage # "token" => r.life + r.lost > Margin

TokenInv ==
  /\ token.cached + Margin <= Life
  /\ token.cached > 0 => token.cached + Margin <= token.life + token.late

CallerInv(r) == Truthful(r) /\ Consistent(r) /\ Holds(r, token)

ConnectorInv ==
  ConnectorTypeOK /\ TokenInv /\ \A c \in Callers : CallerInv(caller[c])

LEMMA ConstantTypes ==
  /\ Attempts \in Nat \ {0} /\ Threshold \in Nat \ {0} /\ Recovery \in Nat \ {0}
  /\ MinCache \in Nat \ {0} /\ Margin \in Nat /\ Life \in Nat /\ MinCache + Margin <= Life
  BY ConnectorAssumption

LEMMA EndedType ==
  ASSUME NEW answer \in Answers, NEW did \in BOOLEAN
  PROVE  Ended(answer, did) \in Caller
  BY ConstantTypes DEF Ended, Caller

LEMMA ConnectorInitInv == ConnectorInit => ConnectorInv
<1> SUFFICES ASSUME ConnectorInit PROVE ConnectorInv
  OBVIOUS
<1> DEFINE r == Ended("none", FALSE)
<1>1. r \in Caller
  BY EndedType DEF Answers
<1>2. Truthful(r) /\ Consistent(r) /\ Holds(r, token)
  BY DEF Ended, Truthful, Consistent, Holds
<1> HIDE DEF r
<1>3. caller \in [Callers -> Caller] /\ \A c \in Callers : caller[c] = r
  BY <1>1 DEF ConnectorInit, r
<1>4. ConnectorTypeOK /\ TokenInv
  <2>1. token = [cached |-> 0, life |-> 0, late |-> 0] /\ breaker = [failures |-> 0, open |-> 0] /\ up
    BY DEF ConnectorInit
  <2> QED BY <1>3, <2>1, ConstantTypes DEF ConnectorTypeOK, TokenInv
<1> QED BY <1>2, <1>3, <1>4 DEF ConnectorInv, CallerInv

\* A step of one thread; the token may change as long as it is sound and as
\* late as it is old.
LEMMA OneCaller ==
  ASSUME ConnectorInv, NEW c \in Callers, NEW r \in Caller, Becomes(c, r),
         token' \in [cached : 0..Life, life : 0..Life, late : 0..Life], TokenInv',
         breaker' \in [failures : 0..Threshold, open : 0..Recovery], up' = up,
         token' = token \/ token'.life + token'.late = Life,
         Truthful(r), Consistent(r), Holds(r, token')
  PROVE  ConnectorInv'
<1>1. caller \in [Callers -> Caller]
  BY DEF ConnectorInv, ConnectorTypeOK
<1>2. ASSUME NEW d \in Callers
      PROVE  caller'[d] = IF d = c THEN r ELSE caller[d]
  BY <1>1 DEF Becomes
<1>3. caller' \in [Callers -> Caller]
  BY <1>1 DEF Becomes
<1>4. ASSUME NEW d \in Callers PROVE CallerInv(caller[d])'
  <2>1. CASE d = c
    BY <1>2, <2>1 DEF CallerInv, Truthful, Consistent, Holds
  <2>2. CASE d # c
    <3>1. caller'[d] = caller[d] /\ CallerInv(caller[d])
      BY <1>2, <2>2 DEF ConnectorInv
    <3>2. caller[d].lost \in 0..Margin + 1
      BY <1>1 DEF Caller
    <3>3. Holds(caller[d], token')
      <4>1. CASE token' = token
        BY <3>1, <4>1 DEF CallerInv
      <4>2. CASE token'.life + token'.late = Life
        <5>1. token'.life + token'.late + caller[d].lost > Margin
          BY <3>2, <4>2, ConstantTypes
        <5> QED BY <3>1, <5>1 DEF CallerInv, Holds
      <4> QED BY <4>1, <4>2
    <3> QED BY <3>1, <3>3 DEF CallerInv, Truthful, Consistent, Holds
  <2> QED BY <2>1, <2>2
<1> QED BY <1>3, <1>4 DEF ConnectorInv, ConnectorTypeOK

\* A call ends with an answer that is true.
LEMMA CallEndsInv ==
  ASSUME ConnectorInv, NEW c \in Callers, NEW answer \in Answers, NEW did \in BOOLEAN,
         Becomes(c, Ended(answer, did)), Truthful(Ended(answer, did)),
         UNCHANGED <<token, up>>,
         breaker' \in [failures : 0..Threshold, open : 0..Recovery]
  PROVE  ConnectorInv'
<1>1. Ended(answer, did) \in Caller
  BY EndedType
<1>2. Consistent(Ended(answer, did)) /\ Holds(Ended(answer, did), token')
  BY DEF Ended, Consistent, Holds
<1>3. TokenInv' /\ token' \in [cached : 0..Life, life : 0..Life, late : 0..Life]
  BY DEF ConnectorInv, ConnectorTypeOK, TokenInv
<1> QED BY <1>1, <1>2, <1>3, OneCaller

\* What the invariant says of one thread and of what is shared.
LEMMA CallerFacts ==
  ASSUME ConnectorInv, NEW c \in Callers
  PROVE  /\ caller[c] \in Caller /\ CallerInv(caller[c]) /\ TokenInv
         /\ token \in [cached : 0..Life, life : 0..Life, late : 0..Life]
         /\ breaker \in [failures : 0..Threshold, open : 0..Recovery]
  BY DEF ConnectorInv, ConnectorTypeOK

LEMMA AnswerAtOnceInv ==
  ASSUME ConnectorInv, NEW c \in Callers, NEW answer \in {"REFUSED", "DRY_RUN"},
         AnswerAtOnce(c, answer)
  PROVE  ConnectorInv'
  BY CallEndsInv, CallerFacts DEF AnswerAtOnce, Answers, Truthful, Ended

\* A thread goes on within its call.
LEMMA GoesOn ==
  ASSUME ConnectorInv, NEW c \in Callers,
         NEW pc \in {"token", "circuit", "send", "count", "store", "trip", "succeed",
                     "keep", "stamp", "take"},
         NEW stage \in {"token", "lookup", "block"}, NEW attempt \in 1..Attempts,
         NEW count \in 0..Threshold, NEW life \in 0..Life, NEW lost \in 0..Margin + 1,
         NEW did \in BOOLEAN,
         Becomes(c, Within(pc, stage, attempt, count, life, lost, did)),
         token' \in [cached : 0..Life, life : 0..Life, late : 0..Life], TokenInv',
         breaker' \in [failures : 0..Threshold, open : 0..Recovery], up' = up,
         token' = token \/ token'.life + token'.late = Life,
         did => stage = "block" /\ pc # "circuit",
         pc = "succeed" /\ stage = "block" => did,
         pc \in {"token", "keep", "stamp", "take"} => stage = "token",
         pc = "take" => token'.life + token'.late + lost > Margin,
         stage # "token" => life + lost > Margin
  PROVE  ConnectorInv'
<1> DEFINE r == Within(pc, stage, attempt, count, life, lost, did)
<1>1. r \in Caller
  BY DEF Within, Caller, Answers
<1>2. Truthful(r) /\ Consistent(r)
  BY DEF Within, Truthful, Consistent
<1>3. Holds(r, token')
  BY DEF Within, Holds
<1> HIDE DEF r
<1>4. Becomes(c, r)
  BY DEF r
<1> QED BY <1>1, <1>2, <1>3, <1>4, OneCaller

\* What a thread knows of its record.
LEMMA RecordTypes ==
  ASSUME ConnectorInv, NEW c \in Callers
  PROVE  /\ caller[c].stage \in {"token", "lookup", "block"}
         /\ caller[c].attempt \in 1..Attempts /\ caller[c].count \in 0..Threshold
         /\ caller[c].life \in 0..Life /\ caller[c].lost \in 0..Margin + 1
         /\ caller[c].did \in BOOLEAN
         /\ 0 \in 0..Threshold /\ 0 \in 0..Margin + 1 /\ 1 \in 1..Attempts /\ 0 \in 0..Life
         /\ Life \in 0..Life
         /\ token.cached \in 0..Life /\ token.life \in 0..Life
         /\ breaker.failures \in 0..Threshold /\ breaker.open \in 0..Recovery
  BY CallerFacts, ConstantTypes DEF Caller

\* What the type invariant says of what is shared.
LEMMA SharedTypes ==
  ASSUME ConnectorInv
  PROVE  /\ token.cached \in 0..Life /\ token.life \in 0..Life
         /\ breaker.failures \in 0..Threshold /\ breaker.open \in 0..Recovery
  BY DEF ConnectorInv, ConnectorTypeOK

\* Where the shared state stays as it is, it stays sound.
LEMMA SharedStays ==
  ASSUME ConnectorInv, UNCHANGED <<token, up>>
  PROVE  /\ token' \in [cached : 0..Life, life : 0..Life, late : 0..Life] /\ TokenInv'
         /\ up' = up /\ token' = token
  BY DEF ConnectorInv, ConnectorTypeOK, TokenInv

\* A thread goes on and leaves the shared token as it is.
LEMMA GoesOnSame ==
  ASSUME ConnectorInv, NEW c \in Callers,
         NEW pc \in {"token", "circuit", "send", "count", "store", "trip"},
         NEW stage \in {"token", "lookup", "block"}, NEW attempt \in 1..Attempts,
         NEW count \in 0..Threshold, NEW life \in 0..Life, NEW lost \in 0..Margin + 1,
         NEW did \in BOOLEAN,
         Becomes(c, Within(pc, stage, attempt, count, life, lost, did)),
         breaker' \in [failures : 0..Threshold, open : 0..Recovery],
         UNCHANGED <<token, up>>,
         did => stage = "block" /\ pc # "circuit", pc = "token" => stage = "token",
         stage # "token" => life + lost > Margin
  PROVE  ConnectorInv'
<1>1. /\ pc \in {"token", "circuit", "send", "count", "store", "trip", "succeed",
                  "keep", "stamp", "take"}
      /\ pc \notin {"succeed", "keep", "stamp", "take"}
  OBVIOUS
<1>2. token' \in [cached : 0..Life, life : 0..Life, late : 0..Life] /\ TokenInv' /\ up' = up
      /\ token' = token
  BY SharedStays
<1>3. pc \in {"token", "keep", "stamp", "take"} => stage = "token"
  BY <1>1
<1> QED BY <1>1, <1>2, <1>3, GoesOn

LEMMA ExecuteInv ==
  ASSUME ConnectorInv, NEW c \in Callers, Execute(c)
  PROVE  ConnectorInv'
<1>1. breaker' \in [failures : 0..Threshold, open : 0..Recovery] /\ UNCHANGED <<token, up>>
  BY CallerFacts DEF Execute
<1>2. Becomes(c, Within("token", "token", 1, 0, 0, 0, FALSE))
  BY DEF Execute
<1>3. /\ 1 \in 1..Attempts /\ 0 \in 0..Threshold /\ 0 \in 0..Life /\ 0 \in 0..Margin + 1
      /\ FALSE \in BOOLEAN
  BY RecordTypes
<1> QED BY <1>1, <1>2, <1>3, GoesOnSame

LEMMA UseTokenInv ==
  ASSUME ConnectorInv, NEW c \in Callers, UseToken(c)
  PROVE  ConnectorInv'
<1>1. UNCHANGED <<token, breaker, up>>
  BY DEF UseToken
<1>2. breaker' \in [failures : 0..Threshold, open : 0..Recovery]
  BY <1>1, CallerFacts
<1>3. /\ 1 \in 1..Attempts /\ 0 \in 0..Threshold /\ 0 \in 0..Life /\ 0 \in 0..Margin + 1
      /\ FALSE \in BOOLEAN
  BY RecordTypes
<1>4. CASE token.cached > 0
  <2>1. token.life + token.late + 0 > Margin
    BY <1>4, CallerFacts, RecordTypes, ConstantTypes DEF TokenInv
  <2>2. Becomes(c, Within("take", "token", 1, 0, 0, 0, FALSE))
    BY <1>4 DEF UseToken
  <2>3. token'.life + token'.late + 0 > Margin
    BY <1>1, <2>1
  <2> QED BY <1>1, <1>2, <1>3, <2>2, <2>3, SharedStays, GoesOn
<1>5. CASE ~(token.cached > 0)
  <2>1. Becomes(c, Within("circuit", "token", 1, 0, 0, 0, FALSE))
    BY <1>5 DEF UseToken
  <2> QED BY <1>1, <1>2, <1>3, <2>1, GoesOnSame
<1> QED BY <1>4, <1>5

LEMMA CheckCircuitInv ==
  ASSUME ConnectorInv, NEW c \in Callers, CheckCircuit(c)
  PROVE  ConnectorInv'
<1>1. UNCHANGED <<token, breaker, up>> /\ caller[c].pc = "circuit"
  BY DEF CheckCircuit
<1>2. caller[c].did = FALSE
  BY <1>1, CallerFacts, RecordTypes DEF CallerInv, Consistent
<1>3. breaker' \in [failures : 0..Threshold, open : 0..Recovery]
  BY <1>1, CallerFacts
<1>4. CASE breaker.open > 0
  <2>1. Becomes(c, Ended("CIRCUIT_OPEN", FALSE))
    BY <1>2, <1>4 DEF CheckCircuit, Answer
  <2> QED BY <1>1, <1>3, <2>1, CallEndsInv DEF Answers, Truthful, Ended
<1>5. CASE ~(breaker.open > 0)
  <2>1. Becomes(c, Within("send", caller[c].stage, 1, 0, caller[c].life, caller[c].lost,
                          caller[c].did))
    BY <1>5 DEF CheckCircuit, Moved
  <2>2. caller[c].stage # "token" => caller[c].life + caller[c].lost > Margin
    BY <1>1, CallerFacts DEF CallerInv, Holds
  <2> QED BY <1>1, <1>2, <1>3, <2>1, <2>2, GoesOn, SharedStays, RecordTypes
<1> QED BY <1>4, <1>5

\* What holds of a thread whose request is out.
LEMMA SendFacts ==
  ASSUME ConnectorInv, NEW c \in Callers,
         caller[c].pc \in {"send", "count", "store", "trip"}
  PROVE  /\ caller[c].did => caller[c].stage = "block"
         /\ caller[c].stage # "token" => caller[c].life + caller[c].lost > Margin
  BY CallerFacts DEF CallerInv, Consistent, Holds

LEMMA SendOkInv ==
  ASSUME ConnectorInv, NEW c \in Callers, SendOk(c)
  PROVE  ConnectorInv'
<1> DEFINE stage == caller[c].stage
           life == IF stage = "token" THEN Life ELSE caller[c].life
           did == stage = "block" \/ caller[c].did
<1>1. UNCHANGED <<token, breaker, up>> /\ caller[c].pc = "send"
  BY DEF SendOk
<1>2. Becomes(c, Within("succeed", stage, caller[c].attempt, 0, life, caller[c].lost, did))
  BY DEF SendOk
<1>3. life \in 0..Life /\ did \in BOOLEAN /\ stage \in {"token", "lookup", "block"}
  BY RecordTypes
<1>4. (did <=> stage = "block") /\ (stage # "token" => life + caller[c].lost > Margin)
  BY <1>1, SendFacts
<1>5. breaker' \in [failures : 0..Threshold, open : 0..Recovery]
  BY <1>1, CallerFacts
<1> HIDE DEF stage, life, did
<1> QED BY <1>1, <1>2, <1>3, <1>4, <1>5, GoesOn, SharedStays, RecordTypes

LEMMA SendFailsInv ==
  ASSUME ConnectorInv, NEW c \in Callers, NEW effect \in BOOLEAN, SendFails(c, effect)
  PROVE  ConnectorInv'
<1> DEFINE stage == caller[c].stage
           did == caller[c].did \/ (effect /\ stage = "block")
<1>1. UNCHANGED <<token, breaker, up>> /\ caller[c].pc = "send"
  BY DEF SendFails
<1>2. did \in BOOLEAN /\ stage \in {"token", "lookup", "block"}
  BY RecordTypes
<1>3. (did => stage = "block") /\ (stage # "token" => caller[c].life + caller[c].lost > Margin)
  BY <1>1, SendFacts
<1>4. breaker' \in [failures : 0..Threshold, open : 0..Recovery]
  BY <1>1, CallerFacts
<1>7. UNCHANGED <<token, up>>
  BY <1>1
<1>8. /\ 1 \in 1..Attempts /\ 0 \in 0..Threshold /\ caller[c].attempt \in 1..Attempts
      /\ caller[c].life \in 0..Life /\ caller[c].lost \in 0..Margin + 1
  BY RecordTypes
<1>5. CASE /\ caller[c].attempt < Attempts
           /\ Becomes(c, Within("send", stage, caller[c].attempt + 1, 0, caller[c].life,
                                caller[c].lost, did))
  <2>1. caller[c].attempt + 1 \in 1..Attempts
    BY <1>5, RecordTypes, ConstantTypes
  <2> HIDE DEF stage, did
  <2> QED BY <1>2, <1>3, <1>4, <1>5, <1>7, <1>8, <2>1, GoesOnSame
<1>6. CASE Becomes(c, Within("count", stage, caller[c].attempt, 0, caller[c].life,
                             caller[c].lost, did))
  <2> HIDE DEF stage, did
  <2> QED BY <1>2, <1>3, <1>4, <1>6, <1>7, <1>8, GoesOnSame
<1> QED BY <1>5, <1>6 DEF SendFails

LEMMA SendRejectedInv ==
  ASSUME ConnectorInv, NEW c \in Callers, SendRejected(c)
  PROVE  ConnectorInv'
  BY CallEndsInv, CallerFacts, RecordTypes DEF SendRejected, Answer, Answers, Truthful, Ended

LEMMA CountFailureInv ==
  ASSUME ConnectorInv, NEW c \in Callers, CountFailure(c)
  PROVE  ConnectorInv'
<1>1. UNCHANGED <<token, breaker, up>> /\ caller[c].pc = "count"
  BY DEF CountFailure
<1>2. Becomes(c, Within("store", caller[c].stage, caller[c].attempt, breaker.failures,
                        caller[c].life, caller[c].lost, caller[c].did))
  BY DEF CountFailure
<1>3. breaker' \in [failures : 0..Threshold, open : 0..Recovery]
  BY <1>1, CallerFacts
<1>4. /\ caller[c].stage \in {"token", "lookup", "block"} /\ caller[c].attempt \in 1..Attempts
      /\ breaker.failures \in 0..Threshold /\ caller[c].life \in 0..Life
      /\ caller[c].lost \in 0..Margin + 1 /\ caller[c].did \in BOOLEAN
  BY RecordTypes
<1>5. /\ caller[c].did => caller[c].stage = "block"
      /\ caller[c].stage # "token" => caller[c].life + caller[c].lost > Margin
  BY <1>1, SendFacts
<1> QED BY <1>1, <1>2, <1>3, <1>4, <1>5, GoesOnSame

LEMMA StoreFailureInv ==
  ASSUME ConnectorInv, NEW c \in Callers, StoreFailure(c)
  PROVE  ConnectorInv'
<1>1. UNCHANGED <<token, up>> /\ caller[c].pc = "store"
  BY DEF StoreFailure
<1>2. Becomes(c, Within("trip", caller[c].stage, caller[c].attempt, 0,
                        caller[c].life, caller[c].lost, caller[c].did))
  BY DEF StoreFailure, Moved
<1>3. breaker' \in [failures : 0..Threshold, open : 0..Recovery]
  BY RecordTypes, ConstantTypes DEF StoreFailure
<1>4. /\ caller[c].stage \in {"token", "lookup", "block"} /\ caller[c].attempt \in 1..Attempts
      /\ 0 \in 0..Threshold /\ caller[c].life \in 0..Life
      /\ caller[c].lost \in 0..Margin + 1 /\ caller[c].did \in BOOLEAN
  BY RecordTypes
<1>5. /\ caller[c].did => caller[c].stage = "block"
      /\ caller[c].stage # "token" => caller[c].life + caller[c].lost > Margin
  BY <1>1, SendFacts
<1> QED BY <1>1, <1>2, <1>3, <1>4, <1>5, GoesOnSame

LEMMA TripInv ==
  ASSUME ConnectorInv, NEW c \in Callers, Trip(c)
  PROVE  ConnectorInv'
<1>1. breaker' \in [failures : 0..Threshold, open : 0..Recovery]
  BY RecordTypes, ConstantTypes DEF Trip
<1> QED BY <1>1, CallEndsInv, RecordTypes DEF Trip, Answer, Answers, Truthful, Ended

LEMMA SucceedInv ==
  ASSUME ConnectorInv, NEW c \in Callers, Succeed(c)
  PROVE  ConnectorInv'
<1>1. UNCHANGED <<token, up>> /\ caller[c].pc = "succeed"
  BY DEF Succeed
<1>2. breaker' \in [failures : 0..Threshold, open : 0..Recovery]
  BY RecordTypes, ConstantTypes DEF Succeed
<1>3. /\ caller[c].did <=> caller[c].stage = "block"
      /\ caller[c].stage # "token" => caller[c].life + caller[c].lost > Margin
  BY <1>1, CallerFacts DEF CallerInv, Consistent, Holds
<1>4. CASE caller[c].stage = "token" /\ Becomes(c, Moved(caller[c], "keep", "token", 1))
  <2>1. Becomes(c, Within("keep", "token", 1, 0, caller[c].life, caller[c].lost, caller[c].did))
    BY <1>4 DEF Moved
  <2> QED BY <1>1, <1>2, <1>3, <1>4, <2>1, GoesOn, SharedStays, RecordTypes
<1>5. CASE caller[c].stage = "lookup" /\ Becomes(c, Moved(caller[c], "circuit", "block", 1))
  <2>1. Becomes(c, Within("circuit", "block", 1, 0, caller[c].life, caller[c].lost,
                          caller[c].did))
    BY <1>5 DEF Moved
  <2> QED BY <1>1, <1>2, <1>3, <1>5, <2>1, GoesOn, SharedStays, RecordTypes
<1>6. CASE caller[c].stage = "lookup" /\ Answer(c, "NOT_UNIQUE")
  <2>1. Becomes(c, Ended("NOT_UNIQUE", FALSE))
    BY <1>3, <1>6, RecordTypes DEF Answer
  <2> QED BY <1>1, <1>2, <2>1, CallEndsInv DEF Answers, Truthful, Ended
<1>7. CASE caller[c].stage = "block" /\ Answer(c, "SUCCEEDED")
  <2>1. Becomes(c, Ended("SUCCEEDED", TRUE))
    BY <1>3, <1>7, RecordTypes DEF Answer
  <2> QED BY <1>1, <1>2, <2>1, CallEndsInv DEF Answers, Truthful, Ended
<1> QED BY <1>4, <1>5, <1>6, <1>7 DEF Succeed

\* A token just assigned, or assigned its expiry, is as late as it is old.
LEMMA Assigned ==
  ASSUME ConnectorInv, NEW c \in Callers, NEW pc \in {"stamp", "take"},
         Becomes(c, Within(pc, "token", 1, 0, 0, 0, FALSE)), UNCHANGED <<breaker, up>>,
         NEW life \in 0..Life, NEW cached \in 0..Life, cached + Margin <= Life,
         token' = [cached |-> cached, life |-> life, late |-> Life - life]
  PROVE  ConnectorInv'
<1>1. /\ token' \in [cached : 0..Life, life : 0..Life, late : 0..Life]
      /\ token'.life + token'.late = Life /\ token'.cached = cached
  BY ConstantTypes
<1>2. TokenInv' /\ token'.life + token'.late + 0 > Margin
  BY <1>1, ConstantTypes DEF TokenInv
<1>3. breaker' \in [failures : 0..Threshold, open : 0..Recovery]
  BY CallerFacts
<1>4. /\ 1 \in 1..Attempts /\ 0 \in 0..Threshold /\ 0 \in 0..Life /\ 0 \in 0..Margin + 1
      /\ FALSE \in BOOLEAN
  BY RecordTypes
<1> QED BY <1>1, <1>2, <1>3, <1>4, GoesOn

LEMMA KeepTokenInv ==
  ASSUME ConnectorInv, NEW c \in Callers, KeepToken(c)
  PROVE  ConnectorInv'
<1>1. caller[c].life \in 0..Life /\ token.cached \in 0..Life /\ token.cached + Margin <= Life
  BY RecordTypes, CallerFacts DEF TokenInv
<1> QED BY <1>1, Assigned DEF KeepToken

LEMMA StampTokenInv ==
  ASSUME ConnectorInv, NEW c \in Callers, StampToken(c)
  PROVE  ConnectorInv'
<1> DEFINE cached == IF Life > Margin + MinCache THEN Life - Margin ELSE MinCache
<1>1. token.life \in 0..Life /\ cached \in 0..Life /\ cached + Margin <= Life
  BY RecordTypes, ConstantTypes
<1>2. Stamped(c, cached)
  BY DEF StampToken
<1> HIDE DEF cached
<1> QED BY <1>1, <1>2, Assigned DEF Stamped

LEMMA TakeTokenInv ==
  ASSUME ConnectorInv, NEW c \in Callers, TakeToken(c)
  PROVE  ConnectorInv'
<1> DEFINE lost == Lost(caller[c].lost + token.late)
<1>1. caller[c].pc = "take" /\ UNCHANGED <<token, breaker, up>>
  BY DEF TakeToken
<1>2. Becomes(c, Within("circuit", "lookup", 1, 0, token.life, lost, FALSE))
  BY DEF TakeToken
<1>3. token.life + token.late + caller[c].lost > Margin
  BY <1>1, CallerFacts DEF CallerInv, Holds
<1>4. /\ token.life \in 0..Life /\ token.late \in 0..Life /\ caller[c].lost \in 0..Margin + 1
      /\ 1 \in 1..Attempts /\ 0 \in 0..Threshold /\ FALSE \in BOOLEAN
  BY RecordTypes, CallerFacts
<1>5. lost \in 0..Margin + 1 /\ token.life + lost > Margin
  BY <1>3, <1>4, ConstantTypes DEF Lost
<1>6. breaker' \in [failures : 0..Threshold, open : 0..Recovery]
  BY <1>1, CallerFacts
<1> HIDE DEF lost
<1> QED BY <1>1, <1>2, <1>4, <1>5, <1>6, GoesOnSame

\* A token that lasts long enough does so when time passes, and is counted.
LEMMA TimePasses ==
  ASSUME NEW n \in Nat, NEW m \in Nat, NEW lost \in 0..Margin + 1, n + m + lost > Margin
  PROVE  Less(n) + m + Lost(lost + 1) > Margin
  BY ConstantTypes DEF Less, Lost

LEMMA TickInv ==
  ASSUME ConnectorInv, Tick
  PROVE  ConnectorInv'
<1> DEFINE counts(d) == caller[d].pc = "take" \/ caller[d].stage # "token"
           aged(d) == Within(caller[d].pc, caller[d].stage, caller[d].attempt,
                             caller[d].count, Less(caller[d].life),
                             IF counts(d) THEN Lost(caller[d].lost + 1) ELSE caller[d].lost,
                             caller[d].did)
<1>1. token' = [cached |-> Less(token.cached), life |-> Less(token.life), late |-> token.late]
  BY DEF Tick
<1>0. token.late \in 0..Life
  BY DEF ConnectorInv, ConnectorTypeOK
<1>2. token' \in [cached : 0..Life, life : 0..Life, late : 0..Life]
  BY <1>0, <1>1, SharedTypes, ConstantTypes DEF Less
<1>3. TokenInv'
  BY <1>0, <1>1, SharedTypes, ConstantTypes DEF Less, TokenInv, ConnectorInv
<1>4. breaker' \in [failures : 0..Threshold, open : 0..Recovery] /\ up' \in BOOLEAN
  BY SharedTypes, ConstantTypes DEF Less, Tick, ConnectorInv, ConnectorTypeOK
<1>5. ASSUME NEW d \in Callers, caller[d].pc # "idle"
      PROVE  /\ aged(d) \in Caller /\ Truthful(aged(d)) /\ Consistent(aged(d))
             /\ Holds(aged(d), token')
  <2> DEFINE lost == IF counts(d) THEN Lost(caller[d].lost + 1) ELSE caller[d].lost
  <2>1. /\ Less(caller[d].life) \in 0..Life /\ lost \in 0..Margin + 1
    BY RecordTypes, ConstantTypes DEF Less, Lost
  <2>2. Consistent(caller[d]) /\ Holds(caller[d], token)
    BY CallerFacts DEF CallerInv
  <2>3. aged(d) = Within(caller[d].pc, caller[d].stage, caller[d].attempt,
                         caller[d].count, Less(caller[d].life), lost, caller[d].did)
    OBVIOUS
  <2>4. caller[d].pc = "take" => token'.life + token'.late + lost > Margin
    BY <1>0, <1>1, <2>2, RecordTypes, ConstantTypes, TimePasses DEF Holds
  <2>5. caller[d].stage # "token" => Less(caller[d].life) + 0 + lost > Margin
    <3>1. SUFFICES ASSUME caller[d].stage # "token"
                   PROVE  Less(caller[d].life) + 0 + Lost(caller[d].lost + 1) > Margin
      OBVIOUS
    <3>2. caller[d].life \in Nat /\ caller[d].lost \in 0..Margin + 1
      BY RecordTypes, ConstantTypes
    <3>3. caller[d].life + 0 + caller[d].lost > Margin
      BY <1>5, <2>2, <3>1, <3>2, ConstantTypes DEF Holds
    <3> QED BY <3>2, <3>3, TimePasses
  <2> HIDE DEF lost, aged
  <2>6. aged(d) \in Caller
    BY <1>5, <2>1, <2>3, RecordTypes, CallerFacts DEF Caller, Within, Answers
  <2>7. Truthful(aged(d)) /\ Consistent(aged(d))
    BY <1>5, <2>2, <2>3 DEF Truthful, Consistent, Within
  <2>8. Less(caller[d].life) + lost > Margin \/ caller[d].stage = "token"
    BY <2>1, <2>5
  <2>9. Holds(aged(d), token')
    BY <2>3, <2>4, <2>8 DEF Holds, Within
  <2> QED BY <2>6, <2>7, <2>9
<1>6. ASSUME NEW d \in Callers, caller[d].pc = "idle"
      PROVE  CallerInv(caller[d]) /\ Holds(caller[d], token')
  BY <1>6, CallerFacts DEF CallerInv, Holds
<1>7. caller' = [d \in Callers |-> IF caller[d].pc = "idle" THEN caller[d] ELSE aged(d)]
  BY DEF Tick
<1> HIDE DEF aged
<1>8. caller' \in [Callers -> Caller]
  BY <1>5, <1>7, CallerFacts
<1>9. ASSUME NEW d \in Callers PROVE CallerInv(caller[d])'
  <2>1. CASE caller[d].pc # "idle"
    <3>1. caller'[d] = aged(d)
      BY <1>7, <2>1
    <3> QED BY <1>5, <2>1, <3>1 DEF CallerInv, Truthful, Consistent, Holds
  <2>2. CASE caller[d].pc = "idle"
    <3>1. caller'[d] = caller[d]
      BY <1>7, <2>2
    <3> QED BY <1>6, <2>2, <3>1 DEF CallerInv, Truthful, Consistent, Holds
  <2> QED BY <2>1, <2>2
<1> QED BY <1>2, <1>3, <1>4, <1>8, <1>9 DEF ConnectorInv, ConnectorTypeOK

LEMMA WeatherInv ==
  ASSUME ConnectorInv, Outage \/ Restored
  PROVE  ConnectorInv'
<1>1. UNCHANGED <<token, breaker, caller>> /\ up' \in BOOLEAN
  BY DEF Outage, Restored
<1> QED BY <1>1 DEF ConnectorInv, ConnectorTypeOK, TokenInv, CallerInv, Truthful,
                    Consistent, Holds

LEMMA StutterInv ==
  ASSUME ConnectorInv, UNCHANGED connectorVars
  PROVE  ConnectorInv'
  BY DEF connectorVars, ConnectorInv, ConnectorTypeOK, TokenInv, CallerInv, Truthful,
         Consistent, Holds

LEMMA CallerProceedsInv ==
  ASSUME ConnectorInv, NEW c \in Callers, CallerProceeds(c)
  PROVE  ConnectorInv'
  BY UseTokenInv, CheckCircuitInv, SendOkInv, SendFailsInv, SendRejectedInv,
     CountFailureInv, StoreFailureInv, TripInv, SucceedInv, KeepTokenInv, StampTokenInv,
     TakeTokenInv
  DEF CallerProceeds

LEMMA ConnectorNextInv == ConnectorInv /\ [ConnectorNext]_connectorVars => ConnectorInv'
<1> SUFFICES ASSUME ConnectorInv, [ConnectorNext]_connectorVars PROVE ConnectorInv'
  OBVIOUS
<1>1. ASSUME NEW c \in Callers, NEW answer \in {"REFUSED", "DRY_RUN"}, AnswerAtOnce(c, answer)
      PROVE  ConnectorInv'
  BY <1>1, AnswerAtOnceInv
<1>2. ASSUME NEW c \in Callers, Execute(c) PROVE ConnectorInv'
  BY <1>2, ExecuteInv
<1>3. ASSUME NEW c \in Callers, CallerProceeds(c) PROVE ConnectorInv'
  BY <1>3, CallerProceedsInv
<1>4. CASE Tick \/ Outage \/ Restored
  BY <1>4, TickInv, WeatherInv
<1>5. CASE UNCHANGED connectorVars
  BY <1>5, StutterInv
<1> QED BY <1>1, <1>2, <1>3, <1>4, <1>5 DEF ConnectorNext

\* Whatever threads refresh and share a token, and wherever time passes, a request
\* is sent with a token that is honoured, unless the 60 seconds of the margin have
\* been lost between its issue and the assignments, and between the check and the
\* request (connectors.py 117-149).
THEOREM TokensAreValid == ConnectorSpec => []TokenIsValid
<1>1. ConnectorInv => TokenIsValid
  <2> SUFFICES ASSUME ConnectorInv, NEW c \in Callers, caller[c].pc = "send",
                      caller[c].stage # "token", caller[c].lost <= Margin
               PROVE  caller[c].life > 0
    BY DEF TokenIsValid
  <2>1. caller[c].life + caller[c].lost > Margin
    BY SendFacts
  <2> QED BY <2>1, RecordTypes, ConstantTypes
<1> QED BY <1>1, ConnectorInitInv, ConnectorNextInv, PTL DEF ConnectorSpec

\* An answer is true of the provider: SUCCEEDED only after the user is blocked, and
\* nothing done where the answer says so (connectors.py 151-190).
THEOREM AnswersAreAlwaysTrue == ConnectorSpec => []AnswersAreTrue
<1>1. ConnectorInv => AnswersAreTrue
  BY DEF ConnectorInv, CallerInv, Truthful, AnswersAreTrue
<1> QED BY <1>1, ConnectorInitInv, ConnectorNextInv, PTL DEF ConnectorSpec
=============================================================================
