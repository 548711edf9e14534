---------------------------- MODULE DetectionProofs ----------------------------
(* Theorems of Detection, for any telemetry, windows, thresholds and batches, in  *)
(* any order and any number of times.                                             *)
EXTENDS Detection, OrderLemmas, TLAPS

-----------------------------------------------------------------------------
(* Times, windows and the order of events. *)

LEMMA MaxOfNaturals ==
  ASSUME NEW T \in SUBSET Nat, T # {}, IsFiniteSet(T)
  PROVE  Max(T) \in T /\ \A x \in T : x <= Max(T)
<1> DEFINE m == [x \in T |-> x]
<1>1. \A x \in T : m[x] \in Nat
  OBVIOUS
<1>2. PICK x \in T : \A y \in T : m[y] <= m[x]
  <2> HIDE DEF m
  <2> QED BY <1>1, GreatestBy
<1>3. \A y \in T : x >= y
  BY <1>2
<1> QED BY <1>3 DEF Max

LEMMA TimeType ==
  ASSUME NEW e \in Events
  PROVE  Event[e].time \in Nat /\ e \in Nat
  BY EventAssumption, BatchesAssumption

\* The times of some events.
LEMMA TimeBounds ==
  ASSUME NEW S \in SUBSET Events, S # {}
  PROVE  LET times == {Event[e].time : e \in S} IN
         /\ Min(times) \in Nat /\ Max(times) \in Nat
         /\ \A e \in S : Min(times) <= Event[e].time /\ Event[e].time <= Max(times)
<1> DEFINE times == {Event[e].time : e \in S}
           m == [e \in S |-> Event[e].time]
<1>1. IsFiniteSet(S) /\ \A e \in S : Event[e].time \in Nat
  BY BatchesAssumption, FS_Subset, TimeType
<1>2. \A e \in S : m[e] \in Nat
  BY <1>1
<1>3. (\E a \in S : \A e \in S : m[a] <= m[e]) /\ (\E b \in S : \A e \in S : m[e] <= m[b])
  <2> HIDE DEF m
  <2> QED BY <1>1, <1>2, LeastBy, GreatestBy
<1>4. PICK a \in S, b \in S : \A e \in S : Event[a].time <= Event[e].time /\ Event[e].time <= Event[b].time
  BY <1>3
<1>5. Event[a].time \in times /\ \A x \in times : Event[a].time =< x
  BY <1>4
<1>6. Event[b].time \in times /\ \A x \in times : Event[b].time >= x
  BY <1>1, <1>4
<1>7. Min(times) \in times /\ \A x \in times : Min(times) =< x
  BY <1>5 DEF Min
<1>8. Max(times) \in times /\ \A x \in times : Max(times) >= x
  BY <1>6 DEF Max
<1>9. ASSUME NEW e \in S PROVE Min(times) <= Event[e].time /\ Event[e].time <= Max(times)
  BY <1>1, <1>7, <1>8
<1>10. Min(times) \in Nat /\ Max(times) \in Nat
  BY <1>1, <1>7, <1>8
<1> QED BY <1>9, <1>10

LEMMA LookbackCovers ==
  /\ Lookback \in Nat
  /\ TravelWindow <= Lookback /\ FatigueWindow <= Lookback /\ PrivilegeWindow <= Lookback
<1> DEFINE T == {CorrelationWindow, TravelWindow, PrivilegeWindow, FatigueWindow}
<1>1. T \in SUBSET Nat /\ T # {}
  BY ThresholdsAssumption, WindowsAssumption
<1>2. IsFiniteSet(T)
  <2>1. T = ({CorrelationWindow} \cup {TravelWindow}) \cup ({PrivilegeWindow} \cup {FatigueWindow})
    OBVIOUS
  <2>2. \A x : IsFiniteSet({x})
    BY FS_Singleton
  <2>3. \A A, B : IsFiniteSet(A) /\ IsFiniteSet(B) => IsFiniteSet(A \cup B)
    BY FS_Union
  <2> HIDE DEF T
  <2> QED BY <2>1, <2>2, <2>3
<1>3. Max(T) \in T /\ \A x \in T : x <= Max(T)
  <2> HIDE DEF T
  <2> QED BY <1>1, <1>2, MaxOfNaturals
<1>4. TravelWindow \in T /\ FatigueWindow \in T /\ PrivilegeWindow \in T
  OBVIOUS
<1>5. Lookback = Max(T)
  BY DEF Lookback
<1> HIDE DEF T
<1> QED BY <1>1, <1>3, <1>4, <1>5

\* Before is a strict total order.
LEMMA BeforeOrders ==
  /\ \A d \in Events : ~Before(d, d)
  /\ \A d, e \in Events : Before(d, e) \/ Before(e, d) \/ d = e
  /\ \A d, e \in Events : ~(Before(d, e) /\ Before(e, d))
  /\ \A c, d, e \in Events : Before(c, d) /\ Before(d, e) => Before(c, e)
  /\ \A d, e \in Events : Before(d, e) => Event[d].time <= Event[e].time
  BY TimeType DEF Before

LEMMA GapIs ==
  ASSUME NEW d \in Events, NEW e \in Events, Event[d].time <= Event[e].time
  PROVE  Gap(Event[d], Event[e]) = Event[e].time - Event[d].time
  BY TimeType DEF Gap

LEMMA LastEvent ==
  ASSUME NEW Q \in SUBSET Events, Q # {}
  PROVE  \E q \in Q : \A x \in Q : ~Before(q, x)
<1> DEFINE time == [e \in Q |-> Event[e].time]
           number == [e \in Q |-> e]
<1>1. IsFiniteSet(Q) /\ \A e \in Q : Event[e].time \in Nat /\ e \in Nat
  BY BatchesAssumption, FS_Subset, TimeType
<1>2. PICK a \in Q : \A x \in Q : Event[x].time <= Event[a].time
  <2>1. \A e \in Q : time[e] \in Nat
    BY <1>1
  <2>2. PICK a \in Q : \A x \in Q : time[x] <= time[a]
    <3> HIDE DEF time
    <3> QED BY <1>1, <2>1, GreatestBy
  <2> QED BY <2>2
<1> DEFINE L == {e \in Q : Event[e].time = Event[a].time}
<1>3. PICK b \in L : \A x \in L : x <= b
  <2>1. L \in SUBSET Q /\ L # {}
    OBVIOUS
  <2>2. IsFiniteSet(L)
    BY <1>1, <2>1, FS_Subset
  <2>3. \A e \in L : number[e] \in Nat
    BY <1>1
  <2>4. PICK b \in L : \A x \in L : number[x] <= number[b]
    <3> HIDE DEF L, number
    <3> QED BY <2>1, <2>2, <2>3, GreatestBy
  <2> QED BY <2>4
<1>4. ASSUME NEW x \in Q PROVE ~Before(b, x)
  BY <1>1, <1>2, <1>3 DEF Before
<1> QED BY <1>3, <1>4

LEMMA FirstEvent ==
  ASSUME NEW Q \in SUBSET Events, Q # {}
  PROVE  \E q \in Q : \A x \in Q : ~Before(x, q)
<1> DEFINE time == [e \in Q |-> Event[e].time]
           number == [e \in Q |-> e]
<1>1. \A e \in Q : Event[e].time \in Nat /\ e \in Nat
  BY TimeType
<1>2. PICK a \in Q : \A x \in Q : Event[a].time <= Event[x].time
  <2>1. \A e \in Q : time[e] \in Nat
    BY <1>1
  <2>2. PICK a \in Q : \A x \in Q : time[a] <= time[x]
    <3> HIDE DEF time
    <3> QED BY <2>1, LeastBy
  <2> QED BY <2>2
<1> DEFINE L == {e \in Q : Event[e].time = Event[a].time}
<1>3. PICK b \in L : \A x \in L : b <= x
  <2>1. L \in SUBSET Q /\ L # {}
    OBVIOUS
  <2>2. \A e \in L : number[e] \in Nat
    BY <1>1
  <2>3. PICK b \in L : \A x \in L : number[b] <= number[x]
    <3> HIDE DEF L, number
    <3> QED BY <2>1, <2>2, LeastBy
  <2> QED BY <2>3
<1>4. ASSUME NEW x \in Q PROVE ~Before(x, b)
  BY <1>1, <1>2, <1>3 DEF Before
<1> QED BY <1>3, <1>4

-----------------------------------------------------------------------------
(* What the rules find. *)

\* Findings are on the telemetry that is looked at.
LEMMA FindingType ==
  ASSUME NEW S, NEW f \in run_detection(S)
  PROVE  f = <<f[1], f[2], f[3]>> /\ f[1] \in S /\ f[2] \in FlagNames /\ f[3] \in 0..35
<1> DEFINE P(g) == g = <<g[1], g[2], g[3]>> /\ g[1] \in S /\ g[2] \in FlagNames /\ g[3] \in 0..35
<1>1. /\ "IMPOSSIBLE_TRAVEL" \in FlagNames /\ "MFA_FATIGUE" \in FlagNames
      /\ "NEW_DEVICE" \in FlagNames /\ "PRIVILEGE_ESCALATION" \in FlagNames
  BY DEF FlagNames
<1>2. \A r \in EventRules : r[3] \in FlagNames /\ r[4] \in 0..35
  <2>1. \A r \in EventRules : r[4] \in 0..35
    BY DEF EventRules
  <2> QED BY <2>1 DEF FlagNames
<1>3. f \in detect_impossible_travel(S) => P(f)
  BY <1>1 DEF detect_impossible_travel, Logins, Authentications
<1>4. f \in detect_mfa_fatigue(S) => P(f)
  <2>1. \A e : Prompts(S, e) \subseteq S
    BY DEF Prompts, Denied, Authentications
  <2> QED BY <1>1, <2>1 DEF detect_mfa_fatigue
<1>5. f \in detect_new_devices(S) => P(f)
  BY <1>1 DEF detect_new_devices, Authentications
<1>6. f \in detect_event_rules(S) => P(f)
  BY <1>2 DEF detect_event_rules
<1>7. \A found : f \in detect_temporal_privilege(S, found) => P(f)
  BY <1>1 DEF detect_temporal_privilege, Privileged
<1> QED BY <1>3, <1>4, <1>5, <1>6, <1>7 DEF run_detection

\* Which rule a contextual flag is from.
LEMMA FlagRules ==
  ASSUME NEW S, NEW f \in run_detection(S)
  PROVE  /\ f[2] = "IMPOSSIBLE_TRAVEL" => f \in detect_impossible_travel(S)
         /\ f[2] = "MFA_FATIGUE" => f \in detect_mfa_fatigue(S)
         /\ f[2] = "PRIVILEGE_ESCALATION" =>
              \E found \in SUBSET run_detection(S) : f \in detect_temporal_privilege(S, found)
<1> DEFINE found == detect_impossible_travel(S) \cup detect_mfa_fatigue(S)
                    \cup detect_new_devices(S) \cup detect_event_rules(S)
<1>1. f \in detect_impossible_travel(S) => f[2] = "IMPOSSIBLE_TRAVEL"
  BY DEF detect_impossible_travel
<1>2. f \in detect_mfa_fatigue(S) => f[2] = "MFA_FATIGUE"
  BY DEF detect_mfa_fatigue
<1>3. f \in detect_new_devices(S) => f[2] = "NEW_DEVICE"
  BY DEF detect_new_devices
<1>4. f \in detect_event_rules(S) =>
        f[2] \notin {"IMPOSSIBLE_TRAVEL", "MFA_FATIGUE", "PRIVILEGE_ESCALATION"}
  <2>1. \A r \in EventRules : r[3] \notin {"IMPOSSIBLE_TRAVEL", "MFA_FATIGUE", "PRIVILEGE_ESCALATION"}
    BY DEF EventRules
  <2> QED BY <2>1 DEF detect_event_rules
<1>5. f \in detect_temporal_privilege(S, found) => f[2] = "PRIVILEGE_ESCALATION"
  BY DEF detect_temporal_privilege
<1>6. found \in SUBSET run_detection(S) /\ run_detection(S) = found \cup detect_temporal_privilege(S, found)
  BY DEF run_detection
<1>7. f \in found \/ f \in detect_temporal_privilege(S, found)
  BY <1>6
<1>8. f \in found => \/ f \in detect_impossible_travel(S) \/ f \in detect_mfa_fatigue(S)
                     \/ f \in detect_new_devices(S) \/ f \in detect_event_rules(S)
  OBVIOUS
<1> HIDE DEF found
<1> QED BY <1>1, <1>2, <1>3, <1>4, <1>5, <1>6, <1>7, <1>8

\* What is recorded of some findings: the rows there are stay as they are, and each
\* new one is the greatest contribution found for its key.
Holds(table, found) ==
  /\ DOMAIN table = DOMAIN rows \cup {<<f[1], f[2]>> : f \in found}
  /\ \A k \in DOMAIN rows : table[k] = rows[k]
  /\ \A k \in DOMAIN table \ DOMAIN rows :
       /\ \E f \in found : k = <<f[1], f[2]>> /\ table[k] = f[3]
       /\ \A f \in found : k = <<f[1], f[2]>> => f[3] <= table[k]

LEMMA RecordedRows ==
  ASSUME NEW found, \A f \in found : f[3] \in 0..35
  PROVE  Holds(Recorded(found), found)
<1> DEFINE keys == {<<f[1], f[2]>> : f \in found}
           risks(k) == {f[3] : f \in {g \in found : <<g[1], g[2]>> = k}}
<1>1. DOMAIN Recorded(found) = DOMAIN rows \cup keys
  BY DEF Recorded
<1>2. \A k \in DOMAIN rows : Recorded(found)[k] = rows[k]
  BY DEF Recorded
<1>3. ASSUME NEW k \in keys, k \notin DOMAIN rows
      PROVE  /\ \E f \in found : k = <<f[1], f[2]>> /\ Recorded(found)[k] = f[3]
             /\ \A f \in found : k = <<f[1], f[2]>> => f[3] <= Recorded(found)[k]
  <2>1. Recorded(found)[k] = Max(risks(k))
    BY <1>3 DEF Recorded
  <2>2. risks(k) \in SUBSET (0..35) /\ risks(k) # {}
    BY <1>3
  <2>3. IsFiniteSet(0..35)
    <3>1. 0 \in Int /\ 35 \in Int
      OBVIOUS
    <3> QED BY <3>1, FS_Interval
  <2>4. IsFiniteSet(risks(k)) /\ risks(k) \in SUBSET Nat
    BY <2>2, <2>3, FS_Subset
  <2>5. Max(risks(k)) \in risks(k) /\ \A x \in risks(k) : x <= Max(risks(k))
    BY <2>2, <2>4, MaxOfNaturals
  <2>6. \E f \in found : k = <<f[1], f[2]>> /\ Max(risks(k)) = f[3]
    BY <2>5
  <2>7. \A f \in found : k = <<f[1], f[2]>> => f[3] \in risks(k)
    OBVIOUS
  <2> HIDE DEF risks
  <2> QED BY <2>1, <2>5, <2>6, <2>7
<1> HIDE DEF risks
<1> QED BY <1>1, <1>2, <1>3 DEF Holds

-----------------------------------------------------------------------------
(* What a batch is looked at with, and what is recorded of it. *)

Scope(batch) == historical_context(stored \cup batch, batch) \cup batch

LEMMA ScopeType ==
  ASSUME stored \subseteq Events, NEW batch \in Batches
  PROVE  /\ batch \in SUBSET Events /\ batch # {} /\ stored \cup batch \in SUBSET Events
         /\ batch \subseteq Scope(batch) /\ Scope(batch) \subseteq stored \cup batch
  BY BatchesAssumption DEF Scope, historical_context

\* The user's authentications are in sight as far back as the lookback reaches.
LEMMA InSight ==
  ASSUME stored \subseteq Events, NEW batch \in Batches, NEW c \in batch,
         NEW d \in Authentications(stored \cup batch), SameUser(d, c),
         Event[d].time <= Event[c].time, Event[c].time <= Event[d].time + Lookback
  PROVE  d \in Scope(batch)
<1> DEFINE times == {Event[b].time : b \in batch}
<1>1. d \in Events /\ c \in Events /\ batch \in SUBSET Events /\ batch # {} /\ d \in stored \cup batch
  BY ScopeType DEF Authentications
<1>2. /\ Min(times) \in Nat /\ Max(times) \in Nat
      /\ Min(times) <= Event[c].time /\ Event[c].time <= Max(times)
  BY <1>1, TimeBounds
<1>3. Event[d].time \in Nat /\ Event[c].time \in Nat /\ Lookback \in Nat
  BY <1>1, TimeType, LookbackCovers
<1>4. Event[d].time + Lookback >= Min(times) /\ Event[d].time <= Max(times)
  <2> HIDE DEF times
  <2> QED BY <1>2, <1>3
<1>5. Shared(Event[c].user, Event[d].user)
  BY <1>1, AuthenticationAssumption DEF Authentications, Shared, SameUser
<1> QED BY <1>1, <1>4, <1>5 DEF Scope, historical_context

\* What is in sight is not older than the lookback before the batch.
LEMMA NotBeyondSight ==
  ASSUME stored \subseteq Events, NEW batch \in Batches, NEW c \in batch, NEW d \in Scope(batch)
  PROVE  Event[c].time <= Event[d].time + (Lookback + Span(batch))
<1> DEFINE times == {Event[b].time : b \in batch}
<1>1. d \in Events /\ c \in Events /\ batch \in SUBSET Events /\ batch # {}
  BY ScopeType
<1>2. /\ Min(times) \in Nat /\ Max(times) \in Nat
      /\ \A b \in batch : Min(times) <= Event[b].time /\ Event[b].time <= Max(times)
  BY <1>1, TimeBounds
<1>3. Event[d].time \in Nat /\ Event[c].time \in Nat /\ Lookback \in Nat
  BY <1>1, TimeType, LookbackCovers
<1>4. Event[d].time + Lookback >= Min(times)
  <2>1. CASE d \in batch
    <3> HIDE DEF times
    <3> QED BY <1>2, <1>3, <2>1
  <2>2. CASE d \in historical_context(stored \cup batch, batch)
    BY <2>2 DEF historical_context
  <2> QED BY <2>1, <2>2 DEF Scope
<1>5. Span(batch) = Max(times) - Min(times)
  BY DEF Span
<1> HIDE DEF times
<1> QED BY <1>2, <1>3, <1>4, <1>5

LEMMA Processed ==
  ASSUME NEW batch \in Batches, Process(batch), NEW found, found = run_detection(Scope(batch))
  PROVE  /\ stored' = stored \cup batch
         /\ overtaken' = overtaken \cup {e \in stored : \E d \in batch \ stored : Before(d, e)}
         /\ DOMAIN rows' = DOMAIN rows \cup {<<f[1], f[2]>> : f \in found}
         /\ \A k \in DOMAIN rows : rows'[k] = rows[k]
         /\ \A k \in DOMAIN rows' \ DOMAIN rows :
              /\ \E f \in found : k = <<f[1], f[2]>> /\ rows'[k] = f[3]
              /\ \A f \in found : k = <<f[1], f[2]>> => f[3] <= rows'[k]
<1>1. \A f \in found : f[3] \in 0..35
  BY FindingType
<1>2. rows' = Recorded(found)
  BY DEF Process, Scope
<1>3. Holds(rows', found)
  BY <1>1, <1>2, RecordedRows
<1>4. /\ stored' = stored \cup batch
      /\ overtaken' = overtaken \cup {e \in stored : \E d \in batch \ stored : Before(d, e)}
  BY DEF Process
<1> QED BY <1>3, <1>4 DEF Holds

-----------------------------------------------------------------------------
(* Types. *)

LEMMA InitType == Init => TypeOK
  BY DEF Init, TypeOK

LEMMA NextType == TypeOK /\ [Next]_vars => TypeOK'
<1> SUFFICES ASSUME TypeOK, [Next]_vars PROVE TypeOK'
  OBVIOUS
<1>1. ASSUME NEW batch \in Batches, Process(batch) PROVE TypeOK'
  <2> DEFINE found == run_detection(Scope(batch))
  <2>1. \A f \in found : f[1] \in Scope(batch) /\ f[2] \in FlagNames /\ f[3] \in 0..35
    BY FindingType
  <2>2. stored \subseteq Events
    BY DEF TypeOK
  <2>3. Scope(batch) \subseteq stored \cup batch /\ stored \cup batch \subseteq Events
    BY <2>2, ScopeType
  <2>4. /\ stored' = stored \cup batch
        /\ overtaken' = overtaken \cup {e \in stored : \E d \in batch \ stored : Before(d, e)}
        /\ DOMAIN rows' = DOMAIN rows \cup {<<f[1], f[2]>> : f \in found}
        /\ \A k \in DOMAIN rows : rows'[k] = rows[k]
        /\ \A k \in DOMAIN rows' \ DOMAIN rows : \E f \in found : k = <<f[1], f[2]>> /\ rows'[k] = f[3]
    BY <1>1, Processed
  <2> HIDE DEF found
  <2>5. DOMAIN rows' \subseteq stored' \X FlagNames
    BY <2>1, <2>3, <2>4 DEF TypeOK
  <2>6. \A k \in DOMAIN rows' : rows'[k] \in 0..35
    BY <2>1, <2>4 DEF TypeOK
  <2>7. stored' \subseteq Events /\ overtaken' \subseteq stored'
    BY <2>3, <2>4 DEF TypeOK
  <2> QED BY <2>5, <2>6, <2>7 DEF TypeOK
<1>2. CASE UNCHANGED vars
  BY <1>2 DEF vars, TypeOK
<1> QED BY <1>1, <1>2 DEF Next

\* Rows are on stored events, carry flags that some rule gives and contributions in
\* the range of the rules, whatever is found again in whichever order.
THEOREM RowsAreTyped == Spec => []TypeOK
  BY InitType, NextType, PTL DEF Spec

-----------------------------------------------------------------------------
(* Nothing precedes an event that came in order but was stored after it. *)

LEMMA InOrder ==
  ASSUME TypeOK, NEW batch \in Batches, Process(batch), NEW c \in Punctual', c \in stored,
         NEW d \in stored', Before(d, c)
  PROVE  c \in Punctual /\ d \in stored
<1>1. /\ stored' = stored \cup batch
      /\ overtaken' = overtaken \cup {e \in stored : \E x \in batch \ stored : Before(x, e)}
  BY DEF Process
<1> QED BY <1>1 DEF Punctual

\* A login that follows another one from elsewhere is charged by the rule.
LEMMA TravelFound ==
  ASSUME NEW S \in SUBSET Events, NEW c \in Logins(S), NEW p \in Logins(S), Travel(p, c)
  PROVE  <<c, "IMPOSSIBLE_TRAVEL", 30>> \in detect_impossible_travel(S)
<1> DEFINE Q == {q \in Logins(S) : Travel(q, c)}
<1>1. Q \in SUBSET Events /\ Q # {}
  BY DEF Logins, Authentications
<1>2. PICK q \in Q : \A x \in Q : ~Before(q, x)
  <2> HIDE DEF Q
  <2> QED BY <1>1, LastEvent
<1>3. <<q, c>> \in Logins(S) \X Logins(S) /\ Travel(q, c)
      /\ ~\E x \in Logins(S) : Travel(x, c) /\ Before(q, x)
  BY <1>2
<1> DEFINE pairs == {t \in Logins(S) \X Logins(S) :
                       /\ Travel(t[1], t[2])
                       /\ ~\E x \in Logins(S) : Travel(x, t[2]) /\ Before(t[1], x)}
           t == <<q, c>>
<1>4. t \in pairs /\ t[2] = c
  BY <1>3
<1>5. <<t[2], "IMPOSSIBLE_TRAVEL", 30>> \in {<<u[2], "IMPOSSIBLE_TRAVEL", 30>> : u \in pairs}
  <2> HIDE DEF pairs, t
  <2> QED BY <1>4
<1> QED BY <1>4, <1>5 DEF detect_impossible_travel

LEMMA TravelStep ==
  ASSUME TypeOK, TravelIsCharged, NEW batch \in Batches, Process(batch)
  PROVE  TravelIsCharged'
<1> DEFINE found == run_detection(Scope(batch))
<1>1. stored \subseteq Events /\ DOMAIN rows \subseteq stored \X FlagNames
  BY DEF TypeOK
<1>2. /\ stored' = stored \cup batch
      /\ DOMAIN rows' = DOMAIN rows \cup {<<f[1], f[2]>> : f \in found}
      /\ \A k \in DOMAIN rows : rows'[k] = rows[k]
      /\ \A k \in DOMAIN rows' \ DOMAIN rows :
           /\ \E f \in found : k = <<f[1], f[2]>> /\ rows'[k] = f[3]
           /\ \A f \in found : k = <<f[1], f[2]>> => f[3] <= rows'[k]
  BY Processed
<1>3. ASSUME NEW c \in Logins(Punctual'), NEW p \in Logins(stored'), Travel(p, c)
      PROVE  /\ <<c, "IMPOSSIBLE_TRAVEL">> \in DOMAIN rows'
             /\ rows'[<<c, "IMPOSSIBLE_TRAVEL">>] = 30
  <2>1. c \in Punctual' /\ c \in stored' /\ p \in stored' /\ Before(p, c)
        /\ c \in Events /\ p \in Events
    BY <1>1, <1>2, <1>3, ScopeType DEF Logins, Authentications, Punctual, Travel, Within
  <2>2. CASE c \in stored
    <3>1. c \in Punctual /\ p \in stored
      BY <2>1, <2>2, InOrder
    <3>2. c \in Logins(Punctual) /\ p \in Logins(stored)
      BY <1>3, <3>1 DEF Logins, Authentications
    <3>3. Flagged(c, "IMPOSSIBLE_TRAVEL") /\ rows[<<c, "IMPOSSIBLE_TRAVEL">>] = 30
      BY <1>3, <3>2 DEF TravelIsCharged
    <3> QED BY <1>2, <3>3 DEF Flagged
  <2>3. CASE c \notin stored
    <3> DEFINE k == <<c, "IMPOSSIBLE_TRAVEL">>
               f == <<c, "IMPOSSIBLE_TRAVEL", 30>>
    <3>1. c \in batch /\ k \notin DOMAIN rows
      BY <1>1, <1>2, <2>1, <2>3
    <3>2. Event[p].time <= Event[c].time /\ Event[c].time <= Event[p].time + Lookback
      <4>1. Event[p].time \in Nat /\ Event[c].time \in Nat /\ Lookback \in Nat
        BY <2>1, TimeType, LookbackCovers
      <4>2. Event[p].time <= Event[c].time
        BY <2>1, BeforeOrders
      <4>3. Event[c].time - Event[p].time <= TravelWindow
        BY <1>3, <2>1, <4>2, GapIs DEF Travel, Within
      <4>4. TravelWindow <= Lookback /\ TravelWindow \in Nat
        BY LookbackCovers, WindowsAssumption
      <4> QED BY <4>1, <4>2, <4>3, <4>4
    <3>3. p \in Authentications(stored \cup batch) /\ SameUser(p, c)
      BY <1>2, <1>3 DEF Logins, Travel
    <3>4. p \in Scope(batch) /\ c \in Scope(batch) /\ Scope(batch) \in SUBSET Events
      BY <1>1, <3>1, <3>2, <3>3, InSight, ScopeType
    <3>5. c \in Logins(Scope(batch)) /\ p \in Logins(Scope(batch))
      BY <1>3, <3>4 DEF Logins, Authentications
    <3>6. f \in found
      BY <1>3, <3>4, <3>5, TravelFound DEF run_detection
    <3>7. k \in DOMAIN rows'
      <4>1. k = <<f[1], f[2]>>
        OBVIOUS
      <4> HIDE DEF k, f, found
      <4> QED BY <1>2, <3>6, <4>1
    <3>8. PICK g \in found : k = <<g[1], g[2]>> /\ rows'[k] = g[3]
      <4> HIDE DEF k, found
      <4> QED BY <1>2, <3>1, <3>7
    <3>9. 30 <= rows'[k]
      <4>1. k = <<f[1], f[2]>> /\ f[3] = 30
        OBVIOUS
      <4> HIDE DEF k, f, found
      <4> QED BY <1>2, <3>1, <3>6, <3>7, <4>1
    <3>10. g[3] \in {0, 30}
      <4>1. g[2] = "IMPOSSIBLE_TRAVEL"
        BY <3>8
      <4>2. g \in detect_impossible_travel(Scope(batch))
        BY <4>1, FlagRules
      <4> QED BY <4>2 DEF detect_impossible_travel
    <3> HIDE DEF k, found
    <3>11. rows'[k] = 30
      BY <3>8, <3>9, <3>10
    <3> QED BY <3>7, <3>11 DEF k
  <2> QED BY <2>2, <2>3
<1> HIDE DEF found
<1> QED BY <1>3 DEF TravelIsCharged, Flagged

\* However telemetry is cut into batches, a login that came in order and followed a
\* login from another country within the window is charged for it, and a row found
\* for it as the earlier of two logins has not taken the place of the charge
\* (detect_impossible_travel, historical_context, the uniqueness of findings).
THEOREM TravelIsAlwaysCharged == Spec => []TravelIsCharged
<1>1. Init => TypeOK /\ TravelIsCharged
  BY InitType DEF Init, TravelIsCharged, Logins, Authentications
<1>2. TypeOK /\ TravelIsCharged /\ [Next]_vars => TypeOK' /\ TravelIsCharged'
  <2>1. TravelIsCharged /\ UNCHANGED vars => TravelIsCharged'
    BY DEF vars, TravelIsCharged, Punctual, Flagged
  <2> QED BY <2>1, NextType, TravelStep DEF Next
<1> QED BY <1>1, <1>2, PTL DEF Spec

-----------------------------------------------------------------------------
(* Privileged actions. *)

\* What a batch finds has rows after it, and no row goes.
LEMMA FlagsStay ==
  ASSUME NEW batch \in Batches, Process(batch)
  PROVE  /\ DOMAIN rows \subseteq DOMAIN rows'
         /\ \A f \in run_detection(Scope(batch)) : <<f[1], f[2]>> \in DOMAIN rows'
<1> DEFINE found == run_detection(Scope(batch))
<1>1. DOMAIN rows' = DOMAIN rows \cup {<<f[1], f[2]>> : f \in found}
  BY Processed
<1> HIDE DEF found
<1>2. DOMAIN rows \subseteq DOMAIN rows' /\ \A f \in found : <<f[1], f[2]>> \in DOMAIN rows'
  BY <1>1
<1> QED BY <1>2 DEF found

\* The rule flags a privileged action after a login it sees to be suspicious.
LEMMA PrivilegeFound ==
  ASSUME NEW S \in SUBSET Events, NEW c \in Privileged(S), NEW l \in Logins(S),
         SameUser(l, c), Within(l, c, PrivilegeWindow),
         \/ ~Event[l].trusted
         \/ \E p \in Logins(S) : Travel(p, l)
  PROVE  <<c, "PRIVILEGE_ESCALATION", 30>> \in run_detection(S)
<1> DEFINE found == detect_impossible_travel(S) \cup detect_mfa_fatigue(S)
                    \cup detect_new_devices(S) \cup detect_event_rules(S)
<1>1. \E flag \in {"IMPOSSIBLE_TRAVEL", "NEW_DEVICE"}, risk \in Nat : <<l, flag, risk>> \in found
  <2>1. ~Event[l].trusted => <<l, "NEW_DEVICE", 12>> \in found
    BY DEF detect_new_devices, Logins
  <2>2. (\E p \in Logins(S) : Travel(p, l)) => <<l, "IMPOSSIBLE_TRAVEL", 30>> \in found
    BY TravelFound
  <2> QED BY <2>1, <2>2
<1>2. run_detection(S) = found \cup detect_temporal_privilege(S, found)
  BY DEF run_detection
<1> HIDE DEF found
<1>3. \E f \in found : f[1] = l /\ f[2] \in {"IMPOSSIBLE_TRAVEL", "NEW_DEVICE"}
  BY <1>1
<1>4. <<c, "PRIVILEGE_ESCALATION", 30>> \in detect_temporal_privilege(S, found)
  BY <1>3 DEF detect_temporal_privilege
<1> QED BY <1>2, <1>4

LEMMA PrivilegeStep ==
  ASSUME TypeOK, PrivilegeIsSeen, NEW batch \in Batches, Process(batch)
  PROVE  PrivilegeIsSeen'
<1>1. stored \subseteq Events /\ stored' = stored \cup batch
  BY DEF TypeOK, Process
<1>2. stored \cup batch \in SUBSET Events
  BY <1>1, ScopeType
<1>3. ASSUME NEW c \in Privileged(Punctual'), NEW l \in Logins(stored'),
             SameUser(l, c), Within(l, c, PrivilegeWindow),
             \/ ~Event[l].trusted
             \/ \E p \in Logins(stored') : Travel(p, l) /\ Within(p, c, Lookback)
      PROVE  <<c, "PRIVILEGE_ESCALATION">> \in DOMAIN rows'
  <2>1. c \in Punctual' /\ c \in stored' /\ l \in stored' /\ Before(l, c) /\ c \in Events /\ l \in Events
    BY <1>1, <1>2, <1>3 DEF Privileged, Punctual, Logins, Authentications, Within
  <2>2. CASE c \in stored
    <3>1. c \in Punctual /\ l \in stored
      BY <2>1, <2>2, InOrder
    <3>2. c \in Privileged(Punctual) /\ l \in Logins(stored)
      BY <1>3, <3>1 DEF Privileged, Logins, Authentications
    <3>3. ASSUME NEW p \in Logins(stored'), Within(p, c, Lookback)
          PROVE  p \in Logins(stored)
      <4>1. p \in stored
        BY <2>1, <2>2, <3>3, InOrder DEF Logins, Authentications, Within
      <4> QED BY <3>3, <4>1 DEF Logins, Authentications
    <3>4. Flagged(c, "PRIVILEGE_ESCALATION")
      BY <1>3, <3>2, <3>3 DEF PrivilegeIsSeen
    <3> QED BY <3>4, FlagsStay DEF Flagged
  <2>3. CASE c \notin stored
    <3>1. c \in batch
      BY <1>1, <2>1, <2>3
    <3>2. ASSUME NEW d \in Logins(stored'), SameUser(d, c), NEW w \in Nat, w <= Lookback, Within(d, c, w)
          PROVE  d \in Logins(Scope(batch))
      <4>1. d \in Events /\ d \in Authentications(stored \cup batch)
        BY <1>1, <1>2, <3>2 DEF Logins, Authentications
      <4>2. /\ Event[d].time \in Nat /\ Event[c].time \in Nat /\ Lookback \in Nat
            /\ Event[d].time <= Event[c].time
        BY <2>1, <3>2, <4>1, TimeType, LookbackCovers, BeforeOrders DEF Within
      <4>3. Event[c].time - Event[d].time <= w
        BY <2>1, <3>2, <4>1, <4>2, GapIs DEF Within
      <4>4. Event[c].time <= Event[d].time + Lookback
        BY <3>2, <4>2, <4>3
      <4>5. d \in Scope(batch)
        BY <1>1, <3>1, <3>2, <4>1, <4>2, <4>4, InSight
      <4> QED BY <3>2, <4>5 DEF Logins, Authentications
    <3>3. l \in Logins(Scope(batch))
      BY <1>3, <3>2, LookbackCovers, WindowsAssumption
    <3>4. ASSUME NEW p \in Logins(stored'), Travel(p, l), Within(p, c, Lookback)
          PROVE  p \in Logins(Scope(batch))
      <4>1. SameUser(p, c)
        BY <1>3, <3>4 DEF Travel, SameUser
      <4> QED BY <3>2, <3>4, <4>1, LookbackCovers
    <3>5. c \in Privileged(Scope(batch)) /\ Scope(batch) \in SUBSET Events
      BY <1>1, <1>3, <3>1, ScopeType DEF Privileged
    <3>6. ~Event[l].trusted \/ \E p \in Logins(Scope(batch)) : Travel(p, l)
      BY <1>3, <3>4
    <3>7. <<c, "PRIVILEGE_ESCALATION", 30>> \in run_detection(Scope(batch))
      BY <1>3, <3>3, <3>5, <3>6, PrivilegeFound
    <3> DEFINE f == <<c, "PRIVILEGE_ESCALATION", 30>>
    <3>8. <<f[1], f[2]>> \in DOMAIN rows'
      BY <3>7, FlagsStay
    <3> QED BY <3>8
  <2> QED BY <2>2, <2>3
<1> QED BY <1>3 DEF PrivilegeIsSeen, Flagged

\* However telemetry is cut into batches, a privileged action that came in order is
\* flagged after a suspicious login of the same user, also when the login or the one
\* that makes it suspicious was in an earlier batch (detect_temporal_privilege over
\* historical_context).
THEOREM PrivilegeIsAlwaysSeen == Spec => []PrivilegeIsSeen
<1>1. Init => TypeOK /\ PrivilegeIsSeen
  BY InitType DEF Init, PrivilegeIsSeen, Privileged, Punctual
<1>2. TypeOK /\ PrivilegeIsSeen /\ [Next]_vars => TypeOK' /\ PrivilegeIsSeen'
  <2>1. PrivilegeIsSeen /\ UNCHANGED vars => PrivilegeIsSeen'
    BY DEF vars, PrivilegeIsSeen, Punctual, Flagged
  <2> QED BY <2>1, NextType, PrivilegeStep DEF Next
<1> QED BY <1>1, <1>2, PTL DEF Spec

-----------------------------------------------------------------------------
(* Explanations. *)

LEMMA StoredGrows ==
  ASSUME NEW S, NEW K, S \subseteq K
  PROVE  Logins(S) \subseteq Logins(K) /\ Denied(S) \subseteq Denied(K)
  BY DEF Logins, Denied, Authentications

\* The last prompt of a burst is one of its prompts.
LEMMA LastPrompt ==
  ASSUME NEW S \in SUBSET Events, NEW e \in Denied(S)
  PROVE  e \in Prompts(S, e)
<1> DEFINE upTo == {d \in Denied(S) : SameUser(d, e) /\ (d = e \/ Before(d, e))}
<1>1. {x \in upTo : Before(e, x)} = {}
  BY BeforeOrders DEF Denied, Authentications
<1>2. Cardinality({x \in upTo : Before(e, x)}) = 0
  BY <1>1, FS_EmptySet
<1>3. e \in upTo
  BY DEF SameUser
<1>4. 0 < FatigueThreshold
  BY FatigueAssumption
<1> QED BY <1>2, <1>3, <1>4 DEF Prompts

\* A finding of fatigue is on a prompt of the burst that is the reason.
LEMMA FatigueExplained ==
  ASSUME NEW S \in SUBSET Events, NEW f \in detect_mfa_fatigue(S)
  PROVE  \E G \in kSubset(FatigueThreshold, {d \in Denied(S) : SameUser(d, f[1])}) :
           f[1] \in G /\ Span(G) <= FatigueWindow
<1> DEFINE ends == {e \in S : /\ EndsBurst(S, e)
                              /\ ~\E x \in S : EndsBurst(S, x) /\ SameUser(x, e) /\ Before(x, e)}
<1>1. \E e \in ends : f[1] = e \/ f[1] \in Prompts(S, e)
  BY DEF detect_mfa_fatigue
<1>2. PICK e \in ends : f[1] = e \/ f[1] \in Prompts(S, e)
  BY <1>1
<1>3. e \in S /\ EndsBurst(S, e) /\ e \in Events
  OBVIOUS
<1>4. /\ e \in Denied(S) /\ Cardinality(Prompts(S, e)) = FatigueThreshold
      /\ Span(Prompts(S, e)) <= FatigueWindow
  BY <1>3 DEF EndsBurst
<1>5. e \in Prompts(S, e)
  BY <1>4, LastPrompt
<1>6. f[1] \in Prompts(S, e)
  BY <1>2, <1>5
<1>7. Prompts(S, e) \subseteq {d \in Denied(S) : SameUser(d, f[1])}
  BY <1>6 DEF Prompts, SameUser
<1>8. Prompts(S, e) \in kSubset(FatigueThreshold, {d \in Denied(S) : SameUser(d, f[1])})
  BY <1>4, <1>7 DEF kSubset
<1> QED BY <1>4, <1>6, <1>8

LEMMA ExplainedStep ==
  ASSUME TypeOK, RowsAreExplained, NEW batch \in Batches, Process(batch)
  PROVE  RowsAreExplained'
<1> DEFINE S == Scope(batch)
           found == run_detection(S)
<1>1. stored \subseteq Events /\ DOMAIN rows \subseteq stored \X FlagNames /\ stored' = stored \cup batch
  BY DEF TypeOK, Process
<1>2. S \in SUBSET Events /\ S \subseteq stored'
  BY <1>1, ScopeType
<1>3. DOMAIN rows' = DOMAIN rows \cup {<<f[1], f[2]>> : f \in found}
  BY Processed
<1>4. Logins(stored) \subseteq Logins(stored') /\ Denied(stored) \subseteq Denied(stored')
      /\ Logins(S) \subseteq Logins(stored') /\ Denied(S) \subseteq Denied(stored')
  BY <1>1, <1>2, StoredGrows
<1>5. ASSUME NEW e \in stored', NEW flag, <<e, flag>> \in DOMAIN rows'
      PROVE  \/ e \in stored /\ <<e, flag>> \in DOMAIN rows
             \/ \E f \in found : f[1] = e /\ f[2] = flag
  <2> HIDE DEF found
  <2> QED BY <1>1, <1>3, <1>5
<1>6. ASSUME NEW e \in stored', <<e, "IMPOSSIBLE_TRAVEL">> \in DOMAIN rows'
      PROVE  \E d \in Logins(stored') : Travel(d, e) \/ Travel(e, d)
  <2>1. CASE e \in stored /\ <<e, "IMPOSSIBLE_TRAVEL">> \in DOMAIN rows
    BY <1>4, <2>1 DEF RowsAreExplained, Flagged
  <2>2. CASE \E f \in found : f[1] = e /\ f[2] = "IMPOSSIBLE_TRAVEL"
    <3>1. PICK f \in found : f[1] = e /\ f[2] = "IMPOSSIBLE_TRAVEL"
      BY <2>2
    <3>2. f \in detect_impossible_travel(S)
      BY <3>1, FlagRules
    <3>3. \E d \in Logins(S) : Travel(d, f[1]) \/ Travel(f[1], d)
      BY <3>2 DEF detect_impossible_travel
    <3> QED BY <1>4, <3>1, <3>3
  <2> QED BY <1>5, <1>6, <2>1, <2>2
<1>7. ASSUME NEW e \in stored', <<e, "MFA_FATIGUE">> \in DOMAIN rows'
      PROVE  \E G \in kSubset(FatigueThreshold, {d \in Denied(stored') : SameUser(d, e)}) :
               e \in G /\ Span(G) <= FatigueWindow
  <2>0. ASSUME NEW K, Denied(K) \subseteq Denied(stored')
        PROVE  kSubset(FatigueThreshold, {d \in Denied(K) : SameUser(d, e)})
               \subseteq kSubset(FatigueThreshold, {d \in Denied(stored') : SameUser(d, e)})
    BY <2>0 DEF kSubset
  <2>1. CASE e \in stored /\ <<e, "MFA_FATIGUE">> \in DOMAIN rows
    <3>1. \E G \in kSubset(FatigueThreshold, {d \in Denied(stored) : SameUser(d, e)}) :
            e \in G /\ Span(G) <= FatigueWindow
      BY <2>1 DEF RowsAreExplained, Flagged
    <3> QED BY <1>4, <2>0, <3>1
  <2>2. CASE \E f \in found : f[1] = e /\ f[2] = "MFA_FATIGUE"
    <3>1. PICK f \in found : f[1] = e /\ f[2] = "MFA_FATIGUE"
      BY <2>2
    <3>2. f \in detect_mfa_fatigue(S)
      BY <3>1, FlagRules
    <3>3. \E G \in kSubset(FatigueThreshold, {d \in Denied(S) : SameUser(d, e)}) :
            e \in G /\ Span(G) <= FatigueWindow
      BY <1>2, <3>1, <3>2, FatigueExplained
    <3> QED BY <1>4, <2>0, <3>3
  <2> QED BY <1>5, <1>7, <2>1, <2>2
<1>8. ASSUME NEW e \in stored', <<e, "PRIVILEGE_ESCALATION">> \in DOMAIN rows'
      PROVE  \E l \in Logins(stored') :
               /\ SameUser(l, e) /\ Within(l, e, PrivilegeWindow)
               /\ <<l, "IMPOSSIBLE_TRAVEL">> \in DOMAIN rows' \/ <<l, "NEW_DEVICE">> \in DOMAIN rows'
  <2>1. CASE e \in stored /\ <<e, "PRIVILEGE_ESCALATION">> \in DOMAIN rows
    BY <1>4, <2>1, FlagsStay DEF RowsAreExplained, Flagged
  <2>2. CASE \E f \in found : f[1] = e /\ f[2] = "PRIVILEGE_ESCALATION"
    <3>1. PICK f \in found : f[1] = e /\ f[2] = "PRIVILEGE_ESCALATION"
      BY <2>2
    <3>2. PICK F \in SUBSET found : f \in detect_temporal_privilege(S, F)
      BY <3>1, FlagRules
    <3>3. PICK l \in Logins(S) :
            /\ SameUser(l, e) /\ Within(l, e, PrivilegeWindow)
            /\ \E g \in F : g[1] = l /\ g[2] \in {"IMPOSSIBLE_TRAVEL", "NEW_DEVICE"}
      BY <3>1, <3>2 DEF detect_temporal_privilege
    <3>4. PICK g \in F : g[1] = l /\ g[2] \in {"IMPOSSIBLE_TRAVEL", "NEW_DEVICE"}
      BY <3>3
    <3>5. <<g[1], g[2]>> \in DOMAIN rows'
      BY FlagsStay
    <3> QED BY <1>4, <3>3, <3>4, <3>5
  <2> QED BY <1>5, <1>8, <2>1, <2>2
<1> HIDE DEF S, found
<1> QED BY <1>6, <1>7, <1>8 DEF RowsAreExplained, Flagged

\* However telemetry is cut into batches and whatever order they come in, a row for an
\* impossible travel, a fatigue or an escalation has its cause among the events that
\* are stored: a login at the other end, a burst of prompts, a suspicious session
\* (detection_engine.py, the insertion of findings in process_raw_telemetry).
THEOREM RowsHaveCauses == Spec => []RowsAreExplained
<1>1. Init => TypeOK /\ RowsAreExplained
  BY InitType DEF Init, RowsAreExplained
<1>2. TypeOK /\ RowsAreExplained /\ [Next]_vars => TypeOK' /\ RowsAreExplained'
  <2>1. RowsAreExplained /\ UNCHANGED vars => RowsAreExplained'
    BY DEF vars, RowsAreExplained, Flagged
  <2> QED BY <2>1, NextType, ExplainedStep DEF Next
<1> QED BY <1>1, <1>2, PTL DEF Spec

-----------------------------------------------------------------------------
(* Bursts of prompts.  Telemetry that holds a burst, and what lies between it and *)
(* the prompts it has, shows the burst that all the telemetry shows.              *)

UpTo(S, e) == {d \in Denied(S) : SameUser(d, e) /\ (d = e \/ Before(d, e))}
Later(S, e, d) == {x \in UpTo(S, e) : Before(d, x)}

LEMMA PromptsAre ==
  ASSUME NEW S, NEW e
  PROVE  Prompts(S, e) = {d \in UpTo(S, e) : Cardinality(Later(S, e, d)) < FatigueThreshold}
  BY DEF Prompts, UpTo, Later

LEMMA UpToType ==
  ASSUME NEW S \in SUBSET Events, NEW e
  PROVE  UpTo(S, e) \in SUBSET Events /\ UpTo(S, e) \subseteq S
         /\ \A d : Later(S, e, d) \in SUBSET UpTo(S, e)
  BY DEF UpTo, Later, Denied, Authentications

LEMMA Fewer ==
  ASSUME NEW B \in SUBSET Events, NEW A \in SUBSET B
  PROVE  Cardinality(A) \in Nat /\ Cardinality(B) \in Nat /\ Cardinality(A) <= Cardinality(B)
<1>1. IsFiniteSet(B)
  BY BatchesAssumption, FS_Subset
<1> QED BY <1>1, FS_Subset, FS_CardinalityType

\* What is later than the burst's prompts is fewer than the burst, so a prompt that is
\* not one of them is before all of them.
LEMMA BeforeTheBurst ==
  ASSUME NEW K \in SUBSET Events, NEW e, NEW d \in UpTo(K, e), d \notin Prompts(K, e),
         NEW q \in Prompts(K, e)
  PROVE  Before(d, q)
<1>1. q \in UpTo(K, e) /\ Cardinality(Later(K, e, q)) < FatigueThreshold
  BY PromptsAre
<1>2. ~(Cardinality(Later(K, e, d)) < FatigueThreshold)
  BY PromptsAre
<1>3. d \in Events /\ q \in Events /\ UpTo(K, e) \in SUBSET Events
  BY <1>1, UpToType
<1>4. ASSUME Before(q, d) PROVE FALSE
  <2>1. Later(K, e, d) \in SUBSET Later(K, e, q)
    BY <1>3, <1>4, BeforeOrders DEF Later
  <2>2. Later(K, e, q) \in SUBSET Events
    BY UpToType
  <2>3. /\ Cardinality(Later(K, e, d)) \in Nat /\ Cardinality(Later(K, e, q)) \in Nat
        /\ Cardinality(Later(K, e, d)) <= Cardinality(Later(K, e, q))
    BY <2>1, <2>2, Fewer
  <2>4. FatigueThreshold \in Nat
    BY FatigueAssumption
  <2> QED BY <1>1, <1>2, <2>3, <2>4
<1>5. d # q
  OBVIOUS
<1> QED BY <1>3, <1>4, <1>5, BeforeOrders

LEMMA PromptsInPart ==
  ASSUME NEW K \in SUBSET Events, NEW S \in SUBSET K, NEW e, Prompts(K, e) \subseteq S,
         Cardinality(Prompts(K, e)) = FatigueThreshold
  PROVE  Prompts(S, e) = Prompts(K, e)
<1>1. S \in SUBSET Events /\ FatigueThreshold \in Nat
  BY FatigueAssumption
<1>2. UpTo(S, e) = UpTo(K, e) \cap S
  BY DEF UpTo, Denied, Authentications
<1>3. \A d : Later(S, e, d) \in SUBSET Later(K, e, d) /\ Later(K, e, d) \in SUBSET Events
  BY <1>2, UpToType DEF Later
<1>4. \A d : /\ Cardinality(Later(S, e, d)) \in Nat /\ Cardinality(Later(K, e, d)) \in Nat
             /\ Cardinality(Later(S, e, d)) <= Cardinality(Later(K, e, d))
  BY <1>3, Fewer
<1>5. ASSUME NEW d \in Prompts(K, e) PROVE d \in Prompts(S, e)
  <2>1. d \in UpTo(K, e) /\ Cardinality(Later(K, e, d)) < FatigueThreshold
    BY PromptsAre
  <2>2. d \in UpTo(S, e)
    BY <1>2, <2>1
  <2>3. Cardinality(Later(S, e, d)) < FatigueThreshold
    BY <1>1, <1>4, <2>1
  <2> QED BY <2>2, <2>3, PromptsAre
<1>6. ASSUME NEW d \in Prompts(S, e), d \notin Prompts(K, e) PROVE FALSE
  <2>1. d \in UpTo(S, e) /\ Cardinality(Later(S, e, d)) < FatigueThreshold
    BY PromptsAre
  <2>2. d \in UpTo(K, e)
    BY <1>2, <2>1
  <2>3. \A q \in Prompts(K, e) : Before(d, q)
    BY <1>6, <2>2, BeforeTheBurst
  <2>4. Prompts(K, e) \subseteq UpTo(K, e)
    BY PromptsAre
  <2>5. Prompts(K, e) \in SUBSET Later(S, e, d)
    BY <1>2, <2>3, <2>4 DEF Later
  <2>6. FatigueThreshold <= Cardinality(Later(S, e, d))
    BY <1>3, <2>5, Fewer
  <2> QED BY <1>1, <1>4, <2>1, <2>6
<1> QED BY <1>5, <1>6

LEMMA PromptsOfPart ==
  ASSUME NEW K \in SUBSET Events, NEW S \in SUBSET K, NEW e,
         Cardinality(Prompts(S, e)) = FatigueThreshold,
         \A s \in S, d \in UpTo(K, e) : Before(s, d) => d \in S
  PROVE  Prompts(K, e) = Prompts(S, e)
<1>1. S \in SUBSET Events /\ FatigueThreshold \in Nat
  BY FatigueAssumption
<1>2. UpTo(S, e) = UpTo(K, e) \cap S
  BY DEF UpTo, Denied, Authentications
<1>3. ASSUME NEW d \in Prompts(K, e) PROVE d \in S
  <2>1. d \in UpTo(K, e) /\ Cardinality(Later(K, e, d)) < FatigueThreshold
    BY PromptsAre
  <2>2. SUFFICES ASSUME d \notin S PROVE FALSE
    OBVIOUS
  <2>3. Prompts(S, e) \subseteq UpTo(S, e)
    BY PromptsAre
  <2>4. UpTo(K, e) \in SUBSET Events
    BY UpToType
  <2>5. \A q \in Prompts(S, e) : Before(d, q)
    BY <1>2, <2>1, <2>2, <2>3, <2>4, BeforeOrders
  <2>6. Prompts(S, e) \in SUBSET Later(K, e, d) /\ Later(K, e, d) \in SUBSET Events
    BY <1>2, <2>3, <2>5, UpToType DEF Later
  <2>7. /\ FatigueThreshold <= Cardinality(Later(K, e, d))
        /\ Cardinality(Later(K, e, d)) \in Nat
    BY <2>6, Fewer
  <2> QED BY <1>1, <2>1, <2>7
<1>4. ASSUME NEW d \in S PROVE Later(K, e, d) = Later(S, e, d)
  BY <1>2 DEF Later
<1>5. \A d \in S : d \in Prompts(K, e) <=> d \in Prompts(S, e)
  BY <1>2, <1>4, PromptsAre
<1>6. Prompts(S, e) \subseteq S
  BY <1>2, PromptsAre
<1> QED BY <1>3, <1>5, <1>6

\* What lies between events in sight is in sight.
LEMMA BetweenInSight ==
  ASSUME stored \subseteq Events, NEW batch \in Batches, NEW c \in batch,
         NEW s \in Scope(batch), NEW x \in Scope(batch),
         NEW d \in Authentications(stored \cup batch), SameUser(d, c),
         Event[s].time <= Event[d].time, Event[d].time <= Event[x].time
  PROVE  d \in Scope(batch)
<1> DEFINE times == {Event[b].time : b \in batch}
<1>1. /\ d \in Events /\ c \in Events /\ s \in Events /\ x \in Events
      /\ batch \in SUBSET Events /\ batch # {} /\ d \in stored \cup batch
  BY ScopeType DEF Authentications
<1>2. /\ Min(times) \in Nat /\ Max(times) \in Nat
      /\ \A b \in batch : Min(times) <= Event[b].time /\ Event[b].time <= Max(times)
  BY <1>1, TimeBounds
<1>3. Event[d].time \in Nat /\ Event[s].time \in Nat /\ Event[x].time \in Nat /\ Lookback \in Nat
  BY <1>1, TimeType, LookbackCovers
<1>4. \A y \in Scope(batch) \ batch :
        Event[y].time + Lookback >= Min(times) /\ Event[y].time <= Max(times)
  BY DEF Scope, historical_context
<1> HIDE DEF times
<1>5. Event[s].time + Lookback >= Min(times) /\ Event[x].time <= Max(times)
  <2>1. s \in batch => Event[s].time + Lookback >= Min(times)
    BY <1>2, <1>3
  <2> QED BY <1>2, <1>4, <2>1
<1>6. Event[d].time + Lookback >= Min(times) /\ Event[d].time <= Max(times)
  BY <1>2, <1>3, <1>5
<1>7. Shared(Event[c].user, Event[d].user)
  BY <1>1, AuthenticationAssumption DEF Authentications, Shared, SameUser
<1> QED BY <1>1, <1>6, <1>7 DEF Scope, historical_context, times

\* The first burst of a user that detection sees is flagged, all of it.
LEMMA BurstFound ==
  ASSUME NEW S \in SUBSET Events, NEW x \in S, EndsBurst(S, x),
         ~\E y \in S : EndsBurst(S, y) /\ SameUser(y, x) /\ Before(y, x),
         NEW d \in Prompts(S, x)
  PROVE  \E f \in run_detection(S) : f[1] = d /\ f[2] = "MFA_FATIGUE"
<1> DEFINE ends == {e \in S : /\ EndsBurst(S, e)
                              /\ ~\E y \in S : EndsBurst(S, y) /\ SameUser(y, e) /\ Before(y, e)}
           f == IF d = x THEN <<d, "MFA_FATIGUE", 7>> ELSE <<d, "MFA_FATIGUE", 6>>
<1>1. x \in ends
  OBVIOUS
<1>2. detect_mfa_fatigue(S) =
        {<<e, "MFA_FATIGUE", 7>> : e \in ends}
        \cup {<<y, "MFA_FATIGUE", 6>> : y \in UNION {Prompts(S, e) \ {e} : e \in ends}}
  BY DEF detect_mfa_fatigue
<1> HIDE DEF ends
<1>3. f \in detect_mfa_fatigue(S)
  <2>1. d = x => d \in ends
    BY <1>1
  <2>2. d # x => d \in UNION {Prompts(S, e) \ {e} : e \in ends}
    BY <1>1
  <2> QED BY <1>2, <2>1, <2>2
<1>4. f[1] = d /\ f[2] = "MFA_FATIGUE"
  OBVIOUS
<1> HIDE DEF f
<1>5. f \in run_detection(S)
  BY <1>3 DEF run_detection
<1> QED BY <1>4, <1>5

\* A burst whose last prompt comes with the batch.
LEMMA FatigueNew ==
  ASSUME TypeOK, NEW batch \in Batches, Process(batch), NEW e \in batch,
         EndsBurst(stored \cup batch, e)
  PROVE  \E x \in Scope(batch) :
           /\ EndsBurst(stored \cup batch, x) /\ SameUser(x, e)
           /\ x = e \/ Within(x, e, Lookback + Span(batch))
           /\ \A d \in Prompts(stored \cup batch, x) : <<d, "MFA_FATIGUE">> \in DOMAIN rows'
<1> DEFINE K == stored \cup batch
           S == Scope(batch)
<1>1. stored \subseteq Events
  BY DEF TypeOK
<1>2. K \in SUBSET Events /\ S \in SUBSET K /\ S \in SUBSET Events /\ batch \subseteq S
  BY <1>1, ScopeType
<1>3. /\ e \in Denied(K) /\ Cardinality(Prompts(K, e)) = FatigueThreshold
      /\ Span(Prompts(K, e)) <= FatigueWindow
  BY DEF EndsBurst
<1>4. ASSUME NEW d \in Prompts(K, e) PROVE d \in S
  <2> DEFINE times == {Event[y].time : y \in Prompts(K, e)}
  <2>1. d \in UpTo(K, e) /\ e \in Prompts(K, e) /\ Prompts(K, e) \in SUBSET Events
    <3>1. Prompts(K, e) \subseteq UpTo(K, e)
      BY PromptsAre
    <3>2. UpTo(K, e) \in SUBSET Events
      BY <1>2, UpToType
    <3>3. e \in Prompts(K, e)
      BY <1>2, <1>3, LastPrompt
    <3> QED BY <3>1, <3>2, <3>3
  <2>2. /\ Min(times) \in Nat /\ Max(times) \in Nat
        /\ \A y \in Prompts(K, e) : Min(times) <= Event[y].time /\ Event[y].time <= Max(times)
    BY <2>1, TimeBounds
  <2>3. Max(times) - Min(times) <= FatigueWindow
    BY <1>3 DEF Span
  <2>4. /\ d \in Events /\ e \in Events /\ d \in Authentications(K) /\ SameUser(d, e)
        /\ Event[d].time <= Event[e].time
    <3>1. d \in Events /\ e \in Events /\ d \in Authentications(K) /\ SameUser(d, e)
      BY <2>1 DEF UpTo, Denied
    <3>2. d = e \/ Before(d, e)
      BY <2>1 DEF UpTo
    <3> QED BY <3>1, <3>2, BeforeOrders, TimeType
  <2>5. /\ Event[d].time \in Nat /\ Event[e].time \in Nat /\ Lookback \in Nat
        /\ FatigueWindow <= Lookback /\ FatigueWindow \in Nat
    BY <2>4, TimeType, LookbackCovers, WindowsAssumption
  <2>6. Event[e].time <= Event[d].time + Lookback
    <3>1. Min(times) <= Event[d].time /\ Event[e].time <= Max(times)
      BY <2>1, <2>2
    <3> HIDE DEF times
    <3> QED BY <2>2, <2>3, <2>5, <3>1
  <2> QED BY <1>1, <2>4, <2>6, InSight
<1>5. Prompts(S, e) = Prompts(K, e)
  <2> HIDE DEF K, S
  <2> QED BY <1>2, <1>3, <1>4, PromptsInPart
<1>6. EndsBurst(S, e)
  BY <1>2, <1>3, <1>5 DEF EndsBurst, Denied, Authentications
<1> DEFINE Q == {x \in S : EndsBurst(S, x) /\ SameUser(x, e)}
<1>7. Q \in SUBSET Events /\ e \in Q
  BY <1>2, <1>6 DEF SameUser
<1>8. PICK x \in Q : \A y \in Q : ~Before(y, x)
  <2> HIDE DEF Q
  <2> QED BY <1>7, FirstEvent
<1>9. x \in S /\ EndsBurst(S, x) /\ SameUser(x, e) /\ x \in Events /\ e \in Events
  BY <1>2
<1>10. ~\E y \in S : EndsBurst(S, y) /\ SameUser(y, x) /\ Before(y, x)
  BY <1>8, <1>9 DEF SameUser
<1>11. Prompts(K, x) = Prompts(S, x)
  <2>1. ASSUME NEW s \in S, NEW d \in UpTo(K, x), Before(s, d) PROVE d \in S
    <3>1. d \in Authentications(K) /\ SameUser(d, e) /\ (d = x \/ Before(d, x)) /\ d \in Events
      BY <1>2, <1>9, UpToType DEF UpTo, Denied, SameUser
    <3>2. Event[s].time <= Event[d].time /\ Event[d].time <= Event[x].time
      BY <1>2, <1>9, <2>1, <3>1, BeforeOrders, TimeType
    <3> QED BY <1>1, <1>9, <3>1, <3>2, BetweenInSight
  <2>2. Cardinality(Prompts(S, x)) = FatigueThreshold
    BY <1>9 DEF EndsBurst
  <2> HIDE DEF K, S
  <2> QED BY <1>2, <2>1, <2>2, PromptsOfPart
<1>12. EndsBurst(K, x)
  BY <1>2, <1>9, <1>11 DEF EndsBurst, Denied, Authentications
<1>13. x = e \/ Within(x, e, Lookback + Span(batch))
  <2>1. x = e \/ Before(x, e)
    BY <1>7, <1>8, <1>9, BeforeOrders
  <2>2. ASSUME Before(x, e) PROVE Within(x, e, Lookback + Span(batch))
    <3>1. Event[x].time <= Event[e].time
      BY <1>9, <2>2, BeforeOrders
    <3>2. Gap(Event[x], Event[e]) = Event[e].time - Event[x].time
      BY <1>9, <3>1, GapIs
    <3>3. Event[e].time <= Event[x].time + (Lookback + Span(batch))
      BY <1>1, <1>9, NotBeyondSight
    <3>4. Lookback + Span(batch) \in Int
      <4>1. batch \in SUBSET Events /\ batch # {}
        BY <1>1, ScopeType
      <4> DEFINE times == {Event[b].time : b \in batch}
      <4>2. Min(times) \in Nat /\ Max(times) \in Nat
        BY <4>1, TimeBounds
      <4>3. Span(batch) = Max(times) - Min(times)
        BY DEF Span
      <4> HIDE DEF times
      <4>4. Span(batch) \in Int
        BY <4>2, <4>3
      <4> QED BY <4>4, LookbackCovers
    <3>5. Event[x].time \in Nat /\ Event[e].time \in Nat
      BY <1>9, TimeType
    <3> DEFINE w == Lookback + Span(batch)
    <3> HIDE DEF w
    <3>6. Gap(Event[x], Event[e]) <= w
      BY <3>2, <3>3, <3>4, <3>5 DEF w
    <3> QED BY <2>2, <3>6 DEF Within, w
  <2> QED BY <2>1, <2>2
<1>14. ASSUME NEW d \in Prompts(K, x) PROVE <<d, "MFA_FATIGUE">> \in DOMAIN rows'
  <2>1. PICK f \in run_detection(S) : f[1] = d /\ f[2] = "MFA_FATIGUE"
    BY <1>2, <1>9, <1>10, <1>11, <1>14, BurstFound
  <2>2. <<f[1], f[2]>> \in DOMAIN rows'
    BY FlagsStay
  <2> QED BY <2>1, <2>2
<1> HIDE DEF Q
<1> QED BY <1>9, <1>12, <1>13, <1>14

LEMMA FatigueStep ==
  ASSUME TypeOK, FatigueIsSeen, NEW batch \in Batches, Process(batch)
  PROVE  FatigueIsSeen'
<1> DEFINE K == stored \cup batch
<1>1. stored' = K /\ stored \subseteq Events /\ K \in SUBSET Events
  BY ScopeType DEF TypeOK, Process
<1>2. ASSUME NEW e \in Punctual', EndsBurst(K, e)
      PROVE  \E x \in K :
               /\ EndsBurst(K, x) /\ SameUser(x, e)
               /\ x = e \/ \E b \in Batches : e \in b /\ Within(x, e, Lookback + Span(b))
               /\ \A d \in Prompts(K, x) : <<d, "MFA_FATIGUE">> \in DOMAIN rows'
  <2>1. e \in K /\ e \in Events
    BY <1>1 DEF Punctual
  <2>2. CASE e \in stored
    <3>1. ASSUME NEW x \in stored, x = e \/ Before(x, e)
          PROVE  Prompts(stored, x) = Prompts(K, x) /\ (EndsBurst(stored, x) <=> EndsBurst(K, x))
      <4>1. ASSUME NEW d \in K, Before(d, x) PROVE d \in stored
        <5>1. Before(d, e)
          BY <1>1, <2>1, <3>1, <4>1, BeforeOrders
        <5> QED BY <1>1, <2>2, <5>1, InOrder
      <4>2. Denied(stored) = Denied(K) \cap stored
        BY DEF Denied, Authentications
      <4>3. UpTo(stored, x) = UpTo(K, x)
        BY <3>1, <4>1, <4>2 DEF UpTo, Denied, Authentications
      <4>4. Prompts(stored, x) = Prompts(K, x)
        BY <4>3, PromptsAre DEF Later
      <4> QED BY <4>2, <4>4 DEF EndsBurst
    <3>2. e \in Punctual
      BY <2>2 DEF Punctual, Process
    <3>3. EndsBurst(stored, e)
      BY <1>2, <2>2, <3>1
    <3>4. PICK x \in stored :
            /\ EndsBurst(stored, x) /\ SameUser(x, e)
            /\ x = e \/ \E b \in Batches : e \in b /\ Within(x, e, Lookback + Span(b))
            /\ \A d \in Prompts(stored, x) : Flagged(d, "MFA_FATIGUE")
      BY <3>2, <3>3 DEF FatigueIsSeen
    <3>5. x = e \/ Before(x, e)
      BY <3>4 DEF Within
    <3>6. Prompts(stored, x) = Prompts(K, x) /\ EndsBurst(K, x)
      BY <3>1, <3>4, <3>5
    <3>7. \A d \in Prompts(K, x) : <<d, "MFA_FATIGUE">> \in DOMAIN rows'
      BY <3>4, <3>6, FlagsStay DEF Flagged
    <3> QED BY <3>4, <3>6, <3>7
  <2>3. CASE e \notin stored
    <3>1. e \in batch
      BY <2>1, <2>3
    <3>2. PICK x \in Scope(batch) :
            /\ EndsBurst(K, x) /\ SameUser(x, e)
            /\ x = e \/ Within(x, e, Lookback + Span(batch))
            /\ \A d \in Prompts(K, x) : <<d, "MFA_FATIGUE">> \in DOMAIN rows'
      BY <1>2, <3>1, FatigueNew
    <3>3. x \in K
      BY <1>1, ScopeType
    <3> QED BY <3>1, <3>2, <3>3
  <2> QED BY <2>2, <2>3
<1> HIDE DEF K
<1> QED BY <1>1, <1>2 DEF FatigueIsSeen, Flagged

\* However telemetry is cut into batches, a burst of denied prompts whose last prompt
\* came in order is flagged, or an earlier burst of the user in sight of that batch
\* is: detection flags the first burst that it sees (detect_mfa_fatigue).
THEOREM FatigueIsAlwaysSeen == Spec => []FatigueIsSeen
<1>1. Init => TypeOK /\ FatigueIsSeen
  BY InitType DEF Init, FatigueIsSeen, Punctual
<1>2. TypeOK /\ FatigueIsSeen /\ [Next]_vars => TypeOK' /\ FatigueIsSeen'
  <2>1. FatigueIsSeen /\ UNCHANGED vars => FatigueIsSeen'
    BY DEF vars, FatigueIsSeen, Punctual, Flagged
  <2> QED BY <2>1, NextType, FatigueStep DEF Next
<1> QED BY <1>1, <1>2, PTL DEF Spec

-----------------------------------------------------------------------------
(* Anchors. *)

\* Two events that share no anchor and no address across source and destination have
\* nothing but their times in common, which is worth three points at most.
LEMMA NoAnchor ==
  ASSUME NEW d \in Events, NEW e \in Events, Buckets(d) \cap Buckets(e) = {},
         ~Shared(Event[d].source, Event[e].destination),
         ~Shared(Event[e].source, Event[d].destination)
  PROVE  connection_score(d, e) \in 0..3
<1> DEFINE a == Event[d]
           b == Event[e]
<1>1. ~Shared(a.user, b.user) /\ ~Shared(a.host, b.host) /\ ~Shared(a.device, b.device)
      /\ ~Shared(a.source, b.source) /\ ~Shared(a.destination, b.destination)
  <2>1. ASSUME NEW key, NEW u, NEW v, Shared(u, v), <<key, u>> \in Buckets(d), <<key, v>> \in Buckets(e)
        PROVE  FALSE
    BY <2>1 DEF Shared
  <2>2. \A x \in {d, e} :
          /\ Event[x].user # None => <<"u", Event[x].user>> \in Buckets(x)
          /\ Event[x].host # None => <<"h", Event[x].host>> \in Buckets(x)
          /\ Event[x].device # None => <<"d", Event[x].device>> \in Buckets(x)
          /\ Event[x].source # None => <<"s", Event[x].source>> \in Buckets(x)
          /\ Event[x].destination # None => <<"ip", Event[x].destination>> \in Buckets(x)
    BY DEF Buckets
  <2>3. \A u, v : Shared(u, v) => u # None /\ v # None
    BY DEF Shared
  <2> QED BY <2>1, <2>2, <2>3
<1>2. Addresses(a) \cap Addresses(b) = {}
  BY <1>1 DEF Addresses, Shared
<1>3. \A u, v, n : ~Shared(u, v) => Same(u, v, n) = 0
  BY DEF Shared, Same
<1>4. connection_score(d, e) \in {0, 1, 3}
  BY <1>1, <1>2, <1>3 DEF connection_score
<1> QED BY <1>4

\* The score of a pair is that of its two events.
LEMMA ScoreOfPair ==
  ASSUME NEW p \in SUBSET Events, Cardinality(p) = 2
  PROVE  \E d, e \in p : p = {d, e} /\ Score(p) = connection_score(d, e)
<1> DEFINE d == CHOOSE x \in p : TRUE
           e == CHOOSE x \in p : x # d
<1>1. IsFiniteSet(p)
  BY BatchesAssumption, FS_Subset
<1>2. p # {}
  BY FS_EmptySet
<1>3. d \in p
  BY <1>2
<1>4. IsFiniteSet(p \ {d}) /\ Cardinality(p \ {d}) = 1
  <2> HIDE DEF d
  <2>1. IsFiniteSet(p \ {d}) /\ Cardinality(p \ {d}) = Cardinality(p) - 1
    BY <1>1, <1>3, FS_RemoveElement
  <2> QED BY <2>1
<1>5. PICK x : p \ {d} = {x}
  BY <1>4, FS_Singleton
<1>6. e \in p /\ e # d
  <2> HIDE DEF d
  <2>1. x \in p /\ x # d
    BY <1>5
  <2> QED BY <2>1
<1>7. Score(p) = connection_score(d, e)
  BY DEF Score
<1> HIDE DEF d, e
<1>8. p = {d, e}
  BY <1>3, <1>5, <1>6
<1> QED BY <1>3, <1>6, <1>7, <1>8

\* If the least score of an edge is above what time alone gives (it is 5 in config.py),
\* the anchors lose no edge, whatever the events are (candidate_pairs against
\* connection_score).
THEOREM NoEdgeIsLost == MinScore > 3 => (Spec => []EdgesAreCompared)
<1> SUFFICES ASSUME MinScore > 3 PROVE Spec => []EdgesAreCompared
  OBVIOUS
<1>1. ASSUME TypeOK PROVE EdgesAreCompared
  <2> SUFFICES ASSUME NEW p \in kSubset(2, Suspicious), Score(p) >= MinScore,
                      \A d, e \in p : ~Shared(Event[d].source, Event[e].destination)
               PROVE  p \in candidate_pairs(Suspicious)
    BY DEF EdgesAreCompared
  <2>1. Cardinality(p) = 2 /\ p \in SUBSET Events
    BY <1>1 DEF kSubset, Suspicious, TypeOK
  <2>2. PICK d \in p, e \in p : p = {d, e} /\ Score(p) = connection_score(d, e)
    BY <2>1, ScoreOfPair
  <2>3. Buckets(d) \cap Buckets(e) # {}
    <3>1. d \in Events /\ e \in Events /\ MinScore \in Nat
      BY <2>1, ThresholdsAssumption
    <3>2. CASE Buckets(d) \cap Buckets(e) = {}
      <4>1. connection_score(d, e) \in 0..3
        BY <3>1, <3>2, NoAnchor
      <4> QED BY <2>2, <3>1, <4>1
    <3> QED BY <3>2
  <2>4. \A x, y \in p : Buckets(x) \cap Buckets(y) # {}
    BY <2>2, <2>3
  <2> QED BY <2>4 DEF candidate_pairs
<1>2. TypeOK => EdgesAreCompared
  BY <1>1
<1> QED BY <1>2, RowsAreTyped, PTL
=============================================================================
