-------------------------- MODULE CodexRoutingProofs --------------------------
(***************************************************************************)
(* Proofs about CodexRouting, for every set of accounts, threads and       *)
(* requests, every threshold and every duration.                           *)
(***************************************************************************)
EXTENDS CodexRouting, WellFoundedInduction, FiniteSetTheorems, TLAPS

-----------------------------------------------------------------------------
(***************************************************************************)
(* The selection among the accounts.                                       *)
(***************************************************************************)

(* A set that is not empty has an element of least measure.                *)
LEMMA LeastExists ==
    ASSUME NEW S, S # {}, NEW f, \A a \in S : f[a] \in Nat
    PROVE  \E a \in S : \A b \in S : f[a] <= f[b]
<1> DEFINE T == {f[a] : a \in S}
           R == OpToRel(<, Nat)
<1>1. T \subseteq Nat /\ T # {}
  OBVIOUS
<1>2. IsWellFoundedOn(R, Nat)
  BY NatLessThanWellFounded
<1>3. PICK n \in T : \A m \in T : <<m, n>> \notin R
  <2> HIDE DEF T, R
  <2> QED  BY <1>1, <1>2, WFMin
<1>4. \A m \in T : ~ (m < n)
  BY <1>1, <1>3 DEF OpToRel
<1>5. PICK a \in S : f[a] = n
  OBVIOUS
<1>6. \A b \in S : f[b] \in T /\ f[b] \in Nat
  OBVIOUS
<1>7. f[a] \in Nat
  OBVIOUS
<1> HIDE DEF T
<1> QED  BY <1>4, <1>5, <1>6, <1>7

(* Among accounts one comes first in the list.                             *)
LEMMA FirstExists ==
    ASSUME TypeOK, NEW S, S \subseteq Accounts, S # {}
    PROVE  \E a \in S : \A b \in S \ {a} : Precedes(a, b)
<1>1. CASE Main \in S
  BY <1>1 DEF Precedes
<1>2. CASE Main \notin S
  <2>1. \A a \in S : rank[a] \in Nat
    BY <1>2 DEF TypeOK, Accounts
  <2>2. \E a \in S : \A b \in S : rank[a] <= rank[b]
    BY <2>1, LeastExists
  <2> QED  BY <1>2, <2>2 DEF Precedes
<1> QED  BY <1>1, <1>2

(* The account chosen is an eligible one whenever there is one: the        *)
(* account preferred to all others exists.                                 *)
LEMMA PickLowestIsEligible ==
    ASSUME TypeOK, NEW excluded
    PROVE  /\ Eligible(excluded) = {} => PickLowest(excluded) = NoAccount
           /\ Eligible(excluded) # {} => PickLowest(excluded) \in Eligible(excluded)
<1> DEFINE E == Eligible(excluded)
<1>1. CASE E = {}
  BY <1>1 DEF PickLowest
<1>2. CASE E # {}
  <2> E \subseteq Accounts
    BY DEF Eligible
  <2>1. \A a \in E : usage[a] \in Nat
    BY DEF TypeOK
  <2>2. PICK least \in E : \A b \in E : usage[least] <= usage[b]
    BY <1>2, <2>1, LeastExists
  <2> DEFINE L == {a \in E : usage[a] = usage[least]}
  <2>3. PICK best \in L : \A b \in L \ {best} : Precedes(best, b)
    <3>1. L # {} /\ L \subseteq Accounts
      OBVIOUS
    <3> HIDE DEF L
    <3> QED  BY <3>1, FirstExists
  <2> DEFINE Q(a) == \A b \in E \ {a} : Preferred(a, b)
  <2>4. best \in E /\ Q(best)
    <3> SUFFICES ASSUME NEW b \in E \ {best}
                 PROVE  Preferred(best, b)
      OBVIOUS
    <3>1. usage[best] <= usage[b] /\ usage[best] \in Nat /\ usage[b] \in Nat
      BY <2>1, <2>2
    <3>2. CASE usage[best] = usage[b]
      BY <2>3, <3>2 DEF Preferred
    <3>3. CASE usage[best] # usage[b]
      BY <3>1, <3>3 DEF Preferred
    <3> QED  BY <3>2, <3>3
  <2>5. PickLowest(excluded) = CHOOSE a \in E : Q(a)
    BY <1>2 DEF PickLowest
  <2> HIDE DEF E, Q
  <2>6. PickLowest(excluded) \in E
    BY <2>4, <2>5
  <2> QED  BY <1>2, <2>6 DEF E
<1> QED  BY <1>1, <1>2

(* The same for the rotation among the accounts of unknown usage.          *)
LEMMA PickNextUnknownIsEligible ==
    ASSUME TypeOK, NEW a
    PROVE  PickNextUnknown(a) \in Eligible(a) \cup {NoAccount}
<1> DEFINE U == {b \in Eligible(a) : usage[b] >= UnknownScore}
           Q(b) == \A c \in U \ {b} : Precedes(b, c)
<1>1. CASE U = {}
  BY <1>1 DEF PickNextUnknown
<1>2. CASE U # {}
  <2>1. U \subseteq Accounts /\ U \subseteq Eligible(a)
    BY DEF Eligible
  <2>2. PickNextUnknown(a) = CHOOSE b \in U : Q(b)
    BY <1>2 DEF PickNextUnknown
  <2> HIDE DEF U
  <2>3. \E b \in U : Q(b)
    BY <1>2, <2>1, FirstExists
  <2> HIDE DEF Q
  <2> QED  BY <2>1, <2>2, <2>3
<1> QED  BY <1>1, <1>2

(* Whatever the automatic switches do, they leave the pool on the account  *)
(* it had or move it to one that is eligible.                              *)
LEMMA SettledIsSelectable ==
    ASSUME TypeOK, NEW a
    PROVE  Settled(a) \in Eligible(NoAccount) \cup {a}
<1>1. \A x, b : b \in Eligible(x) => b \in Eligible(NoAccount) /\ b # NoAccount
  BY RoutingAssumption DEF Eligible
<1>2. \A x : PickLowest(x) # NoAccount => PickLowest(x) \in Eligible(x)
  BY PickLowestIsEligible
<1>3. \A x : FailureFailover(x) \in Eligible(NoAccount) \cup {x}
  BY <1>1, <1>2 DEF FailureFailover
<1>4. AutoSwitch(a) \in Eligible(NoAccount) \cup {a}
  BY <1>1, <1>2, PickNextUnknownIsEligible DEF AutoSwitch, PickLower
<1> QED  BY <1>3, <1>4 DEF Settled

-----------------------------------------------------------------------------
(***************************************************************************)
(* Type correctness.                                                       *)
(***************************************************************************)

(* Dropping pins keeps the map of pins well typed.                         *)
LEMMA UnpinTyped ==
    ASSUME NEW pins \in [Threads -> PinState \cup {NoPin}], NEW dropped
    PROVE  Unpin(pins, dropped) \in [Threads -> PinState \cup {NoPin}]
BY DEF Unpin

(* The pin that bindThreadAffinity sets is well typed.                     *)
LEMMA FreshTyped ==
    ASSUME TypeOK, NEW a \in Accounts
    PROVE  Fresh(a) \in PinState
<1>1. GenerationOf(a) \in Nat
  BY DEF GenerationOf, TypeOK, Accounts
<1> QED  BY <1>1 DEF Fresh, PinState

(* So is the map in which it is set.                                       *)
LEMMA WithPinTyped ==
    ASSUME TypeOK, NEW t \in Threads, NEW a \in Accounts
    PROVE  WithPin(t, a) \in [Threads -> PinState \cup {NoPin}]
<1>1. Unpin(pin, {u \in Threads : Expired(u)}) \in [Threads -> PinState \cup {NoPin}]
  BY UnpinTyped DEF TypeOK
<1> QED  BY <1>1, FreshTyped DEF WithPin

(* bindThreadAffinity keeps the map well typed, pruning included.          *)
LEMMA BindTyped ==
    ASSUME TypeOK, NEW t \in Threads \cup {NoThread}, NEW a \in Accounts, Bind(t, a)
    PROVE  pin' \in [Threads -> PinState \cup {NoPin}]
<1>1. CASE t = NoThread
  BY <1>1 DEF Bind, TypeOK
<1>2. CASE t # NoThread /\ a # Main /\ ~ record[a].live
  BY <1>2, UnpinTyped DEF Bind, TypeOK
<1>3. CASE t \in Threads /\ ~ (a # Main /\ ~ record[a].live)
  <2> DEFINE pins == WithPin(t, a)
  <2>1. pins \in [Threads -> PinState \cup {NoPin}]
    BY <1>3, WithPinTyped
  <2>2. t # NoThread
    BY <1>3, RoutingAssumption
  <2>3. pin' = pins \/ \E victim : pin' = Unpin(pins, {victim})
    BY <1>3, <2>2 DEF Bind
  <2> HIDE DEF pins
  <2> QED  BY <2>1, <2>3, UnpinTyped
<1> QED  BY <1>1, <1>2, <1>3

(* So does dropping the pin of one thread.                                 *)
LEMMA DropTyped ==
    ASSUME TypeOK, NEW t, Drop(t)
    PROVE  pin' \in [Threads -> PinState \cup {NoPin}]
BY UnpinTyped DEF Drop, TypeOK

(* The answer to a routed request is well typed.                           *)
LEMMA RefuseTyped ==
    ASSUME TypeOK, NEW r \in Requests, NEW t \in Threads \cup {NoThread},
           Refuse(r, t) \/ Answer(r, t, "expired", NoAccount, FALSE)
    PROVE  request' \in [Requests -> RequestState]
<1>1. \A pc \in {"refused", "expired"} :
        [pc |-> pc, account |-> NoAccount, thread |-> t, retry |-> FALSE] \in RequestState
  BY DEF RequestState, RequestIn
<1>2. CASE Refuse(r, t)
  BY <1>1, <1>2 DEF Refuse, Answer, TypeOK
<1>3. CASE Answer(r, t, "expired", NoAccount, FALSE)
  BY <1>1, <1>3 DEF Answer, TypeOK
<1> QED  BY <1>2, <1>3

(* A request that is admitted or refused is well typed: only a pool        *)
(* account is awaited.                                                     *)
LEMMA AdmitTyped ==
    ASSUME TypeOK, NEW r \in Requests, NEW t \in Threads \cup {NoThread},
           NEW a \in Accounts, NEW retry \in BOOLEAN, Admit(r, t, a, retry)
    PROVE  request' \in [Requests -> RequestState]
<1>1. CASE Refuse(r, t)
  BY <1>1, RefuseTyped
<1>2. CASE Answer(r, t, IF a = Main THEN "sent" ELSE "token", a, retry)
  <2>1. [pc |-> IF a = Main THEN "sent" ELSE "token", account |-> a,
         thread |-> t, retry |-> retry] \in RequestState
    BY DEF RequestState, RequestIn, Accounts
  <2> QED  BY <1>2, <2>1 DEF Answer, TypeOK
<1> QED  BY <1>1, <1>2 DEF Admit

(* resolveCodexAccountForThreadDetailed keeps every variable well typed.   *)
LEMMA RouteTyped ==
    ASSUME TypeOK, NEW r \in Requests, NEW t \in Threads \cup {NoThread}, Route(r, t)
    PROVE  TypeOK'
<1> USE DEF TypeOK
<1>0. \A x : Eligible(x) \subseteq Accounts
  BY DEF Eligible
<1>1. \A x : PickLowest(x) \in Accounts \cup {NoAccount}
  BY <1>0, PickLowestIsEligible
<1>2. lapsed' \subseteq Threads
  BY DEF Route
<1>3. UNCHANGED <<rank, record, mainLive, reauth, usage, health>>
  BY DEF Route
<1> SUFFICES /\ active' \in Accounts \cup {NoAccount}
             /\ pin' \in [Threads -> PinState \cup {NoPin}]
             /\ request' \in [Requests -> RequestState]
  BY <1>2, <1>3
<1>4. ASSUME t # NoThread, Reusable(t)
      PROVE  t \in Threads /\ pin[t] \in PinState /\ pin[t].account \in Accounts
  BY <1>4 DEF Reusable, Pinned, PinState
<1>5. CASE t # NoThread /\ RouteExpired(r, t)
  BY <1>5, DropTyped, RefuseTyped DEF RouteExpired
<1>6. CASE t # NoThread /\ RouteReuse(r, t)
  <2>1. t \in Threads /\ pin[t] \in PinState /\ pin[t].account \in Accounts
    BY <1>4, <1>6 DEF RouteReuse
  <2>2. pin' \in [Threads -> PinState \cup {NoPin}]
    BY <1>6, <2>1 DEF RouteReuse, PinState
  <2> QED  BY <1>6, <2>1, <2>2, AdmitTyped DEF RouteReuse
<1>7. CASE t # NoThread /\ RouteReeval(r, t)
  <2> DEFINE best == PickLower(pin[t].account)
  <2>1. best \in Accounts
    BY <1>1, <1>4, <1>7 DEF RouteReeval, PickLower
  <2>2. active' = best /\ Bind(t, best) /\ Admit(r, t, best, FALSE)
    BY <1>7 DEF RouteReeval
  <2> HIDE DEF best
  <2> QED  BY <2>1, <2>2, BindTyped, AdmitTyped
<1>8. Start \in Accounts \cup {NoAccount}
  BY <1>1 DEF Start
<1>9. CASE RouteNone(r, t)
  BY <1>9, DropTyped, RefuseTyped DEF RouteNone
<1>10. CASE RouteStuck(r, t)
  <2>1. Admit(r, t, Start, FALSE) \/ Refuse(r, t)
    BY <1>10 DEF RouteStuck
  <2>2. Start \in Accounts
    BY <1>8, <1>10 DEF RouteStuck
  <2>3. request' \in [Requests -> RequestState]
    BY <2>1, <2>2, AdmitTyped, RefuseTyped
  <2> QED  BY <1>10, <2>3, DropTyped DEF RouteStuck
<1>11. CASE RouteActive(r, t)
  <2> DEFINE first == IF Start = NoAccount \/ Selectable(Start) THEN Start
                      ELSE PickLowest(Start)
  <2>1. first \in Accounts
    BY <1>1, <1>8, <1>11 DEF RouteActive
  <2>2. active' = Settled(first) /\ Bind(t, Settled(first))
           /\ Admit(r, t, Settled(first), FALSE)
    BY <1>11 DEF RouteActive
  <2> HIDE DEF first
  <2>3. Settled(first) \in Accounts
    BY <1>0, <2>1, SettledIsSelectable
  <2> QED  BY <2>2, <2>3, BindTyped, AdmitTyped
<1> QED  BY <1>5, <1>6, <1>7, <1>9, <1>10, <1>11 DEF Route

(* Every class of outcome leaves a well-typed health entry.                *)
LEMMA HealthTyped ==
    ASSUME NEW h \in HealthState
    PROVE  /\ AfterSuccess(h) \in HealthState
           /\ AfterCredential(h) \in HealthState
           /\ \A cooldown \in Cooldowns : AfterQuota(h, cooldown) \in HealthState
           /\ AfterTransient(h) \in HealthState
<1> Healthy \in HealthState
  BY DEF Healthy, HealthState
<1>1. AfterSuccess(h) \in HealthState
  BY DEF AfterSuccess, HealthState, Healthy
<1>2. AfterCredential(h) \in HealthState
  BY DEF AfterCredential, HealthState, Healthy
<1>3. \A cooldown \in Cooldowns : AfterQuota(h, cooldown) \in HealthState
  BY RoutingAssumption DEF AfterQuota, HealthState, Healthy
<1>4. AfterTransient(h) \in HealthState
  <2> DEFINE streak == IF h.age > FailureWindow THEN 1 ELSE Min2(h.failures + 1, MaxStreak)
             step == AvoidLadder[Min2(streak, Len(AvoidLadder))]
  <2>1. Len(AvoidLadder) \in Nat \ {0}
    BY RoutingAssumption
  <2>2. MaxStreak \in Nat \ {0}
    BY <2>1, RoutingAssumption DEF MaxStreak, Max2
  <2>3. streak \in Nat \ {0}
    BY <2>2 DEF Min2, HealthState
  <2>4. Min2(streak, Len(AvoidLadder)) \in 1 .. Len(AvoidLadder)
    <3> HIDE DEF streak
    <3> QED  BY <2>1, <2>3 DEF Min2
  <2>5. step \in Nat
    BY <2>4, RoutingAssumption
  <2>6. (IF FailoverOn THEN Max2(h.avoid, step) ELSE 0) \in Nat
    <3> HIDE DEF step
    <3> QED  BY <2>5 DEF Max2, HealthState
  <2>7. AfterTransient(h) = [failures |-> streak, successes |-> 0, age |-> 0,
                             cooldown |-> h.cooldown,
                             avoid |-> IF FailoverOn THEN Max2(h.avoid, step) ELSE 0]
    BY DEF AfterTransient
  <2> HIDE DEF streak, step
  <2> QED  BY <2>3, <2>6, <2>7 DEF HealthState
<1> QED  BY <1>1, <1>2, <1>3, <1>4

(* The empty request slot is well typed.                                   *)
LEMMA IdleTyped == Idle \in RequestState
BY DEF Idle, RequestState, RequestIn

(* A request that was sent, was sent to an account.                        *)
LEMMA SentTyped ==
    ASSUME TypeOK, NEW r \in Requests
    PROVE  /\ request[r].pc = "sent" => request[r].account \in Accounts
           /\ request[r].pc = "token" => request[r].account \in PoolAccounts
           /\ request[r].thread \in Threads \cup {NoThread}
BY DEF TypeOK, RequestState, RequestIn

(* recordCodexUpstreamOutcome keeps every variable it changes well typed.  *)
LEMMA OutcomeTyped ==
    ASSUME TypeOK, NEW r \in Requests, Outcome(r) \/ SidecarOutcome(r)
    PROVE  TypeOK'
<1> DEFINE a == request[r].account
<1>0. PICK t : RecordOutcome(r, t)
  BY DEF Outcome, SidecarOutcome
<1>1. a \in Accounts
  BY <1>0, SentTyped DEF RecordOutcome
<1>2. request' \in [Requests -> RequestState]
  BY IdleTyped DEF Outcome, SidecarOutcome, TypeOK
<1>3. lapsed' \subseteq Threads /\ UNCHANGED <<rank, record, mainLive, usage>>
  BY <1>0 DEF RecordOutcome, TypeOK
<1> SUFFICES /\ active' \in Accounts \cup {NoAccount}
             /\ reauth' \subseteq Accounts
             /\ health' \in [Accounts -> HealthState]
             /\ pin' \in [Threads -> PinState \cup {NoPin}]
  BY <1>2, <1>3 DEF TypeOK
<1>4. health[a] \in HealthState
  BY <1>1 DEF TypeOK
<1>5. PickLowest(a) \in Accounts \cup {NoAccount}
  BY PickLowestIsEligible DEF Eligible
<1>6. \/ RecordSuccess(a, t) \/ RecordCaller(a, t) \/ RecordCredential(a, t)
      \/ RecordQuota(a, t) \/ RecordTransient(a, t)
  BY <1>0 DEF RecordOutcome
<1> HIDE DEF a
<1>7. CASE RecordSuccess(a, t)
  BY <1>4, <1>7, HealthTyped DEF RecordSuccess, TypeOK
<1>8. CASE RecordCaller(a, t)
  BY <1>8 DEF RecordCaller, TypeOK
<1>9. CASE RecordCredential(a, t)
  BY <1>1, <1>4, <1>9, HealthTyped, UnpinTyped DEF RecordCredential, TypeOK
<1>10. CASE RecordQuota(a, t)
  <2>1. health' \in [Accounts -> HealthState]
    BY <1>4, <1>10, HealthTyped DEF RecordQuota, TypeOK
  <2>2. pin' \in [Threads -> PinState \cup {NoPin}]
    BY <1>10, UnpinTyped DEF RecordQuota, TypeOK
  <2> QED  BY <1>5, <1>10, <2>1, <2>2 DEF RecordQuota, TypeOK
<1>11. CASE RecordTransient(a, t)
  <2>1. health' \in [Accounts -> HealthState]
    BY <1>4, <1>11, HealthTyped DEF RecordTransient, TypeOK
  <2>2. \E dropped : pin' = Unpin(pin, dropped)
    BY <1>11 DEF RecordTransient
  <2>3. pin' \in [Threads -> PinState \cup {NoPin}]
    BY <2>2, UnpinTyped DEF TypeOK
  <2> QED  BY <1>5, <1>11, <2>1, <2>3 DEF RecordTransient, TypeOK
<1> QED  BY <1>6, <1>7, <1>8, <1>9, <1>10, <1>11

(* The steps of a request between its routing and its outcome.             *)
LEMMA WaitTyped ==
    ASSUME TypeOK, NEW r \in Requests,
           \/ TokenArrives(r) \/ TokenFails(r) \/ Return(r)
           \/ Cancel(r) \/ RetryElsewhere(r)
    PROVE  TypeOK'
<1>0. request[r].thread \in Threads \cup {NoThread}
  BY SentTyped
<1>1. CASE TokenArrives(r)
  <2>1. [request[r] EXCEPT !.pc = "sent"] \in RequestState
    BY <1>1 DEF TokenArrives, TypeOK, RequestState, RequestIn, Accounts
  <2>2. request' \in [Requests -> RequestState]
    BY <1>0, <1>1, <2>1, RefuseTyped DEF TokenArrives, TypeOK
  <2> QED  BY <1>1, <2>2 DEF TokenArrives, TypeOK
<1>2. CASE TokenFails(r)
  <2>1. request' \in [Requests -> RequestState]
    BY <1>0, <1>2, RefuseTyped DEF TokenFails
  <2>2. reauth' \subseteq Accounts
    BY <1>2, SentTyped DEF TokenFails, TypeOK, Accounts
  <2> QED  BY <1>2, <2>1, <2>2 DEF TokenFails, TypeOK
<1>3. CASE Return(r)
  BY <1>3, IdleTyped DEF Return, TypeOK
<1>4. CASE Cancel(r)
  BY <1>4, IdleTyped DEF Cancel, TypeOK
<1>5. CASE RetryElsewhere(r)
  <2> DEFINE a == PickLowest(request[r].account)
  <2>1. a \in Accounts
    BY <1>5, PickLowestIsEligible DEF RetryElsewhere, Eligible
  <2>2. request' \in [Requests -> RequestState]
    BY <1>0, <1>5, <2>1, AdmitTyped DEF RetryElsewhere
  <2> QED  BY <1>5, <2>2 DEF RetryElsewhere, TypeOK
<1> QED  BY <1>1, <1>2, <1>3, <1>4, <1>5

(* So do the operations on accounts: refresh, login, deletion, selection,  *)
(* usage.                                                                  *)
LEMMA AccountStepTyped ==
    ASSUME TypeOK, NEW a \in PoolAccounts, Refresh(a) \/ Login(a) \/ Delete(a)
    PROVE  TypeOK'
<1> USE DEF TypeOK
<1>0. a \in Accounts
  BY DEF Accounts
<1>1. CASE Refresh(a)
  BY <1>1 DEF Refresh
<1>2. CASE Login(a)
  <2>1. Cardinality({b \in PoolAccounts : rank[b] > 0}) \in Nat
    <3>1. IsFiniteSet({b \in PoolAccounts : rank[b] > 0})
      BY RoutingAssumption, FS_Subset
    <3> QED  BY <3>1, FS_CardinalityType
  <2>2. rank' \in [PoolAccounts -> Nat]
    BY <1>2, <2>1 DEF Login
  <2>3. record' \in [PoolAccounts -> [generation : Nat, live : BOOLEAN]]
    BY <1>2 DEF Login
  <2>4. usage' \in [Accounts -> Nat]
    BY <1>0, <1>2, RoutingAssumption DEF Login
  <2> QED  BY <1>2, <2>2, <2>3, <2>4 DEF Login
<1>3. CASE Delete(a)
  <2>1. rank' \in [PoolAccounts -> Nat]
    BY <1>3 DEF Delete
  <2>2. record' \in [PoolAccounts -> [generation : Nat, live : BOOLEAN]]
    BY <1>3 DEF Delete
  <2>3. health' \in [Accounts -> HealthState]
    BY <1>3 DEF Delete, Purge, Healthy, HealthState
  <2>4. usage' \in [Accounts -> Nat]
    BY <1>3, RoutingAssumption DEF Delete, Purge
  <2>5. pin' \in [Threads -> PinState \cup {NoPin}]
    BY <1>3, UnpinTyped DEF Delete, Purge
  <2>6. /\ active' \in Accounts \cup {NoAccount}
        /\ reauth' \subseteq Accounts /\ lapsed' \subseteq Threads
        /\ UNCHANGED <<mainLive, request>>
    BY <1>3 DEF Delete, Purge
  <2> QED  BY <2>1, <2>2, <2>3, <2>4, <2>5, <2>6
<1> QED  BY <1>1, <1>2, <1>3

(* So does the passage of time: no deadline falls below zero.              *)
LEMMA TickTyped ==
    ASSUME TypeOK, Tick
    PROVE  TypeOK'
<1>1. health' \in [Accounts -> HealthState]
  <2> SUFFICES ASSUME NEW a \in Accounts
               PROVE  health'[a] \in HealthState
    BY DEF Tick
  <2> DEFINE age == IF health[a].failures = 0 THEN 0 ELSE Min2(health[a].age + 1, MaxAge)
  <2>1. health[a] \in HealthState
    BY DEF TypeOK
  <2>2. age \in Nat
    BY <2>1, RoutingAssumption DEF Min2, MaxAge, HealthState
  <2>3. Less(health[a].cooldown) \in Nat /\ Less(health[a].avoid) \in Nat
    BY <2>1 DEF Less, HealthState
  <2>4. health'[a] = [health[a] EXCEPT !.age = age,
                                       !.cooldown = Less(health[a].cooldown),
                                       !.avoid = Less(health[a].avoid)]
    BY DEF Tick
  <2> HIDE DEF age
  <2> QED  BY <2>1, <2>2, <2>3, <2>4 DEF HealthState
<1>2. pin' \in [Threads -> PinState \cup {NoPin}]
  <2> SUFFICES ASSUME NEW t \in Threads, Pinned(t)
               PROVE  pin'[t] \in PinState
    BY DEF Tick
  <2>1. pin[t] \in PinState
    BY DEF TypeOK, Pinned
  <2> DEFINE idle == Min2(pin[t].idle + 1, IdleTTL + 1)
             reeval == Min2(pin[t].reeval + 1, ReevalInterval)
  <2>2. idle \in Nat /\ reeval \in Nat
    BY <2>1, RoutingAssumption DEF Min2, PinState
  <2>3. pin'[t] = [pin[t] EXCEPT !.idle = idle, !.reeval = reeval]
    BY DEF Tick
  <2> HIDE DEF idle, reeval
  <2> QED  BY <2>1, <2>2, <2>3 DEF PinState
<1> QED  BY <1>1, <1>2 DEF Tick, TypeOK

(* TypeOK is inductive.                                                    *)
LEMMA TypeInductive == TypeOK /\ [Next]_vars => TypeOK'
<1> SUFFICES ASSUME TypeOK, [Next]_vars
             PROVE  TypeOK'
  OBVIOUS
<1>1. ASSUME NEW a \in PoolAccounts, Refresh(a) \/ Login(a) \/ Delete(a)
      PROVE  TypeOK'
  BY <1>1, AccountStepTyped
<1>2. ASSUME NEW a \in Accounts \cup {NoAccount}, Select(a)
      PROVE  TypeOK'
  BY <1>2 DEF Select, TypeOK
<1>3. ASSUME NEW a \in Accounts, ReportUsage(a)
      PROVE  TypeOK'
  BY <1>3, RoutingAssumption DEF ReportUsage, TypeOK
<1>4. CASE MainChanges
  BY <1>4 DEF MainChanges, TypeOK, Accounts
<1>5. CASE ModeChanges
  BY <1>5, UnpinTyped DEF ModeChanges, TypeOK
<1>6. CASE Tick
  BY <1>6, TickTyped
<1>7. ASSUME NEW r \in Requests, RequestStep(r)
      PROVE  TypeOK'
  BY <1>7, RouteTyped, OutcomeTyped, WaitTyped DEF RequestStep
<1>8. CASE UNCHANGED vars
  BY <1>8 DEF vars, TypeOK
<1> QED  BY <1>1, <1>2, <1>3, <1>4, <1>5, <1>6, <1>7, <1>8 DEF Next, Outside

(* It holds initially.                                                     *)
LEMMA TypeInitial == Init => TypeOK
<1> SUFFICES ASSUME Init
             PROVE  TypeOK
  OBVIOUS
<1>1. health \in [Accounts -> HealthState]
  BY DEF Init, Healthy, HealthState
<1>2. request \in [Requests -> RequestState]
  BY IdleTyped DEF Init
<1> QED  BY <1>1, <1>2, RoutingAssumption DEF Init, TypeOK, Accounts

(* Every variable keeps its type: no account that does not exist is ever   *)
(* active, pinned or asked, and no streak or deadline leaves the naturals. *)
THEOREM TypeCorrect == Spec => []TypeOK
BY TypeInitial, TypeInductive, PTL DEF Spec
=============================================================================
