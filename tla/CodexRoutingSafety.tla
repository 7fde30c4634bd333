-------------------------- MODULE CodexRoutingSafety --------------------------
(***************************************************************************)
(* The safety properties of CodexRouting, from its type correctness.       *)
(***************************************************************************)
EXTENDS CodexRoutingProofs

-----------------------------------------------------------------------------
(***************************************************************************)
(* How a routing step may change the pins.                                 *)
(***************************************************************************)
SameAccount(p, q) == p.account = q.account /\ p.generation = q.generation

(* An eligible account is selectable, outside its cooldown, and a pool     *)
(* account among them is configured and has a live record.                 *)
LEMMA EligibleFacts ==
    ASSUME TypeOK, NEW excluded, NEW a \in Eligible(excluded)
    PROVE  /\ a \in Eligible(NoAccount) /\ a \in Accounts
           /\ health[a].cooldown = 0 /\ ~ Cooling(a)
           /\ a # Main => a \in PoolAccounts /\ Configured(a) /\ record[a].live
<1>1. a \in Accounts /\ a # NoAccount /\ Selectable(a)
  BY RoutingAssumption DEF Eligible
<1>2. health[a].cooldown \in Nat
  BY <1>1 DEF TypeOK, HealthState
<1> QED  BY <1>1, <1>2 DEF Eligible, Selectable, Cooling, Usable, Accounts

(* bindThreadAffinity keeps a pin, drops it, or sets the fresh one.        *)
LEMMA BindPins ==
    ASSUME TypeOK, NEW t \in Threads \cup {NoThread}, NEW a, Bind(t, a), NEW u \in Threads
    PROVE  pin'[u] \in {pin[u], NoPin, Fresh(a)}
<1> DEFINE pins == WithPin(t, a)
<1>1. CASE t = NoThread \/ (a # Main /\ ~ record[a].live)
  BY <1>1 DEF Bind, Unpin
<1>2. CASE ~ (t = NoThread \/ (a # Main /\ ~ record[a].live))
  <2>1. pins[u] \in {pin[u], NoPin, Fresh(a)}
    BY DEF WithPin, Unpin
  <2>2. pin' = pins \/ \E victim : pin' = Unpin(pins, {victim})
    BY <1>2 DEF Bind
  <2> HIDE DEF pins
  <2> QED  BY <2>1, <2>2 DEF Unpin
<1> QED  BY <1>1, <1>2

(* Dropping the pin of one thread keeps or drops each pin.                 *)
LEMMA DropPins ==
    ASSUME NEW t, Drop(t), NEW u \in Threads
    PROVE  pin'[u] \in {pin[u], NoPin}
BY DEF Drop, Unpin

(* What a routing step chooses is selectable now.                          *)
LEMMA ReevalIsEligible ==
    ASSUME TypeOK, NEW r, NEW t, RouteReeval(r, t)
    PROVE  \E a \in Eligible(NoAccount) : active' = a /\ Bind(t, a) /\ Admit(r, t, a, FALSE)
<1> DEFINE best == PickLower(pin[t].account)
<1>1. best \in Eligible(NoAccount)
  BY PickLowestIsEligible, EligibleFacts DEF RouteReeval, MovesOnReeval, PickLower
<1>2. active' = best /\ Bind(t, best) /\ Admit(r, t, best, FALSE)
  BY DEF RouteReeval
<1> QED  BY <1>1, <1>2

(* The account chosen for a request without a usable pin is eligible: it   *)
(* starts from a selectable one, and what follows keeps it so.             *)
LEMMA ActiveIsEligible ==
    ASSUME TypeOK, NEW r, NEW t, RouteActive(r, t)
    PROVE  \E a \in Eligible(NoAccount) : active' = a /\ Bind(t, a) /\ Admit(r, t, a, FALSE)
<1> DEFINE first == IF Start = NoAccount \/ Selectable(Start) THEN Start
                    ELSE PickLowest(Start)
           a == Settled(first)
<1>1. active' = a /\ Bind(t, a) /\ Admit(r, t, a, FALSE) /\ first # NoAccount
  BY DEF RouteActive
<1>2. \A x : PickLowest(x) # NoAccount => PickLowest(x) \in Eligible(NoAccount)
  BY PickLowestIsEligible, EligibleFacts
<1>3. Start \in Accounts \cup {NoAccount}
  BY <1>2 DEF Start, TypeOK, Eligible
<1>4. first \in Eligible(NoAccount)
  BY <1>1, <1>2, <1>3 DEF Eligible
<1>5. a \in Eligible(NoAccount)
  <2> HIDE DEF first
  <2> QED  BY <1>4, SettledIsSelectable
<1> QED  BY <1>1, <1>5

(* Routing leaves the active account alone or moves it to an eligible      *)
(* one.                                                                    *)
LEMMA RouteMovesToSelectable ==
    ASSUME TypeOK, NEW r \in Requests, NEW t \in Threads \cup {NoThread}, Route(r, t)
    PROVE  active' \in {active} \cup Eligible(NoAccount)
BY ReevalIsEligible, ActiveIsEligible
   DEF Route, RouteExpired, RouteReuse, RouteNone, RouteStuck

(* A routing step drops a pin, keeps its account, or sets one to an        *)
(* account that is selectable now.                                         *)
LEMMA RoutePins ==
    ASSUME TypeOK, NEW r \in Requests, NEW t \in Threads \cup {NoThread}, Route(r, t),
           NEW u \in Threads
    PROVE  \/ pin'[u] = NoPin
           \/ pin'[u] # NoPin /\ pin[u] # NoPin /\ SameAccount(pin[u], pin'[u])
           \/ \E a \in Eligible(NoAccount) : pin'[u] = Fresh(a)
<1>2. CASE t # NoThread /\ RouteExpired(r, t)
  BY <1>2, DropPins DEF RouteExpired, SameAccount
<1>3. CASE t # NoThread /\ RouteReuse(r, t)
  <2>1. CASE u # t
    BY <1>3, <2>1 DEF RouteReuse, TypeOK, SameAccount
  <2>2. CASE u = t
    <3>1. pin[t] \in PinState
      BY <1>3, <2>2 DEF RouteReuse, Reusable, Pinned, TypeOK
    <3>2. pin'[t].account = pin[t].account /\ pin'[t].generation = pin[t].generation
      BY <1>3, <2>2, <3>1 DEF RouteReuse, TypeOK, PinState
    <3>3. pin'[t].account # NoAccount
      BY <3>1, <3>2, RoutingAssumption DEF PinState
    <3>4. pin'[t] # NoPin /\ pin[t] # NoPin
      <4>1. NoPin.account = NoAccount
        BY DEF NoPin
      <4>2. pin[t] # NoPin
        BY <1>3 DEF RouteReuse, Reusable, Pinned
      <4> QED  BY <3>3, <4>1, <4>2
    <3> QED  BY <1>3, <2>2, <3>2, <3>4 DEF SameAccount, RouteReuse
  <2> QED  BY <2>1, <2>2
<1>4. CASE t # NoThread /\ RouteReeval(r, t)
  BY <1>4, ReevalIsEligible, BindPins DEF SameAccount
<1>5. CASE RouteNone(r, t) \/ RouteStuck(r, t)
  BY <1>5, DropPins DEF RouteNone, RouteStuck, SameAccount
<1>6. CASE RouteActive(r, t)
  BY <1>6, ActiveIsEligible, BindPins DEF SameAccount
<1> QED  BY <1>2, <1>3, <1>4, <1>5, <1>6 DEF Route

(* An outcome and the purge of an account only drop pins.                  *)
LEMMA OutcomePins ==
    ASSUME NEW r \in Requests, NEW t, RecordOutcome(r, t), NEW u \in Threads, TypeOK
    PROVE  pin'[u] \in {pin[u], NoPin}
BY DEF RecordOutcome, RecordSuccess, RecordCaller, RecordCredential, RecordQuota,
       RecordTransient, Unpin

(* The account of a pin is a real one.                                     *)
LEMMA PinFacts ==
    ASSUME TypeOK, NEW t \in Threads
    PROVE  /\ pin[t] # NoPin => pin[t] \in PinState /\ pin[t].account \in Accounts
           /\ pin[t] = NoPin => pin[t].account \notin Accounts
BY RoutingAssumption DEF TypeOK, PinState, NoPin

-----------------------------------------------------------------------------
(***************************************************************************)
(* PinsNeverCooling                                                        *)
(***************************************************************************)

(* An outcome starts a cooldown only by a 429, which drops every pin to    *)
(* the account.                                                            *)
LEMMA OutcomeCooldown ==
    ASSUME TypeOK, PinsNeverCooling, NEW r \in Requests, NEW t, RecordOutcome(r, t)
    PROVE  PinsNeverCooling'
<1> DEFINE a == request[r].account
<1>1. a \in Accounts
  BY SentTyped DEF RecordOutcome
<1> SUFFICES ASSUME NEW u \in Threads, pin'[u] # NoPin
             PROVE  health'[pin'[u].account].cooldown = 0
  BY DEF PinsNeverCooling, Pinned
<1>2. pin'[u] = pin[u]
  BY OutcomePins
<1>3. health[pin[u].account].cooldown = 0 /\ pin[u].account \in Accounts
  BY <1>2, PinFacts DEF PinsNeverCooling, Pinned
<1>4. \/ RecordSuccess(a, t) \/ RecordCaller(a, t) \/ RecordCredential(a, t)
      \/ RecordQuota(a, t) \/ RecordTransient(a, t)
  BY DEF RecordOutcome
<1>5. health[a] \in HealthState
  BY <1>1 DEF TypeOK
<1>6. \A h \in HealthState : h.cooldown = 0 =>
         /\ AfterSuccess(h).cooldown = 0 /\ AfterCredential(h).cooldown = 0
         /\ AfterTransient(h).cooldown = 0
  BY DEF AfterSuccess, AfterCredential, AfterTransient, Healthy, HealthState
<1>7. health \in [Accounts -> HealthState]
  BY DEF TypeOK
<1> HIDE DEF a
<1>8. CASE RecordQuota(a, t)
  <2>1. pin[u].account # a
    BY <1>2, <1>8 DEF RecordQuota, Unpin, PinsOf
  <2> QED  BY <1>2, <1>3, <1>7, <1>8, <2>1 DEF RecordQuota
<1>9. CASE RecordSuccess(a, t)
  BY <1>1, <1>2, <1>3, <1>5, <1>6, <1>7, <1>9 DEF RecordSuccess
<1>10. CASE RecordCaller(a, t)
  BY <1>2, <1>3, <1>10 DEF RecordCaller
<1>11. CASE RecordCredential(a, t)
  BY <1>1, <1>2, <1>3, <1>5, <1>6, <1>7, <1>11 DEF RecordCredential
<1>12. CASE RecordTransient(a, t)
  BY <1>1, <1>2, <1>3, <1>5, <1>6, <1>7, <1>12 DEF RecordTransient
<1> QED  BY <1>4, <1>8, <1>9, <1>10, <1>11, <1>12

(* Routing pins no thread to a cooling account.                            *)
LEMMA RouteCooldown ==
    ASSUME TypeOK, PinsNeverCooling, NEW r \in Requests,
           NEW t \in Threads \cup {NoThread}, Route(r, t)
    PROVE  PinsNeverCooling'
<1> SUFFICES ASSUME NEW u \in Threads, pin'[u] # NoPin
             PROVE  health'[pin'[u].account].cooldown = 0
  BY DEF PinsNeverCooling, Pinned
<1>1. health' = health
  BY DEF Route
<1>2. CASE pin[u] # NoPin /\ SameAccount(pin[u], pin'[u])
  BY <1>1, <1>2 DEF PinsNeverCooling, Pinned, SameAccount
<1>3. ASSUME NEW a \in Eligible(NoAccount), pin'[u] = Fresh(a)
      PROVE  health'[pin'[u].account].cooldown = 0
  BY <1>1, <1>3, EligibleFacts DEF Fresh
<1> QED  BY <1>2, <1>3, RoutePins

(* PinsNeverCooling is inductive, given the types.                         *)
LEMMA CooldownInductive ==
    TypeOK /\ PinsNeverCooling /\ [Next]_vars => PinsNeverCooling'
<1> SUFFICES ASSUME TypeOK, PinsNeverCooling, [Next]_vars
             PROVE  PinsNeverCooling'
  OBVIOUS
<1>1. CASE UNCHANGED <<health, pin>>
  BY <1>1 DEF PinsNeverCooling, Pinned
<1>2. ASSUME NEW a \in PoolAccounts, Delete(a)
      PROVE  PinsNeverCooling'
  <2> SUFFICES ASSUME NEW u \in Threads, pin'[u] # NoPin
               PROVE  health'[pin'[u].account].cooldown = 0
    BY DEF PinsNeverCooling, Pinned
  <2>1. pin'[u] = pin[u] /\ pin[u].account # a
    BY <1>2 DEF Delete, Purge, Unpin, PinsOf
  <2>2. health'[pin[u].account] = health[pin[u].account]
    BY <1>2, <2>1, PinFacts DEF Delete, Purge, TypeOK
  <2> QED  BY <2>1, <2>2 DEF PinsNeverCooling, Pinned
<1>3. CASE ModeChanges
  BY <1>3 DEF ModeChanges, PinsNeverCooling, Pinned, Unpin
<1>4. CASE Tick
  <2> SUFFICES ASSUME NEW u \in Threads, pin'[u] # NoPin
               PROVE  health'[pin'[u].account].cooldown = 0
    BY DEF PinsNeverCooling, Pinned
  <2>1. pin[u] # NoPin /\ pin'[u].account = pin[u].account
    BY <1>4, PinFacts DEF Tick, Pinned, PinState
  <2>2. health'[pin[u].account].cooldown = Less(health[pin[u].account].cooldown)
    BY <1>4, <2>1, PinFacts DEF Tick, TypeOK, HealthState
  <2> QED  BY <2>1, <2>2 DEF PinsNeverCooling, Pinned, Less
<1>5. ASSUME NEW r \in Requests, RequestStep(r)
      PROVE  PinsNeverCooling'
  <2>1. CASE TokenArrives(r) \/ TokenFails(r) \/ Return(r) \/ Cancel(r) \/ RetryElsewhere(r)
    BY <1>1, <2>1 DEF TokenArrives, TokenFails, Return, Cancel, RetryElsewhere
  <2> QED  BY <1>5, <2>1, RouteCooldown, OutcomeCooldown
           DEF RequestStep, Outcome, SidecarOutcome
<1>6. CASE UNCHANGED vars
  BY <1>1, <1>6 DEF vars
<1>7. ASSUME NEW a, Refresh(a) \/ Login(a) \/ Select(a) \/ ReportUsage(a) \/ MainChanges
      PROVE  UNCHANGED <<health, pin>>
  BY <1>7 DEF Refresh, Login, Select, ReportUsage, MainChanges
<1> QED  BY <1>1, <1>2, <1>3, <1>4, <1>5, <1>6, <1>7 DEF Next, Outside

(* No thread is ever pinned to an account in its quota cooldown, however   *)
(* the requests, their outcomes and the passage of time interleave.        *)
THEOREM NoPinIsCooling == Spec => []PinsNeverCooling
<1>1. Init => PinsNeverCooling
  BY DEF Init, PinsNeverCooling, Pinned
<1> QED  BY <1>1, TypeCorrect, CooldownInductive, PTL DEF Spec

-----------------------------------------------------------------------------
(***************************************************************************)
(* DeletedIsForgotten                                                      *)
(***************************************************************************)
LivingPin(t) ==
    pin[t].account \in PoolAccounts =>
        /\ Configured(pin[t].account)
        /\ record[pin[t].account].live
        /\ pin[t].generation <= record[pin[t].account].generation

(* Routing neither activates nor pins a deleted account.                   *)
LEMMA RouteForgets ==
    ASSUME TypeOK, DeletedIsForgotten, NEW r \in Requests,
           NEW t \in Threads \cup {NoThread}, Route(r, t)
    PROVE  DeletedIsForgotten'
<1>1. rank' = rank /\ record' = record
  BY DEF Route
<1>2. (active \in PoolAccounts => Configured(active))'
  BY <1>1, RouteMovesToSelectable, EligibleFacts, RoutingAssumption
     DEF DeletedIsForgotten, Configured
<1> SUFFICES ASSUME NEW u \in Threads
             PROVE  LivingPin(u)'
  BY <1>2 DEF DeletedIsForgotten, LivingPin
<1>3. CASE pin'[u] = NoPin
  BY <1>3, RoutingAssumption DEF LivingPin, NoPin, Accounts
<1>4. CASE SameAccount(pin[u], pin'[u])
  BY <1>1, <1>4 DEF DeletedIsForgotten, LivingPin, SameAccount, Configured
<1>5. ASSUME NEW a \in Eligible(NoAccount), pin'[u] = Fresh(a)
      PROVE  LivingPin(u)'
  <2>1. pin'[u].account = a /\ (a # Main => pin'[u].generation = record[a].generation)
    BY <1>5 DEF Fresh, GenerationOf
  <2>2. a \in PoolAccounts =>
           a # Main /\ Configured(a) /\ record[a].live /\ record[a].generation \in Nat
    BY EligibleFacts, RoutingAssumption DEF TypeOK
  <2> QED  BY <1>1, <2>1, <2>2 DEF LivingPin, Configured
<1> QED  BY <1>3, <1>4, <1>5, RoutePins

(* A pin that stays keeps pointing at a living account while the records   *)
(* only move forward.                                                      *)
LEMMA AccountStepForgets ==
    ASSUME TypeOK, DeletedIsForgotten, NEW a \in PoolAccounts,
           Refresh(a) \/ Login(a) \/ Delete(a)
    PROVE  DeletedIsForgotten'
<1> SUFFICES /\ (active \in PoolAccounts => Configured(active))'
             /\ \A u \in Threads : LivingPin(u)'
  BY DEF DeletedIsForgotten, LivingPin
<1>1. record \in [PoolAccounts -> [generation : Nat, live : BOOLEAN]]
  BY DEF TypeOK
<1>2. rank \in [PoolAccounts -> Nat]
  BY DEF TypeOK
<1>3. \A u \in Threads : LivingPin(u)
  BY DEF DeletedIsForgotten, LivingPin
<1>g. \A u \in Threads : pin[u].account \in PoolAccounts => pin[u].generation \in Nat
  BY PinFacts, RoutingAssumption DEF PinState, Accounts
<1>4. ASSUME Refresh(a) \/ Login(a)
      PROVE  /\ (active \in PoolAccounts => Configured(active))'
             /\ \A u \in Threads : LivingPin(u)'
  <2>1. active' = active /\ pin' = pin
    BY <1>4 DEF Refresh, Login
  <2>2. \A b \in PoolAccounts : Configured(b) => Configured(b)'
    <3>1. CASE Refresh(a)
      BY <3>1 DEF Refresh, Configured
    <3>2. CASE Login(a)
      BY <1>2, <3>2 DEF Login, Configured
    <3> QED  BY <1>4, <3>1, <3>2
  <2>3. \A b \in PoolAccounts : /\ record[b].live => record'[b].live
                               /\ record[b].generation \in Nat
                               /\ record'[b].generation \in Nat
                               /\ record[b].generation <= record'[b].generation
    <3>1. CASE Refresh(a)
      BY <1>1, <3>1 DEF Refresh
    <3>2. CASE Login(a)
      BY <1>1, <3>2 DEF Login
    <3> QED  BY <1>4, <3>1, <3>2
  <2>4. \A u \in Threads : LivingPin(u)'
    BY <1>3, <1>g, <2>1, <2>2, <2>3 DEF LivingPin
  <2> QED  BY <2>1, <2>2, <2>4 DEF DeletedIsForgotten, Configured
<1>5. ASSUME Delete(a)
      PROVE  /\ (active \in PoolAccounts => Configured(active))'
             /\ \A u \in Threads : LivingPin(u)'
  <2>1. \A b \in PoolAccounts \ {a} : Configured(b) => Configured(b)' /\ record'[b] = record[b]
    BY <1>1, <1>2, <1>5 DEF Delete, Configured
  <2>2. (active \in PoolAccounts => Configured(active))'
    BY <1>5, <2>1, RoutingAssumption DEF Delete, DeletedIsForgotten, Configured, Accounts
  <2>3. ASSUME NEW u \in Threads
        PROVE  LivingPin(u)'
    <3>1. pin'[u] = NoPin \/ (pin'[u] = pin[u] /\ pin[u].account # a)
      <4>1. pin' = Unpin(pin, PinsOf(a))
        BY <1>5 DEF Delete, Purge
      <4> QED  BY <4>1 DEF Unpin, PinsOf
    <3>2. CASE pin'[u] = NoPin
      BY <3>2, RoutingAssumption DEF LivingPin, NoPin, Accounts
    <3>3. CASE pin'[u] = pin[u] /\ pin[u].account # a
      <4>1. (pin[u].account)' = pin[u].account /\ (pin[u].generation)' = pin[u].generation
        BY <3>3
      <4>2. pin[u].account \in PoolAccounts =>
               /\ Configured(pin[u].account)'
               /\ record'[pin[u].account] = record[pin[u].account]
        BY <1>3, <2>1, <3>3, <4>1 DEF LivingPin, Configured
      <4> QED  BY <1>3, <4>1, <4>2 DEF LivingPin, Configured
    <3> QED  BY <3>1, <3>2, <3>3
  <2> QED  BY <2>2, <2>3
<1> QED  BY <1>4, <1>5

(* Nor does an outcome, not even that of a request the account served      *)
(* before its deletion.                                                    *)
LEMMA OutcomeForgets ==
    ASSUME TypeOK, DeletedIsForgotten, NEW r \in Requests,
           NEW t, RecordOutcome(r, t)
    PROVE  DeletedIsForgotten'
<1>1. rank' = rank /\ record' = record
  BY DEF RecordOutcome
<1>2. \A x : PickLowest(x) # NoAccount => PickLowest(x) \in Eligible(NoAccount)
  BY PickLowestIsEligible, EligibleFacts
<1>3. active' \in {active} \cup Eligible(NoAccount)
  BY <1>2 DEF RecordOutcome, RecordSuccess, RecordCaller, RecordCredential, RecordQuota,
              RecordTransient
<1>4. (active \in PoolAccounts => Configured(active))'
  BY <1>1, <1>3, EligibleFacts, RoutingAssumption DEF DeletedIsForgotten, Configured
<1>5. ASSUME NEW u \in Threads
      PROVE  LivingPin(u)'
  <2>1. pin'[u] \in {pin[u], NoPin}
    BY OutcomePins
  <2> QED  BY <1>1, <2>1, RoutingAssumption
           DEF DeletedIsForgotten, LivingPin, Configured, NoPin, Accounts
<1> QED  BY <1>4, <1>5 DEF DeletedIsForgotten, LivingPin

(* DeletedIsForgotten is inductive, given the types.                       *)
LEMMA ForgottenInductive ==
    TypeOK /\ DeletedIsForgotten /\ [Next]_vars => DeletedIsForgotten'
<1> SUFFICES ASSUME TypeOK, DeletedIsForgotten, [Next]_vars
             PROVE  DeletedIsForgotten'
  OBVIOUS
<1>1. CASE UNCHANGED <<active, rank, record, pin>>
  BY <1>1 DEF DeletedIsForgotten, Configured
<1>2. ASSUME NEW a \in Accounts \cup {NoAccount}, Select(a)
      PROVE  DeletedIsForgotten'
  BY <1>2, RoutingAssumption DEF Select, DeletedIsForgotten, Configured, Accounts
<1>3. CASE ModeChanges
  BY <1>3, RoutingAssumption
     DEF ModeChanges, DeletedIsForgotten, Configured, Unpin, NoPin, Accounts
<1>4. CASE Tick
  <2>1. \A u \in Threads : \/ pin'[u] = NoPin
                          \/ SameAccount(pin[u], pin'[u])
    BY <1>4, PinFacts DEF Tick, Pinned, PinState, SameAccount
  <2>2. UNCHANGED <<active, rank, record>>
    BY <1>4 DEF Tick
  <2>3. \A u \in Threads : LivingPin(u)'
    BY <2>1, <2>2, RoutingAssumption
       DEF DeletedIsForgotten, LivingPin, SameAccount, Configured, NoPin, Accounts
  <2> QED  BY <2>2, <2>3 DEF DeletedIsForgotten, LivingPin, Configured
<1>5. ASSUME NEW r \in Requests, RequestStep(r)
      PROVE  DeletedIsForgotten'
  <2>1. CASE TokenArrives(r) \/ TokenFails(r) \/ Return(r) \/ Cancel(r) \/ RetryElsewhere(r)
    BY <1>1, <2>1 DEF TokenArrives, TokenFails, Return, Cancel, RetryElsewhere
  <2> QED  BY <1>5, <2>1, RouteForgets, OutcomeForgets
           DEF RequestStep, Outcome, SidecarOutcome
<1>6. ASSUME NEW a, ReportUsage(a) \/ MainChanges
      PROVE  UNCHANGED <<active, rank, record, pin>>
  BY <1>6 DEF ReportUsage, MainChanges
<1>7. CASE UNCHANGED vars
  BY <1>1, <1>7 DEF vars
<1> QED  BY <1>1, <1>2, <1>3, <1>4, <1>5, <1>6, <1>7, AccountStepForgets DEF Next, Outside

(* A deleted account is never the active one and never pinned, also when   *)
(* requests that it served end, and pick a fallback, after the deletion.   *)
THEOREM DeletedStaysForgotten == Spec => []DeletedIsForgotten
<1>1. Init => DeletedIsForgotten
  BY RoutingAssumption DEF Init, DeletedIsForgotten, Configured, NoPin, Accounts
<1> QED  BY <1>1, TypeCorrect, ForgottenInductive, PTL DEF Spec

-----------------------------------------------------------------------------
(***************************************************************************)
(* HardCooldownHolds                                                       *)
(***************************************************************************)
(* An outcome ends a cooldown before its time only by marking the          *)
(* account.                                                                *)
LEMMA OutcomeHoldsCooldown ==
    ASSUME TypeOK, NEW r \in Requests, NEW t, RecordOutcome(r, t), NEW b \in Accounts
    PROVE  CooldownHolds(b)
<1> DEFINE a == request[r].account
<1>1. a \in Accounts
  BY SentTyped DEF RecordOutcome
<1>2. health \in [Accounts -> HealthState]
  BY DEF TypeOK
<1>3. \A h \in HealthState :
         /\ AfterSuccess(h).cooldown = h.cooldown
         /\ AfterTransient(h).cooldown = h.cooldown
         /\ \A n \in Cooldowns : AfterQuota(h, n).cooldown = n
  BY DEF AfterSuccess, AfterTransient, AfterQuota, Healthy, HealthState
<1>4. \A n \in Cooldowns : n # 0
  BY RoutingAssumption
<1>5. \/ RecordSuccess(a, t) \/ RecordCaller(a, t) \/ RecordCredential(a, t)
      \/ RecordQuota(a, t) \/ RecordTransient(a, t)
  BY DEF RecordOutcome
<1> HIDE DEF a
<1>6. CASE RecordSuccess(a, t) \/ RecordTransient(a, t)
  <2>1. health'[b].cooldown = health[b].cooldown
    BY <1>1, <1>2, <1>3, <1>6 DEF RecordSuccess, RecordTransient
  <2>2. health[b].cooldown \in Nat
    BY <1>2 DEF HealthState
  <2> QED  BY <2>1, <2>2 DEF CooldownHolds
<1>7. CASE RecordCaller(a, t)
  BY <1>2, <1>7 DEF RecordCaller, CooldownHolds, HealthState
<1>8. CASE RecordCredential(a, t)
  BY <1>1, <1>2, <1>8 DEF RecordCredential, CooldownHolds, HealthState
<1>9. CASE RecordQuota(a, t)
  BY <1>1, <1>2, <1>3, <1>4, <1>9 DEF RecordQuota, CooldownHolds, HealthState
<1> QED  BY <1>5, <1>6, <1>7, <1>8, <1>9

(* No step ends a cooldown early except deletion and an authentication     *)
(* failure.                                                                *)
LEMMA CooldownStep ==
    TypeOK /\ [Next]_vars => [\A a \in Accounts : CooldownHolds(a)]_vars
<1> SUFFICES ASSUME TypeOK, Next, NEW b \in Accounts
             PROVE  CooldownHolds(b)
  OBVIOUS
<1>1. health \in [Accounts -> HealthState] /\ health[b].cooldown \in Nat
  BY DEF TypeOK, HealthState
<1>2. CASE health' = health
  BY <1>1, <1>2 DEF CooldownHolds
<1>3. ASSUME NEW a \in PoolAccounts, Delete(a)
      PROVE  CooldownHolds(b)
  BY <1>1, <1>3 DEF Delete, Purge, CooldownHolds, TypeOK
<1>4. CASE Tick
  <2>1. health'[b].cooldown = Less(health[b].cooldown)
    BY <1>1, <1>4 DEF Tick, HealthState
  <2> QED  BY <1>1, <2>1 DEF CooldownHolds, Less
<1>5. ASSUME NEW r \in Requests, RequestStep(r)
      PROVE  CooldownHolds(b)
  <2>1. CASE Outcome(r) \/ SidecarOutcome(r)
    BY <2>1, OutcomeHoldsCooldown DEF Outcome, SidecarOutcome
  <2>2. CASE ~ (Outcome(r) \/ SidecarOutcome(r))
    BY <1>2, <1>5, <2>2
       DEF RequestStep, Route, TokenArrives, TokenFails, Return, Cancel, RetryElsewhere
  <2> QED  BY <2>1, <2>2
<1>6. ASSUME NEW a, Refresh(a) \/ Login(a) \/ Select(a) \/ ReportUsage(a)
                    \/ MainChanges \/ ModeChanges
      PROVE  CooldownHolds(b)
  BY <1>2, <1>6 DEF Refresh, Login, Select, ReportUsage, MainChanges, ModeChanges
<1> QED  BY <1>3, <1>4, <1>5, <1>6 DEF Next, Outside

(* A quota cooldown survives every success and every other failure: it     *)
(* ends before its time only by deletion or by an authentication failure.  *)
THEOREM CooldownIsHard == Spec => HardCooldownHolds
BY TypeCorrect, CooldownStep, PTL DEF Spec, HardCooldownHolds

-----------------------------------------------------------------------------
(***************************************************************************)
(* ServedWhileAnySelectable                                                *)
(***************************************************************************)

(* A step of one request leaves every other request where it is.           *)
LEMMA OthersStay ==
    ASSUME TypeOK, NEW q \in Requests, NEW r \in Requests, q # r, RequestStep(q)
    PROVE  request'[r] = request[r]
<1>1. \A t \in Threads \cup {NoThread} : \A pc, a, retry :
         Answer(q, t, pc, a, retry) => request'[r] = request[r]
  BY DEF Answer, TypeOK
<1>2. \A t \in Threads \cup {NoThread} : \A a, retry :
         Admit(q, t, a, retry) \/ Refuse(q, t) => request'[r] = request[r]
  BY <1>1 DEF Admit, Refuse
<1>3. request[q].thread \in Threads \cup {NoThread}
  BY SentTyped
<1>4. ASSUME NEW t \in Threads \cup {NoThread}, Route(q, t)
      PROVE  request'[r] = request[r]
  BY <1>1, <1>2, <1>4 DEF Route, RouteExpired, RouteReuse, RouteReeval, RouteNone,
                          RouteStuck, RouteActive
<1>5. \A x : request' = [request EXCEPT ![q] = x] => request'[r] = request[r]
  BY DEF TypeOK
<1>6. CASE TokenArrives(q)
  BY <1>2, <1>3, <1>5, <1>6 DEF TokenArrives
<1>7. CASE TokenFails(q) \/ RetryElsewhere(q)
  BY <1>2, <1>3, <1>7 DEF TokenFails, RetryElsewhere
<1>8. CASE Return(q) \/ Cancel(q) \/ Outcome(q) \/ SidecarOutcome(q)
  BY <1>5, <1>8 DEF Return, Cancel, Outcome, SidecarOutcome
<1> QED  BY <1>4, <1>6, <1>7, <1>8 DEF RequestStep

(* A request admitted to an eligible account is sent or awaits its token.  *)
LEMMA AdmitServes ==
    ASSUME TypeOK, NEW r \in Requests, NEW t, NEW a \in Eligible(NoAccount), NEW retry,
           Admit(r, t, a, retry)
    PROVE  Served(r)
<1>1. request' = [request EXCEPT ![r] = [pc |-> IF a = Main THEN "sent" ELSE "token",
                                         account |-> a, thread |-> t, retry |-> retry]]
  BY EligibleFacts DEF Admit, Answer
<1>2. request'[r].pc \in {"sent", "token"} /\ request'[r].account = a
  BY <1>1 DEF TypeOK
<1> QED  BY <1>2 DEF Served

(* A routed request is served by an eligible account if there is one.      *)
LEMMA RouteServes ==
    ASSUME TypeOK, NEW r \in Requests, NEW t \in Threads \cup {NoThread}, Route(r, t),
           Eligible(NoAccount) # {}
    PROVE  Served(r)
<1>1. PickLowest(NoAccount) \in Eligible(NoAccount)
  BY PickLowestIsEligible
<1>2. Start # NoAccount
  BY <1>1, EligibleFacts, RoutingAssumption DEF Start
<1>3. CASE t # NoThread /\ RouteExpired(r, t)
  BY <1>3 DEF RouteExpired, Answer, Served, TypeOK
<1>4. CASE t # NoThread /\ RouteReuse(r, t)
  <2>1. t \in Threads /\ pin[t] # NoPin /\ Selectable(pin[t].account)
    BY <1>4 DEF RouteReuse, Reusable, Pinned
  <2>2. pin[t].account \in Eligible(NoAccount)
    BY <2>1, PinFacts, RoutingAssumption DEF Eligible
  <2> QED  BY <1>4, <2>2, AdmitServes DEF RouteReuse
<1>5. CASE t # NoThread /\ RouteReeval(r, t)
  BY <1>5, ReevalIsEligible, AdmitServes
<1>6. CASE RouteNone(r, t)
  BY <1>2, <1>6 DEF RouteNone
<1>7. CASE RouteStuck(r, t)
  <2>1. Start \in Accounts /\ ~ Selectable(Start) /\ Eligible(Start) = {}
    <3>1. Start \in Accounts
      BY <1>1, <1>2, EligibleFacts DEF Start, TypeOK
    <3>2. Eligible(Start) = {}
      BY <1>7, PickLowestIsEligible, EligibleFacts, RoutingAssumption DEF RouteStuck
    <3> QED  BY <1>7, <3>1, <3>2 DEF RouteStuck
  <2> QED  BY <2>1 DEF Eligible
<1>8. CASE RouteActive(r, t)
  BY <1>8, ActiveIsEligible, AdmitServes
<1> QED  BY <1>3, <1>4, <1>5, <1>6, <1>7, <1>8 DEF Route

(* The same for every step: only routing takes a request out of idle.      *)
LEMMA ServedStep ==
    TypeOK /\ [Next]_vars =>
        [\A r \in Requests : Routed(r) /\ Eligible(NoAccount) # {} => Served(r)]_vars
<1> SUFFICES ASSUME TypeOK, Next, NEW r \in Requests, Routed(r), Eligible(NoAccount) # {}
             PROVE  Served(r)
  OBVIOUS
<1>1. request'[r] # request[r] /\ request[r].pc = "idle"
  BY DEF Routed
<1>2. PICK q \in Requests : RequestStep(q)
  BY <1>1 DEF Next, Outside, Refresh, Login, Delete, Select, ReportUsage, MainChanges,
              ModeChanges, Tick
<1>3. CASE q = r
  BY <1>1, <1>2, <1>3, RouteServes
     DEF RequestStep, TokenArrives, TokenFails, Return, Cancel, Outcome, SidecarOutcome,
         RecordOutcome, RetryElsewhere
<1>4. CASE q # r
  BY <1>1, <1>2, <1>4, OthersStay
<1> QED  BY <1>3, <1>4

(* While any account is selectable no request is refused, and none is sent *)
(* to an account that is not: the pool fails only when all of it has.      *)
THEOREM PoolServes == Spec => ServedWhileAnySelectable
BY TypeCorrect, ServedStep, PTL DEF Spec, ServedWhileAnySelectable

-----------------------------------------------------------------------------
(***************************************************************************)
(* LateOutcomesSpareOthers                                                 *)
(***************************************************************************)
Spared(r) ==
    LET a == request[r].account IN
    /\ \A t \in Threads : pin[t].account # a => pin'[t] = pin[t]
    /\ active # a => active' = active
    /\ \A b \in Accounts \ {a} : health'[b] = health[b]

(* An outcome touches only the pins, the health and the active slot of     *)
(* its account.                                                            *)
LEMMA OutcomeSpares ==
    ASSUME TypeOK, NEW r \in Requests, NEW t, RecordOutcome(r, t)
    PROVE  Spared(r)
<1> DEFINE a == request[r].account
<1>1. \/ RecordSuccess(a, t) \/ RecordCaller(a, t) \/ RecordCredential(a, t)
      \/ RecordQuota(a, t) \/ RecordTransient(a, t)
  BY DEF RecordOutcome
<1>2. health \in [Accounts -> HealthState] /\ DOMAIN pin = Threads
  BY DEF TypeOK
<1> HIDE DEF a
<1>3. ASSUME NEW u \in Threads, pin[u].account # a
      PROVE  pin'[u] = pin[u]
  <2>1. \/ pin' = pin
        \/ \E dropped \in SUBSET PinsOf(a) : pin' = Unpin(pin, dropped)
    BY <1>1 DEF RecordSuccess, RecordCaller, RecordCredential, RecordQuota, RecordTransient
  <2>2. u \notin PinsOf(a)
    BY <1>3 DEF PinsOf
  <2> QED  BY <2>1, <2>2 DEF Unpin
<1>4. active # a => active' = active
  BY <1>1 DEF RecordSuccess, RecordCaller, RecordCredential, RecordQuota, RecordTransient
<1>5. \A b \in Accounts \ {a} : health'[b] = health[b]
  BY <1>1, <1>2 DEF RecordSuccess, RecordCaller, RecordCredential, RecordQuota,
                    RecordTransient
<1> QED  BY <1>3, <1>4, <1>5 DEF Spared, a

(* The same for every step that ends a sent request.                       *)
LEMMA SparedStep ==
    TypeOK /\ [Next]_vars =>
        [\A r \in Requests : request[r].pc = "sent" /\ request'[r].pc = "idle" => Spared(r)]_vars
<1> SUFFICES ASSUME TypeOK, Next, NEW r \in Requests,
                    request[r].pc = "sent", request'[r].pc = "idle"
             PROVE  Spared(r)
  OBVIOUS
<1>1. PICK q \in Requests : RequestStep(q)
  BY DEF Next, Outside, Refresh, Login, Delete, Select, ReportUsage, MainChanges,
         ModeChanges, Tick
<1>2. q = r
  BY <1>1, OthersStay
<1>3. CASE Outcome(r) \/ SidecarOutcome(r)
  BY <1>3, OutcomeSpares DEF Outcome, SidecarOutcome
<1>4. CASE Cancel(r)
  BY <1>4 DEF Cancel, Spared
<1>5. CASE RetryElsewhere(r)
  BY <1>5 DEF RetryElsewhere, Spared
<1> QED  BY <1>1, <1>2, <1>3, <1>4, <1>5
         DEF RequestStep, Route, TokenArrives, TokenFails, Return

(* However late it comes, the outcome of a request leaves the pins to      *)
(* other accounts, another active account and other accounts' health alone.*)
THEOREM LateOutcomesAreLocal == Spec => LateOutcomesSpareOthers
BY TypeCorrect, SparedStep, PTL DEF Spec, LateOutcomesSpareOthers, Spared

-----------------------------------------------------------------------------
(***************************************************************************)
(* PinsAreBounded                                                          *)
(***************************************************************************)
PinnedIn(pins) == {t \in Threads : pins[t] # NoPin}

(* The bound with the finiteness that gives the cardinality its meaning.   *)
Bounded(pins) == IsFiniteSet(PinnedIn(pins)) /\ Cardinality(PinnedIn(pins)) <= MaxPins

(* Pins that are only dropped or renewed stay within it.                   *)
LEMMA FewerPins ==
    ASSUME Bounded(pin), NEW pins, PinnedIn(pins) \subseteq PinnedIn(pin)
    PROVE  Bounded(pins)
<1>1. /\ IsFiniteSet(PinnedIn(pins)) /\ Cardinality(PinnedIn(pins)) \in Nat
      /\ Cardinality(PinnedIn(pins)) <= Cardinality(PinnedIn(pin))
      /\ Cardinality(PinnedIn(pin)) \in Nat
  BY FS_Subset, FS_CardinalityType DEF Bounded
<1> QED  BY <1>1, RoutingAssumption DEF Bounded

(* bindThreadAffinity adds one pin, and drops another if there is one too  *)
(* many.                                                                   *)
LEMMA BindBounded ==
    ASSUME TypeOK, Bounded(pin), NEW t \in Threads \cup {NoThread}, NEW a, Bind(t, a)
    PROVE  Bounded(pin')
<1>1. CASE t = NoThread \/ (a # Main /\ ~ record[a].live)
  <2>1. pin' = pin \/ pin' = Unpin(pin, {t})
    BY <1>1 DEF Bind
  <2>2. PinnedIn(pin') \subseteq PinnedIn(pin)
    BY <2>1 DEF PinnedIn, Unpin
  <2> QED  BY <2>2, FewerPins
<1>2. CASE ~ (t = NoThread \/ (a # Main /\ ~ record[a].live))
  <2> DEFINE pins == WithPin(t, a)
             S == PinnedIn(pins)
  <2>1. IF Overfull(pins)
        THEN \E victim \in Oldest(pins, t) : pin' = Unpin(pins, {victim})
        ELSE pin' = pins
    BY <1>2 DEF Bind
  <2>2. S \subseteq PinnedIn(pin) \cup {t}
    BY DEF WithPin, PinnedIn, Unpin
  <2>3. /\ IsFiniteSet(PinnedIn(pin) \cup {t})
        /\ Cardinality(PinnedIn(pin) \cup {t}) <= MaxPins + 1
        /\ Cardinality(PinnedIn(pin) \cup {t}) \in Nat
    <3>1. IsFiniteSet(PinnedIn(pin)) /\ Cardinality(PinnedIn(pin)) <= MaxPins
      BY DEF Bounded
    <3>2. /\ IsFiniteSet(PinnedIn(pin) \cup {t})
          /\ Cardinality(PinnedIn(pin) \cup {t})
               \in {Cardinality(PinnedIn(pin)), Cardinality(PinnedIn(pin)) + 1}
      BY <3>1, FS_AddElement
    <3>3. Cardinality(PinnedIn(pin)) \in Nat
      BY <3>1, FS_CardinalityType
    <3> QED  BY <3>1, <3>2, <3>3, RoutingAssumption
  <2> HIDE DEF pins
  <2>4. IsFiniteSet(S) /\ Cardinality(S) <= MaxPins + 1 /\ Cardinality(S) \in Nat
    <3>1. IsFiniteSet(S) /\ Cardinality(S) <= Cardinality(PinnedIn(pin) \cup {t})
      BY <2>2, <2>3, FS_Subset
    <3>2. Cardinality(S) \in Nat
      BY <3>1, FS_CardinalityType
    <3> HIDE DEF S
    <3> QED  BY <2>3, <3>1, <3>2, RoutingAssumption
  <2>5. CASE ~ Overfull(pins)
    BY <2>1, <2>4, <2>5, RoutingAssumption DEF Overfull, Bounded, PinnedIn
  <2>6. CASE Overfull(pins)
    <3>1. PICK victim \in Oldest(pins, t) : pin' = Unpin(pins, {victim})
      BY <2>1, <2>6
    <3>2. victim \in S /\ PinnedIn(pin') = S \ {victim}
      BY <3>1 DEF Oldest, PinnedIn, Unpin
    <3>3. IsFiniteSet(S \ {victim}) /\ Cardinality(S \ {victim}) = Cardinality(S) - 1
      BY <2>4, <3>2, FS_RemoveElement
    <3> HIDE DEF S
    <3> QED  BY <2>4, <3>2, <3>3, RoutingAssumption DEF Bounded
  <2> QED  BY <2>5, <2>6
<1> QED  BY <1>1, <1>2

(* A routing step.                                                         *)
LEMMA RouteBounded ==
    ASSUME TypeOK, Bounded(pin), NEW r \in Requests, NEW t \in Threads \cup {NoThread},
           Route(r, t)
    PROVE  Bounded(pin')
<1>1. ASSUME Drop(t)  PROVE Bounded(pin')
  <2>1. PinnedIn(pin') \subseteq PinnedIn(pin)
    BY <1>1, DropPins DEF PinnedIn
  <2> QED  BY <2>1, FewerPins
<1>2. CASE t # NoThread /\ RouteReuse(r, t)
  <2>1. \A u \in Threads : pin'[u] # NoPin => pin[u] # NoPin
    BY <1>2 DEF RouteReuse, Reusable, Pinned, TypeOK
  <2>2. PinnedIn(pin') \subseteq PinnedIn(pin)
    BY <2>1 DEF PinnedIn
  <2> QED  BY <2>2, FewerPins
<1>3. CASE RouteReeval(r, t) \/ RouteActive(r, t)
  <2>1. \E a : Bind(t, a)
    BY <1>3 DEF RouteReeval, RouteActive
  <2> QED  BY <2>1, BindBounded
<1> QED  BY <1>1, <1>2, <1>3 DEF Route, RouteExpired, RouteNone, RouteStuck

(* A step adds one pin at most, and evicts the one that has been idle the  *)
(* longest when that is one too many.                                      *)
LEMMA BoundInductive == TypeOK /\ Bounded(pin) /\ [Next]_vars => Bounded(pin)'
<1> SUFFICES ASSUME TypeOK, Bounded(pin), [Next]_vars
             PROVE  Bounded(pin')
  BY DEF Bounded, PinnedIn
<1>1. ASSUME \A u \in Threads : pin[u] = NoPin => pin'[u] = NoPin
      PROVE  Bounded(pin')
  <2>1. PinnedIn(pin') \subseteq PinnedIn(pin)
    BY <1>1 DEF PinnedIn
  <2> QED  BY <2>1, FewerPins
<1>2. ASSUME NEW r \in Requests, RequestStep(r)
      PROVE  Bounded(pin')
  <2>1. CASE \E t \in Threads \cup {NoThread} : Route(r, t)
    BY <2>1, RouteBounded
  <2>2. CASE Outcome(r) \/ SidecarOutcome(r)
    <3>1. \E t : RecordOutcome(r, t)
      BY <2>2 DEF Outcome, SidecarOutcome
    <3> QED  BY <1>1, <3>1, OutcomePins
  <2>3. CASE TokenArrives(r) \/ TokenFails(r) \/ Return(r) \/ Cancel(r) \/ RetryElsewhere(r)
    <3>1. \A u \in Threads : pin'[u] \in {pin[u], NoPin}
      BY <2>3 DEF TokenArrives, TokenFails, Return, Cancel, RetryElsewhere, Unpin
    <3> QED  BY <1>1, <3>1
  <2> QED  BY <1>2, <2>1, <2>2, <2>3 DEF RequestStep
<1>3. CASE Outside \/ UNCHANGED vars
  <2>1. \A u \in Threads : pin[u] = NoPin => pin'[u] = NoPin
    BY <1>3 DEF Outside, Refresh, Login, Delete, Purge, Select, ReportUsage, MainChanges,
                ModeChanges, Tick, Pinned, Unpin, vars
  <2> QED  BY <1>1, <2>1
<1> QED  BY <1>2, <1>3 DEF Next

(* The map of pins never outgrows CODEX_THREAD_AFFINITY_MAX_ENTRIES,       *)
(* however many threads there are, an endless supply of them included.     *)
THEOREM AffinityIsBounded == Spec => []PinsAreBounded
<1>1. Init => Bounded(pin)
  <2> SUFFICES ASSUME Init  PROVE Bounded(pin)
    OBVIOUS
  <2>1. PinnedIn(pin) = {}
    BY DEF Init, PinnedIn
  <2> QED  BY <2>1, FS_EmptySet, RoutingAssumption DEF Bounded
<1>2. Bounded(pin) => PinsAreBounded
  BY DEF Bounded, PinnedIn, PinsAreBounded, Pinned
<1> QED  BY <1>1, <1>2, TypeCorrect, BoundInductive, PTL DEF Spec

-----------------------------------------------------------------------------
(***************************************************************************)
(* PinnedThreadsStay                                                       *)
(***************************************************************************)

(* The action of the property, for one request and one thread.             *)
Stays(r, t) ==
    LET a == pin[t].account
        b == request'[r].account
    IN
    Routed(r) /\ request'[r].thread = t /\ Reusable(t) /\ b # a =>
       /\ b \in Eligible(a) /\ usage[b] < usage[a]
       /\ ReevalDue(t) /\ Hot(a)
       /\ pin'[t].account = b /\ ~ ReevalDue(t)'

(* An eligible account that a thread is bound to becomes its pin: the      *)
(* pruning of the least recently used takes another thread's.              *)
LEMMA BindSets ==
    ASSUME TypeOK, NEW t \in Threads, NEW a \in Eligible(NoAccount), Bind(t, a)
    PROVE  pin'[t] = Fresh(a)
<1> DEFINE pins == WithPin(t, a)
<1>1. t # NoThread /\ ~ (a # Main /\ ~ record[a].live)
  BY EligibleFacts, RoutingAssumption
<1>2. pins[t] = Fresh(a)
  BY DEF WithPin, Unpin
<1>3. pin' = pins \/ \E victim \in Oldest(pins, t) : pin' = Unpin(pins, {victim})
  BY <1>1 DEF Bind
<1> HIDE DEF pins
<1> QED  BY <1>2, <1>3 DEF Oldest, Unpin

(* A request that is admitted to an eligible account is given to it.       *)
LEMMA AdmitGives ==
    ASSUME TypeOK, NEW r \in Requests, NEW t, NEW a \in Eligible(NoAccount), NEW retry,
           Admit(r, t, a, retry)
    PROVE  request'[r].account = a /\ request'[r].thread = t
<1>1. request' = [request EXCEPT ![r] = [pc |-> IF a = Main THEN "sent" ELSE "token",
                                         account |-> a, thread |-> t, retry |-> retry]]
  BY EligibleFacts DEF Admit, Answer
<1> QED  BY <1>1 DEF TypeOK

(* A routing step answers for the thread it routes.                        *)
LEMMA RouteAnswers ==
    ASSUME TypeOK, NEW r \in Requests, NEW t \in Threads \cup {NoThread}, Route(r, t)
    PROVE  request'[r].thread = t
<1>1. \A pc, a, retry : Answer(r, t, pc, a, retry) => request'[r].thread = t
  BY DEF Answer, TypeOK
<1>2. \A a, retry : Admit(r, t, a, retry) \/ Refuse(r, t) => request'[r].thread = t
  BY <1>1 DEF Admit, Refuse
<1> QED  BY <1>1, <1>2 DEF Route, RouteExpired, RouteReuse, RouteReeval, RouteNone,
            RouteStuck, RouteActive

(* What routing a request does to a thread whose pin can be used.          *)
LEMMA RouteStays ==
    ASSUME TypeOK, ReevalInterval > 0, NEW r \in Requests, NEW t \in Threads, Route(r, t)
    PROVE  Stays(r, t)
<1> DEFINE a == pin[t].account
<1> SUFFICES ASSUME Reusable(t), request'[r].account # a
             PROVE  /\ request'[r].account \in Eligible(a)
                    /\ usage[request'[r].account] < usage[a]
                    /\ ReevalDue(t) /\ Hot(a)
                    /\ pin'[t].account = request'[r].account /\ ~ ReevalDue(t)'
  BY DEF Stays
<1>1. a \in Eligible(NoAccount) /\ ~ Expired(t)
  BY PinFacts, RoutingAssumption DEF Reusable, Pinned, Eligible
<1>2. ~ RouteReuse(r, t)
  BY <1>1, AdmitGives DEF RouteReuse
<1>3. RouteReeval(r, t)
  BY <1>1, <1>2 DEF Route, RouteExpired, NeedsRouting
<1> DEFINE best == PickLower(a)
<1>4. best # a /\ Bind(t, best) /\ Admit(r, t, best, FALSE) /\ ReevalDue(t) /\ Hot(a)
  BY <1>3 DEF RouteReeval, MovesOnReeval
<1>5. best = PickLowest(a) /\ best # NoAccount /\ usage[best] < usage[a]
  BY <1>4 DEF PickLower
<1>6. best \in Eligible(a) /\ best \in Eligible(NoAccount)
  BY <1>5, PickLowestIsEligible, EligibleFacts
<1> HIDE DEF best
<1>7. request'[r].account = best /\ pin'[t] = Fresh(best)
  BY <1>4, <1>6, AdmitGives, BindSets
<1>8. pin'[t].account = best /\ pin'[t].reeval = 0
  BY <1>7 DEF Fresh
<1>9. ~ ReevalDue(t)'
  BY <1>8, RoutingAssumption DEF ReevalDue
<1> QED  BY <1>4, <1>5, <1>6, <1>7, <1>8, <1>9

(* No other step routes a request.                                         *)
LEMMA StaysStep ==
    ASSUME ReevalInterval > 0
    PROVE  TypeOK /\ [Next]_vars => [\A r \in Requests, t \in Threads : Stays(r, t)]_vars
<1> SUFFICES ASSUME TypeOK, Next, NEW r \in Requests, NEW t \in Threads
             PROVE  Stays(r, t)
  OBVIOUS
<1> SUFFICES ASSUME Routed(r), request'[r].thread = t
             PROVE  Stays(r, t)
  BY DEF Stays
<1>1. request'[r] # request[r] /\ request[r].pc = "idle"
  BY DEF Routed
<1>2. PICK q \in Requests : RequestStep(q)
  BY <1>1 DEF Next, Outside, Refresh, Login, Delete, Select, ReportUsage, MainChanges,
              ModeChanges, Tick
<1>3. q = r
  BY <1>1, <1>2, OthersStay
<1>4. PICK u \in Threads \cup {NoThread} : Route(r, u)
  BY <1>1, <1>2, <1>3 DEF RequestStep, TokenArrives, TokenFails, Return, Cancel, Outcome,
                          SidecarOutcome, RecordOutcome, RetryElsewhere
<1>5. u = t
  BY <1>4, RouteAnswers
<1> QED  BY <1>4, <1>5, RouteStays

(* A thread whose pinned account still serves is given that account, until *)
(* a re-evaluation that is due finds one of strictly lower usage while its *)
(* own is over the threshold; it is then pinned to that one, and the next  *)
(* re-evaluation is not due at once.                                       *)
THEOREM PinsAreKept ==
    ASSUME ReevalInterval > 0
    PROVE  Spec => PinnedThreadsStay
BY TypeCorrect, StaysStep, PTL DEF Spec, PinnedThreadsStay, Stays
=============================================================================
