----------------------------- MODULE CodexRouting -----------------------------
(***************************************************************************)
(* The ChatGPT account pool of src/codex/routing.ts: which account serves  *)
(* a request, which threads are pinned to which account, and what the      *)
(* outcome of a request, however late, does to the health of its account.  *)
(*                                                                         *)
(* Each function of routing.ts is synchronous, so it is one action; what   *)
(* interleaves are the requests, which await a token, the upstream and the *)
(* end of the stream between them, the management API and token refreshes. *)
(*                                                                         *)
(* Time.  A deadline is the time left until it, an event in the past is    *)
(* its age; Tick moves all of them.  An age saturates one past the limit   *)
(* the code compares it with, so the state space is finite.                *)
(***************************************************************************)
EXTENDS Integers, Sequences, FiniteSets

CONSTANTS
    Main,                \* MAIN_CODEX_ACCOUNT_ID, the login of ~/.codex
    PoolAccounts,        \* the ids a pool account may have
    InitialRank,         \* their places in config.codexAccounts at the start
    NoAccount,           \* no account id
    Threads,             \* the thread ids of x-codex-parent-thread-id
    NoThread,            \* a request without one
    Requests,            \* the requests under way
    Scores,              \* the usage scores that occur
    UnknownScore,        \* CODEX_UNKNOWN_USAGE_SCORE
    AutoSwitchThreshold, \* config.autoSwitchThreshold, 0 for off
    FailoverThreshold,   \* config.upstreamFailoverThreshold, 0 for off
    Cooldowns,           \* the durations a 429 may ask for
    AvoidLadder,         \* CODEX_TRANSIENT_SOFT_AVOID_ESCALATION_MS
    FailureWindow,       \* CODEX_FAILURE_WINDOW_MS
    IdleTTL,             \* CODEX_THREAD_AFFINITY_IDLE_TTL_MS
    ReevalInterval,      \* CODEX_THREAD_AFFINITY_REEVAL_INTERVAL_MS
    MaxPins,             \* CODEX_THREAD_AFFINITY_MAX_ENTRIES
    MaxGeneration,       \* bound: refreshes, logins, deletions per account
    Events               \* bound: the kinds of outside events that happen

Accounts == PoolAccounts \cup {Main}
EventKinds == {"refresh", "login", "delete", "select", "usage", "main",
               "mode", "tokenFailure", "retry", "sidecar"}

ASSUME RoutingAssumption ==
    /\ Main \notin PoolAccounts /\ NoAccount \notin Accounts
    /\ IsFiniteSet(PoolAccounts)
    /\ InitialRank \in [PoolAccounts -> Nat]
    /\ NoThread \notin Threads
    /\ Scores \subseteq Nat /\ UnknownScore \in Nat
    /\ AutoSwitchThreshold \in Nat /\ FailoverThreshold \in Nat
    /\ Cooldowns \subseteq Nat \ {0}
    /\ AvoidLadder \in Seq(Nat \ {0}) /\ AvoidLadder # << >>
    /\ FailureWindow \in Nat /\ IdleTTL \in Nat /\ ReevalInterval \in Nat
    /\ MaxPins \in Nat \ {0} /\ MaxGeneration \in Nat
    /\ Events \subseteq EventKinds

VARIABLES
    active,     \* config.activeCodexAccountId
    rank,       \* place of a pool account in config.codexAccounts, 0 if absent
    record,     \* its credential record: the generation, and if it is live
    mainLive,   \* isMainAccountTokenLive()
    reauth,     \* the set reauthAccounts
    usage,      \* computeCodexUsageScore of each account
    health,     \* the map upstreamHealth
    pin,        \* the map threadAccountMap
    lapsed,     \* history: threads whose pin outlived the TTL, not yet told so
    request     \* the requests under way

vars == <<active, rank, record, mainLive, reauth, usage, health, pin, lapsed, request>>

(***************************************************************************)
(* Health.  An absent entry is Healthy: the code treats no entry and an    *)
(* entry without failures and deadlines alike.  Streaks and ages saturate  *)
(* where nothing distinguishes longer ones.                                *)
(***************************************************************************)
Max2(a, b) == IF a >= b THEN a ELSE b
Min2(a, b) == IF a <= b THEN a ELSE b

MaxStreak == Max2(Max2(FailoverThreshold, Len(AvoidLadder)),
                  IF FailoverThreshold > 0 THEN 2 ELSE 1)
MaxAge == IF MaxStreak = 1 THEN 0 ELSE FailureWindow + 1

HealthState == [failures : Nat, successes : Nat, age : Nat,
                cooldown : Nat, avoid : Nat]
Healthy == [failures |-> 0, successes |-> 0, age |-> 0, cooldown |-> 0, avoid |-> 0]

NoPin == [account |-> NoAccount, generation |-> 0, idle |-> 0, reeval |-> 0]
PinState == [account : Accounts, generation : Nat, idle : Nat, reeval : Nat]

(***************************************************************************)
(* A request awaits its token, then its outcome; or it was answered with   *)
(* an error at once, a 409 if its pin had expired.  A request sent a       *)
(* second time, to another account, is a retry.                            *)
(***************************************************************************)
Idle == [pc |-> "idle", account |-> NoAccount, thread |-> NoThread, retry |-> FALSE]
RequestIn(pcs, accounts) ==
    [pc : pcs, account : accounts, thread : Threads \cup {NoThread}, retry : BOOLEAN]
RequestState == RequestIn({"idle", "refused", "expired"}, {NoAccount})
                    \cup RequestIn({"token"}, PoolAccounts)
                    \cup RequestIn({"sent"}, Accounts)

-----------------------------------------------------------------------------
(* isCodexAccountUsable, and the predicates built on it.                   *)
Configured(a) == a \in PoolAccounts /\ rank[a] > 0

Usable(a) ==
    /\ a \notin reauth
    /\ IF a = Main THEN mainLive ELSE Configured(a) /\ record[a].live

Cooling(a) == health[a].cooldown > 0
SoftAvoided(a) == health[a].avoid > 0

Selectable(a) == ~ Cooling(a) /\ ~ SoftAvoided(a) /\ Usable(a)

(* hasConfiguredPoolAccount *)
Known(a) == IF a = Main THEN Usable(Main) ELSE Configured(a)

ShouldFailover(a) ==
    /\ FailoverThreshold > 0
    /\ health[a].failures >= FailoverThreshold
    /\ health[a].age <= FailureWindow

(***************************************************************************)
(* getEligiblePoolAccounts is a list, the main account first and the rest  *)
(* in config order; pickLowestUsageCodexAccount takes the first account of *)
(* least usage in it.                                                      *)
(***************************************************************************)
Eligible(excluded) == {a \in Accounts \ {excluded} : Selectable(a)}

Precedes(a, b) == a = Main \/ (b # Main /\ rank[a] <= rank[b])

Preferred(a, b) == usage[a] < usage[b] \/ (usage[a] = usage[b] /\ Precedes(a, b))

PickLowest(excluded) ==
    LET eligible == Eligible(excluded) IN
    IF eligible = {} THEN NoAccount
    ELSE CHOOSE a \in eligible : \A b \in eligible \ {a} : Preferred(a, b)

(* pickLowerUsageAccount: strictly below the account's own usage, or stay. *)
PickLower(a) ==
    LET best == PickLowest(a) IN
    IF best # NoAccount /\ usage[best] < usage[a] THEN best ELSE a

PickNextUnknown(a) ==
    LET unknown == {b \in Eligible(a) : usage[b] >= UnknownScore} IN
    IF unknown = {} THEN NoAccount
    ELSE CHOOSE b \in unknown : \A c \in unknown \ {b} : Precedes(b, c)

Hot(a) == AutoSwitchThreshold > 0 /\ usage[a] >= AutoSwitchThreshold

AutoSwitch(a) ==                                     \* applyQuotaAutoSwitch
    IF ~ Hot(a) THEN a
    ELSE IF PickLower(a) # a THEN PickLower(a)
    ELSE IF usage[a] >= UnknownScore /\ PickNextUnknown(a) # NoAccount
    THEN PickNextUnknown(a)
    ELSE a

FailureFailover(a) ==                                \* applyFailureFailover
    IF ShouldFailover(a) /\ PickLowest(a) # NoAccount THEN PickLowest(a) ELSE a

-----------------------------------------------------------------------------
(***************************************************************************)
(* Thread affinity: the pins after bindThreadAffinity(t, a).               *)
(***************************************************************************)
Pinned(t) == pin[t] # NoPin
Expired(t) == Pinned(t) /\ pin[t].idle > IdleTTL

Unpin(pins, dropped) == [t \in Threads |-> IF t \in dropped THEN NoPin ELSE pins[t]]

PinsOf(a) == {t \in Threads : pin[t].account = a}

GenerationOf(a) == IF a = Main THEN 0 ELSE record[a].generation

Fresh(a) == [account |-> a, generation |-> GenerationOf(a), idle |-> 0, reeval |-> 0]

(* pruneExpiredThreadAffinities, then set.                                 *)
WithPin(t, a) ==
    [Unpin(pin, {u \in Threads : Expired(u)}) EXCEPT ![t] = Fresh(a)]

(* pruneLruThreadAffinities: one entry too many at most; on a tie the map  *)
(* order decides, and the entry just set comes last in it.                 *)
Oldest(pins, t) ==
    {u \in Threads \ {t} : /\ pins[u] # NoPin
                           /\ \A v \in Threads \ {t} :
                                pins[v] # NoPin => pins[v].idle <= pins[u].idle}

(* Mutant: the limit is off by one.                                        *)
OverfullByOne(pins) == Cardinality({u \in Threads : pins[u] # NoPin}) > MaxPins + 1

Overfull(pins) == Cardinality({u \in Threads : pins[u] # NoPin}) > MaxPins

Bind(t, a) ==
    IF t = NoThread THEN UNCHANGED pin
    ELSE IF a # Main /\ ~ record[a].live THEN pin' = Unpin(pin, {t})
    ELSE LET pins == WithPin(t, a) IN
         IF Overfull(pins)
         THEN \E victim \in Oldest(pins, t) : pin' = Unpin(pins, {victim})
         ELSE pin' = pins

Drop(t) == IF t = NoThread THEN UNCHANGED pin ELSE pin' = Unpin(pin, {t})

-----------------------------------------------------------------------------
(***************************************************************************)
(* resolveCodexAuthContext up to its await, for account a: a cooling       *)
(* account is refused (429), the main account needs no await, a pool       *)
(* account waits for getValidCodexToken.                                   *)
(***************************************************************************)
Answer(r, t, pc, a, retry) ==
    request' = [request EXCEPT ![r] = [pc |-> pc, account |-> a,
                                       thread |-> t, retry |-> retry]]

Refuse(r, t) == Answer(r, t, "refused", NoAccount, FALSE)

Admit(r, t, a, retry) ==
    IF Cooling(a) THEN Refuse(r, t)
    ELSE Answer(r, t, IF a = Main THEN "sent" ELSE "token", a, retry)

(***************************************************************************)
(* resolveCodexAccountForThreadDetailed: a pin past its idle TTL is        *)
(* reported once (409), a pin that still serves is used, and otherwise the *)
(* active account decides.                                                 *)
(***************************************************************************)
RouteExpired(r, t) ==
    /\ Expired(t)
    /\ Drop(t)
    /\ Answer(r, t, "expired", NoAccount, FALSE)
    /\ UNCHANGED active

GenerationLive(t) ==
    LET a == pin[t].account IN
    IF a = Main THEN pin[t].generation = 0
    ELSE record[a].live /\ record[a].generation = pin[t].generation

(* Mutant: reuse asks only for the hard cooldown, not the soft avoid.      *)
ReusableWhenAvoided(t) ==
    /\ Pinned(t) /\ ~ Expired(t)
    /\ GenerationLive(t)
    /\ Usable(pin[t].account) /\ ~ Cooling(pin[t].account)
    /\ ~ ShouldFailover(pin[t].account)

Reusable(t) ==
    /\ Pinned(t) /\ ~ Expired(t)
    /\ GenerationLive(t)
    /\ Selectable(pin[t].account)
    /\ ~ ShouldFailover(pin[t].account)

ReevalDue(t) == pin[t].reeval >= ReevalInterval

(* Mutant: every request re-evaluates.                                     *)
MovesAnyTime(t) == Hot(pin[t].account) /\ PickLower(pin[t].account) # pin[t].account

MovesOnReeval(t) ==
    /\ ReevalDue(t) /\ Hot(pin[t].account)
    /\ PickLower(pin[t].account) # pin[t].account

RouteReuse(r, t) ==
    /\ Reusable(t) /\ ~ MovesOnReeval(t)
    /\ pin' = [pin EXCEPT ![t].idle = 0,
                          ![t].reeval = IF ReevalDue(t) THEN 0 ELSE @]
    /\ Admit(r, t, pin[t].account, FALSE)
    /\ UNCHANGED active

(* The periodic re-evaluation also moves the pool's active account.        *)
RouteReeval(r, t) ==
    LET best == PickLower(pin[t].account) IN
    /\ Reusable(t) /\ MovesOnReeval(t)
    /\ active' = best
    /\ Bind(t, best)
    /\ Admit(r, t, best, FALSE)

(* No usable pin: the active account, or one chosen now if there is none.  *)
Start == IF active = NoAccount THEN PickLowest(NoAccount) ELSE active

RouteNone(r, t) ==
    /\ Start = NoAccount
    /\ Drop(t) /\ Refuse(r, t)
    /\ UNCHANGED active

(* It cannot be selected and nothing else can: go on with it, unpinned.    *)
RouteStuck(r, t) ==
    /\ Start # NoAccount /\ ~ Selectable(Start)
    /\ PickLowest(Start) = NoAccount
    /\ Drop(t)
    /\ IF Known(Start) THEN Admit(r, t, Start, FALSE) ELSE Refuse(r, t)
    /\ UNCHANGED active

Settled(a) == FailureFailover(AutoSwitch(a))

RouteActive(r, t) ==
    LET first == IF Start = NoAccount \/ Selectable(Start) THEN Start
                 ELSE PickLowest(Start)
        a == Settled(first)
    IN
    /\ first # NoAccount
    /\ active' = a
    /\ Bind(t, a)
    /\ Admit(r, t, a, FALSE)

NeedsRouting(t) == t \in Threads => ~ Expired(t) /\ ~ Reusable(t)

Route(r, t) ==
    /\ request[r].pc = "idle"
    /\ \/ /\ t # NoThread
          /\ \/ RouteExpired(r, t) \/ RouteReuse(r, t) \/ RouteReeval(r, t)
       \/ /\ NeedsRouting(t)
          /\ \/ RouteNone(r, t) \/ RouteStuck(r, t) \/ RouteActive(r, t)
    /\ lapsed' = lapsed \ {t}
    /\ UNCHANGED <<rank, record, mainLive, reauth, usage, health>>

-----------------------------------------------------------------------------
(***************************************************************************)
(* The token arrives: getValidCodexToken returned the live generation (see *)
(* AnswerIsTheRecord in CodexRefresh), and isCodexAuthContextUsable tests  *)
(* the account once more, except for a retry.                              *)
(***************************************************************************)
TokenArrives(r) ==
    /\ request[r].pc = "token"
    /\ record[request[r].account].live
    /\ IF Usable(request[r].account) \/ request[r].retry
       THEN request' = [request EXCEPT ![r].pc = "sent"]
       ELSE Refuse(r, request[r].thread)
    /\ UNCHANGED <<active, rank, record, mainLive, reauth, usage, health, pin, lapsed>>

(***************************************************************************)
(* It does not: the credential is gone, the refresh was refused (both mark *)
(* the account), or the refresh lost a conflict or a lock (no mark).       *)
(***************************************************************************)
TokenFails(r) ==
    /\ request[r].pc = "token"
    /\ "tokenFailure" \in Events \/ ~ record[request[r].account].live
    /\ reauth' \in {reauth, reauth \cup {request[r].account}}
    /\ Refuse(r, request[r].thread)
    /\ UNCHANGED <<active, rank, record, mainLive, usage, health, pin, lapsed>>

(* The error has been answered; the slot is free for another request.      *)
Return(r) ==
    /\ request[r].pc \in {"refused", "expired"}
    /\ request' = [request EXCEPT ![r] = Idle]
    /\ UNCHANGED <<active, rank, record, mainLive, reauth, usage, health, pin, lapsed>>

(* The client hangs up before the upstream answers.                        *)
Cancel(r) ==
    /\ request[r].pc = "sent"
    /\ request' = [request EXCEPT ![r] = Idle]
    /\ UNCHANGED <<active, rank, record, mainLive, reauth, usage, health, pin, lapsed>>

(***************************************************************************)
(* recordCodexUpstreamOutcome(config, a, outcome, {threadId: t}), when the *)
(* response arrives or its stream ends.  By then a may be cooling, marked, *)
(* deleted or replaced, and t pinned elsewhere: nothing but the id of the  *)
(* account is remembered.                                                  *)
(***************************************************************************)
FailoverOn == FailoverThreshold > 0

(* Mutant: a success clears the entry, the hard cooldown with it.          *)
SuccessForgetsCooldown(h) ==
    IF FailoverOn /\ h.failures >= 2 /\ h.successes + 1 < 2
    THEN [h EXCEPT !.successes = @ + 1] ELSE Healthy

AfterSuccess(h) ==
    IF FailoverOn /\ h.failures >= 2 /\ h.successes + 1 < 2
    THEN [h EXCEPT !.successes = @ + 1]
    ELSE [Healthy EXCEPT !.cooldown = h.cooldown]

AfterCredential(h) == [Healthy EXCEPT !.failures = 1]

AfterQuota(h, cooldown) == [Healthy EXCEPT !.cooldown = cooldown]

AfterTransient(h) ==
    LET stale == h.age > FailureWindow
        streak == IF stale THEN 1 ELSE Min2(h.failures + 1, MaxStreak)
        step == AvoidLadder[Min2(streak, Len(AvoidLadder))]
    IN [failures |-> streak, successes |-> 0, age |-> 0,
        cooldown |-> h.cooldown,
        avoid |-> IF FailoverOn THEN Max2(h.avoid, step) ELSE 0]

RecordSuccess(a, t) ==
    /\ health' = [health EXCEPT ![a] = AfterSuccess(@)]
    /\ UNCHANGED <<active, reauth, pin>>

(* 4xx: neither the account nor the thread is to blame.                    *)
RecordCaller(a, t) == UNCHANGED <<active, reauth, health, pin>>

RecordCredential(a, t) ==
    /\ health' = [health EXCEPT ![a] = AfterCredential(@)]
    /\ reauth' = reauth \cup {a}
    /\ pin' = Unpin(pin, PinsOf(a))
    /\ UNCHANGED active

(* Mutant: a 429 unpins only the thread it answered.                       *)
QuotaUnpinsOwnThread(a, t) ==
    /\ \E cooldown \in Cooldowns :
         health' = [health EXCEPT ![a] = AfterQuota(@, cooldown)]
    /\ pin' = Unpin(pin, {t} \cap PinsOf(a))
    /\ active' = IF active = a /\ PickLowest(a) # NoAccount
                 THEN PickLowest(a) ELSE active
    /\ UNCHANGED reauth

(* The fallback is chosen with the new health; it excludes a anyway.       *)
RecordQuota(a, t) ==
    /\ \E cooldown \in Cooldowns :
         health' = [health EXCEPT ![a] = AfterQuota(@, cooldown)]
    /\ pin' = Unpin(pin, PinsOf(a))
    /\ active' = IF active = a /\ PickLowest(a) # NoAccount
                 THEN PickLowest(a) ELSE active
    /\ UNCHANGED reauth

(* Mutant: a late failure unpins its thread from whatever it has now.      *)
TransientUnpinsThread(a, t) ==
    LET h == AfterTransient(health[a])
        tripped == FailoverOn /\ h.failures >= FailoverThreshold
    IN
    /\ health' = [health EXCEPT ![a] = h]
    /\ pin' = Unpin(pin, {t} \cup IF tripped THEN PinsOf(a) ELSE {})
    /\ active' = IF active = a /\ tripped /\ PickLowest(a) # NoAccount
                 THEN PickLowest(a) ELSE active
    /\ UNCHANGED reauth

RecordTransient(a, t) ==
    LET h == AfterTransient(health[a])
        tripped == FailoverOn /\ h.failures >= FailoverThreshold
        own == IF t # NoThread /\ FailoverOn THEN {t} ELSE {}
    IN
    /\ health' = [health EXCEPT ![a] = h]
    /\ pin' = Unpin(pin, IF tripped THEN PinsOf(a) ELSE own \cap PinsOf(a))
    /\ active' = IF active = a /\ tripped /\ PickLowest(a) # NoAccount
                 THEN PickLowest(a) ELSE active
    /\ UNCHANGED reauth

RecordOutcome(r, t) ==
    LET a == request[r].account IN
    /\ request[r].pc = "sent"
    /\ \/ RecordSuccess(a, t) \/ RecordCaller(a, t) \/ RecordCredential(a, t)
       \/ RecordQuota(a, t) \/ RecordTransient(a, t)
    /\ lapsed' = lapsed \ {u \in Threads : pin'[u] # pin[u]}
    /\ UNCHANGED <<rank, record, mainLive, usage>>

Outcome(r) ==
    /\ RecordOutcome(r, request[r].thread)
    /\ request' = [request EXCEPT ![r] = Idle]

(* A search, image or realtime sidecar keeps its account for several calls *)
(* upstream and records each of them, without naming the thread.           *)
SidecarOutcome(r) ==
    /\ "sidecar" \in Events
    /\ RecordOutcome(r, NoThread)
    /\ UNCHANGED request

(***************************************************************************)
(* A 400 that says the model is not available to this account: once, the   *)
(* request goes to the account of least usage other than this one, without *)
(* a pin.                                                                  *)
(***************************************************************************)
RetryElsewhere(r) ==
    /\ "retry" \in Events
    /\ request[r].pc = "sent" /\ ~ request[r].retry
    /\ PickLowest(request[r].account) # NoAccount
    /\ Admit(r, request[r].thread, PickLowest(request[r].account), TRUE)
    /\ UNCHANGED <<active, rank, record, mainLive, reauth, usage, health, pin, lapsed>>

-----------------------------------------------------------------------------
(***************************************************************************)
(* The outside: token refreshes (CodexRefresh), quota reports, the account *)
(* management API and the passage of time.                                 *)
(***************************************************************************)
Happens(kind) == kind \in Events

Bumpable(a) == record[a].generation < MaxGeneration

(* A refresh of the token of a, by any request or by the token guardian.   *)
Refresh(a) ==
    /\ Happens("refresh") /\ Bumpable(a)
    /\ record[a].live
    /\ record' = [record EXCEPT ![a].generation = @ + 1]
    /\ UNCHANGED <<active, rank, mainLive, reauth, usage, health, pin, lapsed, request>>

(* Sign-in or import: an account not in the list is appended to it, and    *)
(* the usage is updated if the login learned it.                           *)
Login(a) ==
    /\ Happens("login") /\ Bumpable(a)
    /\ record' = [record EXCEPT ![a] = [generation |-> @.generation + 1, live |-> TRUE]]
    /\ reauth' = reauth \ {a}
    /\ rank' = IF Configured(a) THEN rank
               ELSE [rank EXCEPT ![a] = 1 + Cardinality({b \in PoolAccounts : rank[b] > 0})]
    /\ \E score \in Scores \cup {usage[a]} : usage' = [usage EXCEPT ![a] = score]
    /\ UNCHANGED <<active, mainLive, health, pin, lapsed, request>>

(* Mutant: deletion leaves the pins.                                       *)
PurgeKeepsPins(a) ==
    /\ reauth' = reauth \ {a}
    /\ usage' = [usage EXCEPT ![a] = UnknownScore]
    /\ health' = [health EXCEPT ![a] = Healthy]
    /\ UNCHANGED <<pin, lapsed>>

(* purgeCodexAccountRuntimeState                                           *)
Purge(a) ==
    /\ reauth' = reauth \ {a}
    /\ usage' = [usage EXCEPT ![a] = UnknownScore]
    /\ pin' = Unpin(pin, PinsOf(a))
    /\ lapsed' = lapsed \ PinsOf(a)
    /\ health' = [health EXCEPT ![a] = Healthy]

(* deleteCodexAccount                                                      *)
Delete(a) ==
    /\ Happens("delete") /\ Bumpable(a)
    /\ record' = [record EXCEPT ![a] = [generation |-> @.generation + 1, live |-> FALSE]]
    /\ rank' = [b \in PoolAccounts |->
                   IF b = a THEN 0
                   ELSE IF Configured(a) /\ rank[b] > rank[a] THEN rank[b] - 1
                   ELSE rank[b]]
    /\ active' = IF active = a THEN NoAccount ELSE active
    /\ Purge(a)
    /\ UNCHANGED <<mainLive, request>>

(* PUT /api/codex-auth/active                                              *)
Select(a) ==
    /\ Happens("select")
    /\ a \in {NoAccount, Main} \/ Configured(a)
    /\ active' = a
    /\ UNCHANGED <<rank, record, mainLive, reauth, usage, health, pin, lapsed, request>>

(* updateAccountQuota, from response headers or a usage query.             *)
ReportUsage(a) ==
    /\ Happens("usage")
    /\ \E score \in Scores : usage' = [usage EXCEPT ![a] = score]
    /\ UNCHANGED <<active, rank, record, mainLive, reauth, health, pin, lapsed, request>>

(* Codex logs in or out, or the main token expires; fetchMainAccountInfo   *)
(* marks or clears the main account.                                       *)
MainChanges ==
    /\ Happens("main")
    /\ mainLive' \in BOOLEAN
    /\ reauth' \in {reauth \cup {Main}, reauth \ {Main}}
    /\ UNCHANGED <<active, rank, record, usage, health, pin, lapsed, request>>

(* The switch between Pool and Direct clears the affinity map.             *)
ModeChanges ==
    /\ Happens("mode")
    /\ pin' = Unpin(pin, Threads)
    /\ lapsed' = {}
    /\ UNCHANGED <<active, rank, record, mainLive, reauth, usage, health, request>>

(* Mutant: a deadline keeps running once it has passed.                    *)
LessForever(n) == n - 1

(* A deadline in the past is none.                                         *)
Less(n) == IF n = 0 THEN 0 ELSE n - 1

Tick ==
    /\ health' = [a \in Accounts |->
         [health[a] EXCEPT !.age = IF health[a].failures = 0 THEN 0
                                   ELSE Min2(@ + 1, MaxAge),
                           !.cooldown = Less(@), !.avoid = Less(@)]]
    /\ pin' = [t \in Threads |->
         IF Pinned(t) THEN [pin[t] EXCEPT !.idle = Min2(@ + 1, IdleTTL + 1),
                                          !.reeval = Min2(@ + 1, ReevalInterval)]
         ELSE NoPin]
    /\ lapsed' = lapsed \cup {t \in Threads : Pinned(t) /\ pin[t].idle >= IdleTTL}
    /\ UNCHANGED <<active, rank, record, mainLive, reauth, usage, request>>

-----------------------------------------------------------------------------
Init ==
    /\ active \in {NoAccount, Main} \cup {a \in PoolAccounts : InitialRank[a] > 0}
    /\ rank = InitialRank
    /\ record = [a \in PoolAccounts |->
                    IF InitialRank[a] > 0 THEN [generation |-> 1, live |-> TRUE]
                    ELSE [generation |-> 0, live |-> FALSE]]
    /\ mainLive \in BOOLEAN
    /\ reauth = {}
    /\ usage = [a \in Accounts |-> UnknownScore]
    /\ health = [a \in Accounts |-> Healthy]
    /\ pin = [t \in Threads |-> NoPin]
    /\ lapsed = {}
    /\ request = [r \in Requests |-> Idle]

RequestStep(r) ==
    \/ \E t \in Threads \cup {NoThread} : Route(r, t)
    \/ TokenArrives(r) \/ TokenFails(r) \/ Return(r) \/ Cancel(r)
    \/ Outcome(r) \/ SidecarOutcome(r) \/ RetryElsewhere(r)

Outside ==
    \/ \E a \in PoolAccounts : Refresh(a) \/ Login(a) \/ Delete(a)
    \/ \E a \in Accounts \cup {NoAccount} : Select(a)
    \/ \E a \in Accounts : ReportUsage(a)
    \/ MainChanges \/ ModeChanges \/ Tick

Next == Outside \/ \E r \in Requests : RequestStep(r)

Spec == Init /\ [][Next]_vars

-----------------------------------------------------------------------------
(***************************************************************************)
(* Properties.                                                             *)
(***************************************************************************)
(* Every variable has its type.                                            *)
TypeOK ==
    /\ active \in Accounts \cup {NoAccount}
    /\ rank \in [PoolAccounts -> Nat]
    /\ record \in [PoolAccounts -> [generation : Nat, live : BOOLEAN]]
    /\ mainLive \in BOOLEAN
    /\ reauth \subseteq Accounts
    /\ usage \in [Accounts -> Nat]
    /\ health \in [Accounts -> HealthState]
    /\ pin \in [Threads -> PinState \cup {NoPin}]
    /\ lapsed \subseteq Threads
    /\ request \in [Requests -> RequestState]

(* No thread stays pinned to an account in its quota cooldown: a 429 from  *)
(* any request clears every pin to its account, whatever routed meanwhile. *)
PinsNeverCooling ==
    \A t \in Threads : Pinned(t) => health[pin[t].account].cooldown = 0

(* A deleted account is forgotten: it is not the active one, no thread is  *)
(* pinned to it, and no pin is to a login that has not happened yet.       *)
DeletedIsForgotten ==
    /\ active \in PoolAccounts => Configured(active)
    /\ \A t \in Threads : pin[t].account \in PoolAccounts =>
          /\ Configured(pin[t].account)
          /\ record[pin[t].account].live
          /\ pin[t].generation <= record[pin[t].account].generation

(* The affinity map never outgrows CODEX_THREAD_AFFINITY_MAX_ENTRIES.      *)
PinsAreBounded == Cardinality({t \in Threads : Pinned(t)}) <= MaxPins

Routed(r) == request[r].pc = "idle" /\ request'[r].pc # "idle"

(* While some account is selectable, a request is not refused and is not   *)
(* sent to one that is cooling, soft-avoided or unusable, whatever its     *)
(* thread is pinned to; only an expired pin is reported instead.           *)
Served(r) == \/ request'[r].pc = "expired"
             \/ /\ request'[r].pc \in {"sent", "token"}
                /\ request'[r].account \in Eligible(NoAccount)

ServedWhileAnySelectable ==
    [][\A r \in Requests : Routed(r) /\ Eligible(NoAccount) # {} => Served(r)]_vars

(* However late an outcome is, it neither unpins a thread that has moved   *)
(* on to another account, nor moves the pool off another active account,   *)
(* nor touches the health of another account.                              *)
LateOutcomesSpareOthers ==
    [][\A r \in Requests :
          LET a == request[r].account IN
          request[r].pc = "sent" /\ request'[r].pc = "idle" =>
             /\ \A t \in Threads : pin[t].account # a => pin'[t] = pin[t]
             /\ active # a => active' = active
             /\ \A b \in Accounts \ {a} : health'[b] = health[b]]_vars

(* A thread pinned to an account that still serves stays there; it leaves  *)
(* only for an account of strictly lower usage, once per re-evaluation     *)
(* interval, and never while its own is below the threshold.               *)
PinnedThreadsStay ==
    [][\A r \in Requests, t \in Threads :
          LET a == pin[t].account
              b == request'[r].account
          IN
          Routed(r) /\ request'[r].thread = t /\ Reusable(t) /\ b # a =>
             /\ b \in Eligible(a) /\ usage[b] < usage[a]
             /\ ReevalDue(t) /\ Hot(a)
             /\ pin'[t].account = b /\ ~ ReevalDue(t)']_vars

(* "Hard cooldown (quota 429). Survives a later 2xx": before its time it   *)
(* ends only with the account's deletion, or with an authentication        *)
(* failure, after which the account waits for a login instead.             *)
CooldownHolds(a) ==
    health[a].cooldown > 1 /\ health'[a].cooldown = 0 =>
        a \in reauth' \/ (a \in PoolAccounts /\ ~ record'[a].live)

HardCooldownHolds == [][\A a \in Accounts : CooldownHolds(a)]_vars

(* A pin that outlived its idle time is reported to its thread before the  *)
(* thread is served by another account.                                    *)
LapsedThreadIsTold ==
    [][\A r \in Requests :
          Routed(r) /\ request'[r].thread \in lapsed
             => request'[r].pc = "expired"]_vars

(* A thread whose account still serves, and is not over the threshold,     *)
(* stays with it, also when the account's token was refreshed.             *)
TokenRefreshKeepsPins ==
    [][\A r \in Requests, t \in Threads :
          LET a == pin[t].account IN
          /\ Routed(r) /\ request'[r].thread = t
          /\ Pinned(t) /\ ~ Expired(t) /\ Selectable(a)
          /\ ~ ShouldFailover(a) /\ ~ Hot(a)
          => request'[r].account = a]_vars
=============================================================================
