# TLA+ verification of opencodex

opencodex is a local proxy between coding clients (Codex, Claude Code and others) and many model
providers. This directory models parts of it in TLA+, checks the models with TLC and proves their
main safety properties with TLAPS. It covers the parts of the program where most depends on the
order of events: the pool of ChatGPT ("Codex") accounts, which concurrent requests, background
refreshes, late upstream answers, an operator and several processes read and write at once; the
failover of requests between API keys and between combo members; a streaming turn from its request
to its end, with the shutdown around it; the turns of a WebSocket; and the files of Codex that the
proxy rewrites and must give back, whatever process was killed in between.

- [Inventory](#inventory): the system's components and what makes each correct
- [Plan](#plan): the modules, in order
- [CodexAccountStore and CodexRefresh](#codexaccountstore-and-codexrefresh)
- [CodexRouting](#codexrouting)
- [Failover: keys and combos](#failover-keys-and-combos)
- [Turns: streams and shutdown](#turns-streams-and-shutdown)
- [Sockets](#sockets)
- [CodexJournal](#codexjournal)
- [Proofs](#proofs)
- [Disagreements found](#disagreements-found)
- [Not modelled](#not-modelled)
- [Running it](#running-it)

Paths of the program are relative to `src/`, the root of the repository; its TypeScript is in
`src/src/`, and `codex/routing.ts` below stands for
`src/src/codex/routing.ts`.

## Inventory

One Node/Bun process serves HTTP and WebSocket requests on one event loop. A request for
`/v1/responses` goes through `server/responses/core.ts`: route the model (`router.ts`), choose a
credential (the Codex pool, a provider key, a combo member), translate (adapters), fetch upstream,
relay or translate the stream (`bridge.ts`, `server/relay*.ts`), record the outcome. The dashboard
talks to `server/management/*` and `codex/auth-api.ts`, which change the same configuration object
and files the requests read. Several proxy processes may share the configuration directory.

| Component | State | Operations | Interacts with | Hard part | Correct if |
|---|---|---|---|---|---|
| Account store `codex/account-store.ts` | `codex-accounts.json` (one record with a generation per account), the map `refreshLocks`, lock files | read, save, save-if-generation, tombstone, `getValidCodexToken` | auth context, API, token guardian, the token endpoint | single flight in and between processes, crashes, refresh-token rotation, late answers | no refresh overrides the user; no rotation is lost; generations identify content; every call settles |
| Pool routing `codex/routing.ts`, `account-usability.ts`, `account-runtime-state.ts` | `upstreamHealth`, `threadAccountMap`, `reauthAccounts`, `activeCodexAccountId` | resolve an account for a thread, record an outcome, purge | auth context, request handler, API | outcomes that arrive late and out of order, deadlines, generations | no pin to a limited account; serve while any account can; late outcomes stay local; deleted accounts are forgotten |
| Auth context `codex/auth-context.ts` | none | resolve, test usability, rewrite headers | routing, store | state read before an await and used after it | a context is used only for the login it was made for |
| Account lifecycle and API `codex/auth-api.ts`, `account-lifecycle.ts`, `main-account.ts`, `quota.ts`, `warmup.ts` | login flows, quota cache, configuration | login, import, delete, select, refresh quota | store, routing, WebSocket registry | deletion and import around awaits | one account list, consistent with store and runtime state |
| Responses handler `server/responses/core.ts` | per request | choose, fetch, retry once elsewhere, relay, record | everything above | exactly one outcome per attempt, cancel paths | every attempt is recorded for the account that made it |
| OpenAI sidecars `providers/openai-sidecar.ts`, `server/search.ts`, `images.ts`, `live.ts` | per request | choose an account, call several times, record each | routing | several outcomes per choice, no thread | as routing |
| Continuation state `responses/state.ts` | stored responses, size accounting | remember, expand, evict | request handler | eviction against use | an expansion is complete or refused; limits hold |
| Key failover `providers/key-failover.ts` | key cooldowns, active key in the configuration | rotate on 429 | request handler | concurrent 429s of one key | one 429 rotates once; a late one punishes no other key; given up only when all are cooling |
| Combos `combos/*.ts` | cooldowns of members, sticky selection, weights | pick, advance after a failure, note success | request handler | late results, strategy state | no member is tried twice per request; cooling members are avoided; a turn is lost only for cause |
| Run-turn queue `adapters/run-turn-queue.ts` | backlog, waiter, closed | push, close, next, preflight | adapters that run a whole turn, bridge | limit, close against wait | a bounded channel: in order, once, nothing after the end |
| SSE relays `server/relay.ts`, `relay-eager.ts` | buffers, paused, done | read, pause, wake, abort, finish | request handler, client stream | reader, consumer and abort race | terminal callback once; a paused reader is woken; memory is bounded |
| Turn registry `server/lifecycle.ts` | active turns, draining | register, drain, shut down | HTTP server | deadline against finishing turns | a turn is cut off only after the deadline; what it left is on disk |
| Bridge `bridge.ts` | per stream | pull, step, stall timer, cancel; translate events | adapters, queue, registry | errors, silence, cancel and ends in any order | one terminal event; the turn ends |
| WebSockets `server/ws-bridge.ts`, `codex/websocket-registry.ts` | current turn of a socket, sockets per account | begin and supersede a turn, pump, register, invalidate | lifecycle, request handler | deletion and supersession around every await | no turn outlives its account; a client hears its last turn only |
| Configuration injection `codex/inject.ts`, `journal.ts`, `sync.ts` | Codex's `config.toml` and profile, a journal | inject, restore, reconcile | service, CLI | kill between two files, several commands at once | an edit survives; the snapshot is the user's own text |
| OAuth store and guardian `oauth/store.ts`, `token-guardian.ts` | credentials of other providers | save, refresh in the background | adapters, guardian timer | generations, overlap with requests | as the account store |
| Codex history, catalog, shim, runtime | files of Codex | rewrite, aggregate, install | CLI | platform file systems | - |
| HTTP server, management API, compatibility endpoints | configuration object | route requests | all | handlers around awaits | - |
| Adapters, OAuth providers, provider registry, parsers, usage log, storage, CLI, service, updates, tray, `gui/`, `docs-site/` | little shared state | data conversion, I/O | - | - | - |

`PROJECT.json` lists every component with its sources and status, and under `hazards` every
place met so far where an order of events could break the code, with the property that watches it
or the reason why none does yet.

## Plan

Most important first. Parameters are CONSTANTS with a named assumption, each handler is one action,
and no module with proofs uses recursion.

| Order | Module | Models | Main properties | Status |
|---|---|---|---|---|
| 1 | `CodexAccountStore` | the record functions of `account-store.ts` | used by 2 | done |
| 2 | `CodexRefresh` (EXTENDS 1) | `getValidCodexToken`, lock files, endpoint, operator, crashes | [below](#codexaccountstore-and-codexrefresh) | done |
| 3 | `CodexRouting` | `routing.ts` with the requests, API and clock around it | [below](#codexrouting) | done |
| 4 | `CodexRoutingProofs`, `CodexRoutingSafety` | proofs about 3 | [Proofs](#proofs) | done |
| 5 | `Cooldowns`, `KeyPool`, `ComboSelection` | the cooldown tables, `key-failover.ts`, `combos/` | used by 6 | done |
| 6 | `Failover` (EXTENDS 5), `FailoverProofs` | the retry loops of the request handler over 5 | [below](#failover-keys-and-combos) | done |
| 7 | `BoundedChannel`, `EventQueue` | the abstract channel and `run-turn-queue.ts` | refinement, in 9 | done |
| 8 | `TurnRegistry`, `TurnStream`, `EagerRelay` | the two streaming paths of a turn | used by 9 | done |
| 9 | `Turns` (EXTENDS 7, 8), `TurnsProofs` | one turn and the shutdown of the process | [below](#turns-streams-and-shutdown) | done |
| 10 | `Sockets`, `SocketsProofs` | turns on WebSockets and the deletion of their accounts | [below](#sockets) | done |
| 11 | `CodexConfig`, `CodexJournal`, `JournalProofs` | `journal.ts`, `inject.ts` and the commands, killed at any write | [below](#codexjournal) | done |
| 12 | `CodexRefreshProofs`, `CodexRefreshSafety` | proofs about 2 | [Proofs](#proofs) | done |
| 13 | `OAuthStore` | `oauth/store.ts`, `token-guardian.ts` | as 2 | open |
| 14 | `CodexStoreFile` | `codex-accounts.json` under two processes | which writes survive | open |

Composition: 2 extends 1. 3 uses of 2 what 2 establishes: a token that a routed request obtains is
that of the live record (`AnswerIsTheRecord`), and a refresh raises the generation of the record
(`GenerationOrdersWrites`); so in 3 a refresh is one environment action. 6 composes the key pool and
the combo table under the two nested loops that use both; 9 composes queue, bridge, relay, registry
and shutdown in one process.

## CodexAccountStore and CodexRefresh

`CodexAccountStore` has a record and the functions that rewrite one: `Saved` (login or import),
`SavedIfGeneration` (refresh), `Tombstoned` (deletion). Each function of the code loads the file,
changes one record and replaces the file without an await, so it is one step of a process. That the
replacement is atomic between processes too is an assumption of the model (see
[Not modelled](#not-modelled)).

`CodexRefresh` is `getValidCodexToken`. A *call* is one invocation. Code and model:

| Model | Code (`codex/account-store.ts`) |
|---|---|
| `store` | `codex-accounts.json` |
| `inflight`, `Leaders` | the map `refreshLocks`, its lookup by grant fingerprint |
| `lockFile[g]` with `owner`, `written`, `aged` | the lock file of a refresh token: whose, with its content yet, older than 60 s |
| `busy[p]`, `Free` | who runs on the event loop of process `p`; settled promises resume first |
| `wire[c]` | the request to, or the answer from, the token endpoint |
| `Begin`/`Enter*` | lines 319-353: unavailable, fresh, join or lead |
| `OpenLock`, `WriteLock`, `InspectLock`, `UnlinkStale`, `Wake`, `LockTimeout` | `withCodexRefreshFileLock`; each system call is a step because another process may run in between |
| `ReadLocked` = `LockedConflict`, `LockedFresh`, `LockedAdopt`, `LockedFetch` | the decisions under the lock |
| `Receive`, `FetchTimeout`, `Release` | the answer, the 30 s abort, the `finally` blocks |
| `ResumeJoin` = `JoinRejected`, `JoinSave`, `JoinAgain` | what a joiner does when its leader settled |
| `SignIn`, `Import`, `Delete` | the management API |
| `EndpointRotates`, `EndpointKeeps`, `EndpointRefuses`, `Expire`, `Crash`, `LockAges` | the world |

Tokens are numbers; `lineage` (history) says from which login a token descends, `intent` (history)
which login the user last gave an account. `MaxToken` and `MaxOperations` bound the logins,
refreshes and operator actions. `MayAlias` says whether two accounts may hold the same refresh
token, which an import of the same credentials makes possible.

| Run | Instance | Shows |
|---|---|---|
| `refresh_alias` | 1 process, 2 calls, 2 accounts that may share a grant, 4 tokens, 2 operations | types; a deleted account stays deleted whatever answer arrives later (`DeletedStaysDeleted`); one call at a time works for a refresh token (`OneLeaderPerGrant`); a generation never returns (`GenerationOrdersWrites`); a call returns exactly what the record holds, with its generation (`AnswerIsTheRecord`) |
| `refresh_restart` | 1 process, 2 calls, 1 account, 4 tokens, 2 operations, an old lock file | the store follows the user (`StoreFollowsUser`); a dead refresh token is explained by an answer that was really lost (`LostRotationIsExplained`); every call settles (`EveryCallSettles`) |
| `refresh_alias_foreign` | as the first, 1 operation | a counterexample, see below |
| `refresh_two_processes` | 2 processes with a call each | a counterexample, see below |

Two calls are the least number with a leader and a joiner, or a leader and a rival; two accounts the
least with an alias; four tokens leave two logins or rotations after the initial ones, so that a call may be
overtaken by a rotation and a login. A third call of one process would only join as the second does:
the join path never looks at other joiners. CHECK_DEADLOCK is off because each call is made once:
when all have settled and the bounds are used up the model stops.

**Fairness** (`FairSpec`). An event loop goes on with the section it is in and drains its settled
promises: weak fairness of `LockStep` and `ResumeJoin`. A due timer (lock poll, 30 s fetch abort)
waits for the loop, which other tasks take and give back: strong fairness of `Wake` and
`FetchTimeout`. A leftover lock file grows old: weak fairness of `LockAges`. Nothing is assumed of
the endpoint, nor that the wait deadline of a lock ever strikes, so `EveryCallSettles` holds without
either. `refresh_restart` uses no symmetry, which would be unsound for liveness.

## CodexRouting

Each exported function of `codex/routing.ts` is synchronous and so one action; what interleaves are
requests (`request[r]`: idle, awaiting its token, sent, or answered with an error) and the
environment. Time is relative: a deadline is the time left, an event is its age, `Tick` moves all of
them, ages saturate one past the limit the code compares them with. So every duration of the code
(cooldowns, soft-avoid ladder, failure window, idle TTL, re-evaluation interval) is a constant, and
the state space is finite without a bound on time.

| Model | Code |
|---|---|
| `active`, `rank` | `config.activeCodexAccountId`, the order of `config.codexAccounts` |
| `record`, `mainLive`, `reauth`, `usage` | the store's generation and liveness, `isMainAccountTokenLive`, `reauthAccounts`, `computeCodexUsageScore` |
| `health[a]` | `upstreamHealth`: streak, successes, age of the last failure, cooldown, soft avoid |
| `pin[t]` | `threadAccountMap`: account, generation, idle time, time since re-evaluation |
| `lapsed` | history: threads whose pin outlived the TTL and that were not told yet |
| `Route` = `RouteExpired`, `RouteReuse`, `RouteReeval`, `RouteNone`, `RouteStuck`, `RouteActive` | `resolveCodexAccountForThreadDetailed`, one disjunct per way through it, together with `resolveCodexAuthContext` up to its await (`Admit`) |
| `TokenArrives`, `TokenFails` | the await of the token, then `isCodexAuthContextUsable` |
| `Outcome` = `RecordSuccess`, `RecordCaller`, `RecordCredential`, `RecordQuota`, `RecordTransient` | `recordCodexUpstreamOutcome` by class of outcome |
| `SidecarOutcome`, `RetryElsewhere`, `Cancel`, `Return` | several outcomes of one choice; the second attempt after a 400 for the model; the client hangs up; the error was answered |
| `Refresh`, `Login`, `Delete`/`Purge`, `Select`, `ReportUsage`, `MainChanges`, `ModeChanges`, `Tick` | the rest of the program and the world |

Choices the code makes by the order of a list (main account first, then configuration order) are
made by that order (`Precedes`, `Preferred`); eviction among pins of equal age is any of them, since
the map's order is not in the model. `Events` names the environment actions an instance includes, so
that each run spends its states on its question; between them the runs fire all of them.
`tokenFailure`, a token endpoint that refuses a live account, is in `routing_refreshed` only: it
marks the account as a 401 does, which all of them have, and the theorems include it. The token of
an account that was deleted meanwhile fails in every run with deletion.

| Run | Instance | Shows |
|---|---|---|
| `routing_outages` | 1 pool account and main, 2 threads, 2 requests, second attempts, selections, mode switches; threshold 2, ladder 1-2, room for 1 pin | no thread is pinned to a limited account (`PinsNeverCooling`); the pins stay within the limit (`PinsAreBounded`); nobody is refused or sent to an unselectable account while another could serve (`ServedWhileAnySelectable`); a quota cooldown survives later successes and failures (`HardCooldownHolds`); an outcome, however late, touches only its own account (`LateOutcomesSpareOthers`) |
| `routing_lifecycle` | 2 pool accounts (one logs in later) and main, 1 thread, 1 request; refresh, login, delete, usage, main login changes, sidecars; 2 generations | types; a deleted account is forgotten although requests it served are still to end (`DeletedIsForgotten`); a thread leaves a serving account only for one of lower usage, once per interval (`PinnedThreadsStay`) |
| `routing_lapsed` | 2 threads, expiring pins | a counterexample, see below |
| `routing_refreshed` | 2 pool accounts, token refreshes | a counterexample, see below |

The bounds: two accounts are the least where one fails over to another, two threads the least where
one request moves another's pin, two requests the least where one outcome is overtaken. A failover
threshold of 2 distinguishes "one failure" from "tripped", a ladder of two steps distinguishes
escalation from repetition, a cooldown of 2 outlives one tick. A room of one pin with two threads makes
every second binding evict. A `FailureWindow`, `IdleTTL` and `ReevalInterval` of 1 (or 0) make both
sides of each comparison reachable. No deadlock is possible: `Tick` is always enabled, and TLC
checks it.

Symmetry is used only in runs without liveness, over requests and threads, which no constant tells
apart.

Three behaviours that the model has because the code has them, and that no document excludes:

- The cooldown is tested before the token is awaited and not after
  (`assertCodexAuthContextNotCooled` has no caller): a request may leave for an account that began to
  cool meanwhile.
- An outcome names only the account id. A 401 or a failure of a request sent before an account was
  deleted and signed in again counts against the new login.
- A 401 replaces the health entry, so a login shortly after a 429 and a 401 makes the account
  selectable before its quota resets (`HardCooldownHolds` names this exit).

## Failover: keys and combos

`Failover` is the two nested loops of `server/responses/core.ts`: `handleComboResponses` hops from
member to member of a combo, and `handleResponses` goes from key to key of a provider while the
upstream answers 429. Both await between their steps, so concurrent requests interleave over the
tables they share.

| Model | Code |
|---|---|
| `Cooldowns` | the cooldown tables of `providers/key-failover.ts` and `combos/failover.ts`: the time left instead of the instant of the end |
| `pool`, `liveKey`, `keyCooling` (`KeyPool`) | `apiKeyPool`, `apiKey`, `keyCooldowns` |
| `RotateKeyOn429` = `CoolingAfter`, `LostRace`, `FreeOffsets`, `NextKey` | `rotateKeyOn429`: cool the refused key, follow one who has already rotated, or scan the pool from the refused key on |
| `AddProviderApiKey`, `SetActiveProviderApiKey`, `RemoveProviderApiKey`, `OverwriteProvider` | the management API on keys |
| `selection`, `memberCooling` (`ComboSelection`) | the sticky state and the weights of `combos/resolve.ts`, `targetCooldowns` |
| `PickComboTarget`, `PickSelection`, `SmoothWeighted`, `NoteSuccess`, `NoteFailure` | the functions of these names |
| `StartDirect`, `StartCombo`, `Succeeds`, `RateLimited`, `Breaks`, `Stops`, `Hop` (`Failover`) | a request begins, is answered, hops after its error body has been read |
| `sends` | history: how often a request was given a member |

| Run | Instance | Shows |
|---|---|---|
| `failover` | 2 requests, direct or for a combo of 2 members of equal weight (one of them on the provider with 3 keys), a payload only the second can take, sticky limit 2, cooldowns of 1, an operator on one key | types; a 429 is given up only when every key is cooling (`GivenUpOnlyWhenAllCooling`); no member twice in a request (`OncePerMember`); only the refused key is cooled (`InnocentKeysStayFree`); one rotation per refusal (`OneRotationPerRefusal`); a cooling member is given to nobody (`CoolingMembersRest`); a member's turn is lost for a reason of its own (`TurnLostForCause`); a request ends unless cooldowns keep ending or keys keep changing (`EveryRequestEnds`) |

Three keys are the least where a scan has more than one candidate; two requests the least where one
refusal meets the rotation of another, and both may be refused with the same key and answered in
either order. A sticky limit of 2 tells the last success of a turn from the others. A cooldown of
one unit ends while a request is still hopping, which is the case `OncePerMember` is about. Longer cooldowns,
`Retry-After` values and other weights add states and no new order of events; the theorems cover all
of them.

**Fairness**: `Answer(r) \/ Hop(r)` of each request, weakly: a fetch has a connect timeout and
reading an error body ends. `EveryRequestEnds` names what it does not assume: a loop whose keys are
freed by time or by the operator as fast as it uses them up may go on, since the loop over the keys
has no counter of its own (`core.ts:1582`).

Behaviours the model has because the code has them: a key that was removed while its request was
under way is found at no index, so the scan leaves out the last key (`GivenUpOnlyWhenAllCooling`
asks that the refused key is still in the pool); the later of two failures of one member may shorten
its cooldown (`CoolingMembersRest` goes by the table at the time and does not catch it); overwriting a provider does not clear the cooldowns of its keys, the other handlers do.

## Turns: streams and shutdown

`Turns` is one turn, in one of the two ways a response is streamed, and the shutdown around it.

| Model | Code |
|---|---|
| `BoundedChannel` | what the queue promises: each event once and in order, those before the end before the end, a bounded backlog whose overflow is the last event |
| `queue` (`EventQueue`): `Pushed`, `Closed`, `Taken`, `Awaiting` | `createAdapterEventQueue`; `handed` is the event in a promise that is resolved and not yet resumed |
| `turn` (`TurnStream`): `BeginTurn`, the preflight, `Pull`, the steps, `Stall`, `CancelBody`, `SocketTurnEnds` | `adapter.runTurn` with `preflightAdapterEvents`, `bridgeToResponsesSSE` and `trackStreamLifetime` |
| `relay` (`EagerRelay`) | `relaySseEagerBounded`: read, pause, wake, cancel, bounded drain, abort, the outcome recorded |
| `activeTurns`, `client` (`TurnRegistry`) | `activeTurns` of `server/lifecycle.ts` by kind of controller; the client at the other end |
| `DrainBegins`, `DeadlinePasses`, `DrainEnds`, `Exit`, `SecondSignal` | `drainAndShutdown`, and the second signal of `cli/index.ts` |
| `snapshot`, `PersistTimer`, `Flushed`, `Persisted` | the delayed write of `responses/state.ts` and its flush at shutdown; a write the disk refuses is swallowed and not tried again |

An event has a kind only: a `beat` produces no frame, `data` fills the one place of the client's
stream, `done` and `error` end it. Chunks of the relay have one size.

| Run | Instance | Shows |
|---|---|---|
| `turns` | a bridged turn over HTTP or a WebSocket, or a relayed one; backlog 2, 4 events, 5 chunks, a queue limit of 1 chunk, a drain of 2 | the queue implements the channel (`ChannelRefined`, with the refinement mapping in `Turns`); a turn has one outcome (`OneOutcome`); the relay holds at most a chunk beyond its limit (`RelayIsBounded`); a completed response is on disk after a graceful end, or the disk refused it (`CompletedIsSaved`); before its deadline a shutdown cuts off no registered turn (`NothingCutEarly`); every turn ends and leaves the registry, however silent its adapter (`EveryTurnEnds`) |

Four events fill a backlog of 2, overflow it and go on after the overflow; with an event handed to a
waiting reader and one more behind it every shape of the queue occurs. Five chunks pass the queue
limit, wake the paused producer, and outlast the drain. CHECK_DEADLOCK is off: the process ends.

**Fairness** (`FairSpec`): the code's own continuations and timers run (the steps of the bridge,
the stall timer, the cancel and drain paths of the relay), and a client reads what there is or
leaves. No adapter and no upstream has to answer, ever, and nobody has to shut down.

Behaviours the model has because the code has them: a frame on an open WebSocket starts a turn while
the server drains, where a new HTTP request is refused; the controller that a bridged body registers
leads nowhere, so the abort at the deadline reaches the adapter of a WebSocket turn only; a request
that has been let in and has no stream yet is in no registry (`NothingCutEarly` leaves it out); a relayed
turn whose client leaves is recorded as failed when the aborted fetch fails before the stream is
cancelled (`OneOutcome` says *cancelled* only of a stream that was).

## Sockets

`Sockets` is the Responses WebSocket: a socket carries one turn after another, a new frame
supersedes the turn before it, and either goes on from its await whatever happened meanwhile.

| Model | Code |
|---|---|
| `phase`, `turnId`, `cancel`, `authContext` | `ws.data` (`server/index.ts`) |
| `registry`: `Relisted`, `Opened`, `Closed`, `Delete` | `codex/websocket-registry.ts`, `deleteCodexAccount` |
| `Begin`, `Warmup` = `Supersede` | a frame `response.create` |
| `Direct`, `Pick`, `PickAnother`, `Resolved`, `Hop`, `Failed`, `Answered` | `handleResponses` as the socket sees it: which account, when it is reported, what it awaits |
| `Looked`, `Text`, `PumpFrame`, `PumpEnds` | `sendResponseToWebSocket` and the pump of `server/ws-bridge.ts` |
| `heard`, `missed` | history: what the client has heard; that the registry was last told something that is not the account of the current turn, or an account already deleted |

| Run | Instance | Shows |
|---|---|---|
| `sockets` | 2 sockets, 2 accounts, 2 frames over all sockets | a turn on a deleted account is cut off (`DeletedIsCutOff`); the registry lists every open socket under the account of its context and no other (`RegistryIsExact`); a client hears its last turn only and nothing after that turn's end (`AnswersAreCurrent`) |

Two frames are one turn superseded by another, or one turn on each of two sockets of an account; two
accounts are what a second attempt needs. An instance with three frames was checked once without an
error; it takes too long for a regular run. The theorems hold for any number of each.

`missed` marks the exceptions of `DeletedIsCutOff`, which the code has: the callback that reports an
account does not ask whether its turn is still current (`server/index.ts:775`), so a late resolution
of a superseded turn moves the socket to the wrong account, although the comment at
`index.ts:731-733` gives as the reason for clearing the context "so a failed Multi resolution cannot
leave stale invalidation ownership behind"; a combo reports its account only once a member has
answered (`core.ts:555`); and the account of a second attempt is reported after two more awaits
(`core.ts:1098`), when it may be gone. A resolution after the close lists a closed socket, which
`RegistryIsExact` allows. So neither property catches that late callback: it changes registry and
context together. Limits: one second account per turn, deleted accounts do not come back,
the last look at the store and the callback are one step, a JSON answer of several frames is one
frame, and the error frame of a handler whose log recorder throws after the end is left out.

## CodexJournal

`CodexConfig` abstracts the text of `config.toml` to what matters to the restore: the provider in
effect, the owner of the root `openai_base_url`, whether the settings no strip undoes were made, and
the user's last edit in it. `Injected` and `Stripped` are the two conversions. `CodexJournal` has the
files and the commands of `cli/index.ts` as processes.

| Model | Code |
|---|---|
| `config`, `profile`, `journal` | `config.toml`, `opencodex.config.toml`, `opencodex-journal.json` |
| `Launch`, `Reconcile`, `Start`, `Ensured`, `SyncAgain`, `StopRequested`, `Signalled`, `Cleanup` | `ocx start`, the service, `ensure`, `sync`, `restore` and `stop`; `POST /api/sync` and `/api/stop`, signals |
| `InjectReads`, `InjectWritesConfig`, `InjectWritesProfile`, `Mark` | `injectCodexConfig`, one step per write |
| `PutBackConfig`, `PutBackProfile`, `Unlink`, `Strip`, `DropProfile` | `restoreJournalState`, `restoreNativeCodex`, `removeCodexConfig`, one step per write |
| `Killed`, `EditConfig` | the world: SIGKILL or a power cut anywhere, a user's edit anywhere |
| `exposed`, `abandoned` | history: the last edit was made where no restore can see it; routing was left in a file whose journal was given up for an external provider |

| Run | Instance | Shows |
|---|---|---|
| `journal` | 2 processes of any job, 2 edits | an edit survives every later restore, injection or kill (`EditsSurvive`); the journal never holds our own routing as the user's text (`SnapshotIsNative`); an unedited `config.toml` is the journal's, one injection into it, or that stripped (`InjectionIsAccountedFor`) |

Two processes are a daemon and a command, or a killed writer and the next one; a pid is free again
as soon as its process ends, so any number of processes may run one after the other. Two edits let
one be in the snapshot and one after it. CHECK_DEADLOCK is off: the edits are bounded and everybody
may be waiting for `ocx start`.

What the model takes as given: the stretches of file writes between two awaits of different
processes do not overlap (they last milliseconds; overlapping ones can leave routing without a
journal), every replacement of a file is atomic (`atomicWriteFile`), `config.toml` exists, the user
does not edit the profile, and a pid is not given out again while a journal names it. The catalog
path, the threads' history and the routed model are left out.

Behaviours the model has because the code has them, and that no document excludes:

- A stop restores up to three times. The second finds no journal and removes
  `opencodex.config.toml`, be it the user's own, which the first has put back (`inject.ts:689`,
  although line 700 calls the restore idempotent).
- A second injection in another form leaves the hash of the first in the journal (`journal.ts:51`),
  so a restore takes our own text for an edit of the user's and strips it instead of putting the file back.
- An edit made while the journal is not marked yet is overwritten by a restore (`journal.ts:80`); this is
  `exposed`.
- `ocx ensure`, or an `ocx start` that then finds a proxy running, reconciles first and takes away
  the routing of that proxy when the journal was written by a command that has ended
  (`cli/index.ts:141`, `276`).

## Proofs

Eight modules hold the proofs. Each is about every value of the constants, from the assumptions of the
module it extends; TLC evaluates these assumptions in the runs.

| Module | Theorem | States |
|---|---|---|
| `CodexRefreshProofs` | `TypeCorrect`, `GenerationsGrow`, `DeletedAreGone`, `LeadersAreAlone`, `AnswersAreRecorded` | `TypeOK`, `GenerationOrdersWrites`, `DeletedStaysDeleted`, `OneLeaderPerGrant`, `AnswerIsTheRecord` |
| `CodexRefreshSafety` | `StoreIsTheUsers` | `~MayAlias` implies `Spec => []StoreFollowsUser` |
| | `ReceivedRotationsAreKept` | `~MayAlias` and one process imply `Spec => []LostRotationIsExplained` |
| | `OneProcessFetchesOnce` | one process implies `Spec => []OneFetchPerGrant`, aliases or not |
| `CodexRoutingProofs` | `TypeCorrect` | `Spec => []TypeOK` |
| | `PickLowestIsEligible`, `SettledIsSelectable` | lemmas worth knowing: the choice of an account is well defined, and quota switch and failure failover lead from a selectable account only to selectable ones |
| `CodexRoutingSafety` | `NoPinIsCooling` | `Spec => []PinsNeverCooling` |
| | `DeletedStaysForgotten` | `Spec => []DeletedIsForgotten` |
| | `CooldownIsHard` | `Spec => HardCooldownHolds` |
| | `PoolServes` | `Spec => ServedWhileAnySelectable` |
| | `LateOutcomesAreLocal` | `Spec => LateOutcomesSpareOthers` |
| | `AffinityIsBounded` | `Spec => []PinsAreBounded`, for infinitely many threads too |
| | `PinsAreKept` | `ReevalInterval > 0` implies `Spec => PinnedThreadsStay` |
| `FailoverProofs` | `TypeCorrect` | `Spec => []TypeOK` |
| | `CreditsAreBalanced`, `PickFindsTheEligible` | the credits of a round-robin add up to nothing, and a pick finds an eligible member whenever there is one |
| | `OncePerMemberHolds`, `RotationIsComplete` | `OncePerMember`, `GivenUpOnlyWhenAllCooling` |
| | `InnocentKeysAreSpared`, `RefusalsRotateOnce`, `FailedMembersRest`, `TurnsAreLostForCause` | the four action properties of the run |
| `TurnsProofs` | `TypeCorrect`, `TurnsEndOnce`, `RelayHoldsItsLimit`, `CompletedSurvives`, `ShutdownWaits` | `TypeOK`, `OneOutcome`, `RelayIsBounded`, `CompletedIsSaved`, `NothingCutEarly` |
| | `QueueIsChannel` | `Spec => ChannelRefined`: `EventQueue` implements `BoundedChannel` |
| `JournalProofs` | `TypeCorrect`, `EditsAreKept`, `SnapshotsAreNative`, `InjectionsAreAccountedFor` | `TypeOK` and the three invariants of the run |
| `SocketsProofs` | `TypeCorrect`, `DeletedAreCutOff`, `RegistryStaysExact`, `AnswersStayCurrent` | `TypeOK` and the three invariants of the run |

**Refresh.** `TypeInv` adds to the types which credentials exist: every token or grant in a record, a
message, a call or an answer is one of the `issued`, a call that leads or waits has a grant, and
`inflight` is exactly the set of calls that lead. The last part makes `OneLeaderPerGrant` inductive: a
call becomes a leader only in the step that finds no flight for its grant. For the other three, every
action changes a record by a save, a save at the generation read before, or a deletion.

`StoreFollowsUser` needs to know, between the steps of a refresh, whose login each grant is of. The
invariant `LineageInv` says that no two accounts have one login, that a live record descends from the
login in `intent`, that no account but its own can hold the login a call works for (`OwnerOK`), that
a response on the wire descends from the grant of the call, and that while the generation a fetch read
still stands, the record has the grant that was sent (`FetchOK`); an answer descends from the call's
login or nobody holds that login any more. The hypothesis `~MayAlias` is necessary: with an alias, a
waiter saves for its own account what its leader found in the record of the other, and `refresh_alias_foreign`
shows the property fail.

`LostRotationIsExplained` needs both hypotheses of its comment. `RotationInv` follows a grant the endpoint
has replaced: it is accounted for by one call's answer on the wire, the new grant is unseen until that call
receives it, and from then on the old one is *spent*, which means that no record has it and no other call
leads for it (`SpentOK`). That nobody brings a spent grant back is the hard part: a call that would
enter with it read the record before, so it is a waiter whose answer is older than the record; in a
single process the waiters that can resume all wait for one leader (`WaitersOK`), and that leader's
answer is the newest. With a second process a waiter can resume from an answer that another process has
rotated since. `OneProcessFetchesOnce` is the other side of the run `refresh_two_processes`: what that
run refutes holds as long as one process runs.

**Routing.** The model says "the preferred eligible account" with CHOOSE, so the types need that
one exists: in a non-empty set some account has least usage (well-foundedness of `<`), and among
those of least usage one comes first in the list. Uniqueness is not needed. `TypeOK` is then
inductive. `PinsNeverCooling` and `DeletedIsForgotten` are each inductive together with `TypeOK`, and
both rest on one fact about routing (`RoutePins`): a step of the router drops a pin, keeps its
account, or binds to an account eligible now, and an eligible account is not cooling and not deleted.
For the first, a 429 is the only way into a cooldown and drops every pin to the account. For the
second, the generation of a live record never shrinks, and `Purge` drops the pins before the account
is gone. The four action properties follow from `TypeOK` step by step. `ServedWhileAnySelectable`
needs `SettledIsSelectable`: from a selectable first account the quota switch and the failover reach
only eligible ones, so no later test can refuse.

`PinsAreBounded` is about cardinalities: a step adds one pin at most and evicts the longest idle one when
that is one too many, so `Bounded` (finitely many pins, at most `MaxPins`) is inductive. `PinnedThreadsStay` follows
from `TypeOK` by following one routing step through the tests of its affinity. It needs `ReevalInterval >
0`, since with an interval of nothing the next re-evaluation is due in the same instant; the code's is
a constant, 60 seconds (`src/codex/routing.ts:57`).

**Failover.** The invariant `FailoverInv` ties the history to the state: `sends[r][m]` is 1 for the
members in `req[r].tried` and 0 for the others, a request without a phase has tried nothing, and one
with a phase has a member and, on the pool, a key. `OncePerMember` follows at once. That a scan
which finds nothing has seen every key is arithmetic: for a refused key at position `p` of `n`, the offsets
`1 .. n - 1` modulo `n` reach every other position. The action properties need one lemma per action
about what it may change.

The weights of the smooth round-robin are a sum over a set, folded in an order that `CHOOSE` picks. The
lemmas `SumsOfSmall` to `SumOfTotals` say that it is the sum: the table that the fold's recursive function
is exists (by the size of a smallest set for which it would not), any element may be taken first, and sums of
tables add. Then a round adds `Weight` over the eligible members and takes the same from the leader, so
the credits add up to 0 (`Selection`). A leader exists because among finitely many scores one is
highest.

**Turns.** `Inv` has a part per component: `QueueOK` (a reader waits only at an empty open queue and
was told the end only of an empty closed one), `StreamOK` (nothing is told before the stream is over,
and the bridge asks only when it has nothing), `RecordOK` and `BoundOK` (what the producer counts is
never less than what the client's stream holds, although a pull resets the count), `RegistryOK`
(whatever still has a client has its controller registered, which `NothingCutEarly` needs) and
`SavedOK`. The refinement is a case split over the steps: each is a `Put`, `Overflow`, `Take` or
`Close` of the channel, a `Put` or `Take` that closes it as well, or leaves it alone.

**Journal.** `Inv` says what is true of the files between any two writes (`FilesOK`) and what each
process in the middle of its work may rely on (`ProcOK`): the text it will write contains the last
edit, or that edit is `exposed`, and is the journal's text injected once if it contains no later
edit. `Exclusive` is the one assumption about the interleaving. The invariants of the run are not
inductive alone, since what a process will write was read two steps before.

**Sockets.** `SocketOK` says of each socket by itself: the slot `cancel` is empty or that of the
current turn, a turn that is not cut and current is in that slot on an open socket and its end was not
heard, and its account is that of the context and not deleted unless `missed`. With `RegistryIsExact`
the deletion finds every such turn. Each action changes one socket (`OnlySocket`) or is `Delete`.

Every invariant and action property that a passing run checks is stated by a theorem. Model-checked only
are the liveness properties `EveryCallSettles`, `EveryRequestEnds` and `EveryTurnEnds`: liveness under fairness
is outside this prover. The four runs that show a violation are about one instance each by nature.

## Disagreements found

Each is a run that TLC must find violated; `PROJECT.json` has the quotations.

- `refresh_alias_foreign`: accounts A and B share a grant; A leads a refresh, B joins; before A
  enters the lock the user signs A in anew; A returns its new, foreign credential to the joiner, which stores
  it for B, because B still holds the old grant (`account-store.ts:333-349`, `359-367`). B then
  works with a login its user never gave it.
- `refresh_two_processes`: an empty lock file counts as stale and files are unlinked by name, so two
  processes can both get past the lock and replay one refresh token.
- `routing_lapsed`: binding any thread prunes the expired pins of all threads, so a thread that
  comes back after the idle TTL is silently given another account; only if nobody bound in between is it told (409).
- `routing_refreshed`: a token refresh raises the generation a pin is compared with, so after it the
  pinned threads are routed as new ones, possibly to another account.

## Not modelled

- The atomicity of `codex-accounts.json` between processes: load and rename are two steps in the
  code, and two processes that write at once lose a write. `CodexRefresh` takes each rewrite as one
  step.
- Of the account store, the validation metadata (it decides nothing), and the age of a lock under
  a clock that jumps.
- Direct mode of the pool (the caller's own token; routing is not used) and header rewriting.
- Deleting the id `__main__`, and the account list that the import handler writes back after its
  warmup await (`auth-api.ts:454`): both need the configuration object as state.
- Account labels, logs, quota parsing: data without control.
- The identity check of a reauthentication (`auth-api.ts:698-747`): `SignIn` admits logins that the
  code refuses. `Import` tests the account and saves in one step, although the warmup await lies between
  (`auth-api.ts:455`, `467-469`), so two imports of one new id that overlap are left out; whichever
  saves last is what the user gave last.
- The answer that a client gets when the second attempt after a 400 finds no token: the model
  refuses the request, the code returns the first 400; what is recorded is the same.
- Of the failover loops, `targetProviderIsUsable` (a provider disabled under a request), the
  deletion of a combo under way, and the single replays after a 401 and a 413, which stay with the
  member and the key.
- Of the request handler, the preparation of a request, the plain fetch path and JSON answers; of the
  SSE relays, `relay.ts` (the tee of a body, heartbeats); of the WebSockets, the transparent relay of
  live sockets. `Turns` and `Sockets` have the rest.
- What a stored response contains and when it is evicted (`responses/state.ts`): only that a
  completed one is remembered and reaches the disk.
- The store of the other OAuth providers with its background refresher, and the rewriting of Codex's
  rollout files: candidates for further modules.
- For good, the adapters (wire formats; `adapters/cursor/gen` is generated), OAuth clients, model
  catalog, shim, service managers, tray, usage log, dashboard and documentation site, which convert
  data or do platform-specific I/O with little shared state. They are most of the repository's lines.

## Running it

    tlc -config refresh_restart.cfg MCCodexRefresh
    tlc -config routing_outages.cfg MCCodexRouting
    tlc -config failover.cfg MCFailover
    tlc -config turns.cfg MCTurns
    tlc -config sockets.cfg MCSockets
    tlc -config journal.cfg MCCodexJournal
    tlapm TurnsProofs.tla

Definitions marked "mutant" in a comment of the modules hold a plausible bug; putting one in
place of its original (listed under `mutants` in `PROJECT.json`) makes TLC violate the property named
there. They show that each property can fail.
