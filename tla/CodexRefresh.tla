----------------------------- MODULE CodexRefresh -----------------------------
(***************************************************************************)
(* getValidCodexToken of src/codex/account-store.ts: every request that is *)
(* routed to a ChatGPT pool account asks it for an access token, and it    *)
(* refreshes the stored credential when the token is about to expire.      *)
(*                                                                         *)
(* Several calls run at once on the event loop of one process, and several *)
(* processes share the configuration directory.  Inside a process the      *)
(* calls for one refresh token are merged through the map refreshLocks;    *)
(* between processes a lock file per refresh token is meant to do it; the  *)
(* generation of the record guards the write.  The user may sign in,       *)
(* import or delete an account at any time, and the token endpoint may     *)
(* rotate the refresh token, keep it, refuse, or answer too late.          *)
(*                                                                         *)
(* A call runs without interruption from one await to the next: busy[p] is *)
(* the call that holds the event loop of process p.  Other processes run   *)
(* in between, so each system call on the lock file is a step.             *)
(***************************************************************************)
EXTENDS CodexAccountStore, FiniteSets

CONSTANTS
    NAccounts,      \* the accounts are 1 .. NAccounts
    Calls,          \* the calls of getValidCodexToken, each made once
    Procs,          \* the processes that share the configuration directory
    ProcOf,         \* the process each call is made in
    NoCall,         \* the absence of a call
    Gone,           \* the owner of a lock file that an earlier process left
    MayAlias,       \* two accounts may hold the same refresh token
    MaxToken,       \* bound: tokens ever issued, by the endpoint or a login
    MaxOperations   \* bound: sign-ins, imports and deletions

ASSUME RefreshAssumption ==
    /\ NAccounts \in Nat \ {0}
    /\ MaxToken \in Nat /\ MaxToken >= NAccounts
    /\ MaxOperations \in Nat
    /\ ProcOf \in [Calls -> Procs]
    /\ NoCall \notin Calls /\ Gone \notin Calls \cup {NoCall}
    /\ MayAlias \in BOOLEAN

Accounts == 1 .. NAccounts
Tokens == 1 .. MaxToken

VARIABLES
    store,      \* the records of codex-accounts.json
    intent,     \* history: the login each account was last given, 0 if none
    issued,     \* the last token number in use
    lineage,    \* history: the login a token descends from
    expired,    \* the access tokens within REFRESH_SKEW_MS of their expiry
    accepted,   \* the refresh tokens the endpoint accepts
    wire,       \* what is under way between a call and the token endpoint
    lockFile,   \* the lock file of each refresh token
    inflight,   \* the calls whose promise is in their process's refreshLocks
    busy,       \* the call that runs on each process's event loop
    operations, \* sign-ins, imports and deletions so far (for the bound)
    call        \* the state of each call

vars == <<store, intent, issued, lineage, expired, accepted, wire, lockFile,
          inflight, busy, operations, call>>
endpoint == <<issued, lineage, accepted>>

(***************************************************************************)
(* A call: where it is, its account, the refresh token it works for, the   *)
(* leader whose promise it awaits, the generation read under the lock and  *)
(* the answer it returned or threw.                                        *)
(***************************************************************************)
Pending == [kind |-> "pending", credential |-> NoCredential, generation |-> 0]
Ok(credential, generation) ==
    [kind |-> "ok", credential |-> credential, generation |-> generation]
FailedUntyped(kind) ==                 \* mutant: a bare Error is thrown
    [kind |-> "error", credential |-> NoCredential, generation |-> 0]
Failed(kind) == [kind |-> kind, credential |-> NoCredential, generation |-> 0]

Failures == {"unavailable", "conflict", "lock_timeout", "refused", "fetch_timeout"}
Answers == [kind : {"pending", "ok"} \cup Failures,
            credential : Credential, generation : Nat]

Locations == {"idle", "open", "write", "inspect", "unlink", "sleep", "locked",
              "fetch", "release", "join", "done", "dead"}

CallState == [pc : Locations, id : Accounts, grant : Nat,
              leader : Calls \cup {NoCall}, start : Nat, answer : Answers]

NoLock == [owner |-> NoCall, written |-> FALSE, aged |-> FALSE]
Leftover == [owner |-> Gone, written |-> TRUE, aged |-> FALSE]
LockState == [owner : Calls \cup {NoCall, Gone}, written : BOOLEAN, aged : BOOLEAN]

Quiet == [kind |-> "quiet", credential |-> NoCredential]
WireState == [kind : {"quiet", "request", "response", "refusal"},
              credential : Credential]

IsFresh(credential) == credential.token \notin expired
HasFresh(r) == IsLive(r) /\ IsFresh(r.credential)

Running(c) == busy[ProcOf[c]] = c
Block(c) == busy' = [busy EXCEPT ![ProcOf[c]] = NoCall]
Hold(c) == busy' = [busy EXCEPT ![ProcOf[c]] = c]

(***************************************************************************)
(* A settled promise resumes its waiters before the event loop takes the   *)
(* next timer, socket or request: Free(p) lets such a task run.            *)
(***************************************************************************)
Resumable(c) == call[c].pc = "join" /\ call[call[c].leader].pc = "done"

Free(p) ==
    /\ busy[p] = NoCall
    /\ \A c \in Calls : ProcOf[c] = p => ~ Resumable(c)

Init ==
    /\ \E aliased \in BOOLEAN :
         LET grantOf(i) == IF aliased THEN 1 ELSE i IN
         /\ aliased => MayAlias
         /\ store = [i \in Accounts |->
                        [generation |-> 1, deleted |-> FALSE,
                         credential |-> [token |-> i, grant |-> grantOf(i)]]]
         /\ intent = [i \in Accounts |-> grantOf(i)]
         /\ lineage = [t \in Tokens |-> IF t \in Accounts THEN grantOf(t) ELSE 0]
         /\ accepted = {grantOf(i) : i \in Accounts}
    /\ issued = NAccounts
    /\ expired \in SUBSET Accounts
    /\ wire = [c \in Calls |-> Quiet]
    /\ \E lock \in {NoLock, Leftover} :
         lockFile = [g \in Tokens |-> IF g = 1 THEN lock ELSE NoLock]
    /\ inflight = {}
    /\ busy = [p \in Procs |-> NoCall]
    /\ operations = 0
    /\ call = [c \in Calls |->
                 [pc |-> "idle", id |-> 1, grant |-> 0, leader |-> NoCall,
                  start |-> 0, answer |-> Pending]]

-----------------------------------------------------------------------------
(***************************************************************************)
(* The part before the first await.  The lookup in refreshLocks and the    *)
(* registration are in one uninterrupted section of the process.           *)
(***************************************************************************)
LeadersForgotten(c, grant) == {}       \* mutant: refreshLocks.set is missing

Leaders(c, grant) ==
    {d \in inflight : ProcOf[d] = ProcOf[c] /\ call[d].grant = grant}

(* No usable credential: the call throws.                                  *)
EnterUnavailable(c, i) ==
    /\ ~ IsLive(store[i])
    /\ call' = [call EXCEPT ![c].id = i, ![c].pc = "done",
                            ![c].answer = Failed("unavailable")]
    /\ UNCHANGED <<inflight, busy>>

(* The stored access token is still good.                                  *)
EnterFresh(c, i) ==
    /\ HasFresh(store[i])
    /\ call' = [call EXCEPT ![c].id = i, ![c].pc = "done",
                  ![c].answer = Ok(store[i].credential, store[i].generation)]
    /\ UNCHANGED <<inflight, busy>>

(* Another call of the process refreshes this grant: await its promise.    *)
EnterJoin(c, i) ==
    LET grant == store[i].credential.grant IN
    /\ IsLive(store[i]) /\ ~ HasFresh(store[i])
    /\ \E d \in Leaders(c, grant) :
         call' = [call EXCEPT ![c].id = i, ![c].grant = grant,
                              ![c].pc = "join", ![c].leader = d]
    /\ UNCHANGED <<inflight, busy>>

(* Nobody does: take the lead and go on to open the lock file.             *)
EnterLead(c, i) ==
    LET grant == store[i].credential.grant IN
    /\ IsLive(store[i]) /\ ~ HasFresh(store[i])
    /\ Leaders(c, grant) = {}
    /\ call' = [call EXCEPT ![c].id = i, ![c].grant = grant, ![c].pc = "open"]
    /\ inflight' = inflight \cup {c}
    /\ Hold(c)

Enter(c, i) == EnterUnavailable(c, i) \/ EnterFresh(c, i)
               \/ EnterJoin(c, i) \/ EnterLead(c, i)

Begin(c, i) ==
    /\ call[c].pc = "idle" /\ Free(ProcOf[c])
    /\ Enter(c, i)
    /\ UNCHANGED <<operations, store, intent, endpoint, expired, wire, lockFile>>

-----------------------------------------------------------------------------
(***************************************************************************)
(* withCodexRefreshFileLock.  openSync(path, "wx") creates an empty file;  *)
(* its content follows in a second system call.  An empty file reads as    *)
(* stale, because its content does not parse.                              *)
(***************************************************************************)
LockOf(c) == lockFile[call[c].grant]

OpenLock(c) ==
    /\ call[c].pc = "open" /\ Running(c)
    /\ IF LockOf(c) = NoLock
       THEN /\ lockFile' = [lockFile EXCEPT ![call[c].grant] =
                              [owner |-> c, written |-> FALSE, aged |-> FALSE]]
            /\ call' = [call EXCEPT ![c].pc = "write"]
       ELSE /\ call' = [call EXCEPT ![c].pc = "inspect"]
            /\ UNCHANGED lockFile
    /\ UNCHANGED <<operations, store, intent, endpoint, expired, wire, inflight, busy>>

(* Written through the descriptor: nothing to see if the file was unlinked. *)
WriteLock(c) ==
    /\ call[c].pc = "write" /\ Running(c)
    /\ lockFile' = [lockFile EXCEPT ![call[c].grant].written =
                                        @ \/ LockOf(c).owner = c]
    /\ call' = [call EXCEPT ![c].pc = "locked"]
    /\ UNCHANGED <<operations, store, intent, endpoint, expired, wire, inflight, busy>>

(* isRefreshLockStale, a missing file included (the read throws).          *)
IsRefreshLockMalformed(lock) == lock = NoLock \/ ~ lock.written  \* mutant: no age
IsRefreshLockStale(lock) == lock = NoLock \/ ~ lock.written \/ lock.aged

InspectLock(c) ==
    /\ call[c].pc = "inspect" /\ Running(c)
    /\ \/ /\ IsRefreshLockStale(LockOf(c))
          /\ call' = [call EXCEPT ![c].pc = "unlink"]
          /\ UNCHANGED busy
       \/ /\ ~ IsRefreshLockStale(LockOf(c))
          /\ call' = [call EXCEPT ![c].pc = "sleep"]
          /\ Block(c)
    /\ UNCHANGED <<operations, store, intent, endpoint, expired, wire, lockFile, inflight>>

(* The deadline REFRESH_LOCK_WAIT_MS has passed; there is no clock here.   *)
LockTimeout(c) ==
    /\ call[c].pc = "inspect" /\ Running(c)
    /\ ~ IsRefreshLockStale(LockOf(c))
    /\ call' = [call EXCEPT ![c].pc = "done", ![c].answer = Failed("lock_timeout")]
    /\ inflight' = inflight \ {c}
    /\ Block(c)
    /\ UNCHANGED <<operations, store, intent, endpoint, expired, wire, lockFile>>

(* unlinkSync removes whatever file now has the name.                      *)
UnlinkStale(c) ==
    /\ call[c].pc = "unlink" /\ Running(c)
    /\ lockFile' = [lockFile EXCEPT ![call[c].grant] = NoLock]
    /\ call' = [call EXCEPT ![c].pc = "open"]
    /\ UNCHANGED <<operations, store, intent, endpoint, expired, wire, inflight, busy>>

(* The poll timer fires.                                                   *)
Wake(c) ==
    /\ call[c].pc = "sleep" /\ Free(ProcOf[c])
    /\ call' = [call EXCEPT ![c].pc = "open"]
    /\ Hold(c)
    /\ UNCHANGED <<operations, store, intent, endpoint, expired, wire, lockFile, inflight>>

-----------------------------------------------------------------------------
(***************************************************************************)
(* Under the lock: the record is read again, and what it says now decides. *)
(***************************************************************************)
RecordOf(c) == store[call[c].id]

Finish(c, answer) ==
    call' = [call EXCEPT ![c].pc = "release", ![c].answer = answer]

(* The account was deleted, or holds another grant that is stale as well.  *)
LockedConflict(c) ==
    /\ \/ ~ IsLive(RecordOf(c))
       \/ /\ RecordOf(c).credential.grant # call[c].grant
          /\ ~ HasFresh(RecordOf(c))
    /\ Finish(c, Failed("conflict"))
    /\ UNCHANGED <<store, wire, busy>>

(* Somebody else has refreshed or replaced the credential meanwhile.       *)
LockedFresh(c) ==
    /\ HasFresh(RecordOf(c))
    /\ Finish(c, Ok(RecordOf(c).credential, RecordOf(c).generation))
    /\ UNCHANGED <<store, wire, busy>>

(* findFreshCredentialForGrant: other accounts with this very grant.       *)
FreshForGrant(grant, id) ==
    {j \in Accounts \ {id} : HasFresh(store[j]) /\ store[j].credential.grant = grant}

NeedsRefresh(c) ==
    /\ IsLive(RecordOf(c)) /\ ~ HasFresh(RecordOf(c))
    /\ RecordOf(c).credential.grant = call[c].grant

(* Mutant: the adopted credential is returned with the old generation.     *)
LockedAdoptOldGeneration(c) ==
    /\ NeedsRefresh(c)
    /\ \E j \in FreshForGrant(call[c].grant, call[c].id) :
         LET r == RecordOf(c)
             credential == store[j].credential
         IN
         /\ store' = [store EXCEPT ![call[c].id] =
                        SavedIfGeneration(r, r.generation, credential)]
         /\ Finish(c, Ok(credential, r.generation))
    /\ UNCHANGED <<wire, busy>>

LockedAdopt(c) ==
    /\ NeedsRefresh(c)
    /\ \E j \in FreshForGrant(call[c].grant, call[c].id) :
         LET i == call[c].id
             r == store[i]
             credential == store[j].credential
         IN
         /\ store' = [store EXCEPT ![i] =
                        SavedIfGeneration(r, r.generation, credential)]
         /\ Finish(c, Ok(credential, r.generation + 1))
    /\ UNCHANGED <<wire, busy>>

(* The request leaves; the call yields the event loop until an answer.     *)
LockedFetch(c) ==
    /\ NeedsRefresh(c)
    /\ FreshForGrant(call[c].grant, call[c].id) = {}
    /\ wire' = [wire EXCEPT ![c] =
                  [kind |-> "request",
                   credential |-> [token |-> 0, grant |-> call[c].grant]]]
    /\ call' = [call EXCEPT ![c].pc = "fetch", ![c].start = RecordOf(c).generation]
    /\ Block(c)
    /\ UNCHANGED store

ReadLocked(c) ==
    /\ call[c].pc = "locked" /\ Running(c)
    /\ \/ LockedConflict(c) \/ LockedFresh(c) \/ LockedAdopt(c) \/ LockedFetch(c)
    /\ UNCHANGED <<operations, intent, endpoint, expired, lockFile, inflight>>

-----------------------------------------------------------------------------
(* The endpoint's answer arrives: save it if the generation still stands.  *)
Receive(c) ==
    LET i == call[c].id
        start == call[c].start
        credential == wire[c].credential
    IN
    /\ call[c].pc = "fetch" /\ Free(ProcOf[c])
    /\ \/ /\ wire[c].kind = "refusal"
          /\ Finish(c, Failed("refused"))
          /\ UNCHANGED store
       \/ /\ wire[c].kind = "response"
          /\ store' = [store EXCEPT ![i] = SavedIfGeneration(@, start, credential)]
          /\ Finish(c, IF MaySave(store[i], start)
                       THEN Ok(credential, start + 1)
                       ELSE Failed("conflict"))
    /\ Hold(c)
    /\ UNCHANGED <<operations, intent, endpoint, expired, wire, lockFile, inflight>>

(* AbortSignal.timeout: the endpoint may still carry out the request.      *)
FetchTimeout(c) ==
    /\ call[c].pc = "fetch" /\ Free(ProcOf[c])
    /\ Finish(c, Failed("fetch_timeout"))
    /\ Hold(c)
    /\ UNCHANGED <<operations, store, intent, endpoint, expired, wire, lockFile, inflight>>

(* The finally blocks: unlink the name, then drop the shared promise.      *)
Release(c) ==
    /\ call[c].pc = "release" /\ Running(c)
    /\ lockFile' = [lockFile EXCEPT ![call[c].grant] = NoLock]
    /\ inflight' = inflight \ {c}
    /\ call' = [call EXCEPT ![c].pc = "done"]
    /\ Block(c)
    /\ UNCHANGED <<operations, store, intent, endpoint, expired, wire>>

(***************************************************************************)
(* The awaited leader has settled.  Its failure is thrown on; its result   *)
(* is saved for this call's account if that still holds the same grant,    *)
(* and otherwise the call starts over.                                     *)
(***************************************************************************)
JoinRejected(c) ==
    /\ call[call[c].leader].answer.kind # "ok"
    /\ call' = [call EXCEPT ![c].pc = "done", ![c].answer = call[call[c].leader].answer]
    /\ UNCHANGED <<store, inflight, busy>>

JoinSave(c) ==
    LET i == call[c].id
        shared == call[call[c].leader].answer
        generation == store[i].generation
    IN
    /\ shared.kind = "ok"
    /\ IsLive(store[i]) /\ store[i].credential.grant = call[c].grant
    /\ store' = [store EXCEPT ![i] = SavedIfGeneration(@, generation, shared.credential)]
    /\ call' = [call EXCEPT ![c].pc = "done",
                            ![c].answer = Ok(shared.credential, generation + 1)]
    /\ UNCHANGED <<inflight, busy>>

JoinAgain(c) ==
    LET i == call[c].id IN
    /\ call[call[c].leader].answer.kind = "ok"
    /\ ~ (IsLive(store[i]) /\ store[i].credential.grant = call[c].grant)
    /\ Enter(c, i)
    /\ UNCHANGED store

ResumeJoin(c) ==
    /\ Resumable(c) /\ busy[ProcOf[c]] = NoCall
    /\ \/ JoinRejected(c) \/ JoinSave(c) \/ JoinAgain(c)
    /\ UNCHANGED <<operations, intent, endpoint, expired, wire, lockFile>>

-----------------------------------------------------------------------------
(***************************************************************************)
(* The token endpoint, as the code uses it.  It may rotate the refresh     *)
(* token (the old one is no longer accepted), answer without a new one, or *)
(* refuse, as it must when the token is not accepted.                      *)
(***************************************************************************)
Issue(c, credential) ==
    /\ wire[c].kind = "request" /\ wire[c].credential.grant \in accepted
    /\ issued < MaxToken
    /\ issued' = issued + 1
    /\ lineage' = [lineage EXCEPT ![issued + 1] = lineage[wire[c].credential.grant]]
    /\ wire' = [wire EXCEPT ![c] = [kind |-> "response", credential |-> credential]]

EndpointRotates(c) ==
    /\ Issue(c, [token |-> issued + 1, grant |-> issued + 1])
    /\ accepted' = (accepted \ {wire[c].credential.grant}) \cup {issued + 1}
    /\ UNCHANGED <<operations, store, intent, expired, lockFile, inflight, busy, call>>

EndpointKeeps(c) ==
    /\ Issue(c, [token |-> issued + 1, grant |-> wire[c].credential.grant])
    /\ UNCHANGED <<operations, store, intent, accepted, expired, lockFile, inflight, busy, call>>

EndpointRefuses(c) ==
    /\ wire[c].kind = "request"
    /\ wire' = [wire EXCEPT ![c].kind = "refusal"]
    /\ UNCHANGED <<operations, store, intent, endpoint, expired, lockFile, inflight, busy, call>>

(* A stored access token comes within REFRESH_SKEW_MS of its expiry.       *)
Expire(i) ==
    /\ HasFresh(store[i])
    /\ expired' = expired \cup {store[i].credential.token}
    /\ UNCHANGED <<operations, store, intent, endpoint, wire, lockFile, inflight, busy, call>>

-----------------------------------------------------------------------------
(***************************************************************************)
(* The management API, on the event loop of a process.                     *)
(***************************************************************************)
Operable(p) ==
    /\ Free(p) /\ operations < MaxOperations
    /\ operations' = operations + 1

(* A browser sign-in (auth-api.ts, startCodexOAuthLogin): a new grant.     *)
SignIn(p, i) ==
    /\ Operable(p) /\ issued < MaxToken
    /\ issued' = issued + 1
    /\ lineage' = [lineage EXCEPT ![issued + 1] = issued + 1]
    /\ accepted' = accepted \cup {issued + 1}
    /\ store' = [store EXCEPT ![i] =
                   Saved(@, [token |-> issued + 1, grant |-> issued + 1])]
    /\ intent' = [intent EXCEPT ![i] = issued + 1]
    /\ UNCHANGED <<expired, wire, lockFile, inflight, busy, call>>

(* POST /api/codex-auth/accounts: an alias with the tokens of account j.   *)
Import(p, i, j) ==
    /\ MayAlias /\ Operable(p)
    /\ ~ IsLive(store[i]) /\ IsLive(store[j])
    /\ store' = [store EXCEPT ![i] = Saved(@, store[j].credential)]
    /\ intent' = [intent EXCEPT ![i] = intent[j]]
    /\ UNCHANGED <<endpoint, expired, wire, lockFile, inflight, busy, call>>

(* DELETE /api/codex-auth/accounts; it does not ask whether there is one.  *)
Delete(p, i) ==
    /\ Operable(p)
    /\ store' = [store EXCEPT ![i] = Tombstoned(@)]
    /\ intent' = [intent EXCEPT ![i] = 0]
    /\ UNCHANGED <<endpoint, expired, wire, lockFile, inflight, busy, call>>

(***************************************************************************)
(* A process dies with its calls; its lock files stay.  A lock file grows  *)
(* older than REFRESH_LOCK_STALE_MS (60 s) only when its owner died: a     *)
(* live owner holds it for one fetch, which gives up after 30 s.           *)
(***************************************************************************)
Active(c) == call[c].pc \notin {"idle", "done", "dead"}

Crash(p) ==
    LET victims == {c \in Calls : ProcOf[c] = p /\ Active(c)} IN
    /\ victims # {}
    /\ call' = [c \in Calls |-> IF c \in victims THEN [call[c] EXCEPT !.pc = "dead"]
                                                 ELSE call[c]]
    /\ inflight' = inflight \ victims
    /\ busy' = [busy EXCEPT ![p] = NoCall]
    /\ UNCHANGED <<operations, store, intent, endpoint, expired, wire, lockFile>>

LockAges(g) ==
    /\ lockFile[g] # NoLock /\ ~ lockFile[g].aged
    /\ \/ lockFile[g].owner = Gone
       \/ \E c \in Calls : lockFile[g].owner = c /\ call[c].pc = "dead"
    /\ lockFile' = [lockFile EXCEPT ![g].aged = TRUE]
    /\ UNCHANGED <<operations, store, intent, endpoint, expired, wire, inflight, busy, call>>

-----------------------------------------------------------------------------
LockStep(c) == OpenLock(c) \/ WriteLock(c) \/ InspectLock(c) \/ UnlinkStale(c)
               \/ ReadLocked(c) \/ Release(c)

CallStep(c) == \/ \E i \in Accounts : Begin(c, i)
               \/ LockStep(c) \/ LockTimeout(c) \/ Wake(c)
               \/ Receive(c) \/ FetchTimeout(c) \/ ResumeJoin(c)

EndpointStep(c) == EndpointRotates(c) \/ EndpointKeeps(c) \/ EndpointRefuses(c)

OperatorStep == \E p \in Procs, i \in Accounts :
                   \/ SignIn(p, i) \/ Delete(p, i)
                   \/ \E j \in Accounts \ {i} : Import(p, i, j)

Next == \/ \E c \in Calls : CallStep(c) \/ EndpointStep(c)
        \/ OperatorStep
        \/ \E i \in Accounts : Expire(i)
        \/ \E p \in Procs : Crash(p)
        \/ \E g \in Tokens : LockAges(g)

Spec == Init /\ [][Next]_vars

(***************************************************************************)
(* A process keeps executing the section it is in and drains its settled   *)
(* promises (weak fairness).  A timer that is due waits for the event      *)
(* loop, which other tasks take in turn and give back (strong fairness).   *)
(* The endpoint owes nothing, the fetch timeout does; the clock ages locks.*)
(* Nothing forces the lock-wait deadline: termination is shown without it. *)
(***************************************************************************)
Callback(c) == Wake(c) \/ FetchTimeout(c)

Fairness ==
    /\ \A c \in Calls : /\ WF_vars(LockStep(c))
                        /\ WF_vars(ResumeJoin(c))
                        /\ SF_vars(Callback(c))
    /\ WF_vars(\E g \in Tokens : LockAges(g))

FairSpec == Spec /\ Fairness

-----------------------------------------------------------------------------
(* The state has the shape the code gives it (numbers stand for tokens).   *)
TypeOK ==
    /\ store \in [Accounts -> Record]
    /\ intent \in [Accounts -> Nat]
    /\ issued \in Nat
    /\ lineage \in [Tokens -> Nat]
    /\ expired \subseteq Tokens
    /\ accepted \subseteq Nat
    /\ wire \in [Calls -> WireState]
    /\ lockFile \in [Tokens -> LockState]
    /\ inflight \subseteq Calls
    /\ busy \in [Procs -> Calls \cup {NoCall}]
    /\ operations \in Nat
    /\ call \in [Calls -> CallState]

(***************************************************************************)
(* What the store holds for an account descends from the login the user    *)
(* last gave it, and a deleted account holds nothing: no refresh, however  *)
(* late, resurrects an account or overwrites a newer login (the reason for *)
(* saveCodexAccountCredentialIfGeneration).                                *)
(***************************************************************************)
Holds(i) == IF IsLive(store[i]) THEN lineage[store[i].credential.token] ELSE 0

StoreFollowsUser == \A i \in Accounts : Holds(i) = intent[i]

(***************************************************************************)
(* The half of it that holds for aliases too: an account has a credential  *)
(* exactly when the user last gave it one.                                 *)
(***************************************************************************)
DeletedStaysDeleted == \A i \in Accounts : IsLive(store[i]) <=> intent[i] # 0

(***************************************************************************)
(* In a process, one call at a time works for a refresh token, whatever    *)
(* accounts the calls are for; the others await its promise (refreshLocks) *)
(* and so never replay a token that it is about to rotate.                 *)
(***************************************************************************)
Leading(c) == call[c].pc \in {"open", "write", "inspect", "unlink", "sleep",
                              "locked", "fetch", "release"}

OneLeaderPerGrant ==
    \A c, d \in Calls :
        (c # d /\ Leading(c) /\ Leading(d) /\ ProcOf[c] = ProcOf[d])
            => call[c].grant # call[d].grant

(***************************************************************************)
(* Two calls never have the same refresh token at the token endpoint, in   *)
(* whatever processes they run: what the lock file is for.                 *)
(***************************************************************************)
Fetching(c) == call[c].pc = "fetch"

OneFetchPerGrant ==
    \A c, d \in Calls :
        (c # d /\ Fetching(c) /\ Fetching(d)) => call[c].grant # call[d].grant

(***************************************************************************)
(* When no two accounts share a grant and one process runs: a stored       *)
(* refresh token that the endpoint no longer accepts was rotated by a call *)
(* that still waits for the answer, died, or gave up waiting.  A rotation  *)
(* whose answer the code received is never lost.                           *)
(***************************************************************************)
RotatedBy(c, grant) ==
    /\ call[c].grant = grant
    /\ wire[c].kind = "response" /\ wire[c].credential.grant # grant

LostRotationIsExplained ==
    \A i \in Accounts :
        LET grant == store[i].credential.grant IN
        (IsLive(store[i]) /\ grant \notin accepted)
            => \E c \in Calls :
                 /\ RotatedBy(c, grant)
                 /\ \/ call[c].pc \in {"fetch", "dead"}
                    \/ call[c].answer.kind = "fetch_timeout"

(***************************************************************************)
(* Each write of a record has a larger generation than the one before, a   *)
(* deletion and a later sign-in included: a remembered generation is never *)
(* the generation of some other content.                                   *)
(***************************************************************************)
GenerationOrdersWrites ==
    [][\A i \in Accounts : store'[i] # store[i]
                             => store'[i].generation > store[i].generation]_vars

(***************************************************************************)
(* At the step in which a call obtains its token, the record of its        *)
(* account is live with exactly that token at exactly that generation: the *)
(* caller tests the generation later (isCodexAuthContextUsable).           *)
(***************************************************************************)
AnswerIsTheRecord ==
    [][\A c \in Calls :
         (call'[c].answer # call[c].answer /\ call'[c].answer.kind = "ok")
            => LET r == store'[call'[c].id] IN
               /\ IsGenerationLive(r, call'[c].answer.generation)
               /\ r.credential = call'[c].answer.credential]_vars

(***************************************************************************)
(* Every call returns or throws (or dies with its process), also behind a  *)
(* lock file that a dead process left, and without the lock-wait deadline. *)
(***************************************************************************)
EveryCallSettles ==
    \A c \in Calls : (call[c].pc # "idle") ~> (call[c].pc \in {"done", "dead"})

=============================================================================
