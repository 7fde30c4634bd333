-------------------------- MODULE CodexRefreshSafety --------------------------
(***************************************************************************)
(* Proofs about what CodexRefresh stores when no two accounts share a      *)
(* refresh token: it descends from the login the user last gave the        *)
(* account, for any number of processes, and in a single process a rotated *)
(* token whose answer was received is never lost.                          *)
(***************************************************************************)
EXTENDS CodexRefreshProofs

-----------------------------------------------------------------------------
(***************************************************************************)
(* The inductive invariant about logins.                                   *)
(***************************************************************************)
Descends(k, login) == lineage[k.token] = login /\ lineage[k.grant] = login

(* The login whose refresh token a call works for.                         *)
Login(c) == lineage[call[c].grant]

TokensOK == \A t \in 1 .. issued : lineage[t] \in 1 .. issued

LoginsOK ==
    /\ \A i, j \in Accounts : intent[i] = intent[j] /\ intent[i] # 0 => i = j
    /\ \A i \in Accounts : intent[i] <= issued

RecordsOK == \A i \in Accounts : IsLive(store[i]) => Descends(store[i].credential, intent[i])

(* No account but the call's own can hold the login it works for.          *)
OwnerOK(c) ==
    call[c].grant # 0 => \A j \in Accounts : intent[j] = Login(c) => j = call[c].id

(* The answer descends from that login, unless the user has replaced it.   *)
AnswerOK(c) ==
    call[c].grant # 0 /\ call[c].answer.kind = "ok"
        => \/ Descends(call[c].answer.credential, Login(c))
           \/ \A j \in Accounts : intent[j] # Login(c)

JoinOK(c) ==
    call[c].pc = "join" =>
        LET l == call[c].leader IN
        /\ call[l].grant = call[c].grant /\ ProcOf[l] = ProcOf[c]
        /\ Leading(l) \/ call[l].pc = "done"

(* While the generation stands, the record has the grant that was sent.    *)
FetchOK(c) ==
    call[c].pc = "fetch" =>
        LET r == store[call[c].id] IN
        /\ call[c].start <= r.generation
        /\ IsGenerationLive(r, call[c].start) => r.credential.grant = call[c].grant

(* A request leaves from "fetch" only.                                     *)
Answerable(c) == call[c].pc \in {"fetch", "release", "done", "dead"}

WireOK(c) ==
    /\ wire[c].kind # "quiet" => Answerable(c) /\ call[c].grant # 0
    /\ wire[c].kind = "request" => wire[c].credential.grant = call[c].grant
    /\ wire[c].kind = "response" => Descends(wire[c].credential, Login(c))

(* A call that has not begun has no grant; one that waits, no answer.      *)
WaitOK(c) ==
    /\ call[c].pc = "idle" => call[c].grant = 0
    /\ call[c].pc \in {"idle", "join"} \cup (Leads \ {"release"})
         => call[c].answer.kind = "pending"

CallOK(c) == /\ OwnerOK(c) /\ AnswerOK(c) /\ JoinOK(c)
             /\ FetchOK(c) /\ WireOK(c) /\ WaitOK(c)

LineageInv == TokensOK /\ LoginsOK /\ RecordsOK /\ \A c \in Calls : CallOK(c)

(* All that is known of a state without aliases.                           *)
Unaliased == ~ MayAlias /\ TypeInv /\ DeletedStaysDeleted /\ LineageInv

-----------------------------------------------------------------------------
(***************************************************************************)
(* What every step leaves alone.                                           *)
(***************************************************************************)

(* The descent of an issued token is fixed; a login ends, or is the newest. *)
LEMMA WorldStep ==
    ASSUME TypeInv, ~ MayAlias, [Next]_vars
    PROVE  /\ issued \in Nat /\ issued' \in Nat /\ issued <= issued'
           /\ \A t \in 1 .. issued : lineage'[t] = lineage[t]
           /\ \A j \in Accounts : intent'[j] \in {intent[j], 0, issued + 1}
<1>0. /\ issued \in Nat /\ lineage \in [Tokens -> Nat] /\ intent \in [Accounts -> Nat]
      /\ 1 .. issued \subseteq Tokens /\ issued' \in Nat
  BY NextTyped, RefreshAssumption DEF TypeInv, Rest, Tokens
<1>1. ASSUME NEW c \in Calls, NEW k, Issue(c, k), UNCHANGED intent
      PROVE  /\ issued <= issued' /\ \A t \in 1 .. issued : lineage'[t] = lineage[t]
             /\ \A j \in Accounts : intent'[j] \in {intent[j], 0, issued + 1}
  BY <1>0, <1>1 DEF Issue
<1>2. ASSUME NEW p \in Procs, NEW i \in Accounts, SignIn(p, i)
      PROVE  /\ issued <= issued' /\ \A t \in 1 .. issued : lineage'[t] = lineage[t]
             /\ \A j \in Accounts : intent'[j] \in {intent[j], 0, issued + 1}
  BY <1>0, <1>2 DEF SignIn
<1>3. ASSUME NEW p \in Procs, NEW i \in Accounts, Delete(p, i)
      PROVE  /\ issued <= issued' /\ \A t \in 1 .. issued : lineage'[t] = lineage[t]
             /\ \A j \in Accounts : intent'[j] \in {intent[j], 0, issued + 1}
  BY <1>0, <1>3 DEF Delete, endpoint
<1>4. CASE UNCHANGED <<issued, lineage, intent>>
  BY <1>0, <1>4
<1>5. ASSUME NEW c \in Calls, CallStep(c)  PROVE UNCHANGED <<issued, lineage, intent>>
  BY <1>5 DEF CallStep, LockStep, Begin, LockTimeout, Wake, FetchTimeout, OpenLock, WriteLock,
              InspectLock, UnlinkStale, Release, ReadLocked, Receive, ResumeJoin, endpoint
<1>6. ASSUME NEW c \in Calls, EndpointStep(c)
      PROVE  UNCHANGED intent /\ (UNCHANGED <<issued, lineage>> \/ \E k : Issue(c, k))
  BY <1>6 DEF EndpointStep, EndpointRotates, EndpointKeeps, EndpointRefuses, endpoint
<1>7. CASE \/ \E i \in Accounts : Expire(i)
           \/ \E p \in Procs : Crash(p)
           \/ \E g \in Tokens : LockAges(g)
           \/ UNCHANGED vars
  BY <1>4, <1>7 DEF Expire, Crash, LockAges, endpoint, vars
<1>8. CASE \E c \in Calls : CallStep(c) \/ EndpointStep(c)
  BY <1>0, <1>1, <1>4, <1>5, <1>6, <1>8
<1>9. CASE OperatorStep
  BY <1>0, <1>2, <1>3, <1>9 DEF OperatorStep, Import
<1> QED  BY <1>0, <1>7, <1>8, <1>9 DEF Next

(* The login a call works for is an issued token and stays what it is; the *)
(* accounts that hold it can only become fewer.                            *)
LEMMA LoginStep ==
    ASSUME Unaliased, [Next]_vars, NEW g \in 1 .. issued
    PROVE  /\ lineage[g] \in 1 .. issued /\ lineage'[g] = lineage[g]
           /\ \A j \in Accounts : intent'[j] = lineage[g] => intent[j] = lineage[g]
<1>1. /\ issued \in Nat /\ lineage'[g] = lineage[g] /\ lineage[g] \in 1 .. issued
      /\ \A j \in Accounts : intent'[j] \in {intent[j], 0, issued + 1}
  BY WorldStep DEF Unaliased, LineageInv, TokensOK
<1> QED  BY <1>1

(* What descends from a login goes on to.                                  *)
LEMMA DescendsStep ==
    ASSUME Unaliased, [Next]_vars, NEW k \in Credentials(issued), NEW l, Descends(k, l)
    PROVE  Descends(k, l)'
<1>1. k.token \in 1 .. issued /\ k.grant \in 1 .. issued
  BY DEF Credentials
<1> QED  BY <1>1, WorldStep DEF Unaliased, Descends

(* A call that keeps its account and its grant keeps its login to itself,  *)
(* and with its answer or its message what these descend from.             *)
LEMMA SameGrant ==
    ASSUME Unaliased, [Next]_vars, NEW c \in Calls,
           call'[c].grant = call[c].grant, call'[c].id = call[c].id
    PROVE  /\ OwnerOK(c)'
           /\ call[c].grant # 0 => Login(c)' = Login(c) /\ call[c].grant \in 1 .. issued
           /\ call'[c].answer = call[c].answer => AnswerOK(c)'
           /\ (wire'[c] = wire[c] /\ (Answerable(c) => Answerable(c)')) => WireOK(c)'
<1>0. CallOK(c) /\ call[c] \in States(issued) /\ issued \in Nat /\ call[c] \in CallState
  BY CallTyped DEF Unaliased, LineageInv
<1>1. call[c].grant # 0 => call[c].grant \in 1 .. issued /\ Login(c)' = Login(c)
  BY <1>0, LoginStep DEF States, CallState, Login
<1>2. \A j \in Accounts : call[c].grant # 0 /\ intent'[j] = Login(c) => intent[j] = Login(c)
  BY <1>1, LoginStep DEF Login
<1>3. OwnerOK(c)'
  BY <1>0, <1>1, <1>2 DEF CallOK, OwnerOK
<1>4. ASSUME call'[c].answer = call[c].answer  PROVE AnswerOK(c)'
  <2> SUFFICES ASSUME call[c].grant # 0, call[c].answer.kind = "ok"
               PROVE  \/ Descends(call[c].answer.credential, Login(c))'
                      \/ \A j \in Accounts : intent'[j] # Login(c)
    BY <1>1, <1>4 DEF AnswerOK
  <2>1. call[c].answer.credential \in Credentials(issued)
    BY <1>0 DEF States
  <2>2. CASE Descends(call[c].answer.credential, Login(c))
    <3> DEFINE k == call[c].answer.credential
               l == Login(c)
    <3>1. lineage'[k.token] = l /\ lineage'[k.grant] = l
      BY <2>1, <2>2, DescendsStep DEF Descends, Credentials, Unaliased
    <3> QED  BY <1>1, <1>4, <3>1 DEF Descends
  <2>3. CASE \A j \in Accounts : intent[j] # Login(c)
    BY <1>2, <2>3
  <2> QED  BY <1>0, <2>2, <2>3 DEF CallOK, AnswerOK
<1>5. ASSUME wire'[c] = wire[c], Answerable(c) => Answerable(c)'
      PROVE  WireOK(c)'
  <2>1. wire'[c].kind # "quiet" => Answerable(c)' /\ call'[c].grant # 0
    BY <1>0, <1>5 DEF CallOK, WireOK
  <2>2. wire'[c].kind = "request" => wire'[c].credential.grant = call'[c].grant
    BY <1>0, <1>5 DEF CallOK, WireOK
  <2>3. ASSUME wire[c].kind = "response"  PROVE Descends(wire[c].credential, Login(c))'
    <3> DEFINE k == wire[c].credential
               l == Login(c)
    <3>1. k \in Credentials(issued) /\ Descends(k, l) /\ call[c].grant # 0
      BY <1>0, <2>3 DEF CallOK, WireOK, Unaliased, TypeInv, Holdings, Messages
    <3>2. lineage'[k.token] = l /\ lineage'[k.grant] = l
      BY <3>1, WorldStep DEF Descends, Credentials, Unaliased
    <3> QED  BY <1>1, <1>5, <3>1, <3>2 DEF Descends
  <2> QED  BY <1>5, <2>1, <2>2, <2>3 DEF WireOK
<1> QED  BY <1>1, <1>3, <1>4, <1>5

(* A leader goes on leading, is done, or dies with all that wait for it.   *)
LEMMA LeaderFate ==
    ASSUME TypeInv, [Next]_vars, NEW l \in Calls, Leading(l) \/ call[l].pc = "done"
    PROVE  /\ call'[l].grant = call[l].grant /\ call'[l].id = call[l].id
           /\ \/ Leading(l)' \/ call'[l].pc = "done"
              \/ \A c \in Calls : ProcOf[c] = ProcOf[l] => call'[c].pc # "join"
<1> DEFINE P == /\ call'[l].grant = call[l].grant /\ call'[l].id = call[l].id
                /\ \/ Leading(l)' \/ call'[l].pc = "done"
                   \/ \A c \in Calls : ProcOf[c] = ProcOf[l] => call'[c].pc # "join"
<1>0. call \in [Calls -> States(issued)] /\ \A c \in Calls : call[c] \in CallState
  BY CallTyped DEF TypeInv, Holdings
<1>1. ASSUME NEW c \in Calls, call[c].pc \in {"idle", "join"}, \E i \in Accounts : Enter(c, i)
      PROVE  P
  <2>1. l # c
    BY <1>1 DEF Leading
  <2>2. call'[l] = call[l]
    BY <1>0, <1>1, <2>1, EnterLeads
  <2> QED  BY <2>2 DEF Leading
<1>2. ASSUME NEW c \in Calls, ResumeJoin(c)  PROVE P
  <2>1. call[c].id \in Accounts /\ call[c].pc = "join"
    BY <1>0, <1>2 DEF CallState, ResumeJoin, Resumable
  <2>2. CASE JoinAgain(c)
    BY <1>1, <2>1, <2>2 DEF JoinAgain
  <2>3. CASE JoinRejected(c) \/ JoinSave(c)
    <3>1. l # c
      BY <2>1 DEF Leading
    <3>2. call'[l] = call[l]
      BY <1>0, <2>3, <3>1 DEF JoinRejected, JoinSave
    <3> QED  BY <3>2 DEF Leading
  <2> QED  BY <1>2, <2>2, <2>3 DEF ResumeJoin
<1>3. ASSUME NEW c \in Calls,
             LockStep(c) \/ LockTimeout(c) \/ Wake(c) \/ Receive(c) \/ FetchTimeout(c)
      PROVE  P
  <2>1. /\ call'[c].grant = call[c].grant /\ call'[c].id = call[c].id
        /\ Leading(c)' \/ call'[c].pc = "done"
        /\ \A d \in Calls \ {c} : call'[d] = call[d]
    <3>1. CASE OpenLock(c) \/ WriteLock(c) \/ InspectLock(c) \/ UnlinkStale(c)
               \/ Release(c) \/ Wake(c)
      BY <1>0, <3>1 DEF Wake, OpenLock, WriteLock, InspectLock, UnlinkStale, Release,
                        CallState, Leading
    <3>2. CASE LockTimeout(c) \/ Receive(c) \/ FetchTimeout(c)
      BY <1>0, <3>2 DEF LockTimeout, Receive, FetchTimeout, Finish, CallState, Leading
    <3>3. CASE ReadLocked(c)
      BY <1>0, <3>3 DEF ReadLocked, LockedConflict, LockedFresh, LockedAdopt,
                        LockedFetch, Finish, CallState, Leading
    <3> QED  BY <1>3, <3>1, <3>2, <3>3 DEF LockStep
  <2> QED  BY <2>1 DEF Leading
<1>4. ASSUME NEW p \in Procs, Crash(p)  PROVE P
  <2>1. ASSUME NEW c \in Calls
        PROVE  /\ call'[c].grant = call[c].grant /\ call'[c].id = call[c].id
               /\ call[c].pc = "join" /\ ProcOf[c] = p => call'[c].pc = "dead"
               /\ call[c].pc # "join" => call'[c].pc # "join"
               /\ ProcOf[c] # p \/ call[c].pc = "done" => call'[c].pc = call[c].pc
    BY <1>0, <1>4 DEF Crash, Active, CallState
  <2>2. CASE ProcOf[l] = p
    BY <2>1, <2>2
  <2>3. CASE ProcOf[l] # p
    BY <2>1, <2>3 DEF Leading
  <2> QED  BY <2>2, <2>3
<1>5. CASE UNCHANGED call
  BY <1>5 DEF Leading
<1>6. ASSUME NEW c \in Calls, CallStep(c)  PROVE P
  BY <1>1, <1>2, <1>3, <1>6 DEF CallStep, Begin
<1> QED  BY <1>4, <1>5, <1>6 DEF Next, OperatorStep, EndpointStep, EndpointRotates,
            EndpointKeeps, EndpointRefuses, SignIn, Delete, Import, Expire, LockAges, vars

-----------------------------------------------------------------------------
(***************************************************************************)
(* Calls that a step does not touch, and calls that it moves.              *)
(***************************************************************************)

(* What others do while a call waits.                                      *)
LEMMA OthersKeepJoin ==
    ASSUME Unaliased, [Next]_vars, NEW c \in Calls, call'[c] = call[c]
    PROVE  JoinOK(c)'
<1> SUFFICES ASSUME call[c].pc = "join"
             PROVE  LET l == call[c].leader IN
                    /\ call'[l].grant = call[c].grant /\ ProcOf[l] = ProcOf[c]
                    /\ Leading(l)' \/ call'[l].pc = "done"
  BY DEF JoinOK
<1>1. CallOK(c) /\ call[c].leader \in Calls
  BY CallTyped DEF Unaliased, LineageInv, States
<1>2. /\ call[call[c].leader].grant = call[c].grant /\ ProcOf[call[c].leader] = ProcOf[c]
      /\ Leading(call[c].leader) \/ call[call[c].leader].pc = "done"
  BY <1>1 DEF CallOK, JoinOK
<1> QED  BY <1>1, <1>2, LeaderFate DEF Unaliased

(* A record's grant changes only with its generation, so a fetch that is   *)
(* under way keeps what it knows of the record it read.                    *)
LEMMA OthersKeepFetch ==
    ASSUME Unaliased, [Next]_vars, NEW c \in Calls, call'[c] = call[c]
    PROVE  FetchOK(c)'
<1> SUFFICES ASSUME call[c].pc = "fetch"
             PROVE  LET r == store'[call[c].id] IN
                    /\ call[c].start <= r.generation
                    /\ IsGenerationLive(r, call[c].start) => r.credential.grant = call[c].grant
  BY DEF FetchOK
<1>1. CallOK(c) /\ call[c].id \in Accounts /\ call[c].start \in Nat
  BY CallTyped DEF Unaliased, LineageInv, CallState
<1> DEFINE r == store[call[c].id]
<1>2. /\ call[c].start <= r.generation
      /\ IsGenerationLive(r, call[c].start) => r.credential.grant = call[c].grant
  BY <1>1 DEF CallOK, FetchOK
<1>3. /\ r.generation \in Nat
      /\ store'[call[c].id] = r \/ store'[call[c].id].generation = r.generation + 1
  BY <1>1, RecordStep DEF Unaliased
<1> QED  BY <1>1, <1>2, <1>3 DEF IsGenerationLive

(* A call that a step leaves alone, on the wire too, keeps its part of the *)
(* invariant.                                                              *)
LEMMA Untouched ==
    ASSUME Unaliased, [Next]_vars, NEW c \in Calls, call'[c] = call[c], wire'[c] = wire[c]
    PROVE  CallOK(c)'
<1>1. WaitOK(c)
  BY DEF Unaliased, LineageInv, CallOK
<1>2. WaitOK(c)' /\ (Answerable(c) => Answerable(c)')
  BY <1>1 DEF WaitOK, Answerable
<1> QED  BY <1>2, SameGrant, OthersKeepJoin, OthersKeepFetch DEF CallOK

(* A leader that moves on without an answer.                               *)
LEMMA Advance ==
    ASSUME Unaliased, [Next]_vars, NEW c \in Calls, wire'[c] = wire[c],
           call'[c].grant = call[c].grant, call'[c].id = call[c].id,
           call'[c].answer = call[c].answer, Leading(c), call[c].pc # "fetch",
           call'[c].pc \in Leads \cup {"done", "dead"}, call'[c].pc # "fetch",
           call[c].pc = "release" => call'[c].pc \in {"done", "dead"}
    PROVE  CallOK(c)'
<1>1. WaitOK(c)
  BY DEF Unaliased, LineageInv, CallOK
<1>2. WaitOK(c)' /\ JoinOK(c)' /\ FetchOK(c)' /\ (Answerable(c) => Answerable(c)')
  BY <1>1 DEF WaitOK, JoinOK, FetchOK, Leads, Leading, Answerable
<1> QED  BY <1>2, SameGrant DEF CallOK

(* A call that gets its answer.                                            *)
LEMMA Answered ==
    ASSUME Unaliased, [Next]_vars, NEW c \in Calls, wire'[c] = wire[c],
           call'[c].grant = call[c].grant, call'[c].id = call[c].id,
           call'[c].pc \in {"release", "done", "dead"},
           call[c].grant # 0 /\ call'[c].answer.kind = "ok"
             => \/ Descends(call[c].answer.credential, Login(c))'
                \/ \A j \in Accounts : intent'[j] # Login(c)'
    PROVE  CallOK(c)'
<1>1. /\ WaitOK(c)' /\ JoinOK(c)' /\ FetchOK(c)' /\ (Answerable(c) => Answerable(c)')
  BY DEF WaitOK, JoinOK, FetchOK, Leads, Answerable
<1>2. AnswerOK(c)'
  BY DEF AnswerOK
<1> QED  BY <1>1, <1>2, SameGrant DEF CallOK

(* The credential of a record, as an answer for its account.               *)
LEMMA RecordAnswers ==
    ASSUME Unaliased, [Next]_vars, NEW c \in Calls, call[c].grant # 0,
           call'[c].grant = call[c].grant, call'[c].id = call[c].id,
           NEW k \in Credentials(issued), Descends(k, intent[call[c].id]),
           call'[c].answer.credential = k
    PROVE  \/ Descends(call[c].answer.credential, Login(c))'
           \/ \A j \in Accounts : intent'[j] # Login(c)'
<1>1. /\ Login(c)' = Login(c) /\ call[c].grant \in 1 .. issued
      /\ call[c].id \in Accounts /\ OwnerOK(c)
  BY SameGrant, CallTyped DEF Unaliased, LineageInv, CallOK, CallState
<1>2. CASE intent[call[c].id] = Login(c)
  <2>1. lineage'[k.token] = Login(c) /\ lineage'[k.grant] = Login(c)
    BY <1>2, WorldStep DEF Unaliased, Descends, Credentials
  <2> QED  BY <1>1, <2>1 DEF Descends
<1>3. CASE intent[call[c].id] # Login(c)
  <2>1. \A j \in Accounts : intent[j] # Login(c)
    BY <1>1, <1>3 DEF OwnerOK
  <2>2. \A j \in Accounts : intent'[j] = Login(c) => intent[j] = Login(c)
    BY <1>1, LoginStep DEF Login
  <2> QED  BY <1>1, <2>1, <2>2
<1> QED  BY <1>2, <1>3

(* Without aliases no two accounts have the same grant.                    *)
LEMMA NoTwins ==
    ASSUME Unaliased, NEW i \in Accounts, NEW j \in Accounts,
           IsLive(store[i]), IsLive(store[j]),
           store[i].credential.grant = store[j].credential.grant
    PROVE  i = j
  BY DEF Unaliased, LineageInv, RecordsOK, LoginsOK, Descends, DeletedStaysDeleted

-----------------------------------------------------------------------------
(***************************************************************************)
(* The call that a step moves, action by action.                           *)
(***************************************************************************)
LEMMA EnterKeeps ==
    ASSUME Unaliased, [Next]_vars, NEW c \in Calls, NEW i \in Accounts,
           call[c].pc \in {"idle", "join"}, call[c].pc = "join" => i = call[c].id,
           Enter(c, i), UNCHANGED <<store, intent, endpoint, wire>>
    PROVE  CallOK(c)'
<1>0. /\ call \in [Calls -> States(issued)] /\ call[c] \in CallState /\ CallOK(c)
      /\ call[c].grant = 0 \/ call[c].id = i
  BY CallTyped DEF Unaliased, LineageInv, TypeInv, Holdings, CallOK, WaitOK
<1>1. wire[c].kind = "quiet" /\ call[c].answer.kind = "pending"
  BY <1>0 DEF CallOK, WireOK, WaitOK, Answerable
<1>2. CASE EnterUnavailable(c, i)
  <2>1. /\ call'[c].grant = call[c].grant /\ call'[c].id = i /\ call'[c].pc = "done"
        /\ call'[c].answer = Failed("unavailable")
    BY <1>0, <1>2 DEF EnterUnavailable, CallState
  <2>2. OwnerOK(c)' /\ AnswerOK(c)'
    BY <1>0, <2>1, SameGrant DEF OwnerOK, AnswerOK, Failed
  <2> QED  BY <1>1, <2>1, <2>2 DEF CallOK, JoinOK, FetchOK, WireOK, WaitOK, Leads
<1>3. CASE EnterFresh(c, i)
  <2>1. /\ call'[c].grant = call[c].grant /\ call'[c].id = i /\ call'[c].pc = "done"
        /\ call'[c].answer.credential = store[i].credential
    BY <1>0, <1>3 DEF EnterFresh, CallState, Ok
  <2>2. /\ store[i].credential \in Credentials(issued)
        /\ Descends(store[i].credential, intent[i])
    BY <1>3, LiveIsIssued DEF EnterFresh, HasFresh, Unaliased, LineageInv, RecordsOK
  <2>3. CASE call[c].grant = 0
    BY <1>1, <2>1, <2>3 DEF CallOK, OwnerOK, AnswerOK, JoinOK, FetchOK, WireOK, WaitOK, Leads
  <2>4. CASE call[c].grant # 0
    <3>1. call'[c].id = call[c].id
      BY <1>0, <2>1, <2>4
    <3>2. \/ Descends(call[c].answer.credential, Login(c))'
          \/ \A j \in Accounts : intent'[j] # Login(c)'
      BY <2>1, <2>2, <2>4, <3>1, RecordAnswers
    <3>3. wire'[c] = wire[c]
      OBVIOUS
    <3> QED  BY <2>1, <3>1, <3>2, <3>3, Answered
  <2> QED  BY <2>3, <2>4
<1>4. CASE EnterJoin(c, i)
  <2> DEFINE g == store[i].credential.grant
  <2>1. PICK d \in Leaders(c, g) :
          call' = [call EXCEPT ![c].id = i, ![c].grant = g, ![c].pc = "join", ![c].leader = d]
    BY <1>4 DEF EnterJoin
  <2>2. /\ call'[c].grant = g /\ call'[c].id = i /\ call'[c].pc = "join"
        /\ call'[c].leader = d /\ call'[c].answer = call[c].answer
    BY <1>0, <2>1 DEF CallState
  <2>3. d \in Calls /\ Leading(d) /\ ProcOf[d] = ProcOf[c] /\ call[d].grant = g
    BY DEF Leaders, Unaliased, TypeInv
  <2>4. call'[d] = call[d]
    BY <1>0, <2>1, <2>3 DEF Leading
  <2>5. JoinOK(c)'
    BY <2>2, <2>3, <2>4 DEF JoinOK, Leading
  <2>6. OwnerOK(c)'
    <3>1. lineage[g] = intent[i] /\ intent[i] # 0 /\ lineage' = lineage /\ intent' = intent
      BY <1>4 DEF EnterJoin, Unaliased, LineageInv, RecordsOK, Descends, DeletedStaysDeleted,
                  endpoint
    <3> QED  BY <2>2, <3>1 DEF OwnerOK, Login, Unaliased, LineageInv, LoginsOK
  <2> QED  BY <1>1, <2>2, <2>5, <2>6 DEF CallOK, AnswerOK, FetchOK, WireOK, WaitOK
<1>5. CASE EnterLead(c, i)
  <2> DEFINE g == store[i].credential.grant
  <2>1. /\ call'[c].grant = g /\ call'[c].id = i /\ call'[c].pc = "open"
        /\ call'[c].answer = call[c].answer
    BY <1>0, <1>5 DEF EnterLead, CallState
  <2>2. OwnerOK(c)'
    <3>1. lineage[g] = intent[i] /\ intent[i] # 0 /\ lineage' = lineage /\ intent' = intent
      BY <1>5 DEF EnterLead, Unaliased, LineageInv, RecordsOK, Descends, DeletedStaysDeleted,
                  endpoint
    <3> QED  BY <2>1, <3>1 DEF OwnerOK, Login, Unaliased, LineageInv, LoginsOK
  <2> QED  BY <1>1, <2>1, <2>2 DEF CallOK, AnswerOK, JoinOK, FetchOK, WireOK, WaitOK
<1> QED  BY <1>2, <1>3, <1>4, <1>5 DEF Enter

(* The lock file, and the end of the wait for it.                          *)
LEMMA LockKeeps ==
    ASSUME Unaliased, [Next]_vars, NEW c \in Calls,
           OpenLock(c) \/ WriteLock(c) \/ InspectLock(c) \/ UnlinkStale(c)
             \/ LockTimeout(c) \/ Wake(c) \/ Release(c)
    PROVE  CallOK(c)'
<1>0. call \in [Calls -> States(issued)] /\ call[c] \in CallState
  BY CallTyped DEF Unaliased, TypeInv, Holdings
<1>1. CASE OpenLock(c) \/ WriteLock(c) \/ InspectLock(c) \/ UnlinkStale(c)
           \/ Wake(c) \/ Release(c)
  <2>1. /\ wire'[c] = wire[c] /\ call'[c].grant = call[c].grant /\ call'[c].id = call[c].id
        /\ call'[c].answer = call[c].answer
    BY <1>0, <1>1 DEF OpenLock, WriteLock, InspectLock, UnlinkStale, Wake, Release, CallState
  <2>2. /\ Leading(c) /\ call[c].pc # "fetch"
        /\ call'[c].pc \in Leads \cup {"done", "dead"} /\ call'[c].pc # "fetch"
        /\ call[c].pc = "release" => call'[c].pc \in {"done", "dead"}
    BY <1>0, <1>1 DEF OpenLock, WriteLock, InspectLock, UnlinkStale, Wake, Release, CallState,
                      Leading, Leads
  <2> QED  BY <2>1, <2>2, Advance
<1>2. CASE LockTimeout(c)
  <2>1. /\ wire'[c] = wire[c] /\ call'[c].grant = call[c].grant /\ call'[c].id = call[c].id
        /\ call'[c].pc = "done" /\ call'[c].answer.kind # "ok"
    BY <1>0, <1>2 DEF LockTimeout, CallState, Failed
  <2> QED  BY <2>1, Answered
<1> QED  BY <1>1, <1>2

(* An answer that is a failure, and one that is the call's own record.     *)
LEMMA FinishKeeps ==
    ASSUME Unaliased, [Next]_vars, NEW c \in Calls, NEW a, Finish(c, a), wire'[c] = wire[c],
           call[c].grant # 0 /\ a.kind = "ok"
             => \E k \in Credentials(issued) :
                  /\ a.credential = k
                  /\ Descends(k, intent[call[c].id]) \/ Descends(k, Login(c))
    PROVE  CallOK(c)'
<1>0. call \in [Calls -> States(issued)] /\ call[c] \in CallState
  BY CallTyped DEF Unaliased, TypeInv, Holdings
<1>1. /\ call'[c].grant = call[c].grant /\ call'[c].id = call[c].id
      /\ call'[c].pc = "release" /\ call'[c].answer = a
  BY <1>0 DEF Finish, CallState
<1>2. ASSUME call[c].grant # 0, a.kind = "ok"
      PROVE  \/ Descends(call[c].answer.credential, Login(c))'
             \/ \A j \in Accounts : intent'[j] # Login(c)'
  <2>1. PICK k \in Credentials(issued) :
          /\ a.credential = k
          /\ Descends(k, intent[call[c].id]) \/ Descends(k, Login(c))
    BY <1>2
  <2>2. CASE Descends(k, intent[call[c].id])
    BY <1>1, <1>2, <2>1, <2>2, RecordAnswers
  <2>3. CASE Descends(k, Login(c))
    <3>1. lineage'[k.token] = Login(c) /\ lineage'[k.grant] = Login(c) /\ Login(c)' = Login(c)
      BY <1>1, <1>2, <2>3, WorldStep, SameGrant DEF Descends, Credentials, Unaliased
    <3> QED  BY <1>1, <2>1, <3>1 DEF Descends
  <2> QED  BY <2>1, <2>2, <2>3
<1> QED  BY <1>1, <1>2, Answered

(* No other account has the grant of a live record: nothing is adopted.    *)
LEMMA NothingToAdopt ==
    ASSUME Unaliased, NEW c \in Calls, NeedsRefresh(c)
    PROVE  FreshForGrant(call[c].grant, call[c].id) = {}
<1>1. call[c].id \in Accounts
  BY CallTyped DEF Unaliased, CallState
<1> QED  BY <1>1, NoTwins DEF FreshForGrant, NeedsRefresh, RecordOf, HasFresh

(* The reading of the record under the lock: conflict, a fresh token of    *)
(* another process, or the fetch.                                          *)
LEMMA ReadLockedKeeps ==
    ASSUME Unaliased, [Next]_vars, NEW c \in Calls, ReadLocked(c)
    PROVE  CallOK(c)'
<1>0. /\ call \in [Calls -> States(issued)] /\ call[c] \in CallState /\ CallOK(c)
      /\ call[c].id \in Accounts /\ call[c].grant # 0
  BY CallTyped DEF Unaliased, LineageInv, TypeInv, Holdings, CallState, ReadLocked, States, Leads
<1>1. CASE LockedConflict(c)
  BY <1>1, FinishKeeps DEF LockedConflict, Failed
<1>2. CASE LockedFresh(c)
  <2> DEFINE r == store[call[c].id]
  <2>1. IsLive(r) /\ Finish(c, Ok(r.credential, r.generation)) /\ wire' = wire
    BY <1>2 DEF LockedFresh, RecordOf, HasFresh
  <2>2. r.credential \in Credentials(issued) /\ Descends(r.credential, intent[call[c].id])
    BY <1>0, <2>1, LiveIsIssued DEF Unaliased, LineageInv, RecordsOK
  <2>3. Ok(r.credential, r.generation).credential = r.credential
    BY DEF Ok
  <2> QED  BY <2>1, <2>2, <2>3, FinishKeeps
<1>3. CASE LockedAdopt(c)
  BY <1>3, NothingToAdopt DEF LockedAdopt
<1>4. CASE LockedFetch(c)
  <2> DEFINE r == store[call[c].id]
  <2>1. /\ call'[c].grant = call[c].grant /\ call'[c].id = call[c].id
        /\ call'[c].pc = "fetch" /\ call'[c].answer = call[c].answer
        /\ call'[c].start = r.generation
    BY <1>0, <1>4 DEF LockedFetch, RecordOf, CallState
  <2>2. /\ wire'[c].kind = "request" /\ wire'[c].credential.grant = call[c].grant
        /\ store' = store /\ r.credential.grant = call[c].grant /\ r.generation \in Nat
    BY <1>0, <1>4, LiveIsIssued
       DEF LockedFetch, NeedsRefresh, RecordOf, Unaliased, TypeInv, Holdings
  <2>3. FetchOK(c)' /\ JoinOK(c)'
    BY <2>1, <2>2 DEF FetchOK, JoinOK
  <2>4. WireOK(c)'
    BY <1>0, <2>1, <2>2 DEF WireOK, Answerable
  <2>5. WaitOK(c)'
    BY <1>0, <2>1 DEF CallOK, WaitOK, ReadLocked, Leads
  <2> QED  BY <2>1, <2>3, <2>4, <2>5, SameGrant DEF CallOK
<1> QED  BY <1>1, <1>2, <1>3, <1>4 DEF ReadLocked

(* The answer to a fetch, or the end of the wait for it.                   *)
LEMMA ReceiveKeeps ==
    ASSUME Unaliased, [Next]_vars, NEW c \in Calls, Receive(c) \/ FetchTimeout(c)
    PROVE  CallOK(c)'
<1>0. wire'[c] = wire[c] /\ WireOK(c)
  BY DEF Receive, FetchTimeout, Unaliased, LineageInv, CallOK
<1>1. CASE FetchTimeout(c)
  BY <1>0, <1>1, FinishKeeps DEF FetchTimeout, Failed
<1>2. CASE Finish(c, Failed("refused")) \/ Finish(c, Failed("conflict"))
  BY <1>0, <1>2, FinishKeeps DEF Failed
<1>3. CASE /\ wire[c].kind = "response" /\ wire[c].credential \in Credentials(issued)
           /\ Finish(c, Ok(wire[c].credential, call[c].start + 1))
  <2>1. Descends(wire[c].credential, Login(c))
    BY <1>0, <1>3 DEF WireOK
  <2>2. Ok(wire[c].credential, call[c].start + 1).credential = wire[c].credential
    BY DEF Ok
  <2> QED  BY <1>0, <1>3, <2>1, <2>2, FinishKeeps
<1> QED  BY <1>1, <1>2, <1>3, ReceiveRefreshes DEF Unaliased

(* The credential a leader shares descends from the login of the account   *)
(* it is saved for.                                                        *)
LEMMA SharedDescends ==
    ASSUME Unaliased, NEW c \in Calls, JoinSave(c), Resumable(c)
    PROVE  LET k == call[call[c].leader].answer.credential IN
           /\ call[c].leader \in Calls /\ call[c].id \in Accounts /\ call[c].grant # 0
           /\ k \in Credentials(issued) /\ Descends(k, intent[call[c].id])
           /\ intent[call[c].id] = Login(c)
<1> DEFINE i == call[c].id
           l == call[c].leader
           k == call[l].answer.credential
<1>1. /\ l \in Calls /\ i \in Accounts /\ call[c].grant # 0
      /\ k \in Credentials(issued)
  BY CallTyped DEF Unaliased, CallState, States, Resumable, JoinSave, Leads
<1>2. CallOK(c) /\ CallOK(l)
  BY <1>1 DEF Unaliased, LineageInv
<1>3. call[l].grant = call[c].grant
  BY <1>2 DEF CallOK, JoinOK, Resumable
<1>4. lineage[call[c].grant] = intent[i]
  BY <1>1 DEF JoinSave, Unaliased, LineageInv, RecordsOK, Descends
<1>5. Descends(k, Login(l))
  BY <1>1, <1>2, <1>3, <1>4 DEF CallOK, AnswerOK, JoinSave, Login
<1> QED  BY <1>1, <1>3, <1>4, <1>5 DEF Login

(* A waiter resumes when its leader is done: it fails, saves the answer    *)
(* for its own account, or starts again.                                   *)
LEMMA ResumeJoinKeeps ==
    ASSUME Unaliased, [Next]_vars, NEW c \in Calls, ResumeJoin(c)
    PROVE  CallOK(c)'
<1>0. /\ call \in [Calls -> States(issued)] /\ call[c] \in CallState /\ Resumable(c)
      /\ call[c].id \in Accounts /\ call[c].grant # 0 /\ call[c].pc = "join"
      /\ wire' = wire
  BY CallTyped DEF Unaliased, TypeInv, Holdings, CallState, States, ResumeJoin, Resumable, Leads
<1>1. CASE JoinRejected(c)
  <2>1. /\ call'[c].grant = call[c].grant /\ call'[c].id = call[c].id
        /\ call'[c].pc = "done" /\ call'[c].answer.kind # "ok"
    BY <1>0, <1>1 DEF JoinRejected, CallState
  <2> QED  BY <1>0, <2>1, Answered
<1>2. CASE JoinSave(c)
  <2> DEFINE k == call[call[c].leader].answer.credential
  <2>1. /\ call'[c].grant = call[c].grant /\ call'[c].id = call[c].id
        /\ call'[c].pc = "done" /\ call'[c].answer.credential = k
    BY <1>0, <1>2 DEF JoinSave, CallState, Ok
  <2>2. k \in Credentials(issued) /\ Descends(k, intent[call[c].id])
    BY <1>0, <1>2, SharedDescends
  <2>3. \/ Descends(call[c].answer.credential, Login(c))'
        \/ \A j \in Accounts : intent'[j] # Login(c)'
    BY <1>0, <2>1, <2>2, RecordAnswers
  <2> QED  BY <1>0, <2>1, <2>3, Answered
<1>3. CASE JoinAgain(c)
  <2>1. UNCHANGED <<store, intent, endpoint, wire>> /\ Enter(c, call[c].id)
    BY <1>3 DEF ResumeJoin, JoinAgain
  <2> QED  BY <1>0, <2>1, EnterKeeps
<1> QED  BY <1>1, <1>2, <1>3 DEF ResumeJoin

(* The endpoint issues a token of the login of the request.                *)
LEMMA EndpointKeepsCall ==
    ASSUME Unaliased, [Next]_vars, NEW c \in Calls, EndpointStep(c)
    PROVE  CallOK(c)'
<1>0. /\ CallOK(c) /\ call' = call /\ wire[c].kind = "request"
      /\ wire \in [Calls -> Messages(issued)] /\ issued \in Nat
      /\ call[c].grant \in 1 .. issued /\ wire[c].credential.grant = call[c].grant
      /\ 1 .. issued \subseteq Tokens /\ lineage \in [Tokens -> Nat]
  <2>1. /\ CallOK(c) /\ call' = call /\ wire[c].kind = "request"
        /\ wire \in [Calls -> Messages(issued)] /\ issued \in Nat /\ issued <= MaxToken
        /\ lineage \in [Tokens -> Nat]
    BY DEF EndpointStep, EndpointRotates, EndpointKeeps, EndpointRefuses, Issue,
           Unaliased, LineageInv, TypeInv, Rest, Holdings
  <2>2. wire[c].credential.grant = call[c].grant /\ wire[c].credential.grant \in 1 .. issued
    BY <2>1 DEF CallOK, WireOK, Messages
  <2> QED  BY <2>1, <2>2, RefreshAssumption DEF Tokens
<1>1. OwnerOK(c)' /\ AnswerOK(c)' /\ Login(c)' = Login(c)
  BY <1>0, SameGrant
<1>2. JoinOK(c)' /\ FetchOK(c)' /\ WaitOK(c)'
  BY <1>0, OthersKeepJoin, OthersKeepFetch DEF CallOK, WaitOK
<1>3. Answerable(c)' /\ call'[c].grant # 0
  BY <1>0 DEF CallOK, WireOK, Answerable
<1>4. ASSUME NEW k, Issue(c, k), k.token = issued + 1,
             k.grant = issued + 1 \/ k.grant = call[c].grant
      PROVE  WireOK(c)'
  <2>1. /\ issued + 1 \in Tokens /\ lineage'[issued + 1] = Login(c)
        /\ lineage'[call[c].grant] = Login(c)
        /\ wire'[c] = [kind |-> "response", credential |-> k]
    BY <1>0, <1>4, RefreshAssumption DEF Issue, Tokens, Login
  <2> QED  BY <1>1, <1>3, <1>4, <2>1 DEF WireOK, Descends
<1>5. CASE EndpointRotates(c)
  BY <1>1, <1>2, <1>4, <1>5 DEF EndpointRotates, CallOK
<1>6. CASE EndpointKeeps(c)
  <2>1. WireOK(c)'
    BY <1>0, <1>4, <1>6 DEF EndpointKeeps
  <2> QED  BY <1>1, <1>2, <2>1 DEF CallOK
<1>7. CASE EndpointRefuses(c)
  <2>1. wire'[c].kind = "refusal"
    BY <1>0, <1>7 DEF EndpointRefuses, Messages, WireState
  <2>2. WireOK(c)'
    BY <1>3, <2>1 DEF WireOK
  <2> QED  BY <1>1, <1>2, <2>2 DEF CallOK
<1> QED  BY <1>5, <1>6, <1>7 DEF EndpointStep

(* A crash stops the calls of its process where they are.                  *)
LEMMA CrashKeeps ==
    ASSUME Unaliased, [Next]_vars, NEW p \in Procs, Crash(p), NEW c \in Calls
    PROVE  CallOK(c)'
<1>0. call \in [Calls -> States(issued)] /\ call[c] \in CallState /\ wire' = wire
  BY CallTyped DEF Unaliased, TypeInv, Holdings, Crash
<1>1. CASE ProcOf[c] = p /\ Active(c)
  <2>1. /\ call'[c].grant = call[c].grant /\ call'[c].id = call[c].id
        /\ call'[c].pc = "dead" /\ call'[c].answer = call[c].answer
    BY <1>0, <1>1 DEF Crash, CallState
  <2>2. /\ WaitOK(c)' /\ JoinOK(c)' /\ FetchOK(c)' /\ Answerable(c)'
    BY <2>1 DEF WaitOK, JoinOK, FetchOK, Leads, Answerable
  <2> QED  BY <1>0, <2>1, <2>2, SameGrant DEF CallOK
<1>2. CASE ~ (ProcOf[c] = p /\ Active(c))
  <2>1. call'[c] = call[c]
    BY <1>2 DEF Crash
  <2> QED  BY <1>0, <2>1, Untouched
<1> QED  BY <1>1, <1>2

(* Every call, at every step.                                              *)
LEMMA CallsKeep ==
    ASSUME Unaliased, [Next]_vars
    PROVE  \A c \in Calls : CallOK(c)'
<1>0. /\ call \in [Calls -> States(issued)] /\ wire \in [Calls -> Messages(issued)]
  BY DEF Unaliased, TypeInv, Holdings
<1>1. ASSUME NEW m \in Calls, CallStep(m)  PROVE \A c \in Calls : CallOK(c)'
  <2>1. CallOK(m)'
    <3>1. CASE \E i \in Accounts : Begin(m, i)
      BY <3>1, EnterKeeps DEF Begin
    <3>2. CASE \/ OpenLock(m) \/ WriteLock(m) \/ InspectLock(m) \/ UnlinkStale(m)
               \/ LockTimeout(m) \/ Wake(m) \/ Release(m)
      BY <3>2, LockKeeps
    <3>3. CASE ReadLocked(m) \/ Receive(m) \/ FetchTimeout(m) \/ ResumeJoin(m)
      BY <3>3, ReadLockedKeeps, ReceiveKeeps, ResumeJoinKeeps
    <3> QED  BY <1>1, <3>1, <3>2, <3>3 DEF CallStep, LockStep
  <2>2. ASSUME NEW c \in Calls, c # m  PROVE call'[c] = call[c] /\ wire'[c] = wire[c]
    <3>1. CASE ReadLocked(m)
      BY <1>0, <2>2, <3>1 DEF ReadLocked, LockedConflict, LockedFresh, LockedAdopt,
                              LockedFetch, Finish
    <3>2. CASE (\E i \in Accounts : Begin(m, i)) \/ ResumeJoin(m)
      BY <1>0, <2>2, <3>2 DEF Begin, ResumeJoin, JoinRejected, JoinSave, JoinAgain, Enter,
                              EnterUnavailable, EnterFresh, EnterJoin, EnterLead
    <3>3. CASE \/ OpenLock(m) \/ WriteLock(m) \/ InspectLock(m) \/ UnlinkStale(m)
               \/ LockTimeout(m) \/ Wake(m) \/ Release(m) \/ Receive(m) \/ FetchTimeout(m)
      BY <1>0, <2>2, <3>3 DEF OpenLock, WriteLock, InspectLock, UnlinkStale, LockTimeout,
                              Wake, Release, Receive, FetchTimeout, Finish
    <3> QED  BY <1>1, <3>1, <3>2, <3>3 DEF CallStep, LockStep
  <2> QED  BY <2>1, <2>2, Untouched
<1>2. ASSUME NEW m \in Calls, EndpointStep(m)  PROVE \A c \in Calls : CallOK(c)'
  <2>1. CallOK(m)'
    BY <1>2, EndpointKeepsCall
  <2>2. ASSUME NEW c \in Calls, c # m  PROVE call'[c] = call[c] /\ wire'[c] = wire[c]
    BY <1>0, <1>2, <2>2 DEF EndpointStep, EndpointRotates, EndpointKeeps, EndpointRefuses, Issue
  <2> QED  BY <2>1, <2>2, Untouched
<1>3. CASE UNCHANGED <<call, wire>>
  BY <1>3, Untouched
<1> QED  BY <1>1, <1>2, <1>3, CrashKeeps DEF Next, OperatorStep, SignIn, Delete, Import,
            Expire, LockAges, vars

-----------------------------------------------------------------------------
(***************************************************************************)
(* Tokens, logins and records.                                             *)
(***************************************************************************)

(* A token is issued for a request or by a login; nothing else is.         *)
LEMMA TokenStep ==
    ASSUME Unaliased, [Next]_vars
    PROVE  \/ UNCHANGED <<issued, lineage>>
           \/ /\ issued' = issued + 1
              /\ lineage'[issued + 1] \in 1 .. issued \cup {issued + 1}
<1>0. /\ issued \in Nat /\ lineage \in [Tokens -> Nat] /\ TokensOK /\ issued <= MaxToken
      /\ wire \in [Calls -> Messages(issued)]
  BY DEF Unaliased, TypeInv, Rest, Holdings, LineageInv
<1>1. ASSUME NEW c \in Calls, NEW k, Issue(c, k)
      PROVE  issued' = issued + 1 /\ lineage'[issued + 1] \in 1 .. issued
  <2>1. /\ issued + 1 \in Tokens /\ issued' = issued + 1
        /\ wire[c].credential.grant \in 1 .. issued
        /\ lineage'[issued + 1] = lineage[wire[c].credential.grant]
    BY <1>0, <1>1, RefreshAssumption DEF Issue, Tokens, Messages
  <2> QED  BY <1>0, <2>1 DEF TokensOK
<1>2. ASSUME NEW p \in Procs, NEW i \in Accounts, SignIn(p, i)
      PROVE  issued' = issued + 1 /\ lineage'[issued + 1] = issued + 1
  BY <1>0, <1>2, RefreshAssumption DEF SignIn, Tokens
<1>3. ASSUME NEW c \in Calls, CallStep(c)  PROVE UNCHANGED <<issued, lineage>>
  BY <1>3 DEF CallStep, LockStep, Begin, LockTimeout, Wake, FetchTimeout, OpenLock, WriteLock,
              InspectLock, UnlinkStale, Release, ReadLocked, Receive, ResumeJoin, endpoint
<1>4. ASSUME NEW c \in Calls, EndpointStep(c)
      PROVE  UNCHANGED <<issued, lineage>> \/ \E k : Issue(c, k)
  BY <1>4 DEF EndpointStep, EndpointRotates, EndpointKeeps, EndpointRefuses, endpoint
<1>5. CASE \E c \in Calls : CallStep(c) \/ EndpointStep(c)
  BY <1>1, <1>3, <1>4, <1>5
<1>6. CASE OperatorStep
  BY <1>2, <1>6 DEF OperatorStep, Delete, Import, endpoint
<1> QED  BY <1>5, <1>6 DEF Next, Expire, Crash, LockAges, endpoint, vars

(* A new token is a new login or of a login that exists.                   *)
LEMMA TokensKeep ==
    ASSUME Unaliased, [Next]_vars
    PROVE  TokensOK'
<1>1. issued \in Nat /\ \A t \in 1 .. issued : lineage[t] \in 1 .. issued /\ lineage'[t] = lineage[t]
  BY WorldStep DEF Unaliased, LineageInv, TokensOK
<1>2. CASE UNCHANGED <<issued, lineage>>
  BY <1>1, <1>2 DEF TokensOK
<1>3. CASE /\ issued' = issued + 1
           /\ lineage'[issued + 1] \in 1 .. issued \cup {issued + 1}
  BY <1>1, <1>3 DEF TokensOK
<1> QED  BY <1>2, <1>3, TokenStep

(* What a step does to the record and the login of an account, when the    *)
(* credential it refreshes with descends from the login of the account.    *)
LEMMA RefreshDescends ==
    ASSUME Unaliased, NEW c \in Calls,
           \/ ReadLocked(c) \/ Receive(c) \/ ResumeJoin(c)
    PROVE  \/ UNCHANGED <<store, intent>>
           \/ \E k \in Credentials(issued) :
                /\ Refreshed(call[c].id, k) /\ Descends(k, intent[call[c].id])
                /\ UNCHANGED lineage
<1>0. call[c].id \in Accounts /\ CallOK(c)
  BY CallTyped DEF Unaliased, LineageInv, CallState
<1>1. CASE ReadLocked(c)
  BY <1>1, NothingToAdopt DEF ReadLocked, LockedConflict, LockedFresh, LockedAdopt, LockedFetch
<1>2. CASE Receive(c)
  <2> DEFINE i == call[c].id
             k == wire[c].credential
  <2>1. CASE /\ wire[c].kind = "response" /\ k \in Credentials(issued)
             /\ MaySave(store[i], call[c].start) /\ Refreshed(i, k)
    <3>1. Descends(k, Login(c))
      BY <1>0, <2>1 DEF CallOK, WireOK
    <3>2. IsLive(store[i]) /\ store[i].credential.grant = call[c].grant
      BY <1>0, <1>2, <2>1 DEF CallOK, FetchOK, MaySave, IsGenerationLive, Receive
    <3>3. intent[i] = Login(c)
      BY <1>0, <3>2 DEF Unaliased, LineageInv, RecordsOK, Descends, Login
    <3> QED  BY <1>2, <2>1, <3>1, <3>3 DEF Receive, endpoint
  <2> QED  BY <1>2, <2>1, ReceiveRefreshes DEF Unaliased
<1>3. CASE ResumeJoin(c)
  <2>1. CASE JoinSave(c)
    <3>1. /\ call[call[c].leader].answer.credential \in Credentials(issued)
          /\ Descends(call[call[c].leader].answer.credential, intent[call[c].id])
      BY <1>3, <2>1, SharedDescends DEF ResumeJoin
    <3>2. Refreshed(call[c].id, call[call[c].leader].answer.credential) /\ UNCHANGED lineage
      BY <1>3, <2>1, JoinRefreshes DEF ResumeJoin, Unaliased, endpoint
    <3> QED  BY <3>1, <3>2
  <2> QED  BY <1>3, <2>1 DEF ResumeJoin, JoinRejected, JoinAgain
<1> QED  BY <1>1, <1>2, <1>3

(* The logins stay apart, and every record written is of its user's login: *)
(* what a refresh writes descends from the login of the record it          *)
(* replaces.                                                               *)
LEMMA RecordsKeep ==
    ASSUME Unaliased, [Next]_vars
    PROVE  LoginsOK' /\ RecordsOK'
<1>0. /\ store \in [Accounts -> Records(issued)] /\ intent \in [Accounts -> Nat]
      /\ issued \in Nat /\ issued' \in Nat /\ issued <= issued'
      /\ LoginsOK /\ RecordsOK /\ lineage \in [Tokens -> Nat]
  BY WorldStep DEF Unaliased, LineageInv, TypeInv, Rest, Holdings
<1>1. ASSUME NEW i \in Accounts, IsLive(store[i])
      PROVE  /\ lineage'[store[i].credential.token] = intent[i]
             /\ lineage'[store[i].credential.grant] = intent[i]
  BY <1>0, <1>1, LiveIsIssued, WorldStep DEF Unaliased, RecordsOK, Descends
<1>2. CASE UNCHANGED <<store, intent>>
  BY <1>0, <1>1, <1>2 DEF LoginsOK, RecordsOK, Descends
<1>3. ASSUME NEW i \in Accounts, NEW k \in Credentials(issued), Refreshed(i, k),
             Descends(k, intent[i]), UNCHANGED lineage
      PROVE  LoginsOK' /\ RecordsOK'
  <2>1. store'[i].credential = k /\ intent' = intent /\ \A j \in Accounts \ {i} : store'[j] = store[j]
    BY <1>0, <1>3 DEF Refreshed, Saved
  <2> QED  BY <1>0, <1>1, <1>3, <2>1 DEF LoginsOK, RecordsOK, Descends
<1>4. ASSUME NEW c \in Calls, CallStep(c)  PROVE LoginsOK' /\ RecordsOK'
  <2>1. call[c].id \in Accounts
    BY CallTyped DEF Unaliased, CallState
  <2>2. CASE ReadLocked(c) \/ Receive(c) \/ ResumeJoin(c)
    BY <1>2, <1>3, <2>1, <2>2, RefreshDescends
  <2> QED  BY <1>2, <1>4, <2>2 DEF CallStep, LockStep, Begin, LockTimeout, Wake,
              FetchTimeout, OpenLock, WriteLock, InspectLock, UnlinkStale, Release
<1>5. ASSUME NEW p \in Procs, NEW i \in Accounts, SignIn(p, i)
      PROVE  LoginsOK' /\ RecordsOK'
  <2>1. /\ store'[i].credential = [token |-> issued + 1, grant |-> issued + 1]
        /\ intent'[i] = issued + 1 /\ issued' = issued + 1
        /\ \A j \in Accounts \ {i} : store'[j] = store[j] /\ intent'[j] = intent[j]
    BY <1>0, <1>5 DEF SignIn, Saved
  <2>2. lineage'[issued + 1] = issued + 1
    BY <1>0, <1>5, RefreshAssumption DEF SignIn, Tokens
  <2>3. LoginsOK'
    BY <1>0, <2>1 DEF LoginsOK
  <2>4. RecordsOK'
    BY <1>0, <1>1, <2>1, <2>2 DEF RecordsOK, Descends
  <2> QED  BY <2>3, <2>4
<1>6. ASSUME NEW p \in Procs, NEW i \in Accounts, Delete(p, i)
      PROVE  LoginsOK' /\ RecordsOK'
  <2>1. /\ ~ IsLive(store'[i]) /\ intent'[i] = 0
        /\ \A j \in Accounts \ {i} : store'[j] = store[j] /\ intent'[j] = intent[j]
    BY <1>0, <1>6 DEF Delete, Tombstoned, IsLive
  <2>2. LoginsOK'
    BY <1>0, <2>1 DEF LoginsOK
  <2>3. RecordsOK'
    BY <1>0, <1>1, <2>1 DEF RecordsOK, Descends
  <2> QED  BY <2>2, <2>3
<1>7. ASSUME NEW c \in Calls, EndpointStep(c)  PROVE UNCHANGED <<store, intent>>
  BY <1>7 DEF EndpointStep, EndpointRotates, EndpointKeeps, EndpointRefuses
<1>8. CASE OperatorStep
  BY <1>5, <1>6, <1>8 DEF OperatorStep, Import, Unaliased
<1> QED  BY <1>2, <1>4, <1>7, <1>8 DEF Next, Expire, Crash, LockAges, vars

-----------------------------------------------------------------------------
(* The initial states without aliases.                                     *)
LEMMA InitLineage ==
    ASSUME ~ MayAlias, Init
    PROVE  LineageInv
<1> USE RefreshAssumption
<1>1. /\ store = [i \in Accounts |-> [generation |-> 1, deleted |-> FALSE,
                                      credential |-> [token |-> i, grant |-> i]]]
      /\ intent = [i \in Accounts |-> i]
      /\ lineage = [t \in Tokens |-> IF t \in Accounts THEN t ELSE 0]
      /\ issued = NAccounts
      /\ accepted = {i : i \in Accounts}
  <2>1. PICK aliased \in BOOLEAN :
          LET grantOf(i) == IF aliased THEN 1 ELSE i IN
          /\ aliased => MayAlias
          /\ store = [i \in Accounts |->
                        [generation |-> 1, deleted |-> FALSE,
                         credential |-> [token |-> i, grant |-> grantOf(i)]]]
          /\ intent = [i \in Accounts |-> grantOf(i)]
          /\ lineage = [t \in Tokens |-> IF t \in Accounts THEN grantOf(t) ELSE 0]
          /\ accepted = {grantOf(i) : i \in Accounts}
    BY DEF Init
  <2>2. ~ aliased
    BY <2>1
  <2>3. store = [i \in Accounts |-> [generation |-> 1, deleted |-> FALSE,
                                     credential |-> [token |-> i, grant |-> i]]]
    BY <2>1, <2>2
  <2>4. intent = [i \in Accounts |-> i] /\ accepted = {i : i \in Accounts}
    BY <2>1, <2>2
  <2>5. lineage = [t \in Tokens |-> IF t \in Accounts THEN t ELSE 0]
    BY <2>1, <2>2
  <2> QED  BY <2>3, <2>4, <2>5 DEF Init
<1>2. Accounts = 1 .. issued /\ Accounts \subseteq Tokens /\ issued \in Nat
  BY <1>1 DEF Accounts, Tokens
<1>3. TokensOK /\ LoginsOK
  BY <1>1, <1>2 DEF TokensOK, LoginsOK
<1>4. RecordsOK
  BY <1>1, <1>2 DEF RecordsOK, Descends
<1>5. ASSUME NEW c \in Calls  PROVE CallOK(c)
  <2>1. /\ call[c].grant = 0 /\ call[c].pc = "idle" /\ call[c].answer.kind = "pending"
        /\ wire[c].kind = "quiet"
    BY DEF Init, Pending, Quiet
  <2> QED  BY <2>1 DEF CallOK, OwnerOK, AnswerOK, JoinOK, FetchOK, WireOK, WaitOK
<1> QED  BY <1>3, <1>4, <1>5 DEF LineageInv

(* The invariant, for any number of processes.                             *)
LEMMA Lineages ==
    ASSUME ~ MayAlias
    PROVE  Spec => []Unaliased
<1>1. Init /\ TypeInv /\ DeletedStaysDeleted => Unaliased
  BY InitLineage DEF Unaliased
<1>2. Unaliased /\ [Next]_vars /\ TypeInv' /\ DeletedStaysDeleted' => Unaliased'
  BY CallsKeep, TokensKeep, RecordsKeep DEF Unaliased, LineageInv
<1> QED  BY <1>1, <1>2, TypeInvariant, DeletedAreGone, PTL DEF Spec

(***************************************************************************)
(* Without aliases, whatever the interleaving of calls, processes, crashes *)
(* and logins, the store holds for each account a token that descends from *)
(* the login the user last gave it, and nothing once it is deleted.        *)
(***************************************************************************)
THEOREM StoreIsTheUsers ==
    ASSUME ~ MayAlias
    PROVE  Spec => []StoreFollowsUser
<1>1. Unaliased => StoreFollowsUser
  BY DEF Unaliased, LineageInv, RecordsOK, Descends, DeletedStaysDeleted,
         StoreFollowsUser, Holds
<1> QED  BY <1>1, Lineages, PTL

-----------------------------------------------------------------------------
(***************************************************************************)
(* Rotations, in a single process.  The inductive invariant.               *)
(***************************************************************************)
(* The hypothesis of the theorem about rotations.                          *)
OneProcess == \A p, q \in Procs : p = q

(* The endpoint has replaced the grant of a call, and the call, having     *)
(* received the answer, saved it or found its record replaced.             *)
Rotated(c) == RotatedBy(c, call[c].grant)
Received(c) == call[c].answer.kind \in {"ok", "conflict"}
Spends(c) == Rotated(c) /\ Received(c)
Spent(g) == \E c \in Calls : Spends(c) /\ call[c].grant = g

(* A grant the endpoint does not accept was replaced for some call.        *)
Accounted(g) == g \in accepted \/ \E c \in Calls : RotatedBy(c, g)

(* How far a call is that has a request or a response on the wire.         *)
ProgressOK(c) ==
    /\ wire[c].kind = "request" => call[c].answer.kind \in {"pending", "fetch_timeout"}
    /\ wire[c].kind = "response"
         => call[c].answer.kind \in {"pending", "fetch_timeout", "ok", "conflict"}
    /\ wire[c].kind # "quiet" /\ call[c].answer.kind = "pending"
         => call[c].pc \in {"fetch", "dead"}

AccountedOK ==
    /\ \A i \in Accounts : IsLive(store[i]) => Accounted(store[i].credential.grant)
    /\ \A c \in Calls : wire[c].kind = "response" => Accounted(wire[c].credential.grant)

(* A new grant is nowhere but on the wire until it is received.            *)
UnseenOK(d) ==
    call[d].pc = "fetch" /\ Rotated(d) =>
        /\ \A c \in Calls : call[c].grant # wire[d].credential.grant
        /\ \A i \in Accounts : IsLive(store[i])
                => store[i].credential.grant # wire[d].credential.grant

NewGrantsDiffer ==
    \A d, e \in Calls : d # e /\ Rotated(d) /\ Rotated(e)
        => wire[d].credential.grant # wire[e].credential.grant

(* A spent grant is in no record, and no other call leads for it.          *)
SpentOK(c) ==
    Spends(c) =>
        /\ \A i \in Accounts : IsLive(store[i]) => store[i].credential.grant # call[c].grant
        /\ \A d \in Calls \ {c} : Leading(d) => call[d].grant # call[c].grant

(* While the login stands, the record has the grant the call works for or  *)
(* that grant is spent; so has the answer.                                 *)
RecordGrantOK(c) ==
    call[c].grant # 0 /\ intent[call[c].id] = Login(c) =>
        store[call[c].id].credential.grant = call[c].grant \/ Spent(call[c].grant)

AnswerGrantOK(c) ==
    call[c].grant # 0 /\ call[c].answer.kind = "ok" =>
        \/ \A j \in Accounts : intent[j] # Login(c)
        \/ call[c].answer.credential.grant = call[c].grant
        \/ Spent(call[c].grant)

(* A record that has the grant of a fetch under way is the one it read.    *)
SameRecordOK(c) ==
    call[c].pc = "fetch" =>
        LET r == store[call[c].id] IN
        IsLive(r) /\ r.credential.grant = call[c].grant => r.generation = call[c].start

(* The waiters that can resume wait for one leader, and nobody leads for   *)
(* their grant; a leader that runs with waiters keeps out all others.      *)
WaitersOK ==
    /\ \A c, d \in Calls : Resumable(c) /\ Resumable(d) => call[c].leader = call[d].leader
    /\ \A c, d \in Calls : Resumable(c) /\ Leading(d) => call[d].grant # call[c].grant
    /\ \A c, d, e \in Calls :
         Running(c) /\ call[d].pc = "join" /\ call[d].leader = c => ~ Resumable(e)

RotationInv ==
    /\ AccountedOK /\ NewGrantsDiffer /\ WaitersOK
    /\ \A c \in Calls : /\ ProgressOK(c) /\ UnseenOK(c) /\ SpentOK(c)
                        /\ RecordGrantOK(c) /\ AnswerGrantOK(c) /\ SameRecordOK(c)

Alone == OneProcess /\ Unaliased /\ OneLeaderPerGrant /\ RotationInv

-----------------------------------------------------------------------------
(***************************************************************************)
(* What happens to a call that has something on the wire, and to its grant. *)
(***************************************************************************)

(* The call only goes from one place to the next.                          *)
MovesOn(c) ==
    /\ call'[c].grant = call[c].grant /\ call'[c].id = call[c].id
    /\ call'[c].answer = call[c].answer
    /\ \/ call'[c].pc \in {call[c].pc, "dead"}
       \/ call[c].pc = "release" /\ call'[c].pc = "done"
    /\ call'[c].start = call[c].start

(* What a step does to a call's part of the wire: nothing, the request     *)
(* that its fetch sends, the answer it takes or waits for no longer, or a  *)
(* step of the endpoint.                                                   *)
LEMMA WireMotion ==
    ASSUME Unaliased, [Next]_vars, NEW c \in Calls
    PROVE  \/ wire[c].kind = "quiet" /\ wire'[c].kind = "quiet"
           \/ wire[c].kind = "quiet" /\ ReadLocked(c) /\ LockedFetch(c)
           \/ wire'[c] = wire[c] /\ (Receive(c) \/ FetchTimeout(c) \/ MovesOn(c))
           \/ EndpointStep(c)
<1> DEFINE P == \/ wire[c].kind = "quiet" /\ wire'[c].kind = "quiet"
                \/ wire[c].kind = "quiet" /\ ReadLocked(c) /\ LockedFetch(c)
                \/ wire'[c] = wire[c] /\ (Receive(c) \/ FetchTimeout(c) \/ MovesOn(c))
                \/ EndpointStep(c)
<1>0. /\ call \in [Calls -> States(issued)] /\ wire \in [Calls -> Messages(issued)]
      /\ call[c] \in CallState /\ WireOK(c)
  BY CallTyped DEF Unaliased, LineageInv, CallOK, TypeInv, Holdings
<1>1. ASSUME call'[c] = call[c], wire'[c] = wire[c]  PROVE P
  BY <1>1 DEF MovesOn
<1>2. ASSUME NEW m \in Calls, CallStep(m)  PROVE P
  <2>1. CASE ReadLocked(m)
    <3>1. CASE m = c
      <4>1. wire[c].kind = "quiet"
        BY <1>0, <2>1, <3>1 DEF ReadLocked, WireOK, Answerable
      <4> QED  BY <2>1, <3>1, <4>1 DEF ReadLocked, LockedConflict, LockedFresh, LockedAdopt
    <3>2. CASE m # c
      BY <1>0, <1>1, <2>1, <3>2 DEF ReadLocked, LockedConflict, LockedFresh, LockedAdopt,
                              LockedFetch, Finish
    <3> QED  BY <3>1, <3>2
  <2>2. CASE (\E i \in Accounts : Begin(m, i)) \/ ResumeJoin(m)
    <3>0. wire' = wire
      BY <2>2 DEF Begin, ResumeJoin
    <3>1. CASE m = c
      <4>1. wire[c].kind = "quiet"
        BY <1>0, <2>2, <3>1 DEF Begin, ResumeJoin, Resumable, WireOK, Answerable
      <4> QED  BY <3>0, <4>1
    <3>2. CASE m # c
      BY <1>0, <1>1, <2>2, <3>0, <3>2 DEF Begin, ResumeJoin, JoinRejected, JoinSave, JoinAgain,
                         Enter, EnterUnavailable, EnterFresh, EnterJoin, EnterLead
    <3> QED  BY <3>1, <3>2
  <2>3. CASE \/ OpenLock(m) \/ WriteLock(m) \/ InspectLock(m) \/ UnlinkStale(m)
             \/ LockTimeout(m) \/ Wake(m)
    <3>0. wire' = wire
      BY <2>3 DEF OpenLock, WriteLock, InspectLock, UnlinkStale, LockTimeout, Wake
    <3>1. CASE m = c
      <4>1. wire[c].kind = "quiet"
        BY <1>0, <2>3, <3>1 DEF OpenLock, WriteLock, InspectLock, UnlinkStale, LockTimeout, Wake,
                                WireOK, Answerable
      <4> QED  BY <3>0, <4>1
    <3>2. CASE m # c
      BY <1>0, <1>1, <2>3, <3>0, <3>2 DEF OpenLock, WriteLock, InspectLock, UnlinkStale,
                                          LockTimeout, Wake
    <3> QED  BY <3>1, <3>2
  <2>4. CASE Release(m)
    BY <1>0, <2>4 DEF Release, MovesOn, CallState
  <2>5. CASE Receive(m) \/ FetchTimeout(m)
    <3>1. CASE m = c
      BY <2>5, <3>1 DEF Receive, FetchTimeout
    <3>2. CASE m # c
      BY <1>0, <1>1, <2>5, <3>2 DEF Receive, FetchTimeout, Finish
    <3> QED  BY <3>1, <3>2
  <2> QED  BY <1>2, <2>1, <2>2, <2>3, <2>4, <2>5 DEF CallStep, LockStep
<1>3. ASSUME NEW m \in Calls, EndpointStep(m)  PROVE P
  <2>1. CASE m = c
    BY <1>3, <2>1
  <2>2. CASE m # c
    BY <1>0, <1>1, <1>3, <2>2 DEF EndpointStep, EndpointRotates, EndpointKeeps, EndpointRefuses,
                                  Issue
  <2> QED  BY <2>1, <2>2
<1>4. ASSUME NEW p \in Procs, Crash(p)  PROVE P
  <2>1. wire' = wire /\ MovesOn(c)
    BY <1>0, <1>4 DEF Crash, MovesOn, CallState
  <2> QED  BY <2>1
<1>5. CASE UNCHANGED <<call, wire>>
  BY <1>1, <1>5
<1> QED  BY <1>2, <1>3, <1>4, <1>5 DEF Next, OperatorStep, SignIn, Delete, Import,
            Expire, LockAges, vars

(* A call takes a grant only from a live record, when the event loop has   *)
(* nothing to resume or resumes it and its old grant is gone from there.   *)
Takes(c, i) ==
    /\ IsLive(store[i]) /\ store' = store /\ intent' = intent /\ lineage' = lineage
    /\ call[c].pc \in {"idle", "join"} /\ wire[c].kind = "quiet" /\ wire'[c].kind = "quiet"
    /\ call'[c].id = i /\ call'[c].grant = store[i].credential.grant
    /\ call'[c].answer = call[c].answer /\ call'[c].pc \in {"join", "open"}
    /\ call'[c].pc = "join"
         => \E l \in Calls : Leading(l) /\ call'[c].leader = l /\ call'[l] = call[l]

(* When a call takes on a grant: its process is free, or its leader is     *)
(* done and the record has a grant other than the one it waited for.       *)
MayTake(c, i) ==
    /\ busy[ProcOf[c]] = NoCall
    /\ Free(ProcOf[c]) \/ (Resumable(c) /\ store[i].credential.grant # call[c].grant)

(* Otherwise it goes on working for the grant it has, or waits for it.     *)
KeepsGrant(c) ==
    /\ call'[c].grant = call[c].grant /\ call'[c].id = call[c].id
    /\ Leading(c)' => Leading(c)
    /\ call'[c].pc = "join" => call'[c] = call[c]
    /\ call'[c].pc = "fetch"
         => \/ call[c].pc = "fetch" /\ call'[c].start = call[c].start
            \/ ReadLocked(c) /\ LockedFetch(c)

(* What entering getValidCodexToken does to the grant of a call.           *)
LEMMA EnterTakes ==
    ASSUME Unaliased, NEW c \in Calls, NEW i \in Accounts,
           call[c].pc \in {"idle", "join"}, call[c].pc = "join" => i = call[c].id,
           Enter(c, i), UNCHANGED <<store, intent, endpoint, wire>>
    PROVE  KeepsGrant(c) \/ (call'[c].grant = 0 /\ call'[c].pc = "done") \/ Takes(c, i)
<1>0. /\ call \in [Calls -> States(issued)] /\ call[c] \in CallState
      /\ wire[c].kind = "quiet" /\ lineage' = lineage
      /\ call[c].pc = "idle" => call[c].grant = 0
      /\ inflight = {d \in Calls : Leading(d)}
  BY CallTyped DEF Unaliased, LineageInv, CallOK, WireOK, WaitOK, Answerable, TypeInv, Holdings,
                   endpoint
<1>1. CASE EnterUnavailable(c, i) \/ EnterFresh(c, i)
  <2>1. call'[c].grant = call[c].grant /\ call'[c].id = i /\ call'[c].pc = "done"
    BY <1>0, <1>1 DEF EnterUnavailable, EnterFresh, CallState
  <2> QED  BY <1>0, <2>1 DEF KeepsGrant, Leading
<1>2. CASE EnterJoin(c, i) \/ EnterLead(c, i)
  <2>1. /\ call'[c].id = i /\ call'[c].grant = store[i].credential.grant
        /\ call'[c].answer = call[c].answer /\ call'[c].pc \in {"join", "open"}
        /\ IsLive(store[i])
    BY <1>0, <1>2 DEF EnterJoin, EnterLead, CallState
  <2>2. ASSUME call'[c].pc = "join"
        PROVE  \E l \in Calls : Leading(l) /\ call'[c].leader = l /\ call'[l] = call[l]
    <3>1. EnterJoin(c, i)
      BY <1>0, <1>2, <2>2 DEF EnterLead, CallState
    <3>2. PICK l \in Leaders(c, store[i].credential.grant) :
            call' = [call EXCEPT ![c].id = i, ![c].grant = store[i].credential.grant,
                                 ![c].pc = "join", ![c].leader = l]
      BY <3>1 DEF EnterJoin
    <3>3. l \in Calls /\ Leading(l) /\ l # c
      BY <1>0 DEF Leaders, Leading
    <3> QED  BY <1>0, <3>2, <3>3 DEF CallState
  <2> QED  BY <1>0, <2>1, <2>2 DEF Takes
<1> QED  BY <1>1, <1>2 DEF Enter

(* What a step does to the grant of a call.                                *)
LEMMA GrantMotion ==
    ASSUME Unaliased, [Next]_vars, NEW c \in Calls
    PROVE  \/ KeepsGrant(c)
           \/ call'[c].grant = 0 /\ call'[c].pc = "done"
           \/ \E i \in Accounts : Takes(c, i) /\ MayTake(c, i)
<1> DEFINE P == \/ KeepsGrant(c)
                \/ call'[c].grant = 0 /\ call'[c].pc = "done"
                \/ \E i \in Accounts : Takes(c, i) /\ MayTake(c, i)
<1>0. /\ call \in [Calls -> States(issued)] /\ call[c] \in CallState
      /\ call[c].id \in Accounts
  BY CallTyped DEF Unaliased, TypeInv, Holdings, CallState
<1>1. ASSUME call'[c] = call[c]  PROVE P
  <2>1. Leading(c)' => Leading(c)
    BY <1>1 DEF Leading
  <2>2. KeepsGrant(c)
    BY <1>1, <2>1 DEF KeepsGrant
  <2> QED  BY <2>2
<1>2. ASSUME NEW m \in Calls, CallStep(m)  PROVE P
  <2>1. CASE \E i \in Accounts : Begin(m, i)
    <3>1. PICK i \in Accounts : Begin(m, i)
      BY <2>1
    <3>2. CASE m = c
      <4>1. /\ call[c].pc = "idle" /\ Enter(c, i) /\ Free(ProcOf[c])
            /\ UNCHANGED <<store, intent, endpoint, wire>>
        BY <3>1, <3>2 DEF Begin
      <4>2. MayTake(c, i)
        BY <4>1 DEF MayTake, Free
      <4> QED  BY <4>1, <4>2, EnterTakes
    <3>3. CASE m # c
      BY <1>0, <1>1, <3>1, <3>3 DEF Begin, Enter, EnterUnavailable, EnterFresh, EnterJoin, EnterLead
    <3> QED  BY <3>2, <3>3
  <2>2. CASE ResumeJoin(m)
    <3>1. CASE m # c
      BY <1>0, <1>1, <2>2, <3>1 DEF ResumeJoin, JoinRejected, JoinSave, JoinAgain,
                         Enter, EnterUnavailable, EnterFresh, EnterJoin, EnterLead
    <3>2. CASE m = c /\ JoinAgain(c)
      <4>1. /\ call[c].pc = "join" /\ Enter(c, call[c].id)
            /\ UNCHANGED <<store, intent, endpoint, wire>>
        BY <2>2, <3>2 DEF ResumeJoin, JoinAgain, Resumable
      <4>2. IsLive(store[call[c].id]) => MayTake(c, call[c].id)
        BY <2>2, <3>2 DEF ResumeJoin, JoinAgain, MayTake
      <4> QED  BY <1>0, <4>1, <4>2, EnterTakes DEF Takes
    <3>3. CASE m = c /\ (JoinRejected(c) \/ JoinSave(c))
      BY <1>0, <3>3 DEF JoinRejected, JoinSave, CallState, KeepsGrant, Leading
    <3> QED  BY <2>2, <3>1, <3>2, <3>3 DEF ResumeJoin
  <2>3. CASE ReadLocked(m)
    <3>1. CASE m # c
      BY <1>0, <1>1, <2>3, <3>1 DEF ReadLocked, LockedConflict, LockedFresh, LockedAdopt,
                                    LockedFetch, Finish
    <3>2. CASE m = c /\ ~ LockedFetch(c)
      BY <1>0, <2>3, <3>2 DEF ReadLocked, LockedConflict, LockedFresh, LockedAdopt, Finish,
                              CallState, KeepsGrant, Leading
    <3>3. CASE m = c /\ LockedFetch(c)
      <4>1. /\ call'[c].grant = call[c].grant /\ call'[c].id = call[c].id
            /\ call'[c].pc = "fetch" /\ Leading(c)
        BY <1>0, <2>3, <3>3 DEF ReadLocked, LockedFetch, CallState, Leading
      <4> QED  BY <2>3, <3>3, <4>1 DEF KeepsGrant
    <3> QED  BY <3>1, <3>2, <3>3
  <2>4. CASE \/ OpenLock(m) \/ WriteLock(m) \/ InspectLock(m) \/ UnlinkStale(m)
             \/ LockTimeout(m) \/ Wake(m) \/ Release(m) \/ Receive(m) \/ FetchTimeout(m)
    <3>1. CASE m # c
      BY <1>0, <1>1, <2>4, <3>1 DEF OpenLock, WriteLock, InspectLock, UnlinkStale, LockTimeout,
                      Wake, Release, Receive, FetchTimeout, Finish
    <3>2. CASE m = c
      <4>1. /\ call'[c].grant = call[c].grant /\ call'[c].id = call[c].id
            /\ Leading(c) /\ call'[c].pc \notin {"join", "fetch"}
        BY <1>0, <2>4, <3>2 DEF OpenLock, WriteLock, InspectLock, UnlinkStale, LockTimeout,
                      Wake, Release, Receive, FetchTimeout, Finish, CallState, Leading
      <4> QED  BY <4>1 DEF KeepsGrant
    <3> QED  BY <3>1, <3>2
  <2> QED  BY <1>2, <2>1, <2>2, <2>3, <2>4 DEF CallStep, LockStep
<1>3. ASSUME NEW p \in Procs, Crash(p)  PROVE P
  <2>1. CASE call'[c] = call[c]
    BY <1>1, <2>1
  <2>2. CASE call'[c] # call[c]
    <3>1. call'[c].grant = call[c].grant /\ call'[c].id = call[c].id /\ call'[c].pc = "dead"
      BY <1>0, <1>3, <2>2 DEF Crash, CallState
    <3> QED  BY <3>1 DEF KeepsGrant, Leading
  <2> QED  BY <2>1, <2>2
<1>4. CASE UNCHANGED call
  BY <1>1, <1>4
<1> QED  BY <1>2, <1>3, <1>4 DEF Next, OperatorStep, EndpointStep, EndpointRotates,
            EndpointKeeps, EndpointRefuses, SignIn, Delete, Import, Expire, LockAges, vars

(* A call that has something on the wire keeps its grant.                  *)
LEMMA WiredKeepsGrant ==
    ASSUME Unaliased, [Next]_vars, NEW c \in Calls, wire[c].kind # "quiet"
    PROVE  /\ call'[c].grant = call[c].grant /\ call'[c].id = call[c].id
           /\ call[c].grant \in 1 .. issued /\ Answerable(c)
<1>1. /\ call[c].grant # 0 /\ call[c] \in States(issued) /\ call[c] \in CallState
      /\ issued \in Nat /\ Answerable(c)
  BY CallTyped DEF Unaliased, LineageInv, CallOK, WireOK
<1>2. wire'[c] = wire[c] \/ call' = call
  BY WireMotion DEF EndpointStep, EndpointRotates, EndpointKeeps, EndpointRefuses
<1>3. /\ call'[c].grant = call[c].grant /\ call'[c].id = call[c].id
  <2> USE CallTyped DEF CallState, Unaliased, TypeInv, Holdings
  <2>1. CASE Receive(c) \/ FetchTimeout(c)
    BY <1>1, <2>1 DEF Receive, FetchTimeout, Finish
  <2>2. CASE MovesOn(c) \/ EndpointStep(c)
    BY <2>2 DEF MovesOn, EndpointStep, EndpointRotates, EndpointKeeps, EndpointRefuses
  <2> QED  BY <2>1, <2>2, WireMotion
<1> QED  BY <1>1, <1>3 DEF States, CallState

(* A rotation stays what it is, and so does a spent grant.                 *)
LEMMA RotatedStays ==
    ASSUME Unaliased, [Next]_vars, NEW c \in Calls, Rotated(c)
    PROVE  /\ Rotated(c)' /\ wire'[c] = wire[c] /\ call'[c].grant = call[c].grant
           /\ call'[c].id = call[c].id /\ ~ EndpointStep(c)
<1>1. wire[c].kind = "response"
  BY DEF Rotated, RotatedBy
<1>2. ~ EndpointStep(c)
  BY <1>1 DEF EndpointStep, EndpointRotates, EndpointKeeps, EndpointRefuses, Issue
<1>3. wire'[c] = wire[c] /\ call'[c].grant = call[c].grant /\ call'[c].id = call[c].id
  BY <1>1, <1>2, WireMotion, WiredKeepsGrant
<1> QED  BY <1>1, <1>2, <1>3 DEF Rotated, RotatedBy

(* A call that has spent its grant is done: it keeps its answer.           *)
LEMMA SpendsStays ==
    ASSUME Unaliased, RotationInv, [Next]_vars, NEW c \in Calls, Spends(c)
    PROVE  Spends(c)' /\ call'[c].answer = call[c].answer
<1>1. wire[c].kind = "response" /\ ~ EndpointStep(c) /\ Rotated(c)'
  BY RotatedStays DEF Spends, Rotated, RotatedBy
<1>2. call[c].pc # "fetch"
  BY DEF Unaliased, LineageInv, CallOK, WaitOK, Spends, Received, Leads
<1>3. call'[c].answer = call[c].answer
  BY <1>1, <1>2, WireMotion DEF Receive, FetchTimeout, MovesOn
<1> QED  BY <1>1, <1>3 DEF Spends, Received

(* A grant that is spent stays spent.                                      *)
LEMMA SpentStays ==
    ASSUME Unaliased, RotationInv, [Next]_vars, NEW g, Spent(g)
    PROVE  Spent(g)'
<1>1. PICK c \in Calls : Spends(c) /\ call[c].grant = g
  BY DEF Spent
<1>2. Spends(c)' /\ call'[c].grant = g
  BY <1>1, SpendsStays, RotatedStays DEF Spends
<1> QED  BY <1>2 DEF Spent

(* A request is answered once, and a call stops waiting once.              *)
LEMMA ProgressKeeps ==
    ASSUME Unaliased, [Next]_vars, NEW c \in Calls, ProgressOK(c)
    PROVE  ProgressOK(c)'
<1>0. /\ call \in [Calls -> States(issued)] /\ wire \in [Calls -> Messages(issued)]
      /\ call[c] \in CallState /\ WaitOK(c)
  BY CallTyped DEF Unaliased, LineageInv, CallOK, TypeInv, Holdings
<1>1. CASE wire'[c].kind = "quiet"
  BY <1>1 DEF ProgressOK
<1>2. CASE ReadLocked(c) /\ LockedFetch(c)
  <2>1. /\ wire'[c].kind = "request" /\ call'[c].pc = "fetch"
        /\ call'[c].answer = call[c].answer /\ call[c].pc = "locked"
    BY <1>0, <1>2 DEF ReadLocked, LockedFetch, CallState
  <2> QED  BY <1>0, <2>1 DEF ProgressOK, WaitOK, Leads
<1>3. CASE wire'[c] = wire[c] /\ Receive(c)
  <2>1. ASSUME NEW a, Finish(c, a)  PROVE call'[c].answer = a
    BY <1>0, <2>1 DEF Finish, CallState
  <2>2. \/ wire[c].kind = "refusal" /\ Finish(c, Failed("refused"))
        \/ /\ wire[c].kind = "response"
           /\ \/ Finish(c, Failed("conflict"))
              \/ Finish(c, Ok(wire[c].credential, call[c].start + 1))
    BY <1>3, ReceiveRefreshes DEF Unaliased
  <2>3. \/ wire[c].kind = "refusal" /\ call'[c].answer.kind = "refused"
        \/ wire[c].kind = "response" /\ call'[c].answer.kind \in {"ok", "conflict"}
    BY <2>1, <2>2 DEF Failed, Ok
  <2> QED  BY <1>3, <2>3 DEF ProgressOK
<1>4. CASE wire'[c] = wire[c] /\ FetchTimeout(c)
  <2>1. call'[c].answer.kind = "fetch_timeout"
    BY <1>0, <1>4 DEF FetchTimeout, Finish, Failed, CallState
  <2> QED  BY <1>4, <2>1 DEF ProgressOK
<1>5. CASE wire'[c] = wire[c] /\ MovesOn(c)
  BY <1>5 DEF ProgressOK, MovesOn
<1>6. CASE EndpointStep(c)
  <2>1. CASE EndpointRotates(c) \/ EndpointKeeps(c)
    <3>1. wire[c].kind = "request" /\ call' = call /\ wire'[c].kind = "response"
      BY <1>0, <2>1 DEF EndpointRotates, EndpointKeeps, Issue
    <3> QED  BY <3>1 DEF ProgressOK
  <2>2. CASE EndpointRefuses(c)
    <3>1. wire[c].kind = "request" /\ call' = call /\ wire'[c].kind = "refusal"
      BY <1>0, <2>2 DEF EndpointRefuses, Messages, WireState
    <3> QED  BY <3>1 DEF ProgressOK
  <2> QED  BY <1>6, <2>1, <2>2 DEF EndpointStep
<1> QED  BY <1>1, <1>2, <1>3, <1>4, <1>5, <1>6, WireMotion

(* A rotation is an old one, or the endpoint's step with the newest token. *)
NewRotation(d) ==
    /\ EndpointRotates(d) /\ wire'[d].credential.grant = issued + 1
    /\ call' = call /\ store' = store /\ \A c \in Calls \ {d} : wire'[c] = wire[c]

(* A rotation was there before, or is the endpoint's in this step.         *)
LEMMA RotationStep ==
    ASSUME Unaliased, [Next]_vars, NEW d \in Calls, Rotated(d)'
    PROVE  \/ Rotated(d) /\ wire'[d] = wire[d]
           \/ NewRotation(d)
<1>0. /\ call \in [Calls -> States(issued)] /\ wire \in [Calls -> Messages(issued)]
      /\ call[d] \in CallState /\ WireOK(d)
  BY CallTyped DEF Unaliased, LineageInv, CallOK, TypeInv, Holdings
<1>1. /\ wire'[d].kind = "response" /\ wire'[d].credential.grant # call'[d].grant
  BY DEF Rotated, RotatedBy
<1>2. CASE EndpointStep(d)
  <2>1. call' = call /\ store' = store /\ wire[d].credential.grant = call[d].grant
    BY <1>0, <1>2 DEF EndpointStep, EndpointRotates, EndpointKeeps, EndpointRefuses, Issue, WireOK
  <2>2. ASSUME EndpointKeeps(d)  PROVE FALSE
    <3>1. wire'[d].credential.grant = wire[d].credential.grant
      BY <1>0, <2>2 DEF EndpointKeeps, Issue
    <3> QED  BY <1>1, <2>1, <3>1
  <2>5. ASSUME EndpointRefuses(d)  PROVE FALSE
    <3>1. wire'[d].kind = "refusal"
      BY <1>0, <2>5 DEF EndpointRefuses, Messages, WireState
    <3> QED  BY <1>1, <3>1
  <2>3. EndpointRotates(d) /\ wire'[d].credential.grant = issued + 1
    BY <1>0, <1>2, <2>2, <2>5 DEF EndpointStep, EndpointRotates, Issue
  <2>4. \A c \in Calls \ {d} : wire'[c] = wire[c]
    BY <1>0, <2>3 DEF EndpointRotates, Issue
  <2> QED  BY <2>1, <2>3, <2>4 DEF NewRotation
<1>3. CASE ReadLocked(d) /\ LockedFetch(d)
  <2>1. wire'[d].kind = "request"
    BY <1>0, <1>3 DEF LockedFetch
  <2> QED  BY <1>1, <2>1
<1>4. CASE wire'[d] = wire[d]
  <2>1. wire[d].kind # "quiet"
    BY <1>1, <1>4
  <2>2. call'[d].grant = call[d].grant
    BY <2>1, WiredKeepsGrant
  <2> QED  BY <1>1, <1>4, <2>2 DEF Rotated, RotatedBy
<1> QED  BY <1>1, <1>2, <1>3, <1>4, WireMotion

(* A grant is spent at the step in which the call receives the rotation.   *)
LEMMA SpendStep ==
    ASSUME Unaliased, [Next]_vars, NEW c \in Calls, ProgressOK(c), Spends(c)'
    PROVE  Spends(c) \/ (Rotated(c) /\ Receive(c))
<1>0. call \in [Calls -> States(issued)] /\ call[c] \in CallState
  BY CallTyped DEF Unaliased, TypeInv, Holdings
<1>1. Rotated(c)' /\ call'[c].answer.kind \in {"ok", "conflict"}
  BY DEF Spends, Received
<1>2. CASE NewRotation(c)
  <2>1. wire[c].kind = "request" /\ call' = call
    BY <1>2 DEF NewRotation, EndpointRotates, Issue
  <2> QED  BY <1>1, <2>1 DEF ProgressOK
<1>3. CASE Rotated(c) /\ wire'[c] = wire[c]
  <2>1. wire[c].kind = "response" /\ ~ EndpointStep(c)
    BY <1>3, RotatedStays DEF Rotated, RotatedBy
  <2>2. ~ FetchTimeout(c)
    BY <1>0, <1>1 DEF FetchTimeout, Finish, Failed, CallState
  <2>3. MovesOn(c) => Spends(c)
    BY <1>1, <1>3 DEF MovesOn, Spends, Received
  <2> QED  BY <1>3, <2>1, <2>2, <2>3, WireMotion
<1> QED  BY <1>1, <1>2, <1>3, RotationStep

(* A grant stays accounted for.                                            *)
AccountedNext(g) ==
    \/ g \in accepted'
    \/ \E c \in Calls : /\ call'[c].grant = g /\ wire'[c].kind = "response"
                        /\ wire'[c].credential.grant # g

(* A grant that is accounted for stays so: the endpoint withdraws a grant  *)
(* only by replacing it for the call that sent it.                         *)
LEMMA AccountedStays ==
    ASSUME Unaliased, [Next]_vars, NEW g \in 1 .. issued, Accounted(g)
    PROVE  AccountedNext(g)
<1>0. /\ call \in [Calls -> States(issued)] /\ wire \in [Calls -> Messages(issued)]
      /\ issued \in Nat
  BY DEF Unaliased, TypeInv, Holdings, Rest
<1>1. ASSUME NEW c \in Calls, RotatedBy(c, g)  PROVE AccountedNext(g)
  <2>1. Rotated(c) /\ call[c].grant = g
    BY <1>1 DEF Rotated, RotatedBy
  <2>2. Rotated(c)' /\ call'[c].grant = g
    BY <2>1, RotatedStays
  <2> QED  BY <2>2 DEF Rotated, RotatedBy, AccountedNext
<1>2. ASSUME NEW c \in Calls, EndpointRotates(c), g \in accepted  PROVE AccountedNext(g)
  <2>1. /\ wire[c].kind = "request" /\ call' = call /\ wire'[c].kind = "response"
        /\ wire'[c].credential.grant = issued + 1
        /\ accepted' = (accepted \ {wire[c].credential.grant}) \cup {issued + 1}
    BY <1>0, <1>2 DEF EndpointRotates, Issue
  <2>2. wire[c].credential.grant = call[c].grant
    BY <2>1 DEF Unaliased, LineageInv, CallOK, WireOK
  <2>3. CASE g = call[c].grant
    BY <1>0, <2>1, <2>3 DEF AccountedNext
  <2>4. CASE g # call[c].grant
    BY <1>2, <2>1, <2>2, <2>4 DEF AccountedNext
  <2> QED  BY <2>3, <2>4
<1>3. CASE accepted \subseteq accepted' /\ g \in accepted
  BY <1>3 DEF AccountedNext
<1>4. ASSUME NEW c \in Calls, CallStep(c)  PROVE accepted' = accepted
  BY <1>4 DEF CallStep, LockStep, Begin, LockTimeout, Wake, FetchTimeout, OpenLock, WriteLock,
              InspectLock, UnlinkStale, Release, ReadLocked, Receive, ResumeJoin, endpoint
<1>5. \/ accepted \subseteq accepted'
      \/ \E c \in Calls : EndpointRotates(c)
  <2>1. CASE OperatorStep
    BY <2>1 DEF OperatorStep, SignIn, Delete, Import, endpoint
  <2>2. CASE \E c \in Calls : EndpointStep(c)
    BY <2>2 DEF EndpointStep, EndpointKeeps, EndpointRefuses, endpoint
  <2> QED  BY <1>4, <2>1, <2>2 DEF Next, Expire, Crash, LockAges, endpoint, vars
<1> QED  BY <1>1, <1>2, <1>3, <1>5 DEF Accounted

(* What a leader shares has the grant that its waiters' records still have. *)
LEMMA SharedKeepsGrant ==
    ASSUME Unaliased, RotationInv, NEW c \in Calls, JoinSave(c), Resumable(c)
    PROVE  call[call[c].leader].answer.credential.grant = call[c].grant
<1> DEFINE l == call[c].leader
<1>1. /\ l \in Calls /\ call[c].id \in Accounts /\ call[c].grant # 0
      /\ intent[call[c].id] = Login(c)
  BY SharedDescends
<1>2. /\ call[l].answer.kind = "ok" /\ IsLive(store[call[c].id])
      /\ store[call[c].id].credential.grant = call[c].grant
  BY DEF JoinSave
<1>3. call[l].grant = call[c].grant
  BY DEF Unaliased, LineageInv, CallOK, JoinOK, Resumable
<1>4. AnswerGrantOK(l)
  BY <1>1 DEF RotationInv
<1>5. ~ Spent(call[l].grant)
  BY <1>1, <1>2, <1>3 DEF Spent, RotationInv, SpentOK
<1> QED  BY <1>1, <1>2, <1>3, <1>4, <1>5 DEF AnswerGrantOK, Login

(* What a step does to the grant of a live record: a refresh that keeps it, *)
(* a login, or the receipt of a rotation, which spends it.                 *)
Renewed(i, e) ==
    /\ IsLive(store[i]) /\ call[e].id = i /\ call[e].grant = store[i].credential.grant
    /\ store'[i].credential.grant = store[i].credential.grant
    /\ (Receive(e) /\ call[e].pc = "fetch") \/ Resumable(e)

(* A login of the user brings a grant nobody had.                          *)
SignedIn(i) ==
    /\ issued' = issued + 1 /\ store'[i].credential.grant = issued + 1
    /\ intent'[i] = issued + 1 /\ issued + 1 \in accepted'

(* The call that receives a rotation writes it and spends its grant.       *)
Replaced(i, e) ==
    /\ IsLive(store[i]) /\ call[e].id = i /\ call[e].grant = store[i].credential.grant
    /\ store'[i].credential.grant = wire[e].credential.grant
    /\ Receive(e) /\ call[e].pc = "fetch" /\ Rotated(e)
    /\ Spends(e)' /\ call'[e].grant = call[e].grant

(* These are all the ways in which the grant of a live record changes.     *)
LEMMA GrantStep ==
    ASSUME Unaliased, RotationInv, [Next]_vars, NEW i \in Accounts, IsLive(store'[i])
    PROVE  \/ store'[i] = store[i]
           \/ \E e \in Calls : Renewed(i, e) \/ Replaced(i, e)
           \/ SignedIn(i)
<1> DEFINE P == \/ store'[i] = store[i]
                \/ \E e \in Calls : Renewed(i, e) \/ Replaced(i, e)
                \/ SignedIn(i)
<1>0. /\ store \in [Accounts -> Records(issued)] /\ call \in [Calls -> States(issued)]
      /\ \A e \in Calls : call[e] \in CallState
  BY CallTyped DEF Unaliased, TypeInv, Holdings
<1>1. ASSUME NEW e \in Calls, Receive(e), store'[i] # store[i]  PROVE P
  <2> DEFINE k == wire[e].credential
  <2>1. /\ wire[e].kind = "response" /\ MaySave(store[call[e].id], call[e].start)
        /\ Finish(e, Ok(k, call[e].start + 1)) /\ Refreshed(call[e].id, k)
    BY <1>1, ReceiveRefreshes DEF Unaliased
  <2>2. /\ call[e].id = i /\ IsLive(store[i]) /\ store'[i].credential = k
    BY <1>0, <1>1, <2>1 DEF Refreshed, Saved
  <2>3. call[e].pc = "fetch" /\ store[i].credential.grant = call[e].grant
    BY <1>1, <2>1, <2>2 DEF Receive, MaySave, IsGenerationLive, Unaliased, LineageInv, CallOK, FetchOK
  <2>4. CASE k.grant = call[e].grant
    BY <1>1, <2>2, <2>3, <2>4 DEF Renewed
  <2>5. CASE k.grant # call[e].grant
    <3>1. Rotated(e)
      BY <2>1, <2>5 DEF Rotated, RotatedBy
    <3>2. call'[e].answer.kind = "ok"
      BY <1>0, <2>1 DEF Finish, Ok, CallState
    <3>3. Spends(e)' /\ call'[e].grant = call[e].grant
      BY <3>1, <3>2, RotatedStays DEF Spends, Received
    <3> QED  BY <1>1, <2>2, <2>3, <3>1, <3>3 DEF Replaced
  <2> QED  BY <2>4, <2>5
<1>2. ASSUME NEW e \in Calls, ResumeJoin(e), store'[i] # store[i]  PROVE P
  <2>1. JoinSave(e) /\ Resumable(e)
    BY <1>2 DEF ResumeJoin, JoinRejected, JoinAgain
  <2>2. Refreshed(call[e].id, call[call[e].leader].answer.credential)
    BY <1>2, <2>1, JoinRefreshes DEF ResumeJoin, Unaliased
  <2>3. /\ call[e].id = i /\ IsLive(store[i])
        /\ store'[i].credential = call[call[e].leader].answer.credential
    BY <1>0, <1>2, <2>2 DEF Refreshed, Saved
  <2>4. store[i].credential.grant = call[e].grant
    BY <2>1, <2>3 DEF JoinSave
  <2> QED  BY <2>1, <2>3, <2>4, SharedKeepsGrant DEF Renewed
<1>3. ASSUME NEW e \in Calls, CallStep(e), ~ Receive(e), ~ ResumeJoin(e)
      PROVE  store' = store
  <2>1. CASE ReadLocked(e)
    BY <2>1, NothingToAdopt DEF ReadLocked, LockedConflict, LockedFresh, LockedAdopt, LockedFetch
  <2> QED  BY <1>3, <2>1 DEF CallStep, LockStep, Begin, LockTimeout, Wake, FetchTimeout,
              OpenLock, WriteLock, InspectLock, UnlinkStale, Release
<1>4. ASSUME NEW p \in Procs, NEW j \in Accounts, SignIn(p, j)  PROVE P
  <2>1. CASE i = j
    <3>1. store'[i].credential = [token |-> issued + 1, grant |-> issued + 1]
      BY <1>0, <1>4, <2>1 DEF SignIn, Saved
    <3>2. intent'[i] = issued + 1 /\ issued' = issued + 1 /\ issued + 1 \in accepted'
      BY <1>4, <2>1 DEF SignIn, Unaliased, TypeInv, Rest
    <3> QED  BY <3>1, <3>2 DEF SignedIn
  <2>2. CASE i # j
    BY <1>0, <1>4, <2>2 DEF SignIn
  <2> QED  BY <2>1, <2>2
<1>5. ASSUME NEW p \in Procs, NEW j \in Accounts, Delete(p, j)  PROVE P
  BY <1>0, <1>5 DEF Delete, Tombstoned, IsLive
<1>6. ASSUME NEW e \in Calls, EndpointStep(e)  PROVE store' = store
  BY <1>6 DEF EndpointStep, EndpointRotates, EndpointKeeps, EndpointRefuses
<1>7. CASE OperatorStep
  BY <1>4, <1>5, <1>7 DEF OperatorStep, Import, Unaliased
<1>8. CASE \E e \in Calls : CallStep(e) \/ EndpointStep(e)
  BY <1>1, <1>2, <1>3, <1>6, <1>8
<1> QED  BY <1>7, <1>8 DEF Next, Expire, Crash, LockAges, vars

(* Every grant in use stays accounted for.                                 *)
LEMMA AccountedKeeps ==
    ASSUME Unaliased, RotationInv, [Next]_vars
    PROVE  AccountedOK'
<1>0. /\ AccountedOK /\ issued \in Nat /\ wire \in [Calls -> Messages(issued)]
  BY DEF Unaliased, TypeInv, Holdings, Rest, RotationInv
<1>1. ASSUME NEW i \in Accounts, IsLive(store[i])
      PROVE  AccountedNext(store[i].credential.grant)
  BY <1>0, <1>1, LiveIsIssued, AccountedStays DEF Unaliased, AccountedOK
<1>2. ASSUME NEW c \in Calls, wire[c].kind = "response"
      PROVE  AccountedNext(wire[c].credential.grant)
  BY <1>0, <1>2, AccountedStays DEF AccountedOK, Messages, Credentials
<1>3. ASSUME NEW i \in Accounts, IsLive(store'[i])
      PROVE  AccountedNext(store'[i].credential.grant)
  <2>1. CASE SignedIn(i)
    BY <2>1 DEF SignedIn, AccountedNext
  <2>2. CASE store'[i] = store[i]
    BY <1>1, <1>3, <2>2
  <2>3. ASSUME NEW e \in Calls, Renewed(i, e) \/ Replaced(i, e)
        PROVE  AccountedNext(store'[i].credential.grant)
    BY <1>1, <1>2, <2>3 DEF Renewed, Replaced, Rotated, RotatedBy
  <2> QED  BY <1>3, <2>1, <2>2, <2>3, GrantStep
<1>4. ASSUME NEW c \in Calls, wire'[c].kind = "response"
      PROVE  AccountedNext(wire'[c].credential.grant)
  <2>1. CASE wire'[c] = wire[c]
    BY <1>2, <1>4, <2>1
  <2>2. CASE ReadLocked(c) /\ LockedFetch(c)
    <3>1. wire'[c].kind = "request"
      BY <1>0, <2>2 DEF LockedFetch
    <3> QED  BY <1>4, <3>1
  <2>3. CASE EndpointRotates(c)
    BY <1>0, <2>3 DEF EndpointRotates, Issue, AccountedNext
  <2>4. CASE EndpointKeeps(c)
    BY <1>0, <2>4 DEF EndpointKeeps, Issue, AccountedNext
  <2>5. CASE EndpointRefuses(c)
    <3>1. wire'[c].kind = "refusal"
      BY <1>0, <2>5 DEF EndpointRefuses, Messages, WireState
    <3> QED  BY <1>4, <3>1
  <2> QED  BY <1>4, <2>1, <2>2, <2>3, <2>4, <2>5, WireMotion DEF EndpointStep
<1> QED  BY <1>3, <1>4 DEF AccountedOK, Accounted, AccountedNext, RotatedBy

(* The new grant of a fetch under way is in no call and no record.         *)
LEMMA UnseenKeeps ==
    ASSUME Unaliased, RotationInv, [Next]_vars, NEW d \in Calls
    PROVE  UnseenOK(d)'
<1> SUFFICES ASSUME call'[d].pc = "fetch", Rotated(d)'
             PROVE  /\ \A c \in Calls : call'[c].grant # wire'[d].credential.grant
                    /\ \A i \in Accounts : IsLive(store'[i])
                         => store'[i].credential.grant # wire'[d].credential.grant
  BY DEF UnseenOK
<1>0. /\ issued \in Nat /\ wire \in [Calls -> Messages(issued)]
      /\ \A c \in Calls : call[c].grant \in Nat /\ call[c].grant <= issued
      /\ \A e \in Calls : Rotated(e) => wire[e].credential.grant \in 1 .. issued
      /\ UnseenOK(d) /\ NewGrantsDiffer
  BY CallTyped DEF Unaliased, TypeInv, Holdings, Rest, RotationInv, CallState, States,
                   Rotated, RotatedBy, Messages, Credentials
<1>1. CASE NewRotation(d)
  <2>1. \A i \in Accounts : IsLive(store[i]) => store[i].credential.grant \in 1 .. issued
    BY LiveIsIssued DEF Unaliased
  <2> QED  BY <1>0, <1>1, <2>1 DEF NewRotation
<1>2. CASE Rotated(d) /\ wire'[d] = wire[d]
  <2> DEFINE n == wire[d].credential.grant
  <2>1. ~ EndpointStep(d) /\ wire[d].kind # "quiet"
    BY <1>2, RotatedStays DEF Rotated, RotatedBy
  <2>2. ~ Receive(d) /\ call[d].pc = "fetch"
    <3>1. call[d] \in CallState /\ call \in [Calls -> States(issued)]
      BY CallTyped DEF Unaliased, TypeInv, Holdings
    <3>2. ~ Receive(d) /\ ~ FetchTimeout(d)
      BY <3>1 DEF Receive, FetchTimeout, Finish, CallState
    <3> QED  BY <2>1, <3>2, WireMotion DEF MovesOn
  <2>3. /\ \A c \in Calls : call[c].grant # n
        /\ \A i \in Accounts : IsLive(store[i]) => store[i].credential.grant # n
        /\ n \in 1 .. issued
    BY <1>0, <1>2, <2>2 DEF UnseenOK
  <2>4. ASSUME NEW c \in Calls  PROVE call'[c].grant # n
    BY <2>3, GrantMotion DEF KeepsGrant, Takes
  <2>5. ASSUME NEW i \in Accounts, IsLive(store'[i])  PROVE store'[i].credential.grant # n
    <3>1. CASE store'[i] = store[i]
      BY <2>3, <2>5, <3>1
    <3>2. CASE SignedIn(i)
      BY <1>0, <2>3, <3>2 DEF SignedIn
    <3>3. ASSUME NEW e \in Calls, Renewed(i, e)  PROVE store'[i].credential.grant # n
      BY <2>3, <3>3 DEF Renewed
    <3>4. ASSUME NEW e \in Calls, Replaced(i, e)  PROVE store'[i].credential.grant # n
      BY <1>0, <1>2, <2>2, <3>4 DEF Replaced, NewGrantsDiffer
    <3> QED  BY <2>5, <3>1, <3>2, <3>3, <3>4, GrantStep
  <2> QED  BY <1>2, <2>4, <2>5
<1> QED  BY <1>1, <1>2, RotationStep

(* Two rotations never bring the same grant.                               *)
LEMMA NewGrantsKeep ==
    ASSUME Unaliased, RotationInv, [Next]_vars
    PROVE  NewGrantsDiffer'
<1> SUFFICES ASSUME NEW d \in Calls, NEW e \in Calls, d # e, Rotated(d)', Rotated(e)'
             PROVE  wire'[d].credential.grant # wire'[e].credential.grant
  BY DEF NewGrantsDiffer
<1>0. /\ issued \in Nat /\ NewGrantsDiffer
      /\ \A c \in Calls : Rotated(c) => wire[c].credential.grant \in 1 .. issued
  BY DEF Unaliased, TypeInv, Holdings, Rest, RotationInv, Rotated, RotatedBy, Messages, Credentials
<1>1. ASSUME NEW c \in Calls, NEW f \in Calls, c # f, NewRotation(c), NewRotation(f)
      PROVE  FALSE
  <2>1. wire'[f] = wire[f] /\ wire[f].kind = "request"
    BY <1>1 DEF NewRotation, EndpointRotates, Issue
  <2>2. wire'[f].kind = "response"
    BY <1>1 DEF NewRotation, EndpointRotates, Issue, Unaliased, TypeInv, Holdings
  <2> QED  BY <2>1, <2>2
<1>2. (Rotated(d) /\ wire'[d] = wire[d]) \/ NewRotation(d)
  BY RotationStep
<1>3. (Rotated(e) /\ wire'[e] = wire[e]) \/ NewRotation(e)
  BY RotationStep
<1> QED  BY <1>0, <1>1, <1>2, <1>3 DEF NewGrantsDiffer, NewRotation

(* A call leads for a grant it led for before or takes from a live record. *)
LEMMA LeadMotion ==
    ASSUME Unaliased, [Next]_vars, NEW d \in Calls, Leading(d)'
    PROVE  \/ Leading(d) /\ call'[d].grant = call[d].grant
           \/ \E i \in Accounts : Takes(d, i) /\ MayTake(d, i)
<1>1. call'[d].pc # "done"
  BY DEF Leading
<1> QED  BY <1>1, GrantMotion DEF KeepsGrant

(* A spent grant comes back neither into a record nor to a leader: nobody  *)
(* holds it but the call that spent it and waiters that resume from its    *)
(* answer.                                                                 *)
LEMMA SpentKeeps ==
    ASSUME OneProcess, Unaliased, OneLeaderPerGrant, RotationInv, [Next]_vars, NEW c \in Calls
    PROVE  SpentOK(c)'
<1> SUFFICES ASSUME Spends(c)'
             PROVE  /\ \A i \in Accounts : IsLive(store'[i])
                         => store'[i].credential.grant # call'[c].grant
                    /\ \A d \in Calls \ {c} : Leading(d)' => call'[d].grant # call'[c].grant
  BY DEF SpentOK
<1>0. /\ issued \in Nat /\ call \in [Calls -> States(issued)] /\ CallOK(c)
      /\ ProgressOK(c) /\ SpentOK(c) /\ SameRecordOK(c) /\ \A e \in Calls : UnseenOK(e)
      /\ store \in [Accounts -> Records(issued)] /\ call[c] \in CallState
  BY CallTyped DEF Unaliased, LineageInv, TypeInv, Holdings, Rest, RotationInv
<1>1. Rotated(c)
  BY <1>0, SpendStep DEF Spends
<1>2. call'[c].grant = call[c].grant /\ call[c].grant \in 1 .. issued
  BY <1>1, RotatedStays, WiredKeepsGrant DEF Rotated, RotatedBy
<1>3. CASE Spends(c)
  <2>1. /\ \A i \in Accounts : IsLive(store[i]) => store[i].credential.grant # call[c].grant
        /\ \A d \in Calls \ {c} : Leading(d) => call[d].grant # call[c].grant
    BY <1>0, <1>3 DEF SpentOK
  <2>2. ASSUME NEW i \in Accounts, IsLive(store'[i])
        PROVE  store'[i].credential.grant # call[c].grant
    <3>1. CASE store'[i] = store[i]
      BY <2>1, <2>2, <3>1
    <3>2. CASE SignedIn(i)
      BY <1>0, <1>2, <3>2 DEF SignedIn
    <3>3. ASSUME NEW e \in Calls, Renewed(i, e) \/ Replaced(i, e)
          PROVE  store'[i].credential.grant # call[c].grant
      BY <1>0, <2>1, <3>3 DEF Renewed, Replaced, UnseenOK
    <3> QED  BY <2>2, <3>1, <3>2, <3>3, GrantStep
  <2>3. ASSUME NEW d \in Calls \ {c}, Leading(d)'
        PROVE  call'[d].grant # call[c].grant
    BY <2>1, <2>3, LeadMotion DEF Takes
  <2> QED  BY <1>2, <2>2, <2>3
<1>4. CASE Receive(c)
  <2> DEFINE r == call[c].id
             g == call[c].grant
             k == wire[c].credential
  <2>0. r \in Accounts /\ call[c].pc = "fetch" /\ Leading(c)
    BY <1>0, <1>4 DEF CallState, Receive, Leading
  <2>1. \A j \in Accounts : IsLive(store[j]) /\ store[j].credential.grant = g => j = r
    BY <1>0, <1>2 DEF CallOK, OwnerOK, Login, Unaliased, LineageInv, RecordsOK, Descends
  <2>2. CASE Refreshed(r, k)
    <3>1. store'[r].credential = k /\ \A j \in Accounts \ {r} : store'[j] = store[j]
      BY <1>0, <2>0, <2>2 DEF Refreshed, Saved
    <3>2. k.grant # g
      BY <1>1 DEF Rotated, RotatedBy
    <3> QED
      <4>1. \A i \in Accounts : IsLive(store'[i]) => store'[i].credential.grant # g
        BY <2>1, <3>1, <3>2
      <4>2. ASSUME NEW d \in Calls \ {c}, Leading(d)'  PROVE call'[d].grant # g
        <5>1. call'[d] = call[d] /\ Leading(d)
          BY <1>0, <1>4, <4>2 DEF Receive, Finish, Leading
        <5>2. ProcOf[c] = ProcOf[d]
          BY RefreshAssumption DEF OneProcess
        <5> QED  BY <2>0, <5>1, <5>2 DEF OneLeaderPerGrant
      <4> QED  BY <1>2, <4>1, <4>2
  <2>3. CASE ~ MaySave(store[r], call[c].start) /\ store' = store
    <3>1. ~ (IsLive(store[r]) /\ store[r].credential.grant = g)
      BY <1>0, <2>0, <2>3 DEF SameRecordOK, MaySave, IsGenerationLive
    <3>2. \A i \in Accounts : IsLive(store'[i]) => store'[i].credential.grant # g
      BY <2>1, <2>3, <3>1
    <3>3. ASSUME NEW d \in Calls \ {c}, Leading(d)'  PROVE call'[d].grant # g
      <4>1. call'[d] = call[d] /\ Leading(d)
        BY <1>0, <1>4, <3>3 DEF Receive, Finish, Leading
      <4>2. ProcOf[c] = ProcOf[d]
        BY RefreshAssumption DEF OneProcess
      <4> QED  BY <2>0, <4>1, <4>2 DEF OneLeaderPerGrant
    <3> QED  BY <1>2, <3>2, <3>3
  <2>4. wire[c].kind = "response"
    BY <1>1 DEF Rotated, RotatedBy
  <2> QED  BY <1>4, <2>2, <2>3, <2>4, ReceiveRefreshes DEF Unaliased
<1> QED  BY <1>0, <1>3, <1>4, SpendStep

(* The record keeps the grant a call works for, until it is spent.         *)
LEMMA RecordGrantKeeps ==
    ASSUME Unaliased, RotationInv, [Next]_vars, DeletedStaysDeleted', NEW c \in Calls
    PROVE  RecordGrantOK(c)'
<1> SUFFICES ASSUME call'[c].grant # 0, intent'[call'[c].id] = Login(c)'
             PROVE  store'[call'[c].id].credential.grant = call'[c].grant \/ Spent(call[c].grant)'
  BY DEF RecordGrantOK
<1>0. /\ issued \in Nat /\ call[c] \in CallState /\ call[c] \in States(issued)
      /\ call[c].id \in Accounts
  BY CallTyped DEF Unaliased, CallState
<1>1. CASE \E i \in Accounts : Takes(c, i)
  BY <1>1 DEF Takes
<1>2. CASE KeepsGrant(c)
  <2> DEFINE g == call[c].grant
             r == call[c].id
  <2>1. g \in 1 .. issued /\ call'[c].grant = g /\ call'[c].id = r
    BY <1>0, <1>2 DEF KeepsGrant, States, CallState
  <2>2. lineage'[g] = lineage[g] /\ lineage[g] \in 1 .. issued /\ intent'[r] = lineage[g]
    BY <2>1, LoginStep DEF Login
  <2>3. intent[r] = lineage[g]
    BY <1>0, <2>1, <2>2, LoginStep
  <2>4. IsLive(store[r]) /\ IsLive(store'[r])
    BY <1>0, <2>2, <2>3 DEF DeletedStaysDeleted, Unaliased
  <2>5. store[r].credential.grant = g \/ Spent(g)
    BY <2>1, <2>3 DEF RotationInv, RecordGrantOK, Login
  <2>6. CASE Spent(g)
    BY <2>1, <2>6, SpentStays
  <2>7. CASE store[r].credential.grant = g
    <3>1. CASE SignedIn(r)
      BY <1>0, <2>2, <3>1 DEF SignedIn
    <3>2. ASSUME NEW e \in Calls, Renewed(r, e)  PROVE store'[r].credential.grant = g
      BY <2>7, <3>2 DEF Renewed
    <3>3. ASSUME NEW e \in Calls, Replaced(r, e)  PROVE Spends(e)' /\ call'[e].grant = g
      BY <2>7, <3>3 DEF Replaced
    <3>4. CASE \E e \in Calls : Replaced(r, e)
      BY <2>1, <3>3, <3>4 DEF Spent
    <3> QED  BY <1>0, <2>1, <2>4, <2>7, <3>1, <3>2, <3>4, GrantStep
  <2> QED  BY <2>5, <2>6, <2>7
<1> QED  BY <1>1, <1>2, GrantMotion

(* So does the answer, which is the record's credential when it is given.  *)
LEMMA AnswerGrantKeeps ==
    ASSUME Unaliased, RotationInv, [Next]_vars, Unaliased', NEW c \in Calls,
           RecordGrantOK(c)'
    PROVE  AnswerGrantOK(c)'
<1> SUFFICES ASSUME call'[c].grant # 0, call'[c].answer.kind = "ok"
             PROVE  \/ \A j \in Accounts : intent'[j] # Login(c)'
                    \/ call'[c].answer.credential.grant = call'[c].grant
                    \/ Spent(call[c].grant)'
  BY DEF AnswerGrantOK
<1>0. /\ issued \in Nat /\ call[c] \in CallState /\ call[c] \in States(issued)
      /\ CallOK(c) /\ OwnerOK(c)' /\ AnswerGrantOK(c)
  BY CallTyped DEF Unaliased, LineageInv, CallOK, RotationInv
<1>1. CASE call'[c].answer # call[c].answer
  <2>1. store'[call'[c].id].credential = call'[c].answer.credential
    BY <1>1, AnswerStep DEF AnsweredFromStore, Unaliased
  <2>2. CASE intent'[call'[c].id] = Login(c)'
    BY <2>1, <2>2 DEF RecordGrantOK
  <2>3. CASE intent'[call'[c].id] # Login(c)'
    BY <1>0, <2>3 DEF OwnerOK
  <2> QED  BY <2>2, <2>3
<1>2. CASE call'[c].answer = call[c].answer
  <2>1. ASSUME NEW i \in Accounts, Takes(c, i)  PROVE FALSE
    BY <1>0, <1>2, <2>1 DEF Takes, CallOK, WaitOK
  <2>2. CASE KeepsGrant(c)
    <3> DEFINE g == call[c].grant
    <3>1. g \in 1 .. issued /\ call'[c].grant = g
      BY <1>0, <2>2 DEF KeepsGrant, States, CallState
    <3>2. Login(c)' = lineage[g] /\ \A j \in Accounts : intent'[j] = lineage[g] => intent[j] = lineage[g]
      BY <3>1, LoginStep DEF Login
    <3>3. \/ \A j \in Accounts : intent[j] # lineage[g]
          \/ call[c].answer.credential.grant = g
          \/ Spent(g)
      BY <1>0, <1>2, <3>1 DEF AnswerGrantOK, Login
    <3>4. Spent(g) => Spent(call[c].grant)'
      BY <3>1, SpentStays
    <3> QED  BY <1>2, <3>1, <3>2, <3>3, <3>4
  <2> QED  BY <2>1, <2>2, GrantMotion
<1> QED  BY <1>1, <1>2

(* Nobody writes the record of a fetch under way and leaves its grant.     *)
LEMMA SameRecordKeeps ==
    ASSUME OneProcess, Unaliased, OneLeaderPerGrant, RotationInv, [Next]_vars, NEW c \in Calls
    PROVE  SameRecordOK(c)'
<1> SUFFICES ASSUME call'[c].pc = "fetch", IsLive(store'[call'[c].id]),
                    store'[call'[c].id].credential.grant = call'[c].grant
             PROVE  store'[call'[c].id].generation = call'[c].start
  BY DEF SameRecordOK
<1>0. /\ issued \in Nat /\ call \in [Calls -> States(issued)]
      /\ call[c] \in CallState /\ call[c].id \in Accounts
      /\ call[c].grant <= issued /\ call[c].grant \in Nat
      /\ SameRecordOK(c) /\ WaitersOK /\ \A e \in Calls : UnseenOK(e)
  BY CallTyped DEF Unaliased, TypeInv, Holdings, RotationInv, CallState, States
<1>1. KeepsGrant(c)
  BY GrantMotion DEF Takes
<1>2. CASE ReadLocked(c) /\ LockedFetch(c)
  BY <1>0, <1>2 DEF LockedFetch, RecordOf, CallState
<1>3. CASE call[c].pc = "fetch" /\ call'[c].start = call[c].start
  <2> DEFINE r == call[c].id
             g == call[c].grant
  <2>1. call'[c].id = r /\ call'[c].grant = g /\ Leading(c)
    BY <1>1, <1>3 DEF KeepsGrant, Leading
  <2>2. CASE store'[r] = store[r]
    BY <1>0, <1>3, <2>1, <2>2 DEF SameRecordOK
  <2>3. CASE SignedIn(r)
    BY <1>0, <2>1, <2>3 DEF SignedIn
  <2>4. ASSUME NEW e \in Calls, Replaced(r, e)  PROVE FALSE
    BY <1>0, <2>1, <2>4 DEF Replaced, UnseenOK
  <2>5. ASSUME NEW e \in Calls, Renewed(r, e)  PROVE FALSE
    <3>1. call[e].grant = g
      BY <2>1, <2>5 DEF Renewed
    <3>2. CASE Resumable(e)
      BY <1>0, <2>1, <3>1, <3>2 DEF WaitersOK
    <3>3. CASE Receive(e) /\ call[e].pc = "fetch"
      <4>1. e # c
        BY <1>0, <3>3 DEF Receive, Finish, CallState
      <4>2. Leading(e) /\ ProcOf[e] = ProcOf[c]
        BY <3>3, RefreshAssumption DEF Leading, OneProcess
      <4> QED  BY <2>1, <3>1, <4>1, <4>2 DEF OneLeaderPerGrant
    <3> QED  BY <2>5, <3>2, <3>3 DEF Renewed
  <2> QED  BY <1>0, <2>1, <2>2, <2>3, <2>4, <2>5, GrantStep
<1> QED  BY <1>1, <1>2, <1>3 DEF KeepsGrant

(* A leader that ends was running, and gives the event loop back.          *)
LEMMA LeaderEnds ==
    ASSUME Unaliased, [Next]_vars, NEW l \in Calls, Leading(l), call'[l].pc = "done"
    PROVE  /\ Running(l) /\ busy'[ProcOf[l]] = NoCall
           /\ \A d \in Calls \ {l} : call'[d] = call[d]
<1> DEFINE P == /\ Running(l) /\ busy'[ProcOf[l]] = NoCall
                /\ \A d \in Calls \ {l} : call'[d] = call[d]
<1>0. /\ call \in [Calls -> States(issued)] /\ call[l] \in CallState
      /\ busy \in [Procs -> Calls \cup {NoCall}] /\ ProcOf[l] \in Procs
      /\ call[l].pc \in Leads
  BY CallTyped, RefreshAssumption DEF Unaliased, TypeInv, Holdings, Rest, Leading, Leads
<1>1. CASE Release(l) \/ LockTimeout(l)
  BY <1>0, <1>1 DEF Release, LockTimeout, Block
<1>2. ASSUME call'[l] = call[l] \/ call'[l].pc \in Leads \cup {"dead", "join"}  PROVE P
  BY <1>0, <1>2 DEF Leads
<1>3. ASSUME NEW m \in Calls, CallStep(m)  PROVE P
  <2>1. CASE ReadLocked(m)
    <3>1. call'[l].pc \in Leads
      BY <1>0, <2>1 DEF ReadLocked, LockedConflict, LockedFresh, LockedAdopt, LockedFetch,
                        Finish, CallState, Leads
    <3> QED  BY <1>2, <3>1
  <2>2. CASE (\E i \in Accounts : Begin(m, i)) \/ ResumeJoin(m)
    <3>1. m # l
      BY <1>0, <2>2 DEF Begin, ResumeJoin, Resumable, Leads
    <3>2. call'[l] = call[l]
      BY <1>0, <2>2, <3>1 DEF Begin, ResumeJoin, JoinRejected, JoinSave, JoinAgain,
                         Enter, EnterUnavailable, EnterFresh, EnterJoin, EnterLead
    <3> QED  BY <1>2, <3>2
  <2>3. CASE \/ OpenLock(m) \/ WriteLock(m) \/ InspectLock(m) \/ UnlinkStale(m)
             \/ Wake(m) \/ Receive(m) \/ FetchTimeout(m)
    <3>1. call'[l].pc \in Leads
      BY <1>0, <2>3 DEF OpenLock, WriteLock, InspectLock, UnlinkStale, Wake, Receive,
                        FetchTimeout, Finish, CallState, Leads
    <3> QED  BY <1>2, <3>1
  <2>4. CASE Release(m) \/ LockTimeout(m)
    <3>1. CASE m = l
      BY <1>1, <2>4, <3>1
    <3>2. CASE m # l
      <4>1. call'[l] = call[l]
        BY <1>0, <2>4, <3>2 DEF Release, LockTimeout
      <4> QED  BY <1>2, <4>1
    <3> QED  BY <3>1, <3>2
  <2> QED  BY <1>3, <2>1, <2>2, <2>3, <2>4 DEF CallStep, LockStep
<1>4. ASSUME NEW p \in Procs, Crash(p)  PROVE P
  <2>1. call'[l] = call[l] \/ call'[l].pc = "dead"
    BY <1>0, <1>4 DEF Crash, CallState
  <2> QED  BY <1>2, <2>1
<1>5. CASE UNCHANGED call
  BY <1>2, <1>5
<1> QED  BY <1>3, <1>4, <1>5 DEF Next, OperatorStep, EndpointStep, EndpointRotates,
            EndpointKeeps, EndpointRefuses, SignIn, Delete, Import, Expire, LockAges, vars

(* A call that waits for a leader that is done was waiting for it, and the *)
(* leader was done already or ends at this step.                           *)
LEMMA ResumableStep ==
    ASSUME Unaliased, [Next]_vars, NEW c \in Calls, Resumable(c)'
    PROVE  /\ call'[c] = call[c] /\ call[c].pc = "join" /\ call[c].leader \in Calls
           /\ call[call[c].leader].grant = call[c].grant
           /\ \/ Resumable(c)
              \/ Leading(call[c].leader) /\ call'[call[c].leader].pc = "done"
<1>1. call'[c].pc = "join" /\ call'[call'[c].leader].pc = "done"
  BY DEF Resumable
<1>2. ASSUME NEW i \in Accounts, Takes(c, i)  PROVE FALSE
  <2>1. PICK l \in Calls : Leading(l) /\ call'[c].leader = l /\ call'[l] = call[l]
    BY <1>1, <1>2 DEF Takes
  <2> QED  BY <1>1, <2>1 DEF Leading
<1>3. call'[c] = call[c]
  BY <1>1, <1>2, GrantMotion DEF KeepsGrant
<1>4. call[c].leader \in Calls /\ CallOK(c)
  BY <1>1, <1>3, CallTyped DEF Unaliased, LineageInv, States
<1> QED  BY <1>1, <1>3, <1>4 DEF CallOK, JoinOK, Resumable

(* A call runs that ran before, or that a free event loop has resumed.     *)
LEMMA RunStep ==
    ASSUME OneProcess, Unaliased, [Next]_vars, NEW c \in Calls, Running(c)'
    PROVE  Running(c) \/ Free(ProcOf[c]) \/ Resumable(c)
<1> DEFINE P == Running(c) \/ Free(ProcOf[c]) \/ Resumable(c)
<1>0. /\ busy \in [Procs -> Calls \cup {NoCall}] /\ busy'[ProcOf[c]] = c /\ c # NoCall
      /\ \A m \in Calls : ProcOf[m] = ProcOf[c] /\ ProcOf[m] \in Procs
      /\ \A p \in Procs : p = ProcOf[c]
  BY RefreshAssumption DEF Unaliased, TypeInv, Rest, Running, OneProcess
<1>1. CASE busy' = busy
  BY <1>0, <1>1 DEF Running
<1>2. ASSUME NEW m \in Calls, Block(m)  PROVE FALSE
  BY <1>0, <1>2 DEF Block
<1>3. ASSUME NEW m \in Calls, Hold(m)  PROVE m = c
  BY <1>0, <1>3 DEF Hold
<1>4. ASSUME NEW m \in Calls, CallStep(m)  PROVE P
  <2>1. CASE (\E i \in Accounts : Begin(m, i)) \/ Wake(m) \/ Receive(m) \/ FetchTimeout(m)
    <3>1. Free(ProcOf[m])
      BY <2>1 DEF Begin, Wake, Receive, FetchTimeout
    <3> QED  BY <1>0, <3>1
  <2>2. CASE ResumeJoin(m)
    <3>1. Resumable(m) /\ (busy' = busy \/ Hold(m))
      BY <2>2 DEF ResumeJoin, JoinRejected, JoinSave, JoinAgain, Enter, EnterUnavailable,
                  EnterFresh, EnterJoin, EnterLead
    <3> QED  BY <1>1, <1>3, <3>1
  <2>3. CASE \/ OpenLock(m) \/ WriteLock(m) \/ InspectLock(m) \/ UnlinkStale(m)
             \/ LockTimeout(m) \/ ReadLocked(m) \/ Release(m)
    <3>1. busy' = busy \/ Block(m)
      BY <2>3 DEF OpenLock, WriteLock, InspectLock, UnlinkStale, LockTimeout, ReadLocked,
                  LockedConflict, LockedFresh, LockedAdopt, LockedFetch, Release
    <3> QED  BY <1>1, <1>2, <3>1
  <2> QED  BY <1>4, <2>1, <2>2, <2>3 DEF CallStep, LockStep
<1>5. ASSUME NEW p \in Procs, Crash(p)  PROVE P
  BY <1>0, <1>5 DEF Crash
<1> QED  BY <1>1, <1>4, <1>5 DEF Next, OperatorStep, EndpointStep, EndpointRotates,
            EndpointKeeps, EndpointRefuses, SignIn, Delete, Import, Expire, LockAges, vars

(* The waiters of one leader are resumed before anything else happens.     *)
LEMMA WaitersKeep ==
    ASSUME OneProcess, Unaliased, OneLeaderPerGrant, RotationInv, [Next]_vars
    PROVE  WaitersOK'
<1>0. /\ WaitersOK /\ \A p \in Procs : \A c \in Calls : ProcOf[c] = p
      /\ \A c \in Calls : ProcOf[c] \in Procs
      /\ NoCall \notin Calls
  BY RefreshAssumption DEF RotationInv, OneProcess
<1>1. ASSUME NEW c \in Calls, Resumable(c)', ~ Resumable(c)
      PROVE  /\ call[c].leader \in Calls /\ Leading(call[c].leader)
             /\ call[call[c].leader].grant = call[c].grant
             /\ Running(call[c].leader) /\ call[c].pc = "join"
             /\ busy'[ProcOf[call[c].leader]] = NoCall
             /\ \A d \in Calls \ {call[c].leader} : call'[d] = call[d]
             /\ \A e \in Calls : ~ Resumable(e)
  <2>1. /\ call[c].pc = "join" /\ call[c].leader \in Calls /\ Leading(call[c].leader)
        /\ call'[call[c].leader].pc = "done" /\ call[call[c].leader].grant = call[c].grant
    BY <1>1, ResumableStep
  <2>2. Running(call[c].leader)
    BY <2>1, LeaderEnds
  <2>3. \A e \in Calls : ~ Resumable(e)
    BY <1>0, <2>1, <2>2 DEF WaitersOK
  <2> QED  BY <2>1, <2>2, <2>3, LeaderEnds
<1>2. ASSUME NEW c \in Calls, NEW d \in Calls, Resumable(c)', Resumable(d)'
      PROVE  call'[c].leader = call'[d].leader
  <2>0. call'[c] = call[c] /\ call'[d] = call[d]
    BY <1>2, ResumableStep
  <2>1. CASE Resumable(c) /\ Resumable(d)
    BY <1>0, <2>0, <2>1 DEF WaitersOK
  <2>2. CASE ~ Resumable(c) \/ ~ Resumable(d)
    <3>1. /\ call[c].leader \in Calls /\ Leading(call[c].leader)
          /\ call[d].leader \in Calls /\ Leading(call[d].leader)
          /\ call'[call[c].leader].pc = "done" /\ call'[call[d].leader].pc = "done"
      BY <1>1, <1>2, <2>2, ResumableStep
    <3> QED  BY <2>0, <3>1, LeaderEnds DEF Leading
  <2> QED  BY <2>1, <2>2
<1>3. ASSUME NEW c \in Calls, NEW d \in Calls, Resumable(c)', Leading(d)'
      PROVE  call'[d].grant # call'[c].grant
  <2>0. call'[c] = call[c]
    BY <1>3, ResumableStep
  <2>1. CASE ~ Resumable(c)
    <3>1. /\ call[c].leader \in Calls /\ Leading(call[c].leader)
          /\ call[call[c].leader].grant = call[c].grant
          /\ call'[call[c].leader].pc = "done"
          /\ \A e \in Calls \ {call[c].leader} : call'[e] = call[e]
      BY <1>1, <1>3, <2>1, ResumableStep
    <3>2. d # call[c].leader /\ call'[d] = call[d] /\ Leading(d)
      BY <1>3, <3>1 DEF Leading
    <3>3. call[d].grant # call[call[c].leader].grant
      BY <1>0, <3>1, <3>2 DEF OneLeaderPerGrant
    <3> QED  BY <2>0, <3>1, <3>2, <3>3
  <2>2. CASE Resumable(c) /\ Leading(d) /\ call'[d].grant = call[d].grant
    BY <1>0, <2>0, <2>2 DEF WaitersOK
  <2>3. ASSUME Resumable(c), NEW i \in Accounts, Takes(d, i), MayTake(d, i)
        PROVE  call'[d].grant # call'[c].grant
    <3>1. Resumable(d) /\ store[i].credential.grant # call[d].grant
      BY <1>0, <2>3 DEF MayTake, Free
    <3>2. call[c].leader = call[d].leader
      BY <1>0, <2>3, <3>1 DEF WaitersOK
    <3>3. call[d].grant = call[call[d].leader].grant /\ call[c].grant = call[call[c].leader].grant
      BY <2>3, <3>1 DEF Unaliased, LineageInv, CallOK, JoinOK, Resumable
    <3> QED  BY <2>0, <2>3, <3>1, <3>2, <3>3 DEF Takes
  <2> QED  BY <1>3, <2>1, <2>2, <2>3, LeadMotion
<1>4. ASSUME NEW c \in Calls, NEW d \in Calls, NEW e \in Calls,
             Running(c)', call'[d].pc = "join", call'[d].leader = c, Resumable(e)'
      PROVE  FALSE
  <2>1. Resumable(e)
    <3>1. busy'[ProcOf[c]] = c
      BY <1>4 DEF Running
    <3> QED  BY <1>0, <1>1, <1>4, <3>1
  <2>2. ~ Free(ProcOf[c])
    BY <1>0, <2>1 DEF Free
  <2>3. Running(c) \/ Resumable(c)
    BY <1>4, <2>2, RunStep
  <2>4. CASE KeepsGrant(d)
    <3>1. call[d].pc = "join" /\ call[d].leader = c
      BY <1>4, <2>4 DEF KeepsGrant
    <3>2. CASE Running(c)
      BY <1>0, <2>1, <3>1, <3>2 DEF WaitersOK
    <3>3. CASE Resumable(c) /\ ~ Running(c)
      <4>1. Leading(c) \/ call[c].pc = "done"
        BY <3>1 DEF Unaliased, LineageInv, CallOK, JoinOK
      <4> QED  BY <3>3, <4>1 DEF Resumable, Leading
    <3> QED  BY <2>3, <3>2, <3>3
  <2>5. ASSUME NEW i \in Accounts, Takes(d, i), MayTake(d, i)  PROVE FALSE
    <3>1. busy[ProcOf[d]] = NoCall /\ ProcOf[d] = ProcOf[c]
      BY <1>0, <2>5 DEF MayTake
    <3>2. Resumable(c)
      BY <1>0, <2>3, <3>1 DEF Running
    <3>3. Leading(c)
      BY <1>4, <2>5 DEF Takes
    <3> QED  BY <3>2, <3>3 DEF Resumable, Leading
  <2> QED  BY <1>4, <2>4, <2>5, GrantMotion
<1> QED  BY <1>2, <1>3, <1>4 DEF WaitersOK

-----------------------------------------------------------------------------
(* Nothing is on the wire initially, and every grant is accepted.          *)
LEMMA InitRotation ==
    ASSUME ~ MayAlias, Init
    PROVE  RotationInv
<1>1. \A i \in Accounts : store[i].credential.grant = i /\ i \in accepted
  <2>1. PICK aliased \in BOOLEAN :
          LET grantOf(i) == IF aliased THEN 1 ELSE i IN
          /\ aliased => MayAlias
          /\ store = [i \in Accounts |->
                        [generation |-> 1, deleted |-> FALSE,
                         credential |-> [token |-> i, grant |-> grantOf(i)]]]
          /\ accepted = {grantOf(i) : i \in Accounts}
    BY DEF Init
  <2>2. ~ aliased
    BY <2>1
  <2>3. store = [i \in Accounts |-> [generation |-> 1, deleted |-> FALSE,
                                     credential |-> [token |-> i, grant |-> i]]]
    BY <2>1, <2>2
  <2>4. accepted = {i : i \in Accounts}
    BY <2>1, <2>2
  <2> QED  BY <2>3, <2>4
<1>2. \A c \in Calls : /\ call[c].grant = 0 /\ call[c].pc = "idle"
                       /\ wire[c].kind = "quiet"
  BY DEF Init, Quiet
<1>3. AccountedOK
  BY <1>1, <1>2 DEF AccountedOK, Accounted
<1>4. NewGrantsDiffer /\ WaitersOK
  BY <1>2 DEF NewGrantsDiffer, WaitersOK, Rotated, RotatedBy, Resumable
<1>5. ASSUME NEW c \in Calls
      PROVE  /\ ProgressOK(c) /\ UnseenOK(c) /\ SpentOK(c)
             /\ RecordGrantOK(c) /\ AnswerGrantOK(c) /\ SameRecordOK(c)
  BY <1>2 DEF ProgressOK, UnseenOK, SpentOK, RecordGrantOK, AnswerGrantOK, SameRecordOK,
              Spends, Rotated, RotatedBy
<1> QED  BY <1>3, <1>4, <1>5 DEF RotationInv

(* In a single process without aliases the invariant always holds.         *)
LEMMA Rotations ==
    ASSUME ~ MayAlias, OneProcess
    PROVE  Spec => []Alone
<1>1. Init /\ Unaliased /\ OneLeaderPerGrant => Alone
  BY InitRotation DEF Alone
<1>2. ASSUME Alone, [Next]_vars, Unaliased', OneLeaderPerGrant'  PROVE Alone'
  <2>1. /\ OneProcess /\ Unaliased /\ OneLeaderPerGrant /\ RotationInv
        /\ DeletedStaysDeleted'
    BY <1>2 DEF Alone, Unaliased
  <2>2. AccountedOK' /\ NewGrantsDiffer' /\ WaitersOK'
    BY <1>2, <2>1, AccountedKeeps, NewGrantsKeep, WaitersKeep
  <2>3. ASSUME NEW c \in Calls
        PROVE  /\ ProgressOK(c)' /\ UnseenOK(c)' /\ SpentOK(c)'
               /\ RecordGrantOK(c)' /\ AnswerGrantOK(c)' /\ SameRecordOK(c)'
    <3>1. ProgressOK(c)'
      BY <1>2, <2>1, ProgressKeeps DEF RotationInv
    <3>2. RecordGrantOK(c)'
      BY <1>2, <2>1, RecordGrantKeeps
    <3>3. AnswerGrantOK(c)'
      BY <1>2, <2>1, <3>2, AnswerGrantKeeps
    <3> QED  BY <1>2, <2>1, <3>1, <3>2, <3>3, UnseenKeeps, SpentKeeps, SameRecordKeeps
  <2> QED  BY <1>2, <2>1, <2>2, <2>3 DEF Alone, RotationInv, OneProcess
<1>3. Alone /\ [Next]_vars /\ Unaliased' /\ OneLeaderPerGrant' => Alone'
  BY <1>2
<1> QED  BY <1>1, <1>3, Lineages, LeadersAreAlone, PTL DEF Spec

(***************************************************************************)
(* Without aliases and in a single process, whatever the interleaving of   *)
(* calls, logins, timeouts and a crash: a stored refresh token that the    *)
(* endpoint no longer accepts was rotated for a call that still waits for  *)
(* the answer, died, or gave up waiting.  getValidCodexToken never loses a *)
(* rotation that it received.                                              *)
(***************************************************************************)
THEOREM ReceivedRotationsAreKept ==
    ASSUME ~ MayAlias, OneProcess
    PROVE  Spec => []LostRotationIsExplained
<1>1. ASSUME Alone  PROVE LostRotationIsExplained
  <2> SUFFICES ASSUME NEW i \in Accounts, IsLive(store[i]),
                      store[i].credential.grant \notin accepted
               PROVE  \E c \in Calls :
                        /\ RotatedBy(c, store[i].credential.grant)
                        /\ \/ call[c].pc \in {"fetch", "dead"}
                           \/ call[c].answer.kind = "fetch_timeout"
    BY DEF LostRotationIsExplained
  <2>1. PICK c \in Calls : RotatedBy(c, store[i].credential.grant)
    BY <1>1 DEF Alone, RotationInv, AccountedOK, Accounted
  <2>2. Rotated(c) /\ wire[c].kind = "response" /\ call[c].grant = store[i].credential.grant
    BY <2>1 DEF Rotated, RotatedBy
  <2>3. ~ Received(c)
    BY <1>1, <2>2 DEF Alone, RotationInv, SpentOK, Spends
  <2>4. call[c].answer.kind = "fetch_timeout" \/ call[c].pc \in {"fetch", "dead"}
    BY <1>1, <2>2, <2>3 DEF Alone, RotationInv, ProgressOK, Received
  <2> QED  BY <2>1, <2>4
<1> QED  BY <1>1, Rotations, PTL

(***************************************************************************)
(* In a single process no two calls ever send one refresh token at the     *)
(* same time, aliases or not: that the lock file alone does not guarantee  *)
(* it shows only when a second process runs.                               *)
(***************************************************************************)
THEOREM OneProcessFetchesOnce ==
    ASSUME OneProcess
    PROVE  Spec => []OneFetchPerGrant
<1>1. TypeInv /\ OneLeaderPerGrant => OneFetchPerGrant
  BY RefreshAssumption DEF OneProcess, OneLeaderPerGrant, OneFetchPerGrant, Fetching, Leading
<1> QED  BY <1>1, TypeInvariant, LeadersAreAlone, PTL

=============================================================================
