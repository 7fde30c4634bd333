-------------------------- MODULE CodexRefreshProofs --------------------------
(***************************************************************************)
(* Proofs about CodexRefresh, for any accounts, calls and processes and    *)
(* whether or not accounts share a refresh token: what the state looks     *)
(* like, who leads a refresh, how a record is written and what is answered. *)
(***************************************************************************)
EXTENDS CodexRefresh, TLAPS

-----------------------------------------------------------------------------
(***************************************************************************)
(* The inductive invariant.  What a record, a message and a call may hold  *)
(* when the tokens 1 .. n have been issued.                                *)
(***************************************************************************)
Credentials(n) == [token : 1 .. n, grant : 1 .. n]

(* A live record holds a credential that was issued.                       *)
Records(n) == {r \in Record : IsLive(r) => r.credential \in Credentials(n)}

(* So do a request and a response.                                         *)
Messages(n) ==
    {w \in WireState :
        /\ w.kind = "request" => w.credential.grant \in 1 .. n
        /\ w.kind = "response" => w.credential \in Credentials(n)}

(* The places at which a call leads the refresh of its grant.              *)
Leads == {"open", "write", "inspect", "unlink", "sleep", "locked", "fetch", "release"}

(* A call that leads or waits has a grant, one that waits a leader, and a  *)
(* token it was answered with was issued.                                  *)
States(n) ==
    {s \in CallState :
        /\ s.grant <= n
        /\ s.pc \in Leads \cup {"join"} => s.grant # 0
        /\ s.pc = "join" => s.leader \in Calls
        /\ s.answer.kind = "ok" => s.answer.credential \in Credentials(n)}

(* The variables that hold credentials, and the other variables.           *)
Holdings(n) ==
    /\ store \in [Accounts -> Records(n)]
    /\ wire \in [Calls -> Messages(n)]
    /\ call \in [Calls -> States(n)]

Rest ==
    /\ intent \in [Accounts -> Nat]
    /\ issued \in Nat /\ issued <= MaxToken
    /\ lineage \in [Tokens -> Nat]
    /\ expired \subseteq Tokens
    /\ accepted \subseteq Nat
    /\ lockFile \in [Tokens -> LockState]
    /\ busy \in [Procs -> Calls \cup {NoCall}]
    /\ operations \in Nat

(* The table of the flights under way holds the calls that lead.           *)
TypeInv == Rest /\ Holdings(issued) /\ inflight = {c \in Calls : Leading(c)}

-----------------------------------------------------------------------------
(***************************************************************************)
(* Operators on one record, one message, one call.                         *)
(***************************************************************************)

(* A token that is issued later takes nothing away.                        *)
LEMMA Grow ==
    ASSUME NEW n \in Nat, NEW m \in Nat, n <= m
    PROVE  /\ Credentials(n) \subseteq Credentials(m)
           /\ Records(n) \subseteq Records(m)
           /\ Messages(n) \subseteq Messages(m)
           /\ States(n) \subseteq States(m)
<1>1. Credentials(n) \subseteq Credentials(m)
  BY DEF Credentials
<1>2. Records(n) \subseteq Records(m)
  BY <1>1 DEF Records
<1>3. Messages(n) \subseteq Messages(m)
  BY <1>1 DEF Messages
<1>4. States(n) \subseteq States(m)
  BY <1>1 DEF States, CallState
<1> QED  BY <1>1, <1>2, <1>3, <1>4

(* What is issued is a credential, and not the absent one.                 *)
LEMMA IssuedIsCredential ==
    ASSUME NEW n \in Nat, NEW k \in Credentials(n)
    PROVE  k \in Credential /\ k # NoCredential
  BY DEF Credentials, Credential, NoCredential

(* The three writes of a record.                                           *)
LEMMA WritesTyped ==
    ASSUME NEW n \in Nat, NEW r \in Records(n), NEW k \in Credentials(n),
           NEW g \in Nat
    PROVE  /\ Saved(r, k) \in Records(n)
           /\ SavedIfGeneration(r, g, k) \in Records(n)
           /\ Tombstoned(r) \in Records(n)
<1>1. k \in Credential /\ NoCredential \in Credential
  BY IssuedIsCredential DEF Credential, NoCredential
<1>2. Saved(r, k) \in Records(n)
  BY <1>1 DEF Saved, Records, Record
<1>3. SavedIfGeneration(r, g, k) \in Records(n)
  BY <1>1 DEF SavedIfGeneration, Records, Record
<1>4. Tombstoned(r) \in Records(n)
  BY <1>1 DEF Tombstoned, Records, Record, IsLive
<1> QED  BY <1>2, <1>3, <1>4

(* The answers a call can be given.                                        *)
LEMMA AnswersTyped ==
    ASSUME NEW n \in Nat, NEW k \in Credentials(n), NEW g \in Nat
    PROVE  /\ Ok(k, g) \in Answers /\ Ok(k, g).kind = "ok" /\ Ok(k, g).credential = k
           /\ \A f \in Failures : Failed(f) \in Answers /\ Failed(f).kind # "ok"
<1>1. k \in Credential /\ NoCredential \in Credential
  BY IssuedIsCredential DEF Credential, NoCredential
<1> QED  BY <1>1 DEF Ok, Failed, Answers, Failures

-----------------------------------------------------------------------------
(***************************************************************************)
(* Type correctness, one action at a time.                                 *)
(***************************************************************************)

(* What the section before the first await does to the call it runs.       *)
LEMMA EnterTyped ==
    ASSUME TypeInv, NEW c \in Calls, NEW i \in Accounts,
           call[c].pc \in {"idle", "join"}, Enter(c, i)
    PROVE  /\ call' \in [Calls -> States(issued)]
           /\ busy' \in [Procs -> Calls \cup {NoCall}]
           /\ inflight' = {d \in Calls : Leading(d)'}
<1> USE RefreshAssumption
<1>1. /\ store[i] \in Records(issued) /\ call[c] \in States(issued)
      /\ issued \in Nat /\ store[i].generation \in Nat
  BY DEF TypeInv, Rest, Holdings, Records, Record
<1>2. CASE EnterUnavailable(c, i)
  <2>1. call' = [call EXCEPT ![c] = [@ EXCEPT !.id = i, !.pc = "done",
                                             !.answer = Failed("unavailable")]]
    BY <1>2 DEF EnterUnavailable
  <2>2. [call[c] EXCEPT !.id = i, !.pc = "done", !.answer = Failed("unavailable")]
          \in States(issued)
    BY <1>1 DEF States, CallState, Locations, Failed, Answers, Failures, Credential,
                NoCredential, Leads
  <2> QED  BY <1>2, <2>1, <2>2 DEF TypeInv, Rest, Holdings, EnterUnavailable, Leading
<1>3. CASE EnterFresh(c, i)
  <2> DEFINE a == Ok(store[i].credential, store[i].generation)
  <2>1. call' = [call EXCEPT ![c] = [@ EXCEPT !.id = i, !.pc = "done", !.answer = a]]
    BY <1>3 DEF EnterFresh
  <2>2. store[i].credential \in Credentials(issued)
    BY <1>1, <1>3 DEF EnterFresh, HasFresh, Records
  <2>3. a \in Answers /\ a.credential \in Credentials(issued)
    BY <1>1, <2>2, AnswersTyped
  <2>4. [call[c] EXCEPT !.id = i, !.pc = "done", !.answer = a] \in States(issued)
    BY <1>1, <2>3 DEF States, CallState, Locations, Leads
  <2> QED  BY <1>3, <2>1, <2>4 DEF TypeInv, Rest, Holdings, EnterFresh, Leading
<1>4. CASE EnterJoin(c, i)
  <2> DEFINE g == store[i].credential.grant
  <2>1. PICK d \in Leaders(c, g) :
          call' = [call EXCEPT ![c].id = i, ![c].grant = g, ![c].pc = "join",
                               ![c].leader = d]
    BY <1>4 DEF EnterJoin
  <2>2. g \in Nat /\ g <= issued /\ g # 0
    BY <1>1, <1>4 DEF EnterJoin, Records, Credentials
  <2>3. d \in Calls
    BY DEF Leaders, TypeInv
  <2> DEFINE s == [call[c] EXCEPT !.id = i, !.grant = g, !.pc = "join", !.leader = d]
  <2>4. s \in CallState /\ s.grant = g /\ s.leader = d /\ s.answer = call[c].answer
    BY <1>1, <2>2, <2>3 DEF States, CallState, Locations
  <2>5. s \in States(issued)
    BY <1>1, <2>2, <2>3, <2>4 DEF States
  <2>6. call' = [call EXCEPT ![c] = s] /\ s.pc = "join"
    BY <1>1, <2>1 DEF TypeInv, Holdings, States, CallState
  <2> HIDE DEF s
  <2>7. call' \in [Calls -> States(issued)]
    BY <2>5, <2>6 DEF TypeInv, Holdings
  <2>8. inflight' = {e \in Calls : Leading(e)'}
    BY <1>4, <2>6, <2>7 DEF TypeInv, Holdings, EnterJoin, Leading
  <2> QED  BY <1>4, <2>7, <2>8 DEF TypeInv, Rest, EnterJoin
<1>5. CASE EnterLead(c, i)
  <2> DEFINE g == store[i].credential.grant
             s == [call[c] EXCEPT !.id = i, !.grant = g, !.pc = "open"]
  <2>1. g \in Nat /\ g <= issued /\ g # 0
    BY <1>1, <1>5 DEF EnterLead, Records, Credentials
  <2>2. s \in CallState /\ s.grant = g /\ s.answer = call[c].answer /\ s.pc = "open"
    BY <1>1, <2>1 DEF States, CallState, Locations
  <2>3. s \in States(issued)
    BY <1>1, <2>1, <2>2 DEF States
  <2>4. call' = [call EXCEPT ![c] = s] /\ inflight' = inflight \cup {c}
    BY <1>1, <1>5 DEF TypeInv, Holdings, States, CallState, EnterLead
  <2> HIDE DEF s
  <2>5. call' \in [Calls -> States(issued)]
    BY <2>3, <2>4 DEF TypeInv, Holdings
  <2>6. inflight' = {d \in Calls : Leading(d)'}
    BY <2>2, <2>4, <2>5 DEF TypeInv, Holdings, Leading
  <2> QED  BY <1>5, <2>5, <2>6 DEF TypeInv, Rest, EnterLead, Hold
<1> QED  BY <1>2, <1>3, <1>4, <1>5 DEF Enter

(* A step that moves one call, and keeps refreshLocks in step with it.     *)
LEMMA MoveTyped ==
    ASSUME TypeInv, NEW c \in Calls, NEW s \in States(issued),
           call' = [call EXCEPT ![c] = s],
           \/ s.pc \in Leads /\ Leading(c) /\ inflight' = inflight
           \/ s.pc \notin Leads /\ inflight' = inflight \ {c}
    PROVE  /\ call' \in [Calls -> States(issued)]
           /\ inflight' = {d \in Calls : Leading(d)'}
<1>1. call' \in [Calls -> States(issued)]
  BY DEF TypeInv, Holdings
<1> QED  BY <1>1 DEF TypeInv, Holdings, Leading, Leads

(* What is known of a call, and of a leading one.                          *)
LEMMA CallTyped ==
    ASSUME TypeInv, NEW c \in Calls
    PROVE  /\ issued \in Nat /\ call[c] \in States(issued) /\ call[c] \in CallState
           /\ store[call[c].id] \in Records(issued)
           /\ store[call[c].id].generation \in Nat
           /\ Leading(c) => call[c].grant \in Tokens /\ call[c].grant \in 1 .. issued
<1>1. issued \in Nat /\ call[c] \in States(issued) /\ call[c] \in CallState
  BY DEF TypeInv, Rest, Holdings, States
<1>2. store[call[c].id] \in Records(issued) /\ store[call[c].id].generation \in Nat
  BY <1>1 DEF TypeInv, Holdings, CallState, Records, Record
<1>3. Leading(c) => call[c].grant \in 1 .. issued
  BY <1>1 DEF States, CallState, Leading, Leads
<1>4. 1 .. issued \subseteq Tokens
  BY RefreshAssumption DEF TypeInv, Rest, Tokens
<1> QED  BY <1>1, <1>2, <1>3, <1>4

(* The steps of withCodexRefreshFileLock.                                  *)
LEMMA LockFileTyped ==
    ASSUME TypeInv, NEW c \in Calls,
           OpenLock(c) \/ WriteLock(c) \/ InspectLock(c) \/ UnlinkStale(c)
             \/ LockTimeout(c) \/ Wake(c)
    PROVE  TypeInv'
<1> USE RefreshAssumption
<1>0. /\ issued \in Nat /\ call[c] \in States(issued) /\ call[c] \in CallState
      /\ Leading(c) => call[c].grant \in Tokens
  BY CallTyped
<1>a. call = [call EXCEPT ![c] = call[c]]
  BY DEF TypeInv, Holdings
<1>1. \A pc \in Leads \cup {"done"} :
        Leading(c) => [call[c] EXCEPT !.pc = pc] \in States(issued)
  BY <1>0 DEF States, CallState, Leading, Leads, Locations
<1>b. ASSUME NEW pc \in Leads, call' = [call EXCEPT ![c].pc = pc], Leading(c),
             inflight' = inflight
      PROVE  /\ call' \in [Calls -> States(issued)]
             /\ inflight' = {d \in Calls : Leading(d)'}
  <2> DEFINE s == [call[c] EXCEPT !.pc = pc]
  <2>1. s \in States(issued) /\ s.pc = pc
    BY <1>0, <1>1, <1>b DEF CallState
  <2>2. call' = [call EXCEPT ![c] = s]
    BY <1>b
  <2> HIDE DEF s
  <2> QED  BY <1>b, <2>1, <2>2, MoveTyped
<1>2. CASE OpenLock(c)
  <2>1. Leading(c) /\ LockOf(c) \in LockState
    BY <1>0, <1>2 DEF OpenLock, Leading, LockOf, TypeInv, Rest
  <2>a. [owner |-> c, written |-> FALSE, aged |-> FALSE] \in LockState
    BY DEF LockState
  <2>2. lockFile' \in [Tokens -> LockState]
    BY <1>2, <2>a DEF OpenLock, TypeInv, Rest
  <2>3. \E pc \in Leads : call' = [call EXCEPT ![c].pc = pc]
    BY <1>2 DEF OpenLock, Leads
  <2> QED  BY <1>2, <1>b, <2>1, <2>2, <2>3 DEF OpenLock, TypeInv, Rest, Holdings, endpoint
<1>3. CASE WriteLock(c)
  <2>1. Leading(c) /\ LockOf(c) \in LockState
    BY <1>0, <1>3 DEF WriteLock, Leading, LockOf, TypeInv, Rest
  <2>2. lockFile' \in [Tokens -> LockState]
    BY <1>0, <1>3, <2>1 DEF WriteLock, TypeInv, Rest, LockState
  <2>3. \E pc \in Leads : call' = [call EXCEPT ![c].pc = pc]
    BY <1>3 DEF WriteLock, Leads
  <2> QED  BY <1>3, <1>b, <2>1, <2>2, <2>3 DEF WriteLock, TypeInv, Rest, Holdings, endpoint
<1>4. CASE InspectLock(c)
  <2>1. Leading(c) /\ busy' \in [Procs -> Calls \cup {NoCall}]
    BY <1>4 DEF InspectLock, Leading, TypeInv, Rest, Block
  <2>3. \E pc \in Leads : call' = [call EXCEPT ![c].pc = pc]
    BY <1>4 DEF InspectLock, Leads
  <2> QED  BY <1>4, <1>b, <2>1, <2>3 DEF InspectLock, TypeInv, Rest, Holdings, endpoint
<1>5. CASE UnlinkStale(c)
  <2>1. Leading(c) /\ NoLock \in LockState
    BY <1>5 DEF UnlinkStale, Leading, NoLock, LockState
  <2>2. lockFile' \in [Tokens -> LockState]
    BY <1>5, <2>1 DEF UnlinkStale, TypeInv, Rest
  <2>3. \E pc \in Leads : call' = [call EXCEPT ![c].pc = pc]
    BY <1>5 DEF UnlinkStale, Leads
  <2> QED  BY <1>5, <1>b, <2>1, <2>2, <2>3 DEF UnlinkStale, TypeInv, Rest, Holdings, endpoint
<1>6. CASE Wake(c)
  <2>1. Leading(c) /\ busy' \in [Procs -> Calls \cup {NoCall}]
    BY <1>6 DEF Wake, Leading, TypeInv, Rest, Hold
  <2>3. \E pc \in Leads : call' = [call EXCEPT ![c].pc = pc]
    BY <1>6 DEF Wake, Leads
  <2> QED  BY <1>6, <1>b, <2>1, <2>3 DEF Wake, TypeInv, Rest, Holdings, endpoint
<1>7. CASE LockTimeout(c)
  <2> DEFINE s == [call[c] EXCEPT !.pc = "done", !.answer = Failed("lock_timeout")]
  <2>1. s \in CallState /\ s.pc = "done" /\ s.answer.kind # "ok" /\ s.grant = call[c].grant
    BY <1>0 DEF CallState, Locations, Failed, Answers, Failures, Credential, NoCredential
  <2>2. s \in States(issued)
    BY <1>0, <2>1 DEF States, Leads
  <2>3. call' = [call EXCEPT ![c] = s] /\ inflight' = inflight \ {c}
    BY <1>7 DEF LockTimeout
  <2> HIDE DEF s
  <2>4. /\ call' \in [Calls -> States(issued)]
        /\ inflight' = {d \in Calls : Leading(d)'}
    BY <2>1, <2>2, <2>3, MoveTyped DEF Leads
  <2>5. busy' \in [Procs -> Calls \cup {NoCall}]
    BY <1>7 DEF LockTimeout, TypeInv, Rest, Block
  <2> QED  BY <1>7, <2>4, <2>5 DEF LockTimeout, TypeInv, Rest, Holdings, endpoint
<1> QED  BY <1>2, <1>3, <1>4, <1>5, <1>6, <1>7

(* A call under the lock that has its answer.                              *)
LEMMA FinishTyped ==
    ASSUME TypeInv, NEW c \in Calls, NEW a \in Answers, Leading(c), Finish(c, a),
           a.kind = "ok" => a.credential \in Credentials(issued),
           inflight' = inflight
    PROVE  /\ call' \in [Calls -> States(issued)]
           /\ inflight' = {d \in Calls : Leading(d)'}
<1> DEFINE s == [call[c] EXCEPT !.pc = "release", !.answer = a]
<1>1. s \in CallState /\ s.pc = "release" /\ s.answer = a /\ s.grant = call[c].grant
  BY CallTyped DEF CallState, Locations
<1>2. s \in States(issued) /\ s.pc \in Leads
  BY <1>1, CallTyped DEF States, Leads, Leading
<1>3. call' = [call EXCEPT ![c] = s]
  BY DEF Finish
<1> QED
  <2> HIDE DEF s
  <2> QED  BY <1>2, <1>3, MoveTyped

(* One record is replaced by a record.                                     *)
LEMMA StoreTyped ==
    ASSUME TypeInv, NEW i \in Accounts, NEW r \in Records(issued),
           store' = [store EXCEPT ![i] = r]
    PROVE  store' \in [Accounts -> Records(issued)]
  BY DEF TypeInv, Holdings

(* What is read of a live record is an issued credential.                  *)
LEMMA LiveIsIssued ==
    ASSUME TypeInv, NEW i \in Accounts
    PROVE  /\ store[i] \in Records(issued) /\ store[i].generation \in Nat
           /\ IsLive(store[i]) => /\ store[i].credential \in Credentials(issued)
                                  /\ store[i].credential.grant \in 1 .. issued
                                  /\ store[i].credential.token \in 1 .. issued
  BY DEF TypeInv, Holdings, Records, Record, Credentials

(* The decisions under the lock.                                           *)
LEMMA ReadLockedTyped ==
    ASSUME TypeInv, NEW c \in Calls, ReadLocked(c)
    PROVE  TypeInv'
<1> USE RefreshAssumption
<1>0. /\ issued \in Nat /\ call[c] \in States(issued) /\ call[c] \in CallState
      /\ Leading(c) /\ call[c].grant \in 1 .. issued /\ inflight' = inflight
      /\ call[c].id \in Accounts
  BY CallTyped DEF ReadLocked, Leading, CallState
<1>1. CASE LockedConflict(c)
  <2>1. Failed("conflict") \in Answers /\ Failed("conflict").kind # "ok"
    BY DEF Failed, Answers, Failures, Credential, NoCredential
  <2>2. /\ call' \in [Calls -> States(issued)]
        /\ inflight' = {d \in Calls : Leading(d)'}
    BY <1>0, <1>1, <2>1, FinishTyped DEF LockedConflict
  <2> QED  BY <1>1, <2>2 DEF LockedConflict, ReadLocked, TypeInv, Rest, Holdings, endpoint
<1>2. CASE LockedFresh(c)
  <2> DEFINE r == store[call[c].id]
             a == Ok(r.credential, r.generation)
  <2>1. IsLive(r) /\ Finish(c, a)
    BY <1>2 DEF LockedFresh, HasFresh, RecordOf
  <2>2. a \in Answers /\ a.credential \in Credentials(issued)
    BY <1>0, <2>1, LiveIsIssued, AnswersTyped
  <2>3. /\ call' \in [Calls -> States(issued)]
        /\ inflight' = {d \in Calls : Leading(d)'}
    <3> HIDE DEF a
    <3> QED  BY <1>0, <2>1, <2>2, FinishTyped
  <2> QED  BY <1>2, <2>3 DEF LockedFresh, ReadLocked, TypeInv, Rest, Holdings, endpoint
<1>3. CASE LockedAdopt(c)
  <2> DEFINE i == call[c].id
             r == store[i]
  <2>1. PICK j \in FreshForGrant(call[c].grant, i) :
          /\ store' = [store EXCEPT ![i] =
                         SavedIfGeneration(r, r.generation, store[j].credential)]
          /\ Finish(c, Ok(store[j].credential, r.generation + 1))
    BY <1>3 DEF LockedAdopt
  <2> DEFINE a == Ok(store[j].credential, r.generation + 1)
  <2>2. store[j].credential \in Credentials(issued)
    BY LiveIsIssued DEF FreshForGrant, HasFresh
  <2>3. r.generation \in Nat /\ r \in Records(issued)
    BY <1>0, LiveIsIssued
  <2>4. a \in Answers /\ a.credential \in Credentials(issued)
    BY <1>0, <2>2, <2>3, AnswersTyped
  <2>5. /\ call' \in [Calls -> States(issued)]
        /\ inflight' = {d \in Calls : Leading(d)'}
    <3>1. Finish(c, a)
      BY <2>1
    <3> HIDE DEF a
    <3> QED  BY <1>0, <2>4, <3>1, FinishTyped
  <2>6. SavedIfGeneration(r, r.generation, store[j].credential) \in Records(issued)
    BY <1>0, <2>2, <2>3, WritesTyped
  <2>7. store' \in [Accounts -> Records(issued)]
    BY <1>0, <2>1, <2>6, StoreTyped
  <2> QED  BY <1>3, <2>5, <2>7 DEF LockedAdopt, ReadLocked, TypeInv, Rest, Holdings, endpoint
<1>4. CASE LockedFetch(c)
  <2> DEFINE s == [call[c] EXCEPT !.pc = "fetch", !.start = RecordOf(c).generation]
             w == [kind |-> "request", credential |-> [token |-> 0, grant |-> call[c].grant]]
  <2>1. RecordOf(c).generation \in Nat
    BY <1>0, LiveIsIssued DEF RecordOf
  <2>2. s \in CallState /\ s.pc = "fetch" /\ s.answer = call[c].answer /\ s.grant = call[c].grant
    BY <1>0, <2>1 DEF CallState, Locations
  <2>4. call' = [call EXCEPT ![c] = s]
    BY <1>4 DEF LockedFetch
  <2>5. /\ call' \in [Calls -> States(issued)]
        /\ inflight' = {d \in Calls : Leading(d)'}
    <3> HIDE DEF s
    <3>1. s \in States(issued) /\ s.pc \in Leads
      BY <1>0, <2>2 DEF States, Leads, Leading
    <3> QED  BY <1>0, <2>4, <3>1, MoveTyped
  <2>6. w \in Messages(issued)
    BY <1>0 DEF Messages, WireState, Credential
  <2>7. wire' \in [Calls -> Messages(issued)]
    BY <1>4, <2>6 DEF LockedFetch, TypeInv, Holdings
  <2>8. busy' \in [Procs -> Calls \cup {NoCall}]
    BY <1>4 DEF LockedFetch, Block, TypeInv, Rest
  <2> QED  BY <1>4, <2>5, <2>7, <2>8 DEF LockedFetch, ReadLocked, TypeInv, Rest, Holdings, endpoint
<1> QED  BY <1>1, <1>2, <1>3, <1>4 DEF ReadLocked

(* The answer of the endpoint, or its lateness, and the finally blocks.    *)
LEMMA ReceiveTyped ==
    ASSUME TypeInv, NEW c \in Calls, Receive(c) \/ FetchTimeout(c) \/ Release(c)
    PROVE  TypeInv'
<1> USE RefreshAssumption
<1>0. /\ issued \in Nat /\ call[c] \in States(issued) /\ call[c] \in CallState
      /\ Leading(c) /\ call[c].grant \in Tokens
      /\ call[c].id \in Accounts /\ call[c].start \in Nat
  BY CallTyped DEF Receive, FetchTimeout, Release, Leading, CallState
<1>1. \A f \in Failures : Failed(f) \in Answers /\ Failed(f).kind # "ok"
  BY DEF Failed, Answers, Failures, Credential, NoCredential
<1>2. CASE Receive(c)
  <2> DEFINE i == call[c].id
             k == wire[c].credential
  <2>1. busy' \in [Procs -> Calls \cup {NoCall}] /\ inflight' = inflight
    BY <1>2 DEF Receive, Hold, TypeInv, Rest
  <2>2. CASE wire[c].kind = "refusal" /\ Finish(c, Failed("refused")) /\ UNCHANGED store
    <3>1. /\ call' \in [Calls -> States(issued)]
          /\ inflight' = {d \in Calls : Leading(d)'}
      BY <1>0, <1>1, <2>1, <2>2, FinishTyped DEF Failures
    <3> QED  BY <1>2, <2>1, <2>2, <3>1 DEF Receive, TypeInv, Rest, Holdings, endpoint
  <2>3. CASE /\ wire[c].kind = "response"
             /\ store' = [store EXCEPT ![i] = SavedIfGeneration(@, call[c].start, k)]
             /\ Finish(c, IF MaySave(store[i], call[c].start)
                          THEN Ok(k, call[c].start + 1) ELSE Failed("conflict"))
    <3> DEFINE a == IF MaySave(store[i], call[c].start)
                    THEN Ok(k, call[c].start + 1) ELSE Failed("conflict")
    <3>1. k \in Credentials(issued)
      BY <2>3 DEF TypeInv, Holdings, Messages
    <3>2. a \in Answers /\ (a.kind = "ok" => a.credential \in Credentials(issued))
      BY <1>0, <1>1, <3>1, AnswersTyped DEF Failures
    <3>3. /\ call' \in [Calls -> States(issued)]
          /\ inflight' = {d \in Calls : Leading(d)'}
      <4>1. Finish(c, a)
        BY <2>3
      <4> HIDE DEF a
      <4> QED  BY <1>0, <2>1, <3>2, <4>1, FinishTyped
    <3>4. SavedIfGeneration(store[i], call[c].start, k) \in Records(issued)
      BY <1>0, <3>1, WritesTyped, LiveIsIssued
    <3>5. store' \in [Accounts -> Records(issued)]
      BY <1>0, <2>3, <3>4, StoreTyped
    <3> QED  BY <1>2, <2>1, <3>3, <3>5 DEF Receive, TypeInv, Rest, Holdings, endpoint
  <2> QED  BY <1>2, <2>2, <2>3 DEF Receive
<1>3. CASE FetchTimeout(c)
  <2>1. /\ call' \in [Calls -> States(issued)]
        /\ inflight' = {d \in Calls : Leading(d)'}
    BY <1>0, <1>1, <1>3, FinishTyped DEF FetchTimeout, Failures
  <2>2. busy' \in [Procs -> Calls \cup {NoCall}]
    BY <1>3 DEF FetchTimeout, Hold, TypeInv, Rest
  <2> QED  BY <1>3, <2>1, <2>2 DEF FetchTimeout, TypeInv, Rest, Holdings, endpoint
<1>4. CASE Release(c)
  <2> DEFINE s == [call[c] EXCEPT !.pc = "done"]
  <2>1. /\ s \in CallState /\ s.pc = "done" /\ s.grant = call[c].grant
        /\ s.answer = call[c].answer
    BY <1>0 DEF CallState, Locations
  <2>2. call' = [call EXCEPT ![c] = s] /\ inflight' = inflight \ {c}
    BY <1>4 DEF Release
  <2>3. /\ call' \in [Calls -> States(issued)]
        /\ inflight' = {d \in Calls : Leading(d)'}
    <3> HIDE DEF s
    <3>1. s \in States(issued) /\ s.pc \notin Leads
      BY <1>0, <2>1 DEF States, Leads
    <3> QED  BY <2>2, <3>1, MoveTyped
  <2>4. busy' \in [Procs -> Calls \cup {NoCall}] /\ NoLock \in LockState
    BY <1>4 DEF Release, Block, TypeInv, Rest, NoLock, LockState
  <2>5. lockFile' \in [Tokens -> LockState]
    BY <1>4, <2>4 DEF Release, TypeInv, Rest
  <2> QED  BY <1>4, <2>3, <2>4, <2>5 DEF Release, TypeInv, Rest, Holdings, endpoint
<1> QED  BY <1>2, <1>3, <1>4

(* The waiters of a settled promise.                                       *)
LEMMA ResumeJoinTyped ==
    ASSUME TypeInv, NEW c \in Calls, ResumeJoin(c)
    PROVE  TypeInv'
<1> USE RefreshAssumption
<1> DEFINE i == call[c].id
           l == call[c].leader
<1>0. /\ issued \in Nat /\ call[c] \in States(issued) /\ call[c] \in CallState
      /\ call[c].pc = "join" /\ i \in Accounts /\ l \in Calls
      /\ call[l] \in States(issued) /\ call[l] \in CallState /\ call[l].answer \in Answers
  BY CallTyped DEF ResumeJoin, Resumable, CallState, States
<1>1. ~ Leading(c) /\ inflight \ {c} = inflight
  BY <1>0 DEF Leading, TypeInv
<1>2. ASSUME NEW a \in Answers, a.kind = "ok" => a.credential \in Credentials(issued),
             call' = [call EXCEPT ![c].pc = "done", ![c].answer = a], inflight' = inflight
      PROVE  /\ call' \in [Calls -> States(issued)]
             /\ inflight' = {d \in Calls : Leading(d)'}
  <2> DEFINE s == [call[c] EXCEPT !.pc = "done", !.answer = a]
  <2>1. s \in CallState /\ s.pc = "done" /\ s.grant = call[c].grant /\ s.answer = a
    BY <1>0 DEF CallState, Locations
  <2>2. call' = [call EXCEPT ![c] = s] /\ inflight' = inflight \ {c}
    BY <1>1, <1>2
  <2> HIDE DEF s
  <2>3. s \in States(issued) /\ s.pc \notin Leads
    BY <1>0, <1>2, <2>1 DEF States, Leads
  <2> QED  BY <2>2, <2>3, MoveTyped
<1>3. CASE JoinRejected(c)
  <2>1. /\ call' \in [Calls -> States(issued)]
        /\ inflight' = {d \in Calls : Leading(d)'}
    BY <1>0, <1>2, <1>3 DEF JoinRejected
  <2> QED  BY <1>3, <2>1 DEF JoinRejected, ResumeJoin, TypeInv, Rest, Holdings, endpoint
<1>4. CASE JoinSave(c)
  <2> DEFINE k == call[l].answer.credential
             a == Ok(k, store[i].generation + 1)
  <2>1. k \in Credentials(issued) /\ store[i] \in Records(issued) /\ store[i].generation \in Nat
    BY <1>0, <1>4, LiveIsIssued DEF JoinSave, States
  <2>2. a \in Answers /\ a.credential \in Credentials(issued)
    BY <1>0, <2>1, AnswersTyped
  <2>3. /\ call' \in [Calls -> States(issued)]
        /\ inflight' = {d \in Calls : Leading(d)'}
    <3>1. call' = [call EXCEPT ![c].pc = "done", ![c].answer = a] /\ inflight' = inflight
      BY <1>4 DEF JoinSave
    <3> HIDE DEF a
    <3> QED  BY <1>2, <2>2, <3>1
  <2>4. SavedIfGeneration(store[i], store[i].generation, k) \in Records(issued)
    BY <1>0, <2>1, WritesTyped
  <2>5. store' = [store EXCEPT ![i] = SavedIfGeneration(store[i], store[i].generation, k)]
    BY <1>4 DEF JoinSave
  <2>6. store' \in [Accounts -> Records(issued)]
    BY <1>0, <2>4, <2>5, StoreTyped
  <2> QED  BY <1>4, <2>3, <2>6 DEF JoinSave, ResumeJoin, TypeInv, Rest, Holdings, endpoint
<1>5. CASE JoinAgain(c)
  <2>1. Enter(c, i)
    BY <1>5 DEF JoinAgain
  <2>2. /\ call' \in [Calls -> States(issued)]
        /\ busy' \in [Procs -> Calls \cup {NoCall}]
        /\ inflight' = {d \in Calls : Leading(d)'}
    BY <1>0, <2>1, EnterTyped
  <2> QED  BY <1>5, <2>2 DEF JoinAgain, ResumeJoin, TypeInv, Rest, Holdings, endpoint
<1> QED  BY <1>3, <1>4, <1>5 DEF ResumeJoin

(* What one more token leaves in place.                                    *)
LEMMA HoldingsGrow ==
    ASSUME TypeInv, issued' = issued + 1
    PROVE  /\ issued \in Nat /\ issued + 1 \in Nat
           /\ Records(issued) \subseteq Records(issued')
           /\ Messages(issued) \subseteq Messages(issued')
           /\ States(issued) \subseteq States(issued')
           /\ store \in [Accounts -> Records(issued')]
           /\ wire \in [Calls -> Messages(issued')]
           /\ call \in [Calls -> States(issued')]
<1>1. issued \in Nat /\ issued + 1 \in Nat /\ issued <= issued + 1
  BY DEF TypeInv, Rest
<1>2. /\ Records(issued) \subseteq Records(issued + 1)
      /\ Messages(issued) \subseteq Messages(issued + 1)
      /\ States(issued) \subseteq States(issued + 1)
  BY <1>1, Grow
<1> QED  BY <1>1, <1>2 DEF TypeInv, Holdings

(* The token endpoint.                                                     *)
LEMMA EndpointTyped ==
    ASSUME TypeInv, NEW c \in Calls, EndpointStep(c)
    PROVE  TypeInv'
<1> USE RefreshAssumption
<1>1. /\ issued \in Nat /\ wire[c] \in Messages(issued) /\ wire[c] \in WireState
      /\ wire[c].credential \in Credential
  BY DEF TypeInv, Rest, Holdings, Messages, WireState
<1>2. ASSUME NEW k \in [token : {issued + 1}, grant : 1 .. issued + 1], Issue(c, k),
             accepted' \subseteq Nat,
             UNCHANGED <<operations, store, intent, expired, lockFile, inflight, busy, call>>
      PROVE  TypeInv'
  <2>1. /\ issued' = issued + 1 /\ issued' <= MaxToken
        /\ lineage' = [lineage EXCEPT ![issued + 1] = lineage[wire[c].credential.grant]]
        /\ wire' = [wire EXCEPT ![c] = [kind |-> "response", credential |-> k]]
        /\ wire[c].credential.grant \in Tokens
    BY <1>1, <1>2 DEF Issue, Messages, Tokens, TypeInv, Rest
  <2>2. /\ Messages(issued) \subseteq Messages(issued')
        /\ store \in [Accounts -> Records(issued')]
        /\ wire \in [Calls -> Messages(issued')]
        /\ call \in [Calls -> States(issued')]
    BY <2>1, HoldingsGrow
  <2>3. k \in Credentials(issued') /\ k \in Credential
    BY <1>1, <2>1 DEF Credentials, Credential
  <2>4. [kind |-> "response", credential |-> k] \in Messages(issued')
    BY <2>3 DEF Messages, WireState
  <2>5. Holdings(issued)'
    BY <1>2, <2>1, <2>2, <2>4 DEF Holdings
  <2>6. lineage' \in [Tokens -> Nat]
    BY <2>1 DEF TypeInv, Rest
  <2> QED  BY <1>1, <1>2, <2>1, <2>5, <2>6 DEF TypeInv, Rest, Leading
<1>3. CASE EndpointRotates(c)
  <2>1. [token |-> issued + 1, grant |-> issued + 1] \in [token : {issued + 1}, grant : 1 .. issued + 1]
    BY <1>1
  <2>2. /\ accepted' = (accepted \ {wire[c].credential.grant}) \cup {issued + 1}
        /\ accepted \subseteq Nat /\ issued + 1 \in Nat
    BY <1>1, <1>3 DEF EndpointRotates, TypeInv, Rest
  <2>3. accepted' \subseteq Nat
    BY <2>2
  <2> QED  BY <1>2, <1>3, <2>1, <2>3 DEF EndpointRotates
<1>4. CASE EndpointKeeps(c)
  <2>1. wire[c].credential.grant \in 1 .. issued + 1
    BY <1>1, <1>4 DEF EndpointKeeps, Issue, Messages
  <2>2. [token |-> issued + 1, grant |-> wire[c].credential.grant]
          \in [token : {issued + 1}, grant : 1 .. issued + 1]
    BY <1>1, <2>1
  <2> QED  BY <1>2, <1>4, <2>2 DEF EndpointKeeps, TypeInv, Rest
<1>5. CASE EndpointRefuses(c)
  <2>1. [wire[c] EXCEPT !.kind = "refusal"] \in Messages(issued)
    BY <1>1 DEF Messages, WireState
  <2>2. wire' \in [Calls -> Messages(issued)]
    BY <1>5, <2>1 DEF EndpointRefuses, TypeInv, Holdings
  <2> QED  BY <1>5, <2>2 DEF EndpointRefuses, TypeInv, Rest, Holdings, Leading, endpoint
<1> QED  BY <1>3, <1>4, <1>5 DEF EndpointStep

(* The management API.                                                     *)
LEMMA OperatorTyped ==
    ASSUME TypeInv, NEW p \in Procs, NEW i \in Accounts,
           SignIn(p, i) \/ Delete(p, i) \/ \E j \in Accounts \ {i} : Import(p, i, j)
    PROVE  TypeInv'
<1> USE RefreshAssumption
<1>1. issued \in Nat /\ store[i] \in Records(issued) /\ operations' \in Nat
  BY DEF TypeInv, Rest, Holdings, SignIn, Delete, Import, Operable
<1>2. CASE SignIn(p, i)
  <2> DEFINE k == [token |-> issued + 1, grant |-> issued + 1]
  <2>a. issued' = issued + 1 /\ issued' <= MaxToken /\ issued + 1 \in Nat
    BY <1>1, <1>2 DEF SignIn
  <2>b. lineage' \in [Tokens -> Nat] /\ intent' \in [Accounts -> Nat]
    BY <1>2, <2>a DEF SignIn, TypeInv, Rest
  <2>c. accepted' = accepted \cup {issued + 1} /\ accepted \subseteq Nat
    BY <1>2 DEF SignIn, TypeInv, Rest
  <2>1. /\ issued' = issued + 1 /\ issued' <= MaxToken
        /\ lineage' \in [Tokens -> Nat] /\ accepted' \subseteq Nat
        /\ intent' \in [Accounts -> Nat]
    BY <2>a, <2>b, <2>c
  <2>2. /\ Records(issued) \subseteq Records(issued')
        /\ store \in [Accounts -> Records(issued')]
        /\ wire \in [Calls -> Messages(issued')]
        /\ call \in [Calls -> States(issued')]
    BY <2>1, HoldingsGrow
  <2>3. k \in Credentials(issued') /\ issued' \in Nat
    BY <1>1, <2>1 DEF Credentials
  <2>4. Saved(store[i], k) \in Records(issued')
    BY <1>1, <2>2, <2>3, WritesTyped
  <2>5. store' \in [Accounts -> Records(issued')]
    BY <1>2, <2>2, <2>4 DEF SignIn
  <2> QED  BY <1>1, <1>2, <2>1, <2>2, <2>3, <2>5 DEF SignIn, TypeInv, Rest, Holdings, Leading
<1>3. CASE Delete(p, i)
  <2>1. Tombstoned(store[i]) \in Records(issued)
    BY <1>1 DEF Tombstoned, Records, Record, IsLive, Credential, NoCredential
  <2>2. store' \in [Accounts -> Records(issued)] /\ intent' \in [Accounts -> Nat]
    BY <1>3, <2>1 DEF Delete, TypeInv, Rest, Holdings
  <2> QED  BY <1>1, <1>3, <2>2 DEF Delete, TypeInv, Rest, Holdings, Leading, endpoint
<1>4. CASE \E j \in Accounts \ {i} : Import(p, i, j)
  <2>1. PICK j \in Accounts \ {i} : Import(p, i, j)
    BY <1>4
  <2>2. store[j].credential \in Credentials(issued)
    BY <2>1, LiveIsIssued DEF Import
  <2>3. Saved(store[i], store[j].credential) \in Records(issued)
    BY <1>1, <2>2, WritesTyped
  <2>4. store' \in [Accounts -> Records(issued)] /\ intent' \in [Accounts -> Nat]
    BY <2>1, <2>3 DEF Import, TypeInv, Rest, Holdings
  <2> QED  BY <1>1, <2>1, <2>4 DEF Import, TypeInv, Rest, Holdings, Leading, endpoint
<1> QED  BY <1>2, <1>3, <1>4

(* A token expires, a process dies, a lock file ages.                      *)
LEMMA WorldTyped ==
    ASSUME TypeInv,
           \/ \E i \in Accounts : Expire(i)
           \/ \E p \in Procs : Crash(p)
           \/ \E g \in Tokens : LockAges(g)
    PROVE  TypeInv'
<1> USE RefreshAssumption
<1>1. ASSUME NEW i \in Accounts, Expire(i)  PROVE TypeInv'
  <2>1. store[i].credential.token \in 1 .. issued /\ issued \in Nat /\ issued <= MaxToken
    BY <1>1, LiveIsIssued DEF Expire, HasFresh, TypeInv, Rest
  <2>2. store[i].credential.token \in Tokens
    BY <2>1 DEF Tokens
  <2>3. expired' = expired \cup {store[i].credential.token} /\ expired \subseteq Tokens
    BY <1>1 DEF Expire, TypeInv, Rest
  <2> QED  BY <1>1, <2>2, <2>3 DEF Expire, TypeInv, Rest, Holdings, Leading, endpoint
<1>2. ASSUME NEW p \in Procs, Crash(p)  PROVE TypeInv'
  <2> DEFINE victims == {c \in Calls : ProcOf[c] = p /\ Active(c)}
             died(c) == [call[c] EXCEPT !.pc = "dead"]
  <2>1. ASSUME NEW c \in Calls
        PROVE  /\ call[c] \in States(issued) /\ died(c) \in States(issued)
               /\ died(c).pc = "dead"
    <3>1. call[c] \in States(issued) /\ call[c] \in CallState
      BY CallTyped
    <3>2. died(c) \in CallState /\ died(c).pc = "dead" /\ died(c).grant = call[c].grant
          /\ died(c).answer = call[c].answer
      BY <3>1 DEF CallState, Locations
    <3>3. died(c) \in States(issued)
      <4> HIDE DEF died
      <4> QED  BY <3>1, <3>2 DEF States, Leads
    <3> QED  BY <3>1, <3>2, <3>3
  <2>2. call' = [c \in Calls |-> IF c \in victims THEN died(c) ELSE call[c]]
    BY <1>2 DEF Crash
  <2> HIDE DEF died
  <2>3. call' \in [Calls -> States(issued)]
    BY <2>1, <2>2
  <2>4. inflight' = {c \in Calls : Leading(c)'}
    BY <1>2, <2>1, <2>2 DEF Crash, TypeInv, Leading, Active
  <2>5. busy' \in [Procs -> Calls \cup {NoCall}]
    BY <1>2 DEF Crash, TypeInv, Rest
  <2> QED  BY <1>2, <2>3, <2>4, <2>5 DEF Crash, TypeInv, Rest, Holdings, endpoint
<1>3. ASSUME NEW g \in Tokens, LockAges(g)  PROVE TypeInv'
  <2>1. lockFile \in [Tokens -> LockState] /\ lockFile[g] \in LockState
    BY DEF TypeInv, Rest
  <2>2. [lockFile[g] EXCEPT !.aged = TRUE] \in LockState
    BY <2>1 DEF LockState
  <2>3. lockFile' = [lockFile EXCEPT ![g] = [lockFile[g] EXCEPT !.aged = TRUE]]
    BY <1>3 DEF LockAges
  <2>4. lockFile' \in [Tokens -> LockState]
    BY <2>1, <2>2, <2>3
  <2> QED  BY <1>3, <2>4 DEF LockAges, TypeInv, Rest, Holdings, Leading, endpoint
<1> QED  BY <1>1, <1>2, <1>3

(* The initial states.                                                     *)
LEMMA InitTyped == Init => TypeInv
<1> SUFFICES ASSUME Init  PROVE TypeInv
  OBVIOUS
<1> USE RefreshAssumption
<1>1. issued = NAccounts /\ issued \in Nat /\ issued # 0 /\ issued <= MaxToken
      /\ Accounts \subseteq Tokens /\ Accounts = 1 .. issued
  BY DEF Init, Accounts, Tokens
<1>2. PICK aliased \in BOOLEAN :
        /\ store = [i \in Accounts |->
                       [generation |-> 1, deleted |-> FALSE,
                        credential |-> [token |-> i, grant |-> IF aliased THEN 1 ELSE i]]]
        /\ intent = [i \in Accounts |-> IF aliased THEN 1 ELSE i]
        /\ lineage = [t \in Tokens |-> IF t \in Accounts
                                        THEN IF aliased THEN 1 ELSE t ELSE 0]
        /\ accepted = {IF aliased THEN 1 ELSE i : i \in Accounts}
  BY DEF Init
<1>3. \A i \in Accounts : [token |-> i, grant |-> IF aliased THEN 1 ELSE i] \in Credentials(issued)
  BY <1>1 DEF Credentials
<1>4. store \in [Accounts -> Records(issued)]
  <2>1. ASSUME NEW i \in Accounts  PROVE store[i] \in Records(issued)
    <3>1. [token |-> i, grant |-> IF aliased THEN 1 ELSE i] \in Credential
      BY <1>1, <1>3, IssuedIsCredential
    <3> QED  BY <1>1, <1>2, <1>3, <3>1 DEF Records, Record
  <2> QED  BY <1>2, <2>1
<1>5. NoCredential \in Credential /\ Quiet \in Messages(issued)
  BY DEF NoCredential, Credential, Quiet, Messages, WireState
<1>6. wire \in [Calls -> Messages(issued)]
  BY <1>5 DEF Init
<1> DEFINE idle == [pc |-> "idle", id |-> 1, grant |-> 0, leader |-> NoCall,
                    start |-> 0, answer |-> Pending]
<1>7. Pending \in Answers /\ Pending.kind # "ok"
  BY <1>5 DEF Pending, Answers
<1>8. idle \in CallState /\ 1 \in Accounts
  BY <1>1, <1>7 DEF CallState, Locations, Accounts
<1>9. idle \in States(issued)
  BY <1>1, <1>7, <1>8 DEF States, Leads
<1>10. call \in [Calls -> States(issued)] /\ inflight = {c \in Calls : Leading(c)}
  <2>1. call = [c \in Calls |-> idle] /\ inflight = {}
    BY DEF Init
  <2> QED  BY <1>9, <2>1 DEF Leading
<1>11. NoLock \in LockState /\ Leftover \in LockState
  BY DEF NoLock, Leftover, LockState
<1>12. lockFile \in [Tokens -> LockState]
  BY <1>11 DEF Init
<1>13. /\ intent \in [Accounts -> Nat] /\ lineage \in [Tokens -> Nat]
       /\ accepted \subseteq Nat /\ expired \subseteq Tokens
       /\ busy \in [Procs -> Calls \cup {NoCall}] /\ operations \in Nat
  BY <1>1, <1>2 DEF Init, Tokens
<1> QED  BY <1>1, <1>4, <1>6, <1>10, <1>12, <1>13 DEF TypeInv, Rest, Holdings

(* Every step.                                                             *)
LEMMA NextTyped == TypeInv /\ [Next]_vars => TypeInv'
<1> SUFFICES ASSUME TypeInv, [Next]_vars  PROVE TypeInv'
  OBVIOUS
<1>1. ASSUME NEW c \in Calls, NEW i \in Accounts, Begin(c, i)  PROVE TypeInv'
  <2>1. /\ call' \in [Calls -> States(issued)]
        /\ busy' \in [Procs -> Calls \cup {NoCall}]
        /\ inflight' = {d \in Calls : Leading(d)'}
    BY <1>1, EnterTyped DEF Begin
  <2> QED  BY <1>1, <2>1 DEF Begin, TypeInv, Rest, Holdings, endpoint
<1>2. ASSUME NEW c \in Calls, CallStep(c)  PROVE TypeInv'
  BY <1>1, <1>2, LockFileTyped, ReadLockedTyped, ReceiveTyped, ResumeJoinTyped
     DEF CallStep, LockStep
<1>3. CASE UNCHANGED vars
  BY <1>3 DEF vars, TypeInv, Rest, Holdings, Leading
<1> QED  BY <1>2, <1>3, EndpointTyped, OperatorTyped, WorldTyped DEF Next, OperatorStep

(* The invariant says what the type does.                                  *)
LEMMA TypedIsTypeOK == TypeInv => TypeOK
  BY DEF TypeInv, Rest, Holdings, TypeOK, Records, Messages, States, Leading

(* The inductive type invariant holds in every state.                      *)
LEMMA TypeInvariant == Spec => []TypeInv
  BY InitTyped, NextTyped, PTL DEF Spec

(***************************************************************************)
(* Every variable keeps its type: tokens stay within those issued, and a   *)
(* call, a message or a record never holds a credential nobody issued.     *)
(***************************************************************************)
THEOREM TypeCorrect == Spec => []TypeOK
  BY TypeInvariant, TypedIsTypeOK, PTL

-----------------------------------------------------------------------------
(***************************************************************************)
(* What a step does to the store: nothing, a refresh of one live record, a *)
(* login or an import, or a deletion.                                      *)
(***************************************************************************)
Refreshed(i, k) ==
    /\ IsLive(store[i]) /\ k \in Credentials(issued)
    /\ store' = [store EXCEPT ![i] = Saved(@, k)]
    /\ UNCHANGED intent

(* A credential of a login that is new or, for an alias, of another        *)
(* account.                                                                *)
LoggedIn(i, k, login) ==
    /\ k \in Credentials(issued')
    /\ login = issued + 1 \/ \E j \in Accounts : IsLive(store[j]) /\ login = intent[j]
    /\ store' = [store EXCEPT ![i] = Saved(@, k)]
    /\ intent' = [intent EXCEPT ![i] = login]

(* A deletion leaves a tombstone.                                          *)
Deleted(i) ==
    /\ store' = [store EXCEPT ![i] = Tombstoned(@)]
    /\ intent' = [intent EXCEPT ![i] = 0]

(* The write at the record's own generation is a save.                     *)
LEMMA SaveAtGeneration ==
    ASSUME NEW r, NEW g, NEW k
    PROVE  /\ MaySave(r, g) => IsLive(r) /\ SavedIfGeneration(r, g, k) = Saved(r, k)
           /\ ~ MaySave(r, g) => SavedIfGeneration(r, g, k) = r
           /\ IsLive(r) => MaySave(r, r.generation)
  BY DEF SavedIfGeneration, MaySave, IsGenerationLive, Saved

(* The steps that refresh a record.                                        *)
LEMMA AdoptRefreshes ==
    ASSUME TypeInv, NEW c \in Calls, LockedAdopt(c), UNCHANGED intent
    PROVE  \E j \in FreshForGrant(call[c].grant, call[c].id) :
             /\ Refreshed(call[c].id, store[j].credential)
             /\ Finish(c, Ok(store[j].credential, store[call[c].id].generation + 1))
<1> DEFINE i == call[c].id
<1>1. PICK j \in FreshForGrant(call[c].grant, i) :
        /\ store' = [store EXCEPT ![i] =
                       SavedIfGeneration(store[i], store[i].generation, store[j].credential)]
        /\ Finish(c, Ok(store[j].credential, store[i].generation + 1))
  BY DEF LockedAdopt
<1>2. store[j].credential \in Credentials(issued)
  BY LiveIsIssued DEF FreshForGrant, HasFresh
<1>3. IsLive(store[i])
  BY DEF LockedAdopt, NeedsRefresh, RecordOf
<1>4. SavedIfGeneration(store[i], store[i].generation, store[j].credential)
        = Saved(store[i], store[j].credential)
  BY <1>3, SaveAtGeneration
<1>5. Refreshed(i, store[j].credential)
  BY <1>1, <1>2, <1>3, <1>4 DEF Refreshed
<1> QED  BY <1>1, <1>5

(* What becomes of the answer to a fetch: it is a refusal, it is written   *)
(* over the record that was read, or it finds another generation and is    *)
(* dropped.                                                                *)
LEMMA ReceiveRefreshes ==
    ASSUME TypeInv, NEW c \in Calls, Receive(c)
    PROVE  LET i == call[c].id
               start == call[c].start
               k == wire[c].credential
           IN \/ /\ wire[c].kind = "refusal" /\ Finish(c, Failed("refused"))
                 /\ UNCHANGED <<store, intent>>
              \/ /\ wire[c].kind = "response" /\ k \in Credentials(issued)
                 /\ MaySave(store[i], start) /\ Finish(c, Ok(k, start + 1))
                 /\ Refreshed(i, k)
              \/ /\ wire[c].kind = "response" /\ ~ MaySave(store[i], start)
                 /\ Finish(c, Failed("conflict"))
                 /\ UNCHANGED <<store, intent>>
<1> DEFINE i == call[c].id
           start == call[c].start
           k == wire[c].credential
<1>1. CASE wire[c].kind = "refusal" /\ Finish(c, Failed("refused")) /\ UNCHANGED store
  BY <1>1 DEF Receive
<1>2. CASE /\ wire[c].kind = "response"
           /\ store' = [store EXCEPT ![i] = SavedIfGeneration(@, start, k)]
           /\ Finish(c, IF MaySave(store[i], start)
                        THEN Ok(k, start + 1) ELSE Failed("conflict"))
  <2>1. k \in Credentials(issued)
    BY <1>2 DEF TypeInv, Holdings, Messages
  <2>2. CASE MaySave(store[i], start)
    <3>1. SavedIfGeneration(store[i], start, k) = Saved(store[i], k) /\ IsLive(store[i])
      BY <2>2, SaveAtGeneration
    <3>2. Refreshed(i, k)
      BY <1>2, <2>1, <3>1 DEF Receive, Refreshed
    <3> QED  BY <1>2, <2>1, <2>2, <3>2
  <2>3. CASE ~ MaySave(store[i], start)
    <3>1. SavedIfGeneration(store[i], start, k) = store[i]
      BY <2>3, SaveAtGeneration
    <3>2. store' = store
      BY <1>2, <3>1 DEF TypeInv, Holdings
    <3> QED  BY <1>2, <2>3, <3>2 DEF Receive
  <2> QED  BY <2>2, <2>3
<1> QED  BY <1>1, <1>2 DEF Receive

(* A waiter that saves writes the answer of its leader over its live       *)
(* record.                                                                 *)
LEMMA JoinRefreshes ==
    ASSUME TypeInv, NEW c \in Calls, JoinSave(c), Resumable(c), UNCHANGED intent
    PROVE  /\ call[c].leader \in Calls
           /\ Refreshed(call[c].id, call[call[c].leader].answer.credential)
<1> DEFINE i == call[c].id
           k == call[call[c].leader].answer.credential
<1>1. call[c].leader \in Calls
  BY CallTyped DEF Resumable, States
<1>2. k \in Credentials(issued)
  BY <1>1, CallTyped DEF JoinSave, States
<1>3. SavedIfGeneration(store[i], store[i].generation, k) = Saved(store[i], k)
  BY SaveAtGeneration DEF JoinSave
<1> QED  BY <1>1, <1>2, <1>3 DEF JoinSave, Refreshed

(* The four kinds are all there is.                                        *)
LEMMA StoreStep ==
    ASSUME TypeInv, [Next]_vars
    PROVE  \/ UNCHANGED <<store, intent>>
           \/ \E i \in Accounts, k \in Credential : Refreshed(i, k)
           \/ \E i \in Accounts, k \in Credential, login \in Nat : LoggedIn(i, k, login)
           \/ \E i \in Accounts : Deleted(i)
<1> DEFINE P == \/ UNCHANGED <<store, intent>>
                \/ \E i \in Accounts, k \in Credential : Refreshed(i, k)
                \/ \E i \in Accounts, k \in Credential, login \in Nat : LoggedIn(i, k, login)
                \/ \E i \in Accounts : Deleted(i)
<1>0. issued \in Nat /\ issued + 1 \in Nat /\ intent \in [Accounts -> Nat]
  BY DEF TypeInv, Rest
<1>1. ASSUME NEW i \in Accounts, NEW k, Refreshed(i, k)  PROVE P
  BY <1>0, <1>1, IssuedIsCredential DEF Refreshed
<1>2. ASSUME NEW c \in Calls, CallStep(c)  PROVE P
  <2>1. call[c].id \in Accounts
    BY CallTyped DEF CallState
  <2>2. CASE ReadLocked(c)
    <3>1. CASE LockedAdopt(c)
      <4>1. \E j \in FreshForGrant(call[c].grant, call[c].id) :
              Refreshed(call[c].id, store[j].credential)
        BY <2>2, <3>1, AdoptRefreshes DEF ReadLocked
      <4> QED  BY <1>1, <2>1, <4>1
    <3> QED  BY <2>2, <3>1 DEF ReadLocked, LockedConflict, LockedFresh, LockedFetch
  <2>3. CASE Receive(c)
    BY <1>1, <2>1, <2>3, ReceiveRefreshes
  <2>4. CASE ResumeJoin(c)
    <3>1. CASE JoinSave(c)
      BY <1>1, <2>1, <2>4, <3>1, JoinRefreshes DEF ResumeJoin
    <3> QED  BY <2>4, <3>1 DEF ResumeJoin, JoinRejected, JoinAgain
  <2> QED  BY <1>2, <2>2, <2>3, <2>4 DEF CallStep, LockStep, Begin, LockTimeout, Wake,
              FetchTimeout, OpenLock, WriteLock, InspectLock, UnlinkStale, Release
<1>3. ASSUME NEW c \in Calls, EndpointStep(c)  PROVE P
  BY <1>3 DEF EndpointStep, EndpointRotates, EndpointKeeps, EndpointRefuses
<1>4. ASSUME NEW p \in Procs, NEW i \in Accounts, SignIn(p, i)  PROVE P
  <2> DEFINE k == [token |-> issued + 1, grant |-> issued + 1]
  <2>1. k \in Credentials(issued') /\ k \in Credential
    BY <1>0, <1>4 DEF SignIn, Credentials, Credential
  <2>2. LoggedIn(i, k, issued + 1)
    BY <1>4, <2>1 DEF SignIn, LoggedIn
  <2> QED  BY <1>0, <2>1, <2>2
<1>5. ASSUME NEW p \in Procs, NEW i \in Accounts, Delete(p, i)  PROVE P
  BY <1>5 DEF Delete, Deleted
<1>6. ASSUME NEW p \in Procs, NEW i \in Accounts, NEW j \in Accounts, Import(p, i, j)
      PROVE P
  <2>1. /\ store[j].credential \in Credentials(issued) /\ issued' = issued
        /\ store[j].credential \in Credential
    BY <1>0, <1>6, LiveIsIssued, IssuedIsCredential DEF Import, endpoint
  <2>2. LoggedIn(i, store[j].credential, intent[j])
    BY <1>6, <2>1 DEF Import, LoggedIn
  <2> QED  BY <1>0, <2>1, <2>2
<1>7. CASE \/ \E i \in Accounts : Expire(i)
           \/ \E p \in Procs : Crash(p)
           \/ \E g \in Tokens : LockAges(g)
  BY <1>7 DEF Expire, Crash, LockAges
<1>8. CASE UNCHANGED vars
  BY <1>8 DEF vars
<1> QED  BY <1>2, <1>3, <1>4, <1>5, <1>6, <1>7, <1>8 DEF Next, OperatorStep

(* A record stays, or is replaced at the next generation.                  *)
LEMMA RecordStep ==
    ASSUME TypeInv, [Next]_vars, NEW i \in Accounts
    PROVE  /\ store[i].generation \in Nat
           /\ \/ store'[i] = store[i]
              \/ store'[i].generation = store[i].generation + 1
<1>1. store[i].generation \in Nat /\ store \in [Accounts -> Records(issued)]
  BY LiveIsIssued DEF TypeInv, Holdings
<1> QED
  BY <1>1, StoreStep DEF Refreshed, LoggedIn, Deleted, Saved, Tombstoned

(***************************************************************************)
(* Every write of a record has a larger generation than the one before,    *)
(* for any number of accounts, aliases and processes.                      *)
(***************************************************************************)
THEOREM GenerationsGrow == Spec => GenerationOrdersWrites
<1>1. ASSUME TypeInv, [Next]_vars, NEW i \in Accounts, store'[i] # store[i]
      PROVE  store'[i].generation > store[i].generation
  BY <1>1, RecordStep
<1>2. TypeInv /\ [Next]_vars
        => [\A i \in Accounts : store'[i] # store[i]
              => store'[i].generation > store[i].generation]_vars
  BY <1>1
<1> QED  BY <1>2, TypeInvariant, PTL DEF Spec, GenerationOrdersWrites

(***************************************************************************)
(* An account has a credential exactly when the user last gave it one,     *)
(* aliases and any number of processes included.                           *)
(***************************************************************************)
THEOREM DeletedAreGone == Spec => []DeletedStaysDeleted
<1>1. Init => DeletedStaysDeleted
  BY RefreshAssumption DEF Init, DeletedStaysDeleted, IsLive, NoCredential, Accounts
<1>2. TypeInv /\ DeletedStaysDeleted /\ [Next]_vars => DeletedStaysDeleted'
  <2> SUFFICES ASSUME TypeInv, DeletedStaysDeleted, [Next]_vars, NEW i \in Accounts
               PROVE  IsLive(store'[i]) <=> intent'[i] # 0
    BY DEF DeletedStaysDeleted
  <2>1. /\ store \in [Accounts -> Records(issued)] /\ intent \in [Accounts -> Nat]
        /\ issued \in Nat /\ issued' \in Nat
    BY NextTyped DEF TypeInv, Rest, Holdings
  <2>2. IsLive(store[i]) <=> intent[i] # 0
    BY DEF DeletedStaysDeleted
  <2>3. ASSUME NEW n \in Nat, NEW r, NEW k \in Credentials(n)  PROVE IsLive(Saved(r, k))
    BY <2>3, IssuedIsCredential DEF IsLive, Saved
  <2>4. CASE UNCHANGED <<store, intent>>
    BY <2>2, <2>4
  <2>5. ASSUME NEW j \in Accounts, NEW k, Refreshed(j, k)
        PROVE  IsLive(store'[i]) <=> intent'[i] # 0
    BY <2>1, <2>2, <2>3, <2>5 DEF Refreshed
  <2>6. ASSUME NEW j \in Accounts, NEW k, NEW login \in Nat, LoggedIn(j, k, login)
        PROVE  IsLive(store'[i]) <=> intent'[i] # 0
    <3>1. login # 0
      BY <2>1, <2>6 DEF LoggedIn, DeletedStaysDeleted
    <3>2. IsLive(Saved(store[j], k))
      BY <2>1, <2>3, <2>6 DEF LoggedIn
    <3> QED  BY <2>1, <2>2, <2>6, <3>1, <3>2 DEF LoggedIn
  <2>7. ASSUME NEW j \in Accounts, Deleted(j)
        PROVE  IsLive(store'[i]) <=> intent'[i] # 0
    BY <2>1, <2>2, <2>7 DEF Deleted, Tombstoned, IsLive
  <2> QED  BY <2>4, <2>5, <2>6, <2>7, StoreStep
<1> QED  BY <1>1, <1>2, TypeInvariant, PTL DEF Spec

-----------------------------------------------------------------------------
(***************************************************************************)
(* Leaders.                                                                *)
(***************************************************************************)

(* A call that leads after a step led before with the same grant, or it is *)
(* the one call that moved and no call of its process led for that grant.  *)
LEMMA EnterLeads ==
    ASSUME TypeInv, NEW c \in Calls, NEW i \in Accounts,
           call[c].pc \in {"idle", "join"}, Enter(c, i)
    PROVE  /\ \A d \in Calls \ {c} : call'[d] = call[d]
           /\ Leading(c)' => \A d \in Calls : Leading(d) /\ ProcOf[d] = ProcOf[c]
                               => call[d].grant # call'[c].grant
<1>1. call \in [Calls -> States(issued)] /\ call[c] \in CallState
  BY CallTyped DEF TypeInv, Holdings
<1>2. CASE EnterLead(c, i)
  <2>1. call'[c].grant = store[i].credential.grant
    BY <1>1, <1>2 DEF EnterLead, CallState
  <2> QED  BY <1>1, <1>2, <2>1 DEF EnterLead, Leaders, TypeInv
<1>3. CASE EnterUnavailable(c, i)
  BY <1>1, <1>3 DEF EnterUnavailable, Leading, CallState
<1>4. CASE EnterFresh(c, i)
  BY <1>1, <1>4 DEF EnterFresh, Leading, CallState
<1>5. CASE EnterJoin(c, i)
  BY <1>1, <1>5 DEF EnterJoin, Leading, CallState
<1> QED  BY <1>2, <1>3, <1>4, <1>5 DEF Enter

(* A step makes at most one call a leader, and only when none of its       *)
(* process leads for the same grant.                                       *)
LEMMA LeaderStep ==
    ASSUME TypeInv, [Next]_vars
    PROVE  \/ \A c \in Calls : Leading(c)' => Leading(c) /\ call'[c].grant = call[c].grant
           \/ \E c \in Calls :
                /\ \A d \in Calls \ {c} : call'[d] = call[d]
                /\ Leading(c)' => \A d \in Calls : Leading(d) /\ ProcOf[d] = ProcOf[c]
                                    => call[d].grant # call'[c].grant
<1> DEFINE P == \/ \A c \in Calls : Leading(c)' => Leading(c) /\ call'[c].grant = call[c].grant
                \/ \E c \in Calls :
                     /\ \A d \in Calls \ {c} : call'[d] = call[d]
                     /\ Leading(c)' => \A d \in Calls : Leading(d) /\ ProcOf[d] = ProcOf[c]
                                         => call[d].grant # call'[c].grant
<1>0. call \in [Calls -> States(issued)] /\ \A c \in Calls : call[c] \in CallState
  BY CallTyped DEF TypeInv, Holdings
<1>1. ASSUME NEW c \in Calls, CallStep(c)  PROVE P
  <2>1. CASE \E i \in Accounts : Begin(c, i)
    BY <2>1, EnterLeads DEF Begin
  <2>2. CASE ResumeJoin(c)
    <3>1. call[c].id \in Accounts /\ call[c].pc = "join"
      BY <1>0, <2>2 DEF CallState, ResumeJoin, Resumable
    <3>2. CASE JoinAgain(c)
      BY <3>1, <3>2, EnterLeads DEF JoinAgain
    <3>3. CASE JoinRejected(c) \/ JoinSave(c)
      BY <1>0, <3>3 DEF JoinRejected, JoinSave, Leading, CallState
    <3> QED  BY <2>2, <3>2, <3>3 DEF ResumeJoin
  <2>3. CASE LockStep(c) \/ LockTimeout(c) \/ Wake(c) \/ Receive(c) \/ FetchTimeout(c)
    <3>1. Leading(c)
      BY <2>3 DEF LockStep, LockTimeout, Wake, Receive, FetchTimeout, OpenLock, WriteLock,
                  InspectLock, UnlinkStale, ReadLocked, Release, Leading
    <3>2. /\ call'[c].grant = call[c].grant
          /\ \A d \in Calls \ {c} : call'[d] = call[d]
      <4>1. CASE OpenLock(c) \/ WriteLock(c) \/ InspectLock(c) \/ UnlinkStale(c)
                 \/ Release(c) \/ Wake(c)
        BY <1>0, <4>1 DEF Wake, OpenLock, WriteLock, InspectLock, UnlinkStale, Release, CallState
      <4>2. CASE LockTimeout(c) \/ Receive(c) \/ FetchTimeout(c)
        BY <1>0, <4>2 DEF LockTimeout, Receive, FetchTimeout, Finish, CallState
      <4>3. CASE ReadLocked(c)
        BY <1>0, <4>3 DEF ReadLocked, LockedConflict, LockedFresh, LockedAdopt,
                          LockedFetch, Finish, CallState
      <4> QED  BY <2>3, <4>1, <4>2, <4>3 DEF LockStep
    <3>3. ASSUME NEW d \in Calls, Leading(d)'
          PROVE  Leading(d) /\ call'[d].grant = call[d].grant
      BY <3>1, <3>2, <3>3 DEF Leading
    <3> QED  BY <3>3 DEF Leading
  <2> QED  BY <1>1, <2>1, <2>2, <2>3 DEF CallStep
<1>2. ASSUME NEW p \in Procs, Crash(p)  PROVE P
  <2>1. \A c \in Calls : call'[c] = call[c] \/ call'[c] = [call[c] EXCEPT !.pc = "dead"]
    BY <1>2 DEF Crash
  <2>2. \A c \in Calls : /\ call'[c].pc \in {call[c].pc, "dead"}
                        /\ call'[c].grant = call[c].grant
    BY <1>0, <2>1 DEF CallState
  <2>3. \A c \in Calls : Leading(c)' => Leading(c) /\ call'[c].grant = call[c].grant
    BY <2>2 DEF Leading
  <2> QED  BY <2>3
<1>3. CASE UNCHANGED call
  BY <1>3 DEF Leading
<1> QED  BY <1>1, <1>2, <1>3 DEF Next, OperatorStep, EndpointStep, EndpointRotates,
            EndpointKeeps, EndpointRefuses, SignIn, Delete, Import, Expire, LockAges, vars

(***************************************************************************)
(* In one process, one call at a time works for a refresh token, for any   *)
(* number of calls and accounts, aliases included.                         *)
(***************************************************************************)
THEOREM LeadersAreAlone == Spec => []OneLeaderPerGrant
<1>1. Init => OneLeaderPerGrant
  BY DEF Init, OneLeaderPerGrant, Leading
<1>2. TypeInv /\ OneLeaderPerGrant /\ [Next]_vars => OneLeaderPerGrant'
  <2> SUFFICES ASSUME TypeInv, OneLeaderPerGrant, [Next]_vars
               PROVE  OneLeaderPerGrant'
    OBVIOUS
  <2>1. CASE \A c \in Calls : Leading(c)' => Leading(c) /\ call'[c].grant = call[c].grant
    BY <2>1 DEF OneLeaderPerGrant
  <2>2. ASSUME NEW c \in Calls, \A d \in Calls \ {c} : call'[d] = call[d],
               Leading(c)' => \A d \in Calls : Leading(d) /\ ProcOf[d] = ProcOf[c]
                                => call[d].grant # call'[c].grant
        PROVE  OneLeaderPerGrant'
    BY <2>2 DEF OneLeaderPerGrant, Leading
  <2> QED  BY <2>1, <2>2, LeaderStep
<1> QED  BY <1>1, <1>2, TypeInvariant, PTL DEF Spec

-----------------------------------------------------------------------------
(***************************************************************************)
(* Answers.                                                                *)
(***************************************************************************)
AnsweredFromStore(c) ==
    (call'[c].answer # call[c].answer /\ call'[c].answer.kind = "ok")
        => /\ IsGenerationLive(store'[call'[c].id], call'[c].answer.generation)
           /\ store'[call'[c].id].credential = call'[c].answer.credential

(* A record that was just refreshed is live, at the next generation.       *)
LEMMA RefreshedIsLive ==
    ASSUME TypeInv, NEW i \in Accounts, NEW k, Refreshed(i, k)
    PROVE  /\ IsGenerationLive(store'[i], store[i].generation + 1)
           /\ store'[i].credential = k
<1>1. issued \in Nat /\ k \in Credentials(issued) /\ k # NoCredential
  BY IssuedIsCredential DEF Refreshed, TypeInv, Rest
<1>2. store'[i] = Saved(store[i], k)
  BY DEF Refreshed, TypeInv, Holdings
<1> QED  BY <1>1, <1>2 DEF Saved, IsGenerationLive, IsLive

(* What getValidCodexToken answers without a refresh is the record.        *)
LEMMA EnterAnswers ==
    ASSUME TypeInv, NEW c \in Calls, NEW i \in Accounts, Enter(c, i), UNCHANGED store
    PROVE  \A d \in Calls : AnsweredFromStore(d)
<1>1. call \in [Calls -> States(issued)] /\ call[c] \in CallState
  BY CallTyped DEF TypeInv, Holdings
<1>2. \A d \in Calls \ {c} : call'[d] = call[d]
  BY <1>1 DEF Enter, EnterUnavailable, EnterFresh, EnterJoin, EnterLead
<1>3. AnsweredFromStore(c)
  <2>1. CASE EnterUnavailable(c, i)
    <3>1. call'[c].answer = Failed("unavailable")
      BY <1>1, <2>1 DEF EnterUnavailable, CallState
    <3> QED  BY <3>1 DEF AnsweredFromStore, Failed
  <2>2. CASE EnterFresh(c, i)
    <3>1. call'[c].answer = Ok(store[i].credential, store[i].generation) /\ call'[c].id = i
      BY <1>1, <2>2 DEF EnterFresh, CallState
    <3> QED  BY <2>2, <3>1 DEF AnsweredFromStore, Ok, EnterFresh, HasFresh, IsGenerationLive
  <2>3. CASE EnterJoin(c, i) \/ EnterLead(c, i)
    <3>1. call'[c].answer = call[c].answer
      BY <1>1, <2>3 DEF EnterJoin, EnterLead, CallState
    <3> QED  BY <3>1 DEF AnsweredFromStore
  <2> QED  BY <2>1, <2>2, <2>3 DEF Enter
<1> QED  BY <1>2, <1>3 DEF AnsweredFromStore

(* What Finish answers, and to whom.                                       *)
LEMMA FinishAnswers ==
    ASSUME TypeInv, NEW c \in Calls, NEW a, Finish(c, a),
           a.kind = "ok" =>
             /\ IsGenerationLive(store'[call[c].id], a.generation)
             /\ store'[call[c].id].credential = a.credential
    PROVE  \A d \in Calls : AnsweredFromStore(d)
<1>1. call \in [Calls -> States(issued)] /\ call[c] \in CallState
  BY CallTyped DEF TypeInv, Holdings
<1>2. /\ call'[c].answer = a /\ call'[c].id = call[c].id
      /\ \A d \in Calls \ {c} : call'[d] = call[d]
  BY <1>1 DEF Finish, CallState
<1> QED  BY <1>2 DEF AnsweredFromStore

(* So is whatever any step answers a call with.                            *)
LEMMA AnswerStep ==
    ASSUME TypeInv, [Next]_vars
    PROVE  \A d \in Calls : AnsweredFromStore(d)
<1> DEFINE P == \A d \in Calls : AnsweredFromStore(d)
<1>0. call \in [Calls -> States(issued)] /\ \A c \in Calls : call[c] \in CallState
  BY CallTyped DEF TypeInv, Holdings
<1>1. ASSUME NEW c \in Calls, ReadLocked(c)  PROVE P
  <2>1. CASE LockedConflict(c)
    BY <2>1, FinishAnswers DEF LockedConflict, Failed
  <2>2. CASE LockedFresh(c)
    <3> DEFINE r == store[call[c].id]
    <3>1. Finish(c, Ok(r.credential, r.generation)) /\ store' = store /\ IsLive(r)
      BY <2>2 DEF LockedFresh, RecordOf, HasFresh
    <3>2. /\ IsGenerationLive(store'[call[c].id], Ok(r.credential, r.generation).generation)
          /\ store'[call[c].id].credential = Ok(r.credential, r.generation).credential
      BY <3>1 DEF Ok, IsGenerationLive
    <3> QED  BY <3>1, <3>2, FinishAnswers
  <2>3. CASE LockedAdopt(c)
    <3>1. PICK k : /\ Refreshed(call[c].id, k)
                   /\ Finish(c, Ok(k, store[call[c].id].generation + 1))
      BY <1>1, <2>3, AdoptRefreshes DEF ReadLocked
    <3>2. /\ IsGenerationLive(store'[call[c].id], store[call[c].id].generation + 1)
          /\ store'[call[c].id].credential = k
      BY <1>0, <3>1, RefreshedIsLive DEF CallState
    <3> QED  BY <3>1, <3>2, FinishAnswers DEF Ok
  <2>4. CASE LockedFetch(c)
    BY <1>0, <2>4 DEF LockedFetch, AnsweredFromStore, CallState
  <2> QED  BY <1>1, <2>1, <2>2, <2>3, <2>4 DEF ReadLocked
<1>2. ASSUME NEW c \in Calls, Receive(c)  PROVE P
  <2> DEFINE i == call[c].id
             k == wire[c].credential
  <2>1. \/ Finish(c, Failed("refused")) \/ Finish(c, Failed("conflict"))
        \/ /\ MaySave(store[i], call[c].start) /\ Finish(c, Ok(k, call[c].start + 1))
           /\ Refreshed(i, k)
    BY <1>2, ReceiveRefreshes
  <2>2. CASE Finish(c, Failed("refused")) \/ Finish(c, Failed("conflict"))
    BY <2>2, FinishAnswers DEF Failed
  <2>3. CASE /\ MaySave(store[i], call[c].start) /\ Finish(c, Ok(k, call[c].start + 1))
             /\ Refreshed(i, k)
    <3>1. /\ IsGenerationLive(store'[i], store[i].generation + 1)
          /\ store'[i].credential = k
      BY <1>0, <2>3, RefreshedIsLive DEF CallState
    <3>2. store[i].generation = call[c].start
      BY <2>3 DEF MaySave, IsGenerationLive
    <3> QED  BY <2>3, <3>1, <3>2, FinishAnswers DEF Ok
  <2> QED  BY <2>1, <2>2, <2>3
<1>3. ASSUME NEW c \in Calls, ResumeJoin(c)  PROVE P
  <2>1. call[c].id \in Accounts /\ Resumable(c)
    BY <1>0, <1>3 DEF CallState, ResumeJoin
  <2>2. CASE JoinRejected(c)
    <3>1. /\ call'[c].answer.kind # "ok"
          /\ \A d \in Calls \ {c} : call'[d] = call[d]
      BY <1>0, <2>2 DEF JoinRejected, CallState
    <3> QED  BY <3>1 DEF AnsweredFromStore
  <2>3. CASE JoinSave(c)
    <3> DEFINE i == call[c].id
               k == call[call[c].leader].answer.credential
    <3>1. Refreshed(i, k)
      BY <1>3, <2>1, <2>3, JoinRefreshes DEF ResumeJoin
    <3>2. /\ IsGenerationLive(store'[i], store[i].generation + 1)
          /\ store'[i].credential = k
      BY <2>1, <3>1, RefreshedIsLive
    <3>3. /\ call'[c].answer = Ok(k, store[i].generation + 1) /\ call'[c].id = i
          /\ \A d \in Calls \ {c} : call'[d] = call[d]
      BY <1>0, <2>3 DEF JoinSave, CallState
    <3> QED  BY <3>2, <3>3 DEF AnsweredFromStore, Ok
  <2>4. CASE JoinAgain(c)
    BY <2>1, <2>4, EnterAnswers DEF JoinAgain
  <2> QED  BY <1>3, <2>2, <2>3, <2>4 DEF ResumeJoin
<1>4. ASSUME NEW c \in Calls, CallStep(c)  PROVE P
  <2>1. CASE \E i \in Accounts : Begin(c, i)
    BY <2>1, EnterAnswers DEF Begin
  <2>2. CASE FetchTimeout(c)
    BY <2>2, FinishAnswers DEF FetchTimeout, Failed
  <2>3. CASE LockTimeout(c)
    BY <1>0, <2>3 DEF LockTimeout, Failed, AnsweredFromStore, CallState
  <2>4. CASE OpenLock(c) \/ WriteLock(c) \/ InspectLock(c) \/ UnlinkStale(c)
             \/ Release(c) \/ Wake(c)
    <3>1. \A d \in Calls : call'[d].answer = call[d].answer
      BY <1>0, <2>4 DEF Wake, OpenLock, WriteLock, InspectLock, UnlinkStale, Release, CallState
    <3> QED  BY <3>1 DEF AnsweredFromStore
  <2> QED  BY <1>1, <1>2, <1>3, <1>4, <2>1, <2>2, <2>3, <2>4 DEF CallStep, LockStep
<1>5. ASSUME NEW p \in Procs, Crash(p)  PROVE P
  <2>1. \A d \in Calls : call'[d] = call[d] \/ call'[d] = [call[d] EXCEPT !.pc = "dead"]
    BY <1>5 DEF Crash
  <2>2. \A d \in Calls : call'[d].answer = call[d].answer
    BY <1>0, <2>1 DEF CallState
  <2> QED  BY <2>2 DEF AnsweredFromStore
<1>6. CASE UNCHANGED call
  BY <1>6 DEF AnsweredFromStore
<1> QED  BY <1>4, <1>5, <1>6 DEF Next, OperatorStep, EndpointStep, EndpointRotates,
            EndpointKeeps, EndpointRefuses, SignIn, Delete, Import, Expire, LockAges, vars

(***************************************************************************)
(* At the step in which a call obtains its token the record of its account *)
(* is live with that token at that generation, for every way of obtaining  *)
(* one and for any number of calls, accounts and processes.                *)
(***************************************************************************)
THEOREM AnswersAreRecorded == Spec => AnswerIsTheRecord
<1>1. TypeInv /\ [Next]_vars
        => [\A c \in Calls :
              (call'[c].answer # call[c].answer /\ call'[c].answer.kind = "ok")
                 => LET r == store'[call'[c].id] IN
                    /\ IsGenerationLive(r, call'[c].answer.generation)
                    /\ r.credential = call'[c].answer.credential]_vars
  BY AnswerStep DEF AnsweredFromStore
<1> QED  BY <1>1, TypeInvariant, PTL DEF Spec, AnswerIsTheRecord

=============================================================================
