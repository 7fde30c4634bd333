------------------------------- MODULE Failover -------------------------------
(***************************************************************************)
(* The two nested retry loops of src/server/responses/core.ts: a request   *)
(* for a combo hops from member to member (handleComboResponses), and a    *)
(* request to a provider with several API keys goes from key to key while  *)
(* the upstream answers 429 (handleResponses).                             *)
(*                                                                         *)
(* Each loop awaits the upstream between its steps, so the loops of        *)
(* concurrent requests interleave over the shared tables of KeyPool and    *)
(* ComboSelection; the management API changes these in between.            *)
(*                                                                         *)
(* A request is in one of the phases free (not made, or ended), sent (it   *)
(* awaits the upstream) and failed (a combo request whose member failed    *)
(* and whose error body is being read).  The key is read when the member   *)
(* is routed, after the body of the request has been read; nothing that    *)
(* happens in between looks at the pick, so both are one step.             *)
(***************************************************************************)
EXTENDS KeyPool, ComboSelection

CONSTANTS
    Requests,       \* the places for concurrent requests
    Direct,         \* the "member" of a request straight to the provider with the pool
    PoolMembers,    \* the members whose provider is the one with the pool
    Payloads        \* the sets of members that may be able to take a payload

ASSUME FailoverAssumption ==
    /\ Direct \notin Members \cup {NoMember}
    /\ PoolMembers \subseteq Members
    /\ Payloads \subseteq SUBSET Members /\ {} \notin Payloads

VARIABLES
    req,        \* the state of each request
    sends       \* history: sends[r][m], the members r was given since it began

vars == <<pool, liveKey, keyCooling, selection, memberCooling, req, sends>>

Headers == RetryAfters \cup {NoHeader}
Free == [phase |-> "free", member |-> NoMember, key |-> NoKey, tried |-> {},
         payload |-> {}, header |-> NoHeader]
UsesPool(m) == m \in PoolMembers \cup {Direct}
KeyOf(m) == IF UsesPool(m) THEN liveKey ELSE NoKey

TypeOK ==
    /\ PoolTypeOK
    /\ SelectionTypeOK
    /\ req \in [Requests -> [phase : {"free", "sent", "failed"},
                             member : Members \cup {Direct, NoMember},
                             key : Keys \cup {NoKey},
                             tried : SUBSET Members,
                             payload : SUBSET Members,
                             header : Headers]]
    /\ sends \in [Requests -> [Members -> Nat]]

Init ==
    /\ PoolInit
    /\ selection = Fresh
    /\ memberCooling = [m \in Members |-> 0]
    /\ req = [r \in Requests |-> Free]
    /\ sends = [r \in Requests |-> [m \in Members |-> 0]]

------------------------------------------------------------------------------
(* Request r ends, whatever is returned to the client.                     *)
End(r) ==
    /\ req' = [req EXCEPT ![r] = Free]
    /\ sends' = [sends EXCEPT ![r] = [m \in Members |-> 0]]

(* r goes on with what PickComboTarget chooses among the eligible, given   *)
(* the selection it finds; without a choice it ends.                       *)
Pick(r, sel, eligible, tried, payload) ==
    LET m == PickComboTarget(sel, eligible)
    IN  /\ selection' = PickSelection(sel, eligible)
        /\ IF m = NoMember THEN End(r)
           ELSE /\ req' = [req EXCEPT ![r] =
                    [phase |-> "sent", member |-> m, key |-> KeyOf(m),
                     tried |-> tried \cup {m}, payload |-> payload, header |-> NoHeader]]
                /\ sends' = [sends EXCEPT ![r][m] = @ + 1]

StartDirect(r) ==
    /\ req[r].phase = "free"
    /\ req' = [req EXCEPT ![r] = [Free EXCEPT !.phase = "sent", !.member = Direct, !.key = liveKey]]
    /\ UNCHANGED <<pool, liveKey, keyCooling, selection, memberCooling, sends>>

(* The members that cannot take the payload are left out by payloadEligible.*)
(* Mutant: the first choice does not look at the cooldowns.                *)
StartComboAnyMember(r) ==
    /\ req[r].phase = "free"
    /\ \E payload \in Payloads : Pick(r, selection, payload, {}, payload)
    /\ UNCHANGED <<pool, liveKey, keyCooling, memberCooling>>

StartCombo(r) ==
    /\ req[r].phase = "free"
    /\ \E payload \in Payloads :
           Pick(r, selection, payload \cap NotCooling(memberCooling), {}, payload)
    /\ UNCHANGED <<pool, liveKey, keyCooling, memberCooling>>

------------------------------------------------------------------------------
(* The upstream answers r.                                                 *)
Succeeds(r) ==
    /\ req[r].phase = "sent"
    /\ selection' = NoteSuccess(selection, req[r].member)
    /\ End(r)
    /\ UNCHANGED <<pool, liveKey, keyCooling, memberCooling>>

(* A failure is returned to the client, or read to decide where to hop.    *)
Fail(r, header) ==
    IF req[r].member = Direct THEN End(r)
    ELSE /\ req' = [req EXCEPT ![r].phase = "failed", ![r].header = header]
         /\ UNCHANGED sends

(* 429.  The pool that a request found when it was routed may have been    *)
(* shorter or longer; rotateKeyOn429 looks at the one there is now.        *)
RateLimited(r, header) ==
    /\ req[r].phase = "sent"
    /\ IF UsesPool(req[r].member)
       THEN /\ RotateKeyOn429(req[r].key, header)
            /\ LET next == Rotation(req[r].key, header)
               IN  IF next = NoKey THEN Fail(r, header)
                   ELSE req' = [req EXCEPT ![r].key = next] /\ UNCHANGED sends
       ELSE Fail(r, header) /\ UNCHANGED poolVars
    /\ UNCHANGED comboVars

(* 401, 403, 404, 408, 5xx, or no connection: comboFailureDecision "hop".  *)
Breaks(r, header) ==
    /\ req[r].phase = "sent"
    /\ Fail(r, header)
    /\ UNCHANGED <<pool, liveKey, keyCooling, selection, memberCooling>>

(* The request itself is refused ("stop"), or the client goes away: the    *)
(* member keeps its standing.                                              *)
Stops(r) ==
    /\ req[r].phase # "free"
    /\ End(r)
    /\ UNCHANGED <<pool, liveKey, keyCooling, selection, memberCooling>>

(* advanceComboAfterFailure, once the error body has been read.  Mutant:   *)
(* only the member that failed last is excluded.                           *)
HopExcludesLast(r) ==
    /\ req[r].phase = "failed"
    /\ memberCooling' = Cooled(memberCooling, req[r].member, req[r].header)
    /\ Pick(r, NoteFailure(selection, req[r].member),
            (req[r].payload \cap NotCooling(memberCooling')) \ {req[r].member},
            req[r].tried, req[r].payload)
    /\ UNCHANGED poolVars

Hop(r) ==
    /\ req[r].phase = "failed"
    /\ memberCooling' = Cooled(memberCooling, req[r].member, req[r].header)
    /\ Pick(r, NoteFailure(selection, req[r].member),
            (req[r].payload \cap NotCooling(memberCooling')) \ req[r].tried,
            req[r].tried, req[r].payload)
    /\ UNCHANGED poolVars

------------------------------------------------------------------------------
Answer(r) ==
    \/ Succeeds(r)
    \/ \E header \in Headers : RateLimited(r, header) \/ Breaks(r, header)
    \/ Stops(r)

(* The passing of a unit of time; nothing changes when nothing is cooling. *)
Tick ==
    /\ keyCooling' = Aged(keyCooling)
    /\ memberCooling' = Aged(memberCooling)
    /\ UNCHANGED <<pool, liveKey, selection, req, sends>>

Manage ==
    /\ \/ ManageKeys /\ UNCHANGED comboVars
       \/ PutCombo /\ UNCHANGED poolVars
    /\ UNCHANGED <<req, sends>>

Next ==
    \/ \E r \in Requests : StartDirect(r) \/ StartCombo(r) \/ Answer(r) \/ Hop(r)
    \/ Tick
    \/ Manage

Spec == Init /\ [][Next]_vars

(* Every fetch ends: it has a connect timeout.  So does reading a body.    *)
FairSpec == Spec /\ \A r \in Requests : WF_vars(Answer(r) \/ Hop(r))

------------------------------------------------------------------------------
(* A key is put in cooldown only by a 429 that a request sent with this    *)
(* very key was answered with: a late 429 of a key that was rotated away   *)
(* does not punish its replacement.                                        *)
InnocentKeysStayFree ==
    [][\A k \in Keys :
           keyCooling'[k] > keyCooling[k] =>
               \E r \in Requests :
                   /\ req[r].phase = "sent" /\ UsesPool(req[r].member)
                   /\ req[r].key = k /\ req'[r] # req[r]]_vars

(* Requests rotate away from the live key only when it is cooling or is no *)
(* longer in the pool: of several requests that are refused with one key,  *)
(* the first rotates and the others follow.                                *)
OneRotationPerRefusal ==
    [][req' # req /\ liveKey' # liveKey =>
           liveKey \notin Pooled \/ keyCooling'[liveKey] > 0]_vars

(* A 429 is returned to the client, or charged to the combo member, only   *)
(* when every key of the pool is cooling, provided that the refused key is *)
(* still in the pool (without it the scan leaves out the last key).        *)
GivenUpOnlyWhenAllCooling ==
    \A r \in Requests : \A header \in Headers :
        /\ req[r].phase = "sent" /\ req[r].key \in Pooled
        /\ Len(pool) > 1 /\ Rotation(req[r].key, header) = NoKey
        => \A k \in Pooled : CoolingAfter(req[r].key, header)[k] > 0

(* A request tries no member of the combo twice, even when the cooldown it *)
(* gave the member has ended before its loop comes round.                  *)
OncePerMember == \A r \in Requests : \A m \in Members : sends[r][m] <= 1

(* A member that failed for one request is given to no other one until its *)
(* cooldown has ended.                                                     *)
CoolingMembersRest ==
    [][\A r \in Requests :
           req'[r].member \in Members \ {req[r].member} =>
               memberCooling'[req'[r].member] = 0]_vars

(* The active member of a round-robin combo loses its turn, or what it has *)
(* of it, by a request only for a reason: the member ended this request    *)
(* itself (by the last success of its turn or a failure), it is cooling,   *)
(* the request has tried it, or it cannot take the payload. A late outcome *)
(* of another member is none.                                              *)
TurnLostForCause ==
    [][LET a == selection.active
           lost == selection'.active # a \/ selection'.successes < selection.successes
       IN  a # NoMember /\ lost /\ req' # req =>
               \E r \in Requests :
                   /\ req'[r] # req[r]
                   /\ \/ req[r].member = a
                      \/ memberCooling'[a] > 0
                      \/ a \in req[r].tried
                      \/ a \notin req'[r].payload]_vars

(* A request can only circle forever while cooldowns keep ending or the    *)
(* operator keeps changing the keys: otherwise every 429 takes a key,      *)
(* every failure a member, and the request ends.                           *)
EveryRequestEnds ==
    \/ \A r \in Requests : req[r].phase # "free" ~> req[r].phase = "free"
    \/ []<><<poolVars' # poolVars /\ req' = req>>_vars
==============================================================================
