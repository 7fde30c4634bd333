-------------------------------- MODULE Sockets --------------------------------
(***************************************************************************)
(* Turns over the Responses WebSocket: the handlers of src/server/index.ts,*)
(* the pump of src/server/ws-bridge.ts and the registry of sockets by      *)
(* account in src/codex/websocket-registry.ts. A socket carries one turn   *)
(* after another; a new frame supersedes the turn before it, which may     *)
(* still be waiting for a token, for the upstream or for a body, and goes  *)
(* on from there when its wait is over. An account may be deleted at any   *)
(* moment: the turns that use it are to be cut off.                        *)
(***************************************************************************)
EXTENDS Naturals, FiniteSets

CONSTANTS
    Accounts,   \* the pool accounts
    NoAccount,  \* a turn of no pool account
    Clients,    \* the sockets
    MaxTurns    \* bound: the frames response.create, over all sockets

ASSUME SocketsAssumption == NoAccount \notin Accounts /\ MaxTurns \in Nat

VARIABLES
    phase,          \* of each socket
    turnId,         \* ws.data.turnId
    cancel,         \* whose cancel function ws.data.cancel is (0: undefined)
    authContext,    \* the account of ws.data.authContext
    registry,       \* socketsByAccount
    turns,          \* the turns of each socket
    deleted,        \* the accounts deleted so far; they do not come back
    heard,          \* whether the client of a socket has heard the end of its last turn, and anything wrong
    missed          \* whether the context of the socket was last set away from the account of the current turn
                    \* by a superseded one, or set to an account already deleted

slots == <<phase, turnId, cancel>>
owners == <<authContext, registry, missed>>
vars == <<slots, owners, turns, deleted, heard>>

Ids == 1..MaxTurns
Stages == {"none", "queued", "resolving", "using", "switching", "retried", "prefix", "text", "pump"}

Turns ==
    [stage : Stages,
     account : Accounts \cup {NoAccount},   \* the one it has reported to its socket
     picked : Accounts \cup {NoAccount},    \* the one whose token it awaits or, in a combo, uses unreported
     combo : BOOLEAN,
     cut : BOOLEAN]                         \* cancelled: its fetch aborted, or its reader

NoTurn == [stage |-> "none", account |-> NoAccount, picked |-> NoAccount, combo |-> FALSE, cut |-> FALSE]

TypeOK ==
    /\ phase \in [Clients -> {"new", "open", "closing", "closed"}]
    /\ turnId \in [Clients -> 0..MaxTurns] /\ cancel \in [Clients -> 0..MaxTurns]
    /\ authContext \in [Clients -> Accounts \cup {NoAccount}]
    /\ registry \in [Accounts -> SUBSET Clients]
    /\ turns \in [Clients -> [Ids -> Turns]]
    /\ deleted \subseteq Accounts
    /\ heard \in [Clients -> [ended : BOOLEAN, wrong : BOOLEAN]]
    /\ missed \in [Clients -> BOOLEAN]

Init ==
    /\ phase = [w \in Clients |-> "new"]
    /\ turnId = [w \in Clients |-> 0] /\ cancel = [w \in Clients |-> 0]
    /\ authContext = [w \in Clients |-> NoAccount]
    /\ registry = [a \in Accounts |-> {}]
    /\ turns = [w \in Clients |-> [n \in Ids |-> NoTurn]]
    /\ deleted = {}
    /\ heard = [w \in Clients |-> [ended |-> FALSE, wrong |-> FALSE]]
    /\ missed = [w \in Clients |-> FALSE]

At(w, n, stage) == turns[w][n].stage = stage
Goto(w, n, stage) == turns' = [turns EXCEPT ![w][n].stage = stage]
IsCurrent(w, n) == turnId[w] = n
Open(w) == phase[w] = "open"

(* ws.data.cancel?.()                                                      *)
Cancelled(w) ==
    IF cancel[w] = 0 THEN turns[w] ELSE [turns[w] EXCEPT ![cancel[w]].cut = TRUE]

(* Mutant: a turn that ends clears the slot, whosever it is.               *)
FinishAlone(w, n) ==
    /\ turns' = [turns EXCEPT ![w][n] = NoTurn]
    /\ cancel' = [cancel EXCEPT ![w] = 0]

(* The end of a turn: it takes its cancel function back, not another's.    *)
Finish(w, n) ==
    /\ turns' = [turns EXCEPT ![w][n] = NoTurn]
    /\ cancel' = [cancel EXCEPT ![w] = IF @ = n THEN 0 ELSE @]

(* A frame of turn n reaches the client. It is wrong if that is not the    *)
(* turn the client asked for last, or if the turn was over.                *)
Hear(w, n, ended) ==
    heard' = [heard EXCEPT ![w] = [ended |-> ended, wrong |-> @.wrong \/ @.ended \/ ~IsCurrent(w, n)]]

------------------------------------------------------------------------------
(* The registry.                                                           *)

(* Mutant: the socket is added for the new account before it is removed    *)
(* for the old one.                                                        *)
RelistedFirst(w, account) ==
    [a \in Accounts |-> IF a = authContext[w] THEN registry[a] \ {w}
                        ELSE IF a = account THEN registry[a] \cup {w} ELSE registry[a]]

Relisted(w, account) ==
    [a \in Accounts |-> IF a = account THEN registry[a] \cup {w}
                        ELSE IF a = authContext[w] THEN registry[a] \ {w} ELSE registry[a]]

(* updateCodexWebSocketAuthContext, as the callback of turn n.             *)
SetContext(w, n, account) ==
    /\ registry' = Relisted(w, account)
    /\ authContext' = [authContext EXCEPT ![w] = account]
    /\ missed' = [missed EXCEPT ![w] =
          account \in deleted \/ (~IsCurrent(w, n) /\ account # turns[w][turnId[w]].account)]

(* registerCodexWebSocket.                                                 *)
Opened(w) ==
    /\ phase[w] = "new"
    /\ phase' = [phase EXCEPT ![w] = "open"]
    /\ registry' = Relisted(w, authContext[w])
    /\ UNCHANGED <<turnId, cancel, authContext, missed, turns, deleted, heard>>

(* The client hangs up, or a close of ours takes effect.                   *)
Closed(w) ==
    /\ phase[w] \in {"open", "closing"}
    /\ phase' = [phase EXCEPT ![w] = "closed"]
    /\ registry' = [a \in Accounts |-> IF a = authContext[w] THEN registry[a] \ {w} ELSE registry[a]]
    /\ turns' = [turns EXCEPT ![w] = Cancelled(w)]
    /\ UNCHANGED <<turnId, cancel, authContext, missed, deleted, heard>>

(* deleteCodexAccount and invalidateCodexWebSocketsForAccount.             *)
Delete(a) ==
    /\ a \notin deleted
    /\ deleted' = deleted \cup {a}
    /\ registry' = [registry EXCEPT ![a] = {}]
    /\ turns' = [w \in Clients |-> IF w \in registry[a] THEN Cancelled(w) ELSE turns[w]]
    /\ phase' = [w \in Clients |-> IF w \in registry[a] /\ Open(w) THEN "closing" ELSE phase[w]]
    /\ UNCHANGED <<turnId, cancel, authContext, missed, heard>>

------------------------------------------------------------------------------
(* A frame response.create: the turn before is cancelled, the context      *)
(* cleared, and a turn begins. A warmup is answered at once.               *)
Asked == {asked \in Clients \X Ids : asked[2] <= turnId[asked[1]]}

Supersede(w) ==
    /\ Open(w) /\ turnId[w] < MaxTurns /\ Cardinality(Asked) < MaxTurns
    /\ turnId' = [turnId EXCEPT ![w] = @ + 1]
    /\ registry' = Relisted(w, NoAccount)
    /\ authContext' = [authContext EXCEPT ![w] = NoAccount]
    /\ missed' = [missed EXCEPT ![w] = FALSE]
    /\ UNCHANGED <<phase, deleted>>

Begin(w) ==
    /\ Supersede(w)
    /\ \E combo \in BOOLEAN :
          turns' = [turns EXCEPT ![w] = [Cancelled(w) EXCEPT ![turnId[w] + 1] =
                                            [NoTurn EXCEPT !.stage = "queued", !.combo = combo]]]
    /\ cancel' = [cancel EXCEPT ![w] = turnId[w] + 1]
    /\ heard' = [heard EXCEPT ![w].ended = FALSE]

Warmup(w) ==
    /\ Supersede(w)
    /\ turns' = [turns EXCEPT ![w] = Cancelled(w)]
    /\ cancel' = [cancel EXCEPT ![w] = 0]
    /\ heard' = [heard EXCEPT ![w].ended = TRUE]

------------------------------------------------------------------------------
(* handleResponses as the socket sees it. It needs no pool account, or     *)
(* picks one and awaits its token, or refuses: then it has an error to     *)
(* send. Within a combo the context is kept back until a member has        *)
(* answered.                                                               *)
Direct(w, n) ==
    /\ At(w, n, "queued")
    /\ IF turns[w][n].combo
       THEN Goto(w, n, "using") /\ UNCHANGED owners
       ELSE /\ SetContext(w, n, NoAccount)
            /\ turns' = [turns EXCEPT ![w][n].stage = "using", ![w][n].account = NoAccount]
    /\ UNCHANGED <<slots, deleted, heard>>

Pick(w, n) ==
    /\ At(w, n, "queued")
    /\ \E a \in Accounts \ deleted :
          turns' = [turns EXCEPT ![w][n].stage = "resolving", ![w][n].picked = a]
    /\ UNCHANGED <<slots, owners, deleted, heard>>

(* A 400 of the account's model list: one more account is tried.           *)
PickAnother(w, n) ==
    LET t == turns[w][n] IN
    /\ At(w, n, "using") /\ ~t.cut /\ {t.account, t.picked} # {NoAccount}
    /\ \E a \in Accounts \ (deleted \cup {t.account, t.picked}) :
          turns' = [turns EXCEPT ![w][n].stage = "switching", ![w][n].picked = a]
    /\ UNCHANGED <<slots, owners, deleted, heard>>

(* The token is there: the account is told to the socket, whatever has     *)
(* become of the turn or of the socket. The token of a deleted account     *)
(* never is; but the second account of a turn is told only after two more  *)
(* awaits, and may be gone by then.                                        *)
Resolved(w, n) ==
    LET t == turns[w][n] IN
    /\ t.stage \in {"resolving", "switching"}
    /\ t.stage = "resolving" => t.picked \notin deleted
    /\ LET next == IF t.stage = "resolving" THEN "using" ELSE "retried" IN
       IF t.combo
       THEN Goto(w, n, next) /\ UNCHANGED owners
       ELSE /\ SetContext(w, n, t.picked)
            /\ turns' = [turns EXCEPT ![w][n] = [t EXCEPT !.stage = next, !.account = t.picked, !.picked = NoAccount]]
    /\ UNCHANGED <<slots, deleted, heard>>

(* A combo goes on to its next member, unless it was cancelled.            *)
Hop(w, n) ==
    LET t == turns[w][n] IN
    /\ t.stage \in {"resolving", "using", "switching", "retried"} /\ t.combo /\ ~t.cut
    /\ turns' = [turns EXCEPT ![w][n] = [t EXCEPT !.stage = "queued", !.picked = NoAccount]]
    /\ UNCHANGED <<slots, owners, deleted, heard>>

(* handleResponses returns an error, one of the account, of the upstream   *)
(* or of the abort; sendResponseToWebSocket drops it or awaits its text.   *)
Failed(w, n) ==
    /\ turns[w][n].stage \in {"queued", "resolving", "using", "switching", "retried"}
    /\ \/ IsCurrent(w, n) /\ Goto(w, n, "text") /\ UNCHANGED cancel
       \/ ~IsCurrent(w, n) /\ Finish(w, n)
    /\ UNCHANGED <<phase, turnId, owners, deleted, heard>>

(* The upstream has answered, perhaps just before the turn was cancelled,  *)
(* which only a combo looks at. A combo reports its account now. The turn  *)
(* goes on with the body if it is current: an event stream takes the       *)
(* cancel slot, JSON is awaited, anything else is looked at first.         *)
Answered(w, n) ==
    LET t == turns[w][n] IN
    /\ t.stage \in {"using", "retried"}
    /\ t.combo => ~t.cut
    /\ LET told == IF t.combo THEN t.picked ELSE t.account IN
       /\ IF t.combo THEN SetContext(w, n, told) ELSE UNCHANGED owners
       /\ \E body \in {"pump", "text", "prefix"} :
             turns' = [turns EXCEPT ![w][n] = IF IsCurrent(w, n)
                          THEN [t EXCEPT !.stage = body, !.account = told, !.picked = NoAccount]
                          ELSE NoTurn]
    /\ UNCHANGED <<slots, deleted, heard>>

Looked(w, n) ==
    /\ At(w, n, "prefix")
    /\ \/ IsCurrent(w, n) /\ (\E body \in {"pump", "text"} : Goto(w, n, body)) /\ UNCHANGED cancel
       \/ ~IsCurrent(w, n) /\ Finish(w, n)
    /\ UNCHANGED <<phase, turnId, owners, deleted, heard>>

(* Mutant: a body that was awaited is sent without looking at the turn.    *)
SpokenAnyway(w, n) ==
    \/ Open(w) /\ Hear(w, n, TRUE)
    \/ UNCHANGED heard

(* The last frame of a turn: an error, or the end of the response. It may  *)
(* be dropped, and a superseded turn does not send it.                     *)
Spoken(w, n) ==
    \/ IsCurrent(w, n) /\ Open(w) /\ Hear(w, n, TRUE)
    \/ UNCHANGED heard

Text(w, n) ==
    /\ At(w, n, "text")
    /\ Spoken(w, n) /\ Finish(w, n)
    /\ UNCHANGED <<phase, turnId, owners, deleted>>

(* The pump reads an event and passes it on.                               *)
PumpFrame(w, n) ==
    /\ At(w, n, "pump") /\ ~turns[w][n].cut
    /\ IsCurrent(w, n) /\ Open(w) /\ Hear(w, n, FALSE)
    /\ UNCHANGED <<slots, owners, turns, deleted>>

(* It ends with the terminal event, with the stream or with an error; a    *)
(* reader that was cancelled reads the end and says nothing.               *)
PumpEnds(w, n) ==
    /\ At(w, n, "pump")
    /\ IF turns[w][n].cut THEN UNCHANGED heard ELSE Spoken(w, n)
    /\ Finish(w, n)
    /\ UNCHANGED <<phase, turnId, owners, deleted>>

Step(w, n) ==
    \/ Direct(w, n) \/ Pick(w, n) \/ PickAnother(w, n) \/ Resolved(w, n) \/ Hop(w, n)
    \/ Failed(w, n) \/ Answered(w, n) \/ Looked(w, n) \/ Text(w, n)
    \/ PumpFrame(w, n) \/ PumpEnds(w, n)

Next ==
    \/ \E w \in Clients :
          \/ Opened(w) \/ Closed(w) \/ Begin(w) \/ Warmup(w)
          \/ \E n \in Ids : Step(w, n)
    \/ \E a \in Accounts : Delete(a)

Spec == Init /\ [][Next]_vars

------------------------------------------------------------------------------
(* A turn that runs on an account is cut off when the account is deleted,  *)
(* unless the registry was told of another account by a turn that had been *)
(* superseded (index.ts:775), or of the account only after it was gone     *)
(* (core.ts:555, 1098).                                                    *)
DeletedIsCutOff ==
    \A w \in Clients : \A n \in Ids :
        LET t == turns[w][n] IN
        IsCurrent(w, n) /\ t.account \in deleted /\ ~t.cut => missed[w]

(* The client hears nothing of a turn after it has asked for another, and  *)
(* nothing of a turn after that turn has ended, however late its token,    *)
(* its body or its error.                                                  *)
AnswersAreCurrent == \A w \in Clients : ~heard[w].wrong

(* The registry lists a socket under the account of its context and no     *)
(* other, and an open one always.                                          *)
RegistryIsExact ==
    \A w \in Clients, a \in Accounts :
        /\ w \in registry[a] => authContext[w] = a
        /\ Open(w) /\ authContext[w] = a => w \in registry[a]
===============================================================================
