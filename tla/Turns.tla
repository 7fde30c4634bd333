--------------------------------- MODULE Turns ---------------------------------
(***************************************************************************)
(* A turn from its request to its end, bridged (TurnStream) or relayed     *)
(* (EagerRelay), and the shutdown of the proxy around it: drainAndShutdown *)
(* of src/server/lifecycle.ts waits for the registered turns up to a       *)
(* deadline, a second signal ends the process at once                      *)
(* (src/cli/index.ts), and what a completed turn leaves for the next one   *)
(* is written to disk after a delay (src/responses/state.ts).              *)
(***************************************************************************)
EXTENDS TurnStream, EagerRelay

CONSTANTS
    Requests    \* bound: the kinds of turn to look at, each with its transport

ASSUME TurnsAssumption ==
    Requests \subseteq {<<"bridged", "http">>, <<"bridged", "socket">>, <<"relayed", "http">>}

VARIABLES
    request,    \* the turn that will be made: one of Requests
    proc,       \* "up", "draining", "stopped" (the server), "exited"
    deadline,   \* whether the drain deadline has passed
    forced,     \* whether the process was ended by a second signal
    snapshot    \* of the response state: "current", "pending", or "refused" by the disk

procVars == <<request, proc, deadline, forced, snapshot>>
Snapshots == {"current", "pending", "refused"}

vars == <<streamVars, relay, activeTurns, client, procVars>>

Bridged == request[1] = "bridged"

TypeOK ==
    /\ StreamTypeOK /\ RelayTypeOK /\ RegistryTypeOK
    /\ request \in Requests
    /\ proc \in {"up", "draining", "stopped", "exited"}
    /\ deadline \in BOOLEAN /\ forced \in BOOLEAN /\ snapshot \in Snapshots

Init ==
    /\ StreamInit /\ RelayInit
    /\ activeTurns = {} /\ client = "there"
    /\ request \in Requests
    /\ proc = "up" /\ deadline = FALSE /\ forced = FALSE /\ snapshot = "current"

------------------------------------------------------------------------------
(* A new HTTP request is turned away while the server drains; a frame on a *)
(* WebSocket that is already open is not, and its turn is registered       *)
(* before anything else happens to it.                                     *)
ArriveBridged ==
    /\ Bridged /\ turn.phase = "absent"
    /\ turn' = [turn EXCEPT !.phase = "admitted"]
    /\ IF request[2] = "socket" THEN proc \in {"up", "draining"} /\ RegisterTurn("socket")
       ELSE proc = "up" /\ UNCHANGED activeTurns
    /\ UNCHANGED <<queue, given, relay, client, procVars>>

ArriveRelayed ==
    /\ ~Bridged /\ relay.phase = "absent" /\ proc = "up"
    /\ relay' = [relay EXCEPT !.phase = "admitted"]
    /\ UNCHANGED <<streamVars, activeTurns, client, procVars>>

(* rememberResponseState schedules the write of the snapshot.              *)
BridgedStep ==
    /\ Bridged /\ proc # "exited" /\ StreamNext
    /\ snapshot' = IF turn'.remembered = turn.remembered THEN snapshot ELSE "pending"
    /\ UNCHANGED <<relay, request, proc, deadline, forced>>

RelayedStep ==
    /\ ~Bridged /\ proc # "exited" /\ RelayNext
    /\ UNCHANGED <<streamVars, procVars>>

(* persistNow tries once: it forgets the timer and swallows what the disk  *)
(* has to say.                                                             *)
Persisted == {"current", "refused"}

PersistTimer ==
    /\ snapshot = "pending" /\ proc # "exited"
    /\ snapshot' \in Persisted
    /\ UNCHANGED <<streamVars, relay, activeTurns, client, request, proc, deadline, forced>>

------------------------------------------------------------------------------
(* The first signal, or /api/stop.                                         *)
DrainBegins ==
    /\ proc = "up"
    /\ proc' = "draining"
    /\ UNCHANGED <<streamVars, relay, activeTurns, client, request, deadline, forced, snapshot>>

DeadlinePasses ==
    /\ proc = "draining" /\ ~deadline
    /\ deadline' = TRUE
    /\ UNCHANGED <<streamVars, relay, activeTurns, client, request, proc, forced, snapshot>>

(* The loop of drainAndShutdown ends.  The controllers that are still      *)
(* registered are aborted, which reaches the relay and, through the one of *)
(* the socket, the adapter; that of a bridged body leads nowhere.  Then    *)
(* the response state is flushed and every connection is closed.           *)
(* Mutants: the registry is not asked; nothing is flushed.                 *)
MayStopAnyTime == TRUE
MayStop == activeTurns = {} \/ deadline

FlushForgotten == {snapshot}
Flushed == IF snapshot = "pending" THEN Persisted ELSE {snapshot}

DrainEnds ==
    /\ proc = "draining" /\ MayStop
    /\ proc' = "stopped"
    /\ turn' = [turn EXCEPT !.aborted = @ \/ "socket" \in activeTurns]
    /\ relay' = IF "relay" \in activeTurns THEN Aborted(relay) ELSE relay
    /\ activeTurns' = {}
    /\ client' = IF client = "there" THEN "gone" ELSE client
    /\ snapshot' \in Flushed
    /\ UNCHANGED <<queue, given, request, deadline, forced>>

Exit ==
    /\ proc = "stopped"
    /\ proc' = "exited"
    /\ UNCHANGED <<streamVars, relay, activeTurns, client, request, deadline, forced, snapshot>>

SecondSignal ==
    /\ proc = "draining"
    /\ proc' = "exited" /\ forced' = TRUE
    /\ UNCHANGED <<streamVars, relay, activeTurns, client, request, deadline, snapshot>>

Next ==
    \/ ArriveBridged \/ ArriveRelayed
    \/ BridgedStep \/ RelayedStep
    \/ PersistTimer
    \/ DrainBegins \/ DeadlinePasses \/ DrainEnds \/ Exit \/ SecondSignal

Spec == Init /\ [][Next]_vars

(* What can be relied on: the code's own continuations and timers run, and *)
(* a client reads what there is or goes away.  Neither an adapter nor an   *)
(* upstream has to answer, ever.                                           *)
Alive(A) == A /\ BridgedStep
AliveRelay(A) == A /\ RelayedStep

FairSpec ==
    /\ Spec
    /\ WF_vars(Alive(Wait \/ PreflightTakes \/ PreflightEmpty))
    /\ WF_vars(Alive(StepReplayed \/ StepTakes \/ StepEnds))
    /\ WF_vars(Alive(Stall)) /\ WF_vars(Alive(CancelBody)) /\ WF_vars(Alive(SocketTurnEnds))
    /\ WF_vars(Alive(Pull \/ ClientReadsEnd))
    /\ WF_vars(AliveRelay(RelayResumes)) /\ WF_vars(AliveRelay(RelayAborted))
    /\ WF_vars(AliveRelay(CancelRelay)) /\ WF_vars(AliveRelay(DrainExpires))
    /\ WF_vars(AliveRelay(ClientReads \/ RelayClientDone))

------------------------------------------------------------------------------
(* The queue is a bounded channel, whatever the adapter, the bridge, the   *)
(* client and the shutdown do around it: no event is lost, repeated or out *)
(* of order while the consumer reads, none comes after the end, and the    *)
(* failure that reports an overflow is the last one.                       *)
Channel == INSTANCE BoundedChannel WITH
    Overrun <- Failure,
    Bound <- MaxBacklog,
    pending <- Backlog(queue),
    open <- ~queue.closed,
    ended <- queue.reader = "ended"

ChannelRefined == Channel!Spec

(* A turn has one outcome.  A client that has read a bridged stream to its *)
(* end was told exactly one; a response is remembered only when it was     *)
(* announced as completed or the client had left.  A relayed turn that is  *)
(* over was recorded once: as the upstream ended it if it was seen to end, *)
(* otherwise as cancelled if its stream was cancelled, which only a client *)
(* that left does, otherwise as incomplete or failed; only a shutdown      *)
(* leaves it unrecorded. (A client that leaves also aborts the fetch: a    *)
(* read that fails of it before the stream is cancelled is a failure.)     *)
OneOutcome ==
    /\ Len(turn.told) <= 1
    /\ turn.phase = "closed" /\ client = "done" => Len(turn.told) = 1
    /\ turn.remembered => turn.told = <<"completed">> \/ client = "gone"
    /\ Len(relay.outcomes) <= 1
    /\ relay.terminal => relay.outcomes = <<"terminal">>
    /\ relay.phase = "done" /\ relay.outcomes = <<>> => relay.aborted /\ ~relay.cancelled
    /\ relay.outcomes = <<"cancel">> <=> relay.phase = "done" /\ relay.cancelled /\ ~relay.terminal
    /\ relay.cancelled => client = "gone"

(* However slow the client, its stream holds no more than the limit and    *)
(* the chunk that crossed it, although the producer learns only that the   *)
(* stream ran empty and never how much is in it.  A shutdown lifts the     *)
(* limit: it wakes a paused producer to end it.                            *)
RelayIsBounded == relay.aborted \/ relay.inStream <= MaxQueue + 1

(* A shutdown before the deadline cuts off no turn that is registered and  *)
(* whose client is still there; it may cut off an HTTP request that has    *)
(* been let in and has no stream yet.                                      *)
NothingCutEarly ==
    [][proc = "draining" /\ proc' = "stopped" /\ ~deadline /\ client = "there" =>
           /\ turn.phase \in {"absent", "admitted", "preflight", "refused"}
           /\ turn.phase # "absent" => request[2] = "http"
           /\ relay.phase \in {"absent", "admitted", "done", "refused"}]_vars

(* A client that was told "completed" finds its response after a restart,  *)
(* unless the process was forced to end or the disk refused the write: no  *)
(* graceful end leaves the write behind.                                   *)
CompletedIsSaved ==
    proc = "exited" /\ ~forced /\ turn.told = <<"completed">> /\ client = "done" => snapshot # "pending"

(* Once it has a stream, a bridged turn ends and leaves the registry even  *)
(* if its adapter never says another word.  A relayed one does once its    *)
(* client has left, and it does not stay paused while the client reads.    *)
EveryTurnEnds ==
    /\ Streaming ~> proc = "exited" \/ (turn.phase = "closed" /\ activeTurns = {})
    /\ (Running /\ client = "gone") ~> proc = "exited" \/ (relay.phase = "done" /\ activeTurns = {})
    /\ relay.phase = "paused" ~> proc = "exited" \/ relay.phase # "paused"
===============================================================================
