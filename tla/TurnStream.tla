------------------------------ MODULE TurnStream ------------------------------
(***************************************************************************)
(* A streaming turn whose adapter runs the whole turn (adapter.runTurn,    *)
(* src/server/responses/core.ts): the adapter pushes events into the       *)
(* queue, bridgeToResponsesSSE (src/bridge.ts) reads them one pull at a    *)
(* time and turns them into frames, trackStreamLifetime wraps the result.  *)
(* As a member of a combo the turn is first read as far as its first event *)
(* that is not a heartbeat (preflightAdapterEvents), so that an adapter    *)
(* that fails at once can be replaced.                                     *)
(*                                                                         *)
(* Of an event the model keeps its kind: a "beat" yields no frame and the  *)
(* bridge reads on; "data" fills the one place of the client's stream and  *)
(* the bridge rests until it is pulled; "done" and "error" are terminal.   *)
(***************************************************************************)
EXTENDS TurnRegistry, EventQueue

CONSTANTS
    MaxEvents       \* bound: the events an adapter pushes in a turn

ASSUME StreamAssumption == MaxEvents \in Nat

VARIABLES
    queue,      \* the event queue
    given,      \* history: the last event the queue gave out
    turn        \* the rest of the turn's state

streamVars == <<queue, given, turn>>

Phases == {"absent",            \* no request
           "admitted",          \* awaiting its route, credentials, images
           "preflight",         \* reading the first events
           "gated",             \* the bridge rests until it is pulled
           "reading",           \* a pull is under way: step() awaits an event
           "closed",            \* the bridge's stream is over
           "refused"}           \* answered with 502 instead of a stream

NoTurn == [phase |-> "absent", adapter |-> "idle", made |-> 0, aborted |-> FALSE,
           buffered |-> <<>>, told |-> <<>>, remembered |-> FALSE]

Statuses == {"completed", "incomplete", "failed"}

TurnRecords ==
    [phase : Phases, adapter : {"idle", "running", "ended"}, made : 0 .. MaxEvents,
     aborted : BOOLEAN, buffered : Seq(Kinds), told : Seq(Statuses), remembered : BOOLEAN]

StreamTypeOK ==
    /\ queue \in Queues
    /\ given \in Seq(Kinds)
    /\ turn \in TurnRecords

StreamInit == queue = Empty /\ given = <<>> /\ turn = NoTurn

Streaming == turn.phase \in {"gated", "reading"}

------------------------------------------------------------------------------
(* The handler has what it needs: runTurn() is started, and the stream is  *)
(* built, or the preflight of a combo member begins.                       *)
OpenStream == RegisterTurn("body")

BeginTurn ==
    /\ turn.phase = "admitted"
    /\ \/ turn' = [turn EXCEPT !.phase = "gated", !.adapter = "running"] /\ OpenStream
       \/ turn' = [turn EXCEPT !.phase = "preflight", !.adapter = "running"]
          /\ UNCHANGED activeTurns
    /\ UNCHANGED <<queue, given, client>>

(* The adapter.  It may push on after an abort until it notices.           *)
AdapterPushes(e) ==
    /\ turn.adapter = "running" /\ turn.made < MaxEvents
    /\ queue' = Pushed(queue, e)
    /\ turn' = [turn EXCEPT !.made = @ + 1, !.aborted = @ \/ Overflows(queue)]
    /\ UNCHANGED <<given, activeTurns, client>>

AdapterReturns ==
    /\ turn.adapter = "running"
    /\ queue' = Closed(queue)
    /\ turn' = [turn EXCEPT !.adapter = "ended"]
    /\ UNCHANGED <<given, activeTurns, client>>

AdapterThrows ==
    /\ turn.adapter = "running"
    /\ queue' = Closed(Pushed(queue, Failure))
    /\ turn' = [turn EXCEPT !.adapter = "ended", !.aborted = @ \/ Overflows(queue)]
    /\ UNCHANGED <<given, activeTurns, client>>

------------------------------------------------------------------------------
Wait ==
    /\ turn.phase = "preflight" \/ (turn.phase = "reading" /\ turn.buffered = <<>>)
    /\ MayWait(queue)
    /\ queue' = Awaiting(queue)
    /\ UNCHANGED <<given, turn, activeTurns, client>>

EndReached == MayEnd(queue) \/ queue.reader = "ended"

(* preflightAdapterEvents.  A failure or an empty turn is answered with    *)
(* 502; anything else is replayed to the bridge after the heartbeats.      *)
PreflightTakes ==
    /\ turn.phase = "preflight"
    /\ MayTake(queue)
    /\ LET e == Oldest(queue)
       IN
        /\ given' = <<e>>
        /\ IF e = Failure
           THEN /\ queue' = Closed(Taken(queue))
                /\ turn' = [turn EXCEPT !.phase = "refused", !.aborted = TRUE]
                /\ UNCHANGED activeTurns
           ELSE /\ queue' = Taken(queue)
                /\ turn' = [turn EXCEPT !.phase = IF e = "beat" THEN @ ELSE "gated",
                                        !.buffered = Append(@, e)]
                /\ IF e = "beat" THEN UNCHANGED activeTurns ELSE OpenStream
    /\ UNCHANGED client

PreflightEmpty ==
    /\ turn.phase = "preflight" /\ EndReached
    /\ queue' = Ended(queue)
    /\ turn' = [turn EXCEPT !.phase = "refused", !.aborted = TRUE]
    /\ UNCHANGED <<given, activeTurns, client>>

------------------------------------------------------------------------------
(* The bridge.  terminal: the frame that ends the stream, if any.          *)
Pull ==
    /\ turn.phase = "gated" /\ client = "there"
    /\ turn' = [turn EXCEPT !.phase = "reading"]
    /\ UNCHANGED <<queue, given, activeTurns, client>>

Terminated(t, status) == [t EXCEPT !.phase = "closed", !.told = Append(@, status)]

(* step() with an event: a terminal one also aborts the adapter and closes *)
(* the queue (onCancel).  A completed response is remembered before it is  *)
(* announced.                                                              *)
Handled(t, e) ==
    CASE e = "beat" -> t
      [] e = "data" -> [t EXCEPT !.phase = "gated"]
      [] e = "done" -> [Terminated(t, "completed") EXCEPT !.remembered = TRUE, !.aborted = TRUE]
      [] OTHER      -> [Terminated(t, "failed") EXCEPT !.aborted = TRUE]

After(q, e) == IF e \in {"beat", "data"} THEN q ELSE Closed(q)

StepReplayed ==
    /\ turn.phase = "reading" /\ turn.buffered # <<>>
    /\ LET e == Head(turn.buffered)
       IN  /\ turn' = Handled([turn EXCEPT !.buffered = Tail(@)], e)
           /\ queue' = After(queue, e)
    /\ UNCHANGED <<given, activeTurns, client>>

StepTakes ==
    /\ turn.phase = "reading" /\ turn.buffered = <<>>
    /\ MayTake(queue)
    /\ given' = <<Oldest(queue)>>
    /\ turn' = Handled(turn, Oldest(queue))
    /\ queue' = After(Taken(queue), Oldest(queue))
    /\ UNCHANGED <<activeTurns, client>>

(* The end without a terminal event: "adapter_eof".                        *)
StepEnds ==
    /\ turn.phase = "reading" /\ turn.buffered = <<>> /\ EndReached
    /\ queue' = Ended(queue)
    /\ turn' = Terminated(turn, "incomplete")
    /\ UNCHANGED <<given, activeTurns, client>>

(* The heartbeat timer finds that nothing has come for stallTimeoutSec: a  *)
(* promise that a push has resolved is resumed before any timer runs.      *)
Stall ==
    /\ turn.phase = "reading" /\ queue.reader = "waiting"
    /\ queue' = Closed(queue)
    /\ turn' = [Terminated(turn, "incomplete") EXCEPT !.aborted = TRUE]
    /\ UNCHANGED <<given, activeTurns, client>>

(* A step() whose promise was resolved before the client cancelled does    *)
(* not look at closed when it resumes: it announces nothing, but it        *)
(* remembers a completed response.                                         *)
StepResumesLate ==
    /\ turn.phase = "closed" /\ queue.reader = "handed"
    /\ given' = <<Oldest(queue)>>
    /\ queue' = Taken(queue)
    /\ turn' = [turn EXCEPT !.remembered = @ \/ Oldest(queue) = "done"]
    /\ UNCHANGED <<activeTurns, client>>

------------------------------------------------------------------------------
(* The client.  cancel() of trackStreamLifetime reaches the bridge's.      *)
CancelStream ==
    /\ turn' = [turn EXCEPT !.phase = "closed", !.aborted = TRUE]
    /\ queue' = Closed(queue)
    /\ UnregisterTurn("body")

(* Before there is a stream the request's signal aborts the adapter only.  *)
StreamClientLeaves ==
    /\ turn.phase # "absent" /\ client = "there"
    /\ client' = "gone"
    /\ IF Streaming THEN CancelStream
       ELSE /\ turn' = [turn EXCEPT !.aborted = TRUE]
            /\ UnregisterTurn("body")
            /\ UNCHANGED queue
    /\ UNCHANGED given

(* A stream that was built for a client that has left is cancelled.        *)
CancelBody ==
    /\ Streaming /\ client = "gone"
    /\ CancelStream
    /\ UNCHANGED <<given, client>>

ClientReadsEnd ==
    /\ turn.phase \in {"closed", "refused"} /\ client = "there"
    /\ client' = "done"
    /\ UnregisterTurn("body")
    /\ UNCHANGED <<queue, given, turn>>

(* finally of the WebSocket message handler.                               *)
SocketTurnEnds ==
    /\ "socket" \in activeTurns
    /\ turn.phase \in {"closed", "refused"} /\ client # "there"
    /\ UnregisterTurn("socket")
    /\ UNCHANGED <<queue, given, turn, client>>

StreamNext ==
    \/ BeginTurn
    \/ \E e \in Kinds : AdapterPushes(e)
    \/ AdapterReturns \/ AdapterThrows
    \/ Wait
    \/ PreflightTakes \/ PreflightEmpty
    \/ Pull \/ StepReplayed \/ StepTakes \/ StepEnds \/ Stall \/ StepResumesLate
    \/ StreamClientLeaves \/ CancelBody \/ ClientReadsEnd \/ SocketTurnEnds
===============================================================================
