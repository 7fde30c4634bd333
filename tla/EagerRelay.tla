------------------------------ MODULE EagerRelay ------------------------------
(***************************************************************************)
(* relaySseEagerBounded of src/server/relay-eager.ts: one producer loop    *)
(* reads the upstream's body, shows every chunk to the SSE inspector and   *)
(* puts it into the client's stream.  Above maxQueueBytes it pauses until  *)
(* the client pulls, which happens when the client's stream runs empty.    *)
(* When the client cancels, the loop reads on for a bounded time and size, *)
(* only to see how the turn ends.                                          *)
(*                                                                         *)
(* Bytes are counted in chunks of one size.  A chunk that finds the client *)
(* waiting goes through its stream all the same and is read at once.       *)
(***************************************************************************)
EXTENDS TurnRegistry

CONSTANTS
    MaxQueue,       \* maxQueueBytes
    DrainChunks,    \* postCancelDrainBytes
    MaxChunks       \* bound: the chunks of a response

ASSUME RelayAssumption ==
    /\ MaxQueue \in Nat /\ DrainChunks \in Nat \ {0}
    /\ MaxChunks \in Nat

VARIABLE relay

NoRelay == [phase |-> "absent",     \* of the producer
            chunks |-> 0,           \* read so far
            inStream |-> 0,         \* chunks in the client's stream
            queuedBytes |-> 0,      \* what the producer believes is there
            woken |-> FALSE,        \* wakeUp() has resolved the pause
            cancelled |-> FALSE,
            drained |-> 0,          \* drainedBytes
            timer |-> FALSE,        \* drainTimer is armed
            aborted |-> FALSE,      \* the signal of the turn's controller
            terminal |-> FALSE,     \* inspector.reported()
            outcomes |-> <<>>]      \* history: what was recorded for the turn

RelayRecords ==
    [phase : {"absent", "admitted", "reading", "paused", "done", "refused"},
     chunks : 0 .. MaxChunks, inStream : Nat, queuedBytes : Nat, woken : BOOLEAN,
     cancelled : BOOLEAN, drained : 0 .. DrainChunks, timer : BOOLEAN,
     aborted : BOOLEAN, terminal : BOOLEAN,
     outcomes : Seq({"terminal", "incomplete", "failed", "cancel"})]

RelayTypeOK == relay \in RelayRecords

RelayInit == relay = NoRelay

Running == relay.phase \in {"reading", "paused"}

------------------------------------------------------------------------------
(* The upstream answers with a stream, or the request is over without one. *)
RelayOpens ==
    /\ relay.phase = "admitted"
    /\ relay' = [relay EXCEPT !.phase = "reading"]
    /\ RegisterTurn("relay")
    /\ UNCHANGED client

RelayRefused ==
    /\ relay.phase = "admitted"
    /\ relay' = [relay EXCEPT !.phase = "refused"]
    /\ UNCHANGED <<activeTurns, client>>

(* The inspector reports the first terminal event it sees.                 *)
Inspected(r, terminal) ==
    IF terminal /\ ~r.terminal
    THEN [r EXCEPT !.terminal = TRUE, !.outcomes = Append(@, "terminal")]
    ELSE r

(* finally: the synthetic outcome, or that the client cancelled; the timer *)
(* is cleared and the turn unregistered (fireDone).                        *)
(* Mutant: a cancellation is recorded whatever the inspector has seen.     *)
EndedCancelFirst(r, synthetic) ==
    [r EXCEPT !.phase = "done",
              !.outcomes = @ \o synthetic \o (IF r.cancelled THEN <<"cancel">> ELSE <<>>),
              !.aborted = @ \/ r.cancelled,
              !.timer = FALSE]

RelayEnded(r, synthetic) ==
    [r EXCEPT !.phase = "done",
              !.outcomes = @ \o synthetic
                  \o (IF r.cancelled /\ ~r.terminal THEN <<"cancel">> ELSE <<>>),
              !.aborted = @ \/ r.cancelled,
              !.timer = FALSE]

Finish(r, synthetic) == relay' = RelayEnded(r, synthetic) /\ UnregisterTurn("relay")

Synthetic(r, kind) ==
    IF r.terminal \/ r.cancelled \/ r.aborted THEN <<>> ELSE <<kind>>

(* A chunk.  The race with the abort may still be won by the read.  That   *)
(* its stream is gone without a cancel(), which enqueue() tells by         *)
(* throwing, is taken for the cancel() it would have been.                 *)
Queued(r) ==
    [r EXCEPT !.queuedBytes = @ + 1, !.inStream = @ + 1,
              !.woken = FALSE,
              !.phase = IF r.queuedBytes + 1 > MaxQueue /\ ~r.aborted THEN "paused" ELSE @]

(* Mutant: only a terminal ends the reading after a cancellation.          *)
RelayReadsToTerminal(terminal) ==
    /\ relay.phase = "reading" /\ relay.chunks < MaxChunks
    /\ LET r == Inspected([relay EXCEPT !.chunks = @ + 1], terminal)
           d == [r EXCEPT !.drained = @ + 1]
       IN  IF ~r.cancelled THEN relay' = Queued(r) /\ UNCHANGED activeTurns
           ELSE IF d.terminal THEN Finish(d, <<>>)
           ELSE relay' = d /\ UNCHANGED activeTurns
    /\ UNCHANGED client

RelayReads(terminal) ==
    /\ relay.phase = "reading" /\ relay.chunks < MaxChunks
    /\ LET r == Inspected([relay EXCEPT !.chunks = @ + 1], terminal)
           d == [r EXCEPT !.drained = @ + 1]
       IN  IF ~r.cancelled THEN relay' = Queued(r) /\ UNCHANGED activeTurns
           ELSE IF d.terminal \/ d.drained >= DrainChunks THEN Finish(d, <<>>)
           ELSE relay' = d /\ UNCHANGED activeTurns
    /\ UNCHANGED client

(* The end of the body; what is left in the inspector may be a terminal.   *)
RelayEof(terminal) ==
    /\ relay.phase = "reading"
    /\ LET r == Inspected(relay, terminal) IN Finish(r, Synthetic(r, "incomplete"))
    /\ UNCHANGED client

(* controller.error() discards what the client has not read.               *)
RelayFails ==
    /\ relay.phase = "reading"
    /\ LET failed == Synthetic(relay, "failed")
       IN  Finish([relay EXCEPT !.inStream = IF failed = <<>> THEN @ ELSE 0], failed)
    /\ UNCHANGED client

RelayAborted ==
    /\ relay.phase = "reading" /\ relay.aborted
    /\ Finish(relay, <<>>)
    /\ UNCHANGED client

RelayResumes ==
    /\ relay.phase = "paused" /\ relay.woken
    /\ relay' = [relay EXCEPT !.woken = FALSE,
            !.phase = IF relay.queuedBytes > MaxQueue /\ ~relay.cancelled /\ ~relay.aborted
                      THEN "paused" ELSE "reading"]
    /\ UNCHANGED <<activeTurns, client>>

------------------------------------------------------------------------------
Woken(r) == [r EXCEPT !.woken = @ \/ r.phase = "paused"]

(* Mutant: pull only resets the count.                                     *)
PulledSilently(r) == [r EXCEPT !.queuedBytes = 0]
Pulled(r) == Woken([r EXCEPT !.queuedBytes = 0])

(* Mutant: every read counts as a pull.                                    *)
ClientReadsPulling ==
    /\ client = "there" /\ relay.inStream > 0
    /\ LET r == [relay EXCEPT !.inStream = @ - 1]
       IN  relay' = IF Running THEN Pulled(r) ELSE r
    /\ UNCHANGED <<activeTurns, client>>

ClientReads ==
    /\ client = "there" /\ relay.inStream > 0
    /\ LET r == [relay EXCEPT !.inStream = @ - 1]
       IN  relay' = IF r.inStream = 0 /\ Running THEN Pulled(r) ELSE r
    /\ UNCHANGED <<activeTurns, client>>

RelayClientDone ==
    /\ relay.phase \in {"done", "refused"} /\ relay.inStream = 0 /\ client = "there"
    /\ client' = "done"
    /\ UNCHANGED <<relay, activeTurns>>

(* cancel() of the client's stream.  The request's signal also aborts the  *)
(* upstream fetch, whose next read may fail.                               *)
Cancelled(r) ==
    IF Running THEN Woken([r EXCEPT !.cancelled = TRUE, !.timer = TRUE]) ELSE r

RelayClientLeaves ==
    /\ relay.phase # "absent" /\ client = "there"
    /\ client' = "gone"
    /\ relay' = Cancelled(relay)
    /\ UNCHANGED activeTurns

(* A stream that was opened for a client that has left is cancelled.       *)
CancelRelay ==
    /\ Running /\ client = "gone" /\ ~relay.cancelled
    /\ relay' = Cancelled(relay)
    /\ UNCHANGED <<activeTurns, client>>

Aborted(r) == Woken([r EXCEPT !.aborted = TRUE])

DrainExpires ==
    /\ relay.timer
    /\ relay' = [Aborted(relay) EXCEPT !.timer = FALSE]
    /\ UNCHANGED <<activeTurns, client>>

RelayNext ==
    \/ RelayOpens \/ RelayRefused
    \/ \E terminal \in BOOLEAN : RelayReads(terminal) \/ RelayEof(terminal)
    \/ RelayFails \/ RelayAborted \/ RelayResumes
    \/ ClientReads \/ RelayClientDone \/ RelayClientLeaves \/ CancelRelay
    \/ DrainExpires
===============================================================================
