------------------------------ MODULE EventQueue ------------------------------
(***************************************************************************)
(* createAdapterEventQueue of src/adapters/run-turn-queue.ts: events that  *)
(* an adapter pushes are read by one consumer through an async generator.  *)
(* A reader that finds nothing leaves a promise; the next push resolves it *)
(* instead of queueing, and the reader resumes some time later: until then *)
(* the event is in the promise, and further pushes are queued behind it.   *)
(* Each operation is synchronous; the operators below give the queue after *)
(* it, so that a caller that makes two of them in a row makes one step.    *)
(***************************************************************************)
EXTENDS Integers, Sequences

CONSTANTS
    MaxBacklog,     \* opts.maxBacklog
    Kinds,          \* the kinds of events an adapter pushes
    Failure         \* the kind that reports an error

ASSUME QueueAssumption ==
    /\ MaxBacklog \in Nat \ {0}
    /\ Failure \in Kinds

Empty == [queued |-> <<>>,      \* queued
          closed |-> FALSE,     \* closed
          reader |-> "idle",    \* "waiting": a promise in readers; "ended": told done
          handed |-> <<>>]      \* the event in a resolved promise, not yet resumed

Queues == [queued : Seq(Kinds), closed : BOOLEAN,
           reader : {"idle", "waiting", "handed", "ended"}, handed : Seq(Kinds)]

(* close().  Mutant: what is queued is dropped.                            *)
ClosedDropping(q) == [q EXCEPT !.closed = TRUE, !.queued = <<>>,
                               !.reader = IF @ = "waiting" THEN "ended" ELSE @]

Closed(q) == [q EXCEPT !.closed = TRUE,
                       !.reader = IF @ = "waiting" THEN "ended" ELSE @]

(* push(event).  An event that does not fit becomes the last one, a        *)
(* failure, and onBacklogExceeded is called.                               *)
Overflows(q) == ~q.closed /\ q.reader # "waiting" /\ Len(q.queued) >= MaxBacklog

Pushed(q, e) ==
    IF q.closed THEN q
    ELSE IF q.reader = "waiting" THEN [q EXCEPT !.reader = "handed", !.handed = <<e>>]
    ELSE IF Overflows(q) THEN Closed([q EXCEPT !.queued = Append(@, Failure)])
    ELSE [q EXCEPT !.queued = Append(@, e)]

(* stream(): what next() finds, and the queue after it.                    *)
MayTake(q) == q.reader = "handed" \/ (q.reader = "idle" /\ q.queued # <<>>)
MayEnd(q)  == q.reader = "idle" /\ q.queued = <<>> /\ q.closed
MayWait(q) == q.reader = "idle" /\ q.queued = <<>> /\ ~q.closed

Oldest(q) == IF q.reader = "handed" THEN Head(q.handed) ELSE Head(q.queued)
Taken(q) ==
    IF q.reader = "handed" THEN [q EXCEPT !.reader = "idle", !.handed = <<>>]
    ELSE [q EXCEPT !.queued = Tail(@)]
Ended(q) == [q EXCEPT !.reader = "ended"]
Awaiting(q) == [q EXCEPT !.reader = "waiting"]

Backlog(q) == q.handed \o q.queued
===============================================================================
