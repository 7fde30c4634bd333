------------------------------ MODULE TurnsProofs ------------------------------
(***************************************************************************)
(* Proofs about Turns, for every limit, every kind of event and every set  *)
(* of requests: the queue implements the bounded channel, a turn has one   *)
(* outcome, the relay is bounded, and a shutdown cuts off no turn.         *)
(***************************************************************************)
EXTENDS Turns, SequenceTheorems, TLAPS

------------------------------------------------------------------------------
(***************************************************************************)
(* The inductive invariant.                                                *)
(***************************************************************************)

(* A reader waits only at an open and empty queue, and has been told the   *)
(* end only of a closed and empty one; an event is handed over only while  *)
(* its promise has not been resumed.                                       *)
QueueOK(q) ==
    /\ q \in Queues
    /\ q.reader = "waiting" => q.queued = <<>> /\ ~q.closed
    /\ q.reader = "ended" => q.queued = <<>> /\ q.closed
    /\ q.reader = "handed" => \E e \in Kinds : q.handed = <<e>>
    /\ q.reader # "handed" => q.handed = <<>>

(* The bridge asks for an event only when it has none, and nothing is told *)
(* before the stream is over.                                              *)
StreamOK(t, q, c) ==
    /\ t.phase \in {"absent", "admitted", "gated"} => q.reader = "idle"
    /\ t.phase \in {"gated", "reading"} /\ t.buffered # <<>> => q.reader = "idle"
    /\ t.phase = "closed" => q.closed
    /\ t.phase = "closed" /\ q.reader = "handed" => c = "gone"
    /\ t.phase # "closed" => t.told = <<>> /\ ~t.remembered
    /\ t.told = <<>> \/ \E s \in Statuses : t.told = <<s>>
    /\ t.phase = "closed" /\ t.told = <<>> => c = "gone"
    /\ t.remembered => t.told = <<"completed">> \/ c = "gone"
    /\ c = "done" => t.phase \in {"absent", "closed", "refused"}

Outcomes == {<<>>, <<"terminal">>, <<"incomplete">>, <<"failed">>, <<"cancel">>}

(* What was recorded of a relayed turn.                                    *)
RecordOK(r, c) ==
    /\ r.outcomes \in Outcomes
    /\ r.terminal => r.outcomes = <<"terminal">>
    /\ r.phase # "done" /\ ~r.terminal => r.outcomes = <<>>
    /\ r.phase = "done" /\ r.outcomes = <<>> => r.aborted /\ ~r.cancelled
    /\ r.outcomes = <<"cancel">> => r.cancelled
    /\ r.phase = "done" /\ r.cancelled /\ ~r.terminal => r.outcomes = <<"cancel">>
    /\ r.cancelled => c = "gone"

(* How far the count of the producer is from what the client's stream has. *)
BoundOK(r) ==
    /\ r.phase \in {"absent", "admitted"} => r.drained = 0 /\ r.inStream = 0 /\ r.queuedBytes = 0
    /\ r.phase \in {"reading", "paused"} => r.drained < DrainChunks
    /\ r.phase \in {"reading", "paused"} => r.inStream <= r.queuedBytes
    /\ ~r.aborted => r.inStream <= MaxQueue + 1
    /\ ~r.aborted /\ r.phase \in {"reading", "paused"} => r.queuedBytes <= MaxQueue + 1
    /\ ~r.aborted /\ ~r.cancelled /\ r.phase = "reading" => r.queuedBytes <= MaxQueue

RelayOK(r, c) == RecordOK(r, c) /\ BoundOK(r)

(* The registry holds a controller for whatever still has a client.        *)
RegistryOK ==
    /\ client = "there" /\ turn.phase \in {"gated", "reading", "closed"} => "body" \in activeTurns
    /\ client = "there" /\ request[2] = "socket" /\ turn.phase # "absent" => "socket" \in activeTurns
    /\ client = "there" /\ Running => "relay" \in activeTurns

(* After a shutdown no client is left, and what the last one was told is   *)
(* not left to be written.                                                 *)
SavedOK ==
    proc = "stopped" \/ (proc = "exited" /\ ~forced) =>
        /\ client # "there"
        /\ turn.told = <<"completed">> /\ client = "done" => snapshot # "pending"

OneKind ==
    /\ Bridged => relay.phase = "absent"
    /\ Bridged /\ turn.phase = "absent" => client # "done"
    /\ ~Bridged => turn.phase = "absent"

Inv ==
    /\ TypeOK
    /\ QueueOK(queue)
    /\ StreamOK(turn, queue, client)
    /\ RelayOK(relay, client)
    /\ RegistryOK
    /\ SavedOK
    /\ OneKind

------------------------------------------------------------------------------
(***************************************************************************)
(* The queue.                                                              *)
(***************************************************************************)

(* Sequences of no event and of one.                                       *)
LEMMA ShortSequences ==
    /\ <<>> \in Seq(Kinds)
    /\ \A e \in Kinds : <<e>> \in Seq(Kinds) /\ Head(<<e>>) = e /\ Tail(<<e>>) = <<>>
  OBVIOUS

(* push, close and the reader keep the queue well formed.                  *)
LEMMA ClosedOK ==
    ASSUME NEW q, QueueOK(q)
    PROVE  QueueOK(Closed(q)) /\ Closed(q).closed
  BY DEF QueueOK, Queues, Closed

(* An event that is pushed keeps the queue well formed, and a closed queue *)
(* takes none.                                                             *)
LEMMA PushedOK ==
    ASSUME NEW q, QueueOK(q), NEW e \in Kinds
    PROVE  /\ QueueOK(Pushed(q, e))
           /\ q.closed => Pushed(q, e) = q
           /\ q.reader = "idle" => Pushed(q, e).reader = "idle"
<1>1. CASE q.closed
  BY <1>1 DEF Pushed
<1>2. CASE ~q.closed /\ q.reader = "waiting"
  <2>1. Pushed(q, e) = [q EXCEPT !.reader = "handed", !.handed = <<e>>]
    BY <1>2 DEF Pushed
  <2>2. /\ Pushed(q, e) \in Queues
        /\ Pushed(q, e).reader = "handed" /\ Pushed(q, e).handed = <<e>>
    BY <2>1, ShortSequences DEF QueueOK, Queues
  <2> QED  BY <1>2, <2>2 DEF QueueOK
<1>3. CASE ~q.closed /\ q.reader # "waiting" /\ ~Overflows(q)
  <2>1. Append(q.queued, e) \in Seq(Kinds)
    BY AppendProperties DEF QueueOK, Queues
  <2> QED  BY <1>3, <2>1 DEF QueueOK, Queues, Pushed
<1>4. CASE ~q.closed /\ q.reader # "waiting" /\ Overflows(q)
  <2>1. Append(q.queued, Failure) \in Seq(Kinds)
    BY AppendProperties, QueueAssumption DEF QueueOK, Queues
  <2>2. Pushed(q, e) = [q EXCEPT !.queued = Append(q.queued, Failure), !.closed = TRUE]
    BY <1>4 DEF QueueOK, Queues, Pushed, Closed
  <2> QED  BY <1>4, <2>1, <2>2 DEF QueueOK, Queues
<1> QED  BY <1>1, <1>2, <1>3, <1>4

(* So does an event that is taken.                                         *)
LEMMA TakenOK ==
    ASSUME NEW q, QueueOK(q), MayTake(q)
    PROVE  /\ QueueOK(Taken(q)) /\ Oldest(q) \in Kinds
           /\ Taken(q).reader = "idle" /\ Taken(q).closed = q.closed
<1>1. CASE q.reader = "handed"
  <2>1. PICK e \in Kinds : q.handed = <<e>>
    BY <1>1 DEF QueueOK
  <2>2. Head(q.handed) = e
    BY <2>1
  <2>3. Taken(q) = [q EXCEPT !.reader = "idle", !.handed = <<>>] /\ Oldest(q) = e
    BY <1>1, <2>2 DEF Taken, Oldest
  <2>4. /\ Taken(q) \in Queues
        /\ Taken(q).reader = "idle" /\ Taken(q).handed = <<>>
        /\ Taken(q).closed = q.closed /\ Taken(q).queued = q.queued
    BY <2>3, ShortSequences DEF QueueOK, Queues
  <2> QED  BY <2>3, <2>4 DEF QueueOK
<1>2. CASE q.reader # "handed"
  <2>1. q.reader = "idle" /\ q.queued # <<>> /\ q.queued \in Seq(Kinds)
    BY <1>2 DEF MayTake, QueueOK, Queues
  <2>2. Head(q.queued) \in Kinds /\ Tail(q.queued) \in Seq(Kinds)
    BY <2>1, HeadTailProperties
  <2> QED  BY <2>1, <2>2 DEF QueueOK, Queues, Taken, Oldest
<1> QED  BY <1>1, <1>2

(* So does a reader that waits.                                            *)
LEMMA AwaitingOK ==
    ASSUME NEW q, QueueOK(q), MayWait(q)
    PROVE  QueueOK(Awaiting(q))
  BY DEF QueueOK, Queues, MayWait, Awaiting

(* So does a reader that is told of the end.                               *)
LEMMA EndedOK ==
    ASSUME NEW q, QueueOK(q), MayEnd(q) \/ q.reader = "ended"
    PROVE  QueueOK(Ended(q)) /\ Ended(q).closed /\ Ended(q).reader = "ended"
  BY DEF QueueOK, Queues, MayEnd, Ended

------------------------------------------------------------------------------
(***************************************************************************)
(* The bridged stream.                                                     *)
(***************************************************************************)

StreamInv ==
    /\ StreamTypeOK /\ RegistryTypeOK
    /\ QueueOK(queue)
    /\ StreamOK(turn, queue, client)

(* What the terminal events make of a turn that has told nothing yet.      *)
LEMMA TerminatedOK ==
    ASSUME NEW t \in TurnRecords, t.told = <<>>, NEW s \in Statuses
    PROVE  /\ Terminated(t, s) \in TurnRecords
           /\ Terminated(t, s) = [t EXCEPT !.phase = "closed", !.told = <<s>>]
<1>1. Append(t.told, s) = <<s>> /\ <<s>> \in Seq(Statuses)
  OBVIOUS
<1>2. Terminated(t, s) = [t EXCEPT !.phase = "closed", !.told = <<s>>]
  BY <1>1 DEF Terminated
<1> QED  BY <1>1, <1>2 DEF TurnRecords, Phases

(* What an event of the adapter makes of a turn that is being read.        *)
LEMMA HandledOK ==
    ASSUME NEW t \in TurnRecords, t.phase = "reading", t.told = <<>>, ~t.remembered,
           NEW e \in Kinds
    PROVE  /\ Handled(t, e) \in TurnRecords
           /\ Handled(t, e).buffered = t.buffered
           /\ e = "beat" => Handled(t, e) = t
           /\ e = "data" => Handled(t, e) = [t EXCEPT !.phase = "gated"]
           /\ e \notin {"beat", "data"} =>
                  /\ Handled(t, e).phase = "closed"
                  /\ \/ Handled(t, e).told = <<"completed">>
                     \/ Handled(t, e).told = <<"failed">> /\ ~Handled(t, e).remembered
<1>1. CASE e \in {"beat", "data"}
  BY <1>1 DEF Handled, TurnRecords, Phases
<1>2. CASE e = "done"
  <2>1. Handled(t, e) = [t EXCEPT !.phase = "closed", !.told = <<"completed">>,
                                  !.remembered = TRUE, !.aborted = TRUE]
    BY <1>2, TerminatedOK DEF Handled, Statuses
  <2>2. <<"completed">> \in Seq(Statuses)
    BY DEF Statuses
  <2> QED  BY <1>2, <2>1, <2>2 DEF TurnRecords, Phases
<1>3. CASE e \notin {"beat", "data", "done"}
  <2>1. Handled(t, e) = [t EXCEPT !.phase = "closed", !.told = <<"failed">>, !.aborted = TRUE]
    BY <1>3, TerminatedOK DEF Handled, Statuses
  <2>2. <<"failed">> \in Seq(Statuses)
    BY DEF Statuses
  <2> QED  BY <1>3, <2>1, <2>2 DEF TurnRecords, Phases
<1> QED  BY <1>1, <1>2, <1>3

(* The turn goes on, or is gated, or is closed.                            *)
LEMMA HandledPhase ==
    ASSUME NEW t \in TurnRecords, t.phase = "reading", t.told = <<>>, ~t.remembered,
           NEW e \in Kinds
    PROVE  Handled(t, e).phase \in {"reading", "gated", "closed"}
<1>1. CASE e = "beat" \/ e = "data"
  BY <1>1, HandledOK DEF TurnRecords
<1> QED  BY <1>1, HandledOK

(* A client that has been told something has been told something.          *)
LEMMA ToldOnce ==
    \A s \in Statuses : <<s>> # <<>>
  BY DEF Statuses

(* An event that the bridge handles leaves a stream that goes on and has   *)
(* told nothing, or one that is over and has told one thing.               *)
LEMMA EventKeeps ==
    ASSUME NEW t \in TurnRecords, t.phase = "reading", t.told = <<>>, ~t.remembered,
           NEW e \in Kinds, NEW q, QueueOK(q), q.reader = "idle", NEW c, c # "done"
    PROVE  /\ Handled(t, e) \in TurnRecords
           /\ QueueOK(After(q, e))
           /\ StreamOK(Handled(t, e), After(q, e), c)
<1> DEFINE u == Handled(t, e)
           p == After(q, e)
<1>1. u \in TurnRecords
  BY HandledOK
<1>2. CASE e \in {"beat", "data"}
  <2>1. p = q
    BY <1>2 DEF After
  <2>2. u = t \/ u = [t EXCEPT !.phase = "gated"]
    BY <1>2, HandledOK
  <2>3. u.phase \in {"reading", "gated"} /\ u.told = <<>> /\ ~u.remembered
    BY <2>2 DEF TurnRecords
  <2> HIDE DEF u, p
  <2>4. StreamOK(u, p, c)
    BY <2>1, <2>3 DEF StreamOK
  <2> QED  BY <1>1, <2>1, <2>4 DEF u, p
<1>3. CASE e \notin {"beat", "data"}
  <2>1. p = Closed(q)
    BY <1>3 DEF After
  <2>2. QueueOK(p) /\ p.closed
    BY <2>1, ClosedOK
  <2>3. p.reader = "idle"
    BY <2>1 DEF Closed, QueueOK, Queues
  <2>4. /\ u.phase = "closed"
        /\ \/ u.told = <<"completed">>
           \/ u.told = <<"failed">> /\ ~u.remembered
    BY <1>3, HandledOK
  <2> HIDE DEF u, p
  <2>5. u.told # <<>> /\ \E s \in Statuses : u.told = <<s>>
    BY <2>4, ToldOnce DEF Statuses
  <2>6. StreamOK(u, p, c)
    BY <2>2, <2>3, <2>4, <2>5 DEF StreamOK
  <2> QED  BY <1>1, <2>2, <2>6 DEF u, p
<1> QED  BY <1>2, <1>3

(* The adapter's steps.                                                    *)
LEMMA AdapterKeepsStream ==
    ASSUME StreamInv,
           BeginTurn \/ (\E e \in Kinds : AdapterPushes(e)) \/ AdapterReturns \/ AdapterThrows
    PROVE  StreamInv'
<1>1. CASE BeginTurn
  BY <1>1 DEF StreamInv, StreamTypeOK, TurnRecords, RegistryTypeOK, BeginTurn, OpenStream, RegisterTurn,
              Controllers, StreamOK, Phases
<1>2. ASSUME NEW e \in Kinds, AdapterPushes(e)
      PROVE  StreamInv'
  <2>1. QueueOK(queue') /\ (queue.closed => queue' = queue)
        /\ (queue.reader = "idle" => queue'.reader = "idle")
    BY <1>2, PushedOK DEF StreamInv, AdapterPushes
  <2> DEFINE b == turn.aborted \/ Overflows(queue)
  <2>2. b \in BOOLEAN
    OBVIOUS
  <2>3. /\ turn' = [turn EXCEPT !.made = @ + 1, !.aborted = b]
        /\ turn.made + 1 \in 0 .. MaxEvents
        /\ UNCHANGED <<given, activeTurns, client>>
    BY <1>2, StreamAssumption DEF StreamInv, StreamTypeOK, TurnRecords, AdapterPushes
  <2> HIDE DEF b
  <2>4. StreamTypeOK' /\ RegistryTypeOK'
    BY <2>1, <2>2, <2>3 DEF StreamInv, StreamTypeOK, TurnRecords, RegistryTypeOK, QueueOK
  <2>5. StreamOK(turn', queue', client')
    BY <2>1, <2>3 DEF StreamInv, StreamTypeOK, TurnRecords, StreamOK
  <2> QED  BY <2>1, <2>4, <2>5 DEF StreamInv
<1>3. CASE AdapterReturns
  <2>1. QueueOK(queue') /\ queue'.closed
        /\ (queue.reader # "waiting" => queue'.reader = queue.reader)
        /\ (queue'.reader = "handed" => queue.reader = "handed")
    BY <1>3, ClosedOK DEF StreamInv, AdapterReturns, Closed, QueueOK, Queues
  <2>2. turn' = [turn EXCEPT !.adapter = "ended"] /\ UNCHANGED <<given, activeTurns, client>>
    BY <1>3 DEF AdapterReturns
  <2>3. StreamTypeOK' /\ RegistryTypeOK'
    BY <2>1, <2>2 DEF StreamInv, StreamTypeOK, TurnRecords, RegistryTypeOK, QueueOK
  <2>4. StreamOK(turn', queue', client')
    BY <2>1, <2>2 DEF StreamInv, StreamTypeOK, TurnRecords, StreamOK, QueueOK
  <2> QED  BY <2>1, <2>3, <2>4 DEF StreamInv
<1>4. CASE AdapterThrows
  <2>1. QueueOK(queue') /\ queue'.closed
        /\ (queue.reader = "idle" => queue'.reader = "idle")
        /\ (queue.closed => queue'.reader = queue.reader)
    <3> DEFINE p == Pushed(queue, Failure)
    <3>1. QueueOK(p) /\ (queue.closed => p = queue) /\ (queue.reader = "idle" => p.reader = "idle")
      BY PushedOK, QueueAssumption DEF StreamInv
    <3>2. queue' = Closed(p)
      BY <1>4 DEF AdapterThrows
    <3> HIDE DEF p
    <3>3. QueueOK(queue') /\ queue'.closed
      BY <3>1, <3>2, ClosedOK
    <3>4. p.reader # "waiting" => queue'.reader = p.reader
      BY <3>1, <3>2 DEF Closed, QueueOK, Queues
    <3> QED  BY <3>1, <3>3, <3>4 DEF StreamInv, QueueOK
  <2> DEFINE b == turn.aborted \/ Overflows(queue)
  <2>2. b \in BOOLEAN
    OBVIOUS
  <2>3. turn' = [turn EXCEPT !.adapter = "ended", !.aborted = b]
    BY <1>4 DEF AdapterThrows
  <2> HIDE DEF b
  <2>4. StreamTypeOK' /\ RegistryTypeOK'
    BY <1>4, <2>1, <2>2, <2>3 DEF StreamInv, StreamTypeOK, TurnRecords, RegistryTypeOK, AdapterThrows, QueueOK
  <2>5. StreamOK(turn', queue', client')
    BY <1>4, <2>1, <2>3 DEF StreamInv, StreamTypeOK, AdapterThrows, StreamOK, QueueOK
  <2> QED  BY <2>1, <2>4, <2>5 DEF StreamInv
<1> QED  BY <1>1, <1>2, <1>3, <1>4

(* The reader's steps before there is a stream, and the waiting.           *)
LEMMA PreflightKeepsStream ==
    ASSUME StreamInv, Wait \/ PreflightTakes \/ PreflightEmpty
    PROVE  StreamInv'
<1>1. CASE Wait
  <2>1. QueueOK(queue') /\ turn.phase \in {"preflight", "reading"}
    BY <1>1, AwaitingOK DEF StreamInv, Wait
  <2>2. (turn.phase = "reading" => turn.buffered = <<>>) /\ UNCHANGED <<given, turn, activeTurns, client>>
    BY <1>1 DEF Wait
  <2>3. StreamOK(turn', queue', client')
    BY <2>1, <2>2 DEF StreamInv, StreamOK
  <2> QED  BY <2>1, <2>2, <2>3 DEF StreamInv, StreamTypeOK, RegistryTypeOK, QueueOK
<1>2. CASE PreflightTakes
  <2> DEFINE e == Oldest(queue)
             t == turn'
  <2>1. /\ e \in Kinds /\ QueueOK(Taken(queue)) /\ Taken(queue).reader = "idle"
        /\ QueueOK(Closed(Taken(queue)))
    BY <1>2, TakenOK, ClosedOK DEF StreamInv, PreflightTakes
  <2>2. given' = <<e>> /\ given' \in Seq(Kinds) /\ turn.phase = "preflight" /\ client' = client
    BY <1>2, <2>1, ShortSequences DEF PreflightTakes
  <2>3. CASE e = Failure
    <3>1. /\ queue' = Closed(Taken(queue)) /\ activeTurns' = activeTurns
          /\ turn' = [turn EXCEPT !.phase = "refused", !.aborted = TRUE]
      BY <1>2, <2>3 DEF PreflightTakes
    <3>2. StreamOK(turn', queue', client')
      BY <2>2, <3>1 DEF StreamInv, StreamTypeOK, TurnRecords, StreamOK
    <3> HIDE DEF e
    <3> QED  BY <2>1, <2>2, <3>1, <3>2
             DEF StreamInv, StreamTypeOK, TurnRecords, RegistryTypeOK, QueueOK, Phases
  <2>4. CASE e # Failure
    <3>1. /\ queue' = Taken(queue) /\ activeTurns' \in {activeTurns, activeTurns \cup {"body"}}
          /\ turn' = [turn EXCEPT !.phase = IF e = "beat" THEN @ ELSE "gated",
                                   !.buffered = Append(@, e)]
      BY <1>2, <2>4 DEF PreflightTakes, OpenStream, RegisterTurn
    <3>2. Append(turn.buffered, e) \in Seq(Kinds)
      BY <2>1, AppendProperties DEF StreamInv, StreamTypeOK, TurnRecords
    <3> HIDE DEF e
    <3>3. turn' \in TurnRecords
      BY <2>2, <3>1, <3>2 DEF StreamInv, StreamTypeOK, TurnRecords, Phases
    <3>4. turn'.phase \in {"preflight", "gated"} /\ turn'.told = turn.told
          /\ turn'.remembered = turn.remembered
      BY <2>2, <3>1 DEF StreamInv, StreamTypeOK, TurnRecords
    <3>5. StreamOK(turn', queue', client')
      BY <2>1, <2>2, <3>1, <3>4 DEF StreamInv, StreamOK
    <3> QED  BY <2>1, <2>2, <3>1, <3>3, <3>5
             DEF StreamInv, StreamTypeOK, RegistryTypeOK, QueueOK, Controllers
  <2> QED  BY <2>3, <2>4
<1>3. CASE PreflightEmpty
  <2>1. QueueOK(queue') /\ queue'.reader = "ended" /\ turn.phase = "preflight"
    BY <1>3, EndedOK DEF StreamInv, PreflightEmpty, EndReached
  <2>2. turn' = [turn EXCEPT !.phase = "refused", !.aborted = TRUE]
        /\ UNCHANGED <<given, activeTurns, client>>
    BY <1>3 DEF PreflightEmpty
  <2>3. StreamOK(turn', queue', client')
    BY <2>1, <2>2 DEF StreamInv, StreamTypeOK, TurnRecords, StreamOK
  <2> QED  BY <2>1, <2>2, <2>3
           DEF StreamInv, StreamTypeOK, TurnRecords, RegistryTypeOK, QueueOK, Phases
<1> QED  BY <1>1, <1>2, <1>3

(* The bridge's steps.                                                     *)
LEMMA BridgeKeepsStream ==
    ASSUME StreamInv,
           Pull \/ StepReplayed \/ StepTakes \/ StepEnds \/ Stall \/ StepResumesLate
    PROVE  StreamInv'
<1>1. CASE Pull
  <2>1. turn.phase = "gated" /\ client = "there" /\ turn' = [turn EXCEPT !.phase = "reading"]
        /\ UNCHANGED <<queue, given, activeTurns, client>>
    BY <1>1 DEF Pull
  <2>2. StreamOK(turn', queue', client')
    BY <2>1 DEF StreamInv, StreamTypeOK, TurnRecords, StreamOK
  <2> QED  BY <2>1, <2>2 DEF StreamInv, StreamTypeOK, TurnRecords, RegistryTypeOK, QueueOK, Phases
<1>2. CASE StepReplayed
  <2> DEFINE e == Head(turn.buffered)
             t == [turn EXCEPT !.buffered = Tail(@)]
  <2>1. /\ turn.phase = "reading" /\ turn.buffered # <<>>
        /\ turn' = Handled(t, e) /\ queue' = After(queue, e)
        /\ UNCHANGED <<given, activeTurns, client>>
    BY <1>2 DEF StepReplayed
  <2>2. e \in Kinds /\ Tail(turn.buffered) \in Seq(Kinds)
    BY <2>1, HeadTailProperties DEF StreamInv, StreamTypeOK, TurnRecords
  <2>3. turn.told = <<>> /\ ~turn.remembered /\ queue.reader = "idle" /\ client # "done"
    BY <2>1 DEF StreamInv, StreamOK
  <2>4. /\ t \in TurnRecords /\ t.phase = "reading" /\ t.told = <<>> /\ ~t.remembered
    BY <2>1, <2>2, <2>3 DEF StreamInv, StreamTypeOK, TurnRecords
  <2> HIDE DEF e, t
  <2>5. turn' \in TurnRecords /\ QueueOK(queue') /\ StreamOK(turn', queue', client)
    BY <2>1, <2>2, <2>3, <2>4, EventKeeps DEF StreamInv
  <2> QED  BY <2>1, <2>5 DEF StreamInv, StreamTypeOK, RegistryTypeOK, QueueOK
<1>3. CASE StepTakes
  <2> DEFINE e == Oldest(queue)
             q == Taken(queue)
  <2>1. /\ turn.phase = "reading" /\ turn.buffered = <<>> /\ MayTake(queue)
        /\ given' = <<e>> /\ turn' = Handled(turn, e) /\ queue' = After(q, e)
        /\ UNCHANGED <<activeTurns, client>>
    BY <1>3 DEF StepTakes
  <2>2. e \in Kinds /\ QueueOK(q) /\ q.reader = "idle"
    BY <2>1, TakenOK DEF StreamInv
  <2>3. turn \in TurnRecords /\ turn.told = <<>> /\ ~turn.remembered /\ client # "done"
    BY <2>1 DEF StreamInv, StreamTypeOK, StreamOK
  <2> HIDE DEF e, q
  <2>4. turn' \in TurnRecords /\ QueueOK(queue') /\ StreamOK(turn', queue', client)
    BY <2>1, <2>2, <2>3, EventKeeps
  <2> QED  BY <2>1, <2>2, <2>4, ShortSequences
           DEF StreamInv, StreamTypeOK, RegistryTypeOK, QueueOK
<1>4. CASE StepEnds
  <2>1. QueueOK(queue') /\ queue'.reader = "ended" /\ queue'.closed /\ turn.phase = "reading"
    BY <1>4, EndedOK DEF StreamInv, StepEnds, EndReached
  <2>2. turn' = Terminated(turn, "incomplete") /\ UNCHANGED <<given, activeTurns, client>>
    BY <1>4 DEF StepEnds
  <2>3. turn \in TurnRecords /\ turn.told = <<>> /\ ~turn.remembered /\ client # "done"
    BY <2>1 DEF StreamInv, StreamTypeOK, StreamOK
  <2>4. turn' \in TurnRecords /\ turn' = [turn EXCEPT !.phase = "closed", !.told = <<"incomplete">>]
    BY <2>2, <2>3, TerminatedOK DEF Statuses
  <2>5. turn'.phase = "closed" /\ turn'.told = <<"incomplete">> /\ ~turn'.remembered
    BY <2>3, <2>4 DEF TurnRecords
  <2>6. turn'.told # <<>> /\ \E s \in Statuses : turn'.told = <<s>>
    BY <2>5, ToldOnce DEF Statuses
  <2>7. StreamOK(turn', queue', client')
    BY <2>1, <2>2, <2>3, <2>5, <2>6 DEF StreamOK
  <2> QED  BY <2>1, <2>2, <2>4, <2>7 DEF StreamInv, StreamTypeOK, RegistryTypeOK, QueueOK
<1>5. CASE Stall
  <2>1. QueueOK(queue') /\ queue'.reader = "ended" /\ queue'.closed /\ turn.phase = "reading"
    BY <1>5, ClosedOK DEF StreamInv, Stall, Closed, QueueOK, Queues
  <2>2. turn' = [Terminated(turn, "incomplete") EXCEPT !.aborted = TRUE]
        /\ UNCHANGED <<given, activeTurns, client>>
    BY <1>5 DEF Stall
  <2>3. turn \in TurnRecords /\ turn.told = <<>> /\ ~turn.remembered /\ client # "done"
    BY <2>1 DEF StreamInv, StreamTypeOK, StreamOK
  <2>4. /\ Terminated(turn, "incomplete") \in TurnRecords
        /\ Terminated(turn, "incomplete") = [turn EXCEPT !.phase = "closed", !.told = <<"incomplete">>]
    BY <2>3, TerminatedOK DEF Statuses
  <2>5. turn' \in TurnRecords
    BY <2>2, <2>4 DEF TurnRecords
  <2>6. turn'.phase = "closed" /\ turn'.told = <<"incomplete">> /\ ~turn'.remembered
    BY <2>2, <2>3, <2>4 DEF TurnRecords
  <2>7. turn'.told # <<>> /\ \E s \in Statuses : turn'.told = <<s>>
    BY <2>6, ToldOnce DEF Statuses
  <2>8. StreamOK(turn', queue', client')
    BY <2>1, <2>2, <2>3, <2>6, <2>7 DEF StreamOK
  <2> QED  BY <2>1, <2>2, <2>5, <2>8 DEF StreamInv, StreamTypeOK, RegistryTypeOK, QueueOK
<1>6. CASE StepResumesLate
  <2> DEFINE b == turn.remembered \/ Oldest(queue) = "done"
  <2>1. /\ turn.phase = "closed" /\ queue.reader = "handed" /\ queue' = Taken(queue)
        /\ turn' = [turn EXCEPT !.remembered = b] /\ given' = <<Oldest(queue)>>
        /\ UNCHANGED <<activeTurns, client>>
    BY <1>6 DEF StepResumesLate
  <2>2. /\ QueueOK(queue') /\ queue'.reader = "idle" /\ queue'.closed = queue.closed
        /\ Oldest(queue) \in Kinds /\ b \in BOOLEAN
    BY <2>1, TakenOK DEF StreamInv, MayTake
  <2> HIDE DEF b
  <2>3. turn' \in TurnRecords
    BY <2>1, <2>2 DEF StreamInv, StreamTypeOK, TurnRecords
  <2>4. turn'.phase = turn.phase /\ turn'.told = turn.told /\ client = "gone"
    BY <2>1 DEF StreamInv, StreamTypeOK, TurnRecords, StreamOK
  <2>5. StreamOK(turn', queue', client')
    BY <2>1, <2>2, <2>4 DEF StreamInv, StreamOK
  <2> QED  BY <2>1, <2>2, <2>3, <2>5, ShortSequences
           DEF StreamInv, StreamTypeOK, RegistryTypeOK, QueueOK
<1> QED  BY <1>1, <1>2, <1>3, <1>4, <1>5, <1>6

(* The client's steps.                                                     *)
LEMMA ClientKeepsStream ==
    ASSUME StreamInv,
           StreamClientLeaves \/ CancelBody \/ ClientReadsEnd \/ SocketTurnEnds
    PROVE  StreamInv'
<1>1. ASSUME CancelStream, client' = "gone", UNCHANGED given, Streaming
      PROVE  StreamInv'
  <2>1. QueueOK(queue') /\ queue'.closed
    BY <1>1, ClosedOK DEF StreamInv, CancelStream
  <2>2. turn' = [turn EXCEPT !.phase = "closed", !.aborted = TRUE]
        /\ activeTurns' = activeTurns \ {"body"}
    BY <1>1 DEF CancelStream, UnregisterTurn
  <2>3. turn'.phase = "closed" /\ turn'.told = <<>> /\ ~turn'.remembered
    BY <1>1, <2>2 DEF StreamInv, StreamTypeOK, TurnRecords, StreamOK, Streaming
  <2>4. StreamOK(turn', queue', client')
    BY <1>1, <2>1, <2>3 DEF StreamOK
  <2> QED  BY <1>1, <2>1, <2>2, <2>4
           DEF StreamInv, StreamTypeOK, TurnRecords, RegistryTypeOK, QueueOK, Phases
<1>2. CASE StreamClientLeaves /\ ~Streaming
  <2>1. /\ turn' = [turn EXCEPT !.aborted = TRUE] /\ activeTurns' = activeTurns \ {"body"}
        /\ client' = "gone" /\ UNCHANGED <<queue, given>>
    BY <1>2 DEF StreamClientLeaves, UnregisterTurn
  <2>2. StreamOK(turn', queue', client')
    BY <2>1 DEF StreamInv, StreamTypeOK, TurnRecords, StreamOK
  <2> QED  BY <2>1, <2>2 DEF StreamInv, StreamTypeOK, TurnRecords, RegistryTypeOK, QueueOK
<1>3. CASE ClientReadsEnd
  <2>1. /\ turn.phase \in {"closed", "refused"} /\ client = "there" /\ client' = "done"
        /\ activeTurns' = activeTurns \ {"body"} /\ UNCHANGED <<queue, given, turn>>
    BY <1>3 DEF ClientReadsEnd, UnregisterTurn
  <2>2. StreamOK(turn', queue', client')
    BY <2>1 DEF StreamInv, StreamOK
  <2> QED  BY <2>1, <2>2 DEF StreamInv, StreamTypeOK, RegistryTypeOK, QueueOK
<1>4. CASE SocketTurnEnds
  BY <1>4 DEF SocketTurnEnds, UnregisterTurn, StreamInv, StreamTypeOK, RegistryTypeOK
<1>5. CASE CancelBody
  BY <1>1, <1>5 DEF CancelBody
<1>6. CASE StreamClientLeaves /\ Streaming
  BY <1>1, <1>6 DEF StreamClientLeaves
<1> QED  BY <1>2, <1>3, <1>4, <1>5, <1>6

(* Every step of a bridged turn keeps its invariant.                       *)
LEMMA StreamStep ==
    ASSUME StreamInv, StreamNext
    PROVE  StreamInv'
  BY AdapterKeepsStream, PreflightKeepsStream, BridgeKeepsStream, ClientKeepsStream
  DEF StreamNext

------------------------------------------------------------------------------
(***************************************************************************)
(* The relay.                                                              *)
(***************************************************************************)

RelayInv == RelayTypeOK /\ RegistryTypeOK /\ RelayOK(relay, client)

(* The outcomes of a relay, as short sequences.                            *)
LEMMA SomeOutcomes ==
    /\ <<>> \in Outcomes /\ <<"terminal">> \in Outcomes /\ <<"incomplete">> \in Outcomes
    /\ <<"failed">> \in Outcomes /\ <<"cancel">> \in Outcomes
    /\ Outcomes \subseteq Seq({"terminal", "incomplete", "failed", "cancel"})
    /\ \A s \in {"terminal", "incomplete", "failed", "cancel"} : Append(<<>>, s) = <<s>>
    /\ <<>> # <<"terminal">> /\ <<>> # <<"cancel">> /\ <<"terminal">> # <<"cancel">>
    /\ <<>> # <<"incomplete">> /\ <<>> # <<"failed">>
    /\ <<"incomplete">> # <<"cancel">> /\ <<"failed">> # <<"cancel">>
  BY DEF Outcomes

(* Nothing is recorded together with anything else.                        *)
LEMMA OneAddsNothing ==
    ASSUME NEW o \in Outcomes
    PROVE  o \o <<>> = o /\ <<>> \o o = o
  BY SomeOutcomes, ConcatEmptySeq

(* A chunk that is inspected settles the outcome at most once.             *)
LEMMA InspectedOK ==
    ASSUME NEW r \in RelayRecords, r.phase = "reading", NEW c, RelayOK(r, c),
           NEW terminal \in BOOLEAN
    PROVE  /\ Inspected(r, terminal) \in RelayRecords /\ RelayOK(Inspected(r, terminal), c)
           /\ \E t \in BOOLEAN, o \in Outcomes :
                 Inspected(r, terminal) = [r EXCEPT !.terminal = t, !.outcomes = o]
<1>1. CASE terminal /\ ~r.terminal
  <2>1. r.outcomes = <<>>
    BY <1>1 DEF RelayOK, RecordOK
  <2>2. Inspected(r, terminal) = [r EXCEPT !.terminal = TRUE, !.outcomes = <<"terminal">>]
    BY <1>1, <2>1, SomeOutcomes DEF Inspected
  <2>3. Inspected(r, terminal) \in RelayRecords
    BY <2>2, SomeOutcomes DEF RelayRecords
  <2>4. RelayOK(Inspected(r, terminal), c)
    BY <2>2, SomeOutcomes DEF RelayRecords, RelayOK, RecordOK, BoundOK
  <2> QED  BY <2>2, <2>3, <2>4, SomeOutcomes
<1>2. CASE ~(terminal /\ ~r.terminal)
  <2>1. Inspected(r, terminal) = r
    BY <1>2 DEF Inspected
  <2>2. r = [r EXCEPT !.terminal = r.terminal, !.outcomes = r.outcomes]
    BY DEF RelayRecords
  <2>3. r.terminal \in BOOLEAN /\ r.outcomes \in Outcomes
    BY DEF RelayRecords, RelayOK, RecordOK
  <2> QED  BY <2>1, <2>2, <2>3
<1> QED  BY <1>1, <1>2

(* The end of the producer: something is recorded once, or the signal was  *)
(* aborted by a shutdown.                                                  *)
LEMMA RelayEndedOK ==
    ASSUME NEW r \in RelayRecords, r.phase = "reading", NEW c, RecordOK(r, c),
           ~r.aborted => r.inStream <= MaxQueue + 1,
           NEW syn,
           \/ syn = <<>> /\ (r.terminal \/ r.cancelled \/ r.aborted)
           \/ syn \in {<<"incomplete">>, <<"failed">>} /\ ~(r.terminal \/ r.cancelled \/ r.aborted)
    PROVE  RelayEnded(r, syn) \in RelayRecords /\ RelayOK(RelayEnded(r, syn), c)
<1> DEFINE b == r.aborted \/ r.cancelled
           o == IF r.terminal THEN <<"terminal">> ELSE IF r.cancelled THEN <<"cancel">> ELSE syn
<1>1. r.outcomes \o syn \o (IF r.cancelled /\ ~r.terminal THEN <<"cancel">> ELSE <<>>) = o
  <2>1. CASE r.terminal
    <3>1. r.outcomes = <<"terminal">> /\ syn = <<>>
      BY <2>1 DEF RecordOK
    <3>2. <<"terminal">> \o <<>> = <<"terminal">>
      BY OneAddsNothing, SomeOutcomes
    <3> QED  BY <2>1, <3>1, <3>2
  <2>2. CASE ~r.terminal
    <3>1. r.outcomes = <<>> /\ syn \in Outcomes
      BY <2>2, SomeOutcomes DEF RecordOK
    <3>2. <<>> \o syn = syn /\ syn \o <<>> = syn
      BY <3>1, OneAddsNothing
    <3>3. <<>> \o <<"cancel">> = <<"cancel">>
      BY OneAddsNothing, SomeOutcomes
    <3> QED  BY <2>2, <3>1, <3>2, <3>3
  <2> QED  BY <2>1, <2>2
<1>2. RelayEnded(r, syn) = [r EXCEPT !.phase = "done", !.outcomes = o, !.aborted = b, !.timer = FALSE]
  BY <1>1 DEF RelayEnded
<1>3. o \in Outcomes /\ b \in BOOLEAN
  BY SomeOutcomes
<1>4. /\ r.terminal => o = <<"terminal">>
      /\ o = <<>> => b /\ ~r.cancelled
      /\ o = <<"cancel">> => r.cancelled
      /\ r.cancelled /\ ~r.terminal => o = <<"cancel">>
      /\ r.cancelled => c = "gone"
      /\ r.inStream \in Nat
      /\ ~b => r.inStream <= MaxQueue + 1
  BY SomeOutcomes DEF RecordOK, RelayRecords
<1> HIDE DEF o, b
<1>5. RelayEnded(r, syn) \in RelayRecords
  BY <1>2, <1>3, SomeOutcomes DEF RelayRecords
<1>6. RecordOK(RelayEnded(r, syn), c)
  BY <1>2, <1>3, <1>4 DEF RelayRecords, RecordOK
<1>7. BoundOK(RelayEnded(r, syn))
  BY <1>2, <1>4 DEF RelayRecords, BoundOK
<1> QED  BY <1>5, <1>6, <1>7 DEF RelayOK

(* The producer's steps.                                                   *)
LEMMA FinishKeepsRelay ==
    ASSUME RelayInv, NEW r \in RelayRecords, r.phase = "reading", RecordOK(r, client),
           ~r.aborted => r.inStream <= MaxQueue + 1,
           NEW syn,
           \/ syn = <<>> /\ (r.terminal \/ r.cancelled \/ r.aborted)
           \/ syn \in {<<"incomplete">>, <<"failed">>} /\ ~(r.terminal \/ r.cancelled \/ r.aborted),
           Finish(r, syn), UNCHANGED client
    PROVE  RelayInv'
<1>1. relay' = RelayEnded(r, syn) /\ activeTurns' = activeTurns \ {"relay"}
  BY DEF Finish, UnregisterTurn
<1>2. RelayEnded(r, syn) \in RelayRecords /\ RelayOK(RelayEnded(r, syn), client)
  BY RelayEndedOK
<1> QED  BY <1>1, <1>2 DEF RelayInv, RelayTypeOK, RegistryTypeOK

(* The producer reads a chunk: it stays within its bounds, or it is        *)
(* drained.                                                                *)
LEMMA ReadKeepsRelay ==
    ASSUME RelayInv, NEW terminal \in BOOLEAN, RelayReads(terminal)
    PROVE  RelayInv'
<1> DEFINE s == [relay EXCEPT !.chunks = @ + 1]
           r == Inspected(s, terminal)
           d == [r EXCEPT !.drained = @ + 1]
<1>1. /\ relay.phase = "reading" /\ relay.chunks < MaxChunks /\ client' = client
      /\ \/ ~r.cancelled /\ relay' = Queued(r) /\ UNCHANGED activeTurns
         \/ r.cancelled /\ (d.terminal \/ d.drained >= DrainChunks) /\ Finish(d, <<>>)
         \/ r.cancelled /\ ~(d.terminal \/ d.drained >= DrainChunks)
            /\ relay' = d /\ UNCHANGED activeTurns
  BY DEF RelayReads
<1>2. s \in RelayRecords /\ s.phase = "reading" /\ RelayOK(s, client)
  BY <1>1, RelayAssumption DEF RelayInv, RelayTypeOK, RelayRecords, RelayOK, RecordOK, BoundOK
<1>3. /\ r \in RelayRecords /\ RelayOK(r, client) /\ r.phase = "reading"
  <2> HIDE DEF s
  <2>1. r \in RelayRecords /\ RelayOK(r, client)
        /\ \E t \in BOOLEAN, o \in Outcomes : r = [s EXCEPT !.terminal = t, !.outcomes = o]
    BY <1>2, InspectedOK
  <2> HIDE DEF r
  <2>2. r.phase = "reading"
    BY <1>2, <2>1 DEF RelayRecords
  <2> QED  BY <2>1, <2>2
<1> HIDE DEF r
<1>4. /\ d \in RelayRecords /\ d.phase = "reading" /\ RecordOK(d, client)
      /\ (~d.aborted => d.inStream <= MaxQueue + 1)
      /\ d.cancelled = r.cancelled
  BY <1>3, RelayAssumption DEF RelayRecords, RelayOK, RecordOK, BoundOK
<1>5. CASE ~r.cancelled /\ relay' = Queued(r) /\ UNCHANGED activeTurns
  <2> DEFINE ph == IF r.queuedBytes + 1 > MaxQueue /\ ~r.aborted THEN "paused" ELSE r.phase
  <2>1. relay' = [r EXCEPT !.queuedBytes = @ + 1, !.inStream = @ + 1, !.woken = FALSE, !.phase = ph]
    BY <1>5 DEF Queued
  <2>2. ph \in {"reading", "paused"}
        /\ (ph = "reading" => r.aborted \/ r.queuedBytes + 1 <= MaxQueue)
    BY <1>3, RelayAssumption DEF RelayRecords
  <2> HIDE DEF ph
  <2>3. relay' \in RelayRecords
    <3>1. r.queuedBytes + 1 \in Nat /\ r.inStream + 1 \in Nat
      BY <1>3 DEF RelayRecords
    <3> QED  BY <1>3, <2>1, <2>2, <3>1 DEF RelayRecords
  <2>4. RecordOK(relay', client)
    BY <1>3, <2>1, <2>2 DEF RelayRecords, RelayOK, RecordOK
  <2>5. BoundOK(relay')
    BY <1>3, <1>5, <2>1, <2>2, RelayAssumption DEF RelayRecords, RelayOK, BoundOK
  <2> QED  BY <1>1, <1>5, <2>3, <2>4, <2>5 DEF RelayInv, RelayTypeOK, RegistryTypeOK, RelayOK
<1>6. CASE r.cancelled /\ Finish(d, <<>>)
  <2> HIDE DEF d
  <2> QED  BY <1>1, <1>4, <1>6, FinishKeepsRelay
<1>7. CASE /\ r.cancelled /\ ~(d.terminal \/ d.drained >= DrainChunks)
           /\ relay' = d /\ UNCHANGED activeTurns
  <2>1. BoundOK(d)
    BY <1>3, <1>7, RelayAssumption DEF RelayRecords, RelayOK, BoundOK
  <2> QED  BY <1>1, <1>4, <1>7, <2>1 DEF RelayInv, RelayTypeOK, RegistryTypeOK, RelayOK
<1> QED  BY <1>1, <1>5, <1>6, <1>7

(* The upstream ends.                                                      *)
LEMMA EofKeepsRelay ==
    ASSUME RelayInv, NEW terminal \in BOOLEAN, RelayEof(terminal)
    PROVE  RelayInv'
<1> DEFINE r == Inspected(relay, terminal)
<1>1. relay.phase = "reading" /\ Finish(r, Synthetic(r, "incomplete")) /\ client' = client
  BY DEF RelayEof
<1>2. r \in RelayRecords /\ RelayOK(r, client)
      /\ \E t \in BOOLEAN, o \in Outcomes : r = [relay EXCEPT !.terminal = t, !.outcomes = o]
  BY <1>1, InspectedOK DEF RelayInv, RelayTypeOK
<1> HIDE DEF r
<1>3. r.phase = "reading"
  BY <1>1, <1>2 DEF RelayInv, RelayTypeOK, RelayRecords
<1>4. RecordOK(r, client) /\ (~r.aborted => r.inStream <= MaxQueue + 1)
  BY <1>2 DEF RelayOK, BoundOK
<1> QED  BY <1>1, <1>2, <1>3, <1>4, FinishKeepsRelay DEF Synthetic

(* The upstream breaks off.                                                *)
LEMMA FailureKeepsRelay ==
    ASSUME RelayInv, RelayFails
    PROVE  RelayInv'
<1> DEFINE syn == Synthetic(relay, "failed")
           n == IF syn = <<>> THEN relay.inStream ELSE 0
           r == [relay EXCEPT !.inStream = n]
<1>1. relay.phase = "reading" /\ Finish(r, syn) /\ client' = client
  BY DEF RelayFails
<1>2. \/ syn = <<>> /\ (relay.terminal \/ relay.cancelled \/ relay.aborted)
      \/ syn \in {<<"incomplete">>, <<"failed">>}
         /\ ~(relay.terminal \/ relay.cancelled \/ relay.aborted)
  BY DEF Synthetic
<1>3. n \in Nat /\ n <= relay.inStream
  BY DEF RelayInv, RelayTypeOK, RelayRecords
<1> HIDE DEF syn, n
<1>4. r \in RelayRecords /\ r.phase = "reading" /\ RecordOK(r, client)
  BY <1>1, <1>3 DEF RelayInv, RelayTypeOK, RelayRecords, RelayOK, RecordOK
<1>5. ~r.aborted => r.inStream <= MaxQueue + 1
  BY <1>3, RelayAssumption DEF RelayInv, RelayTypeOK, RelayRecords, RelayOK, BoundOK
<1>6. r.terminal = relay.terminal /\ r.cancelled = relay.cancelled /\ r.aborted = relay.aborted
  BY DEF RelayInv, RelayTypeOK, RelayRecords
<1> HIDE DEF r
<1> QED  BY <1>1, <1>2, <1>4, <1>5, <1>6, FinishKeepsRelay

(* The producer opens, is refused or aborted, or resumes.                  *)
LEMMA ProducerKeepsRelay ==
    ASSUME RelayInv, RelayOpens \/ RelayRefused \/ RelayAborted \/ RelayResumes
    PROVE  RelayInv'
<1>1. CASE RelayOpens
  <2>1. /\ relay.phase = "admitted" /\ relay' = [relay EXCEPT !.phase = "reading"]
        /\ activeTurns' = activeTurns \cup {"relay"} /\ client' = client
    BY <1>1 DEF RelayOpens, RegisterTurn
  <2>2. RelayOK(relay', client)
    BY <2>1, RelayAssumption DEF RelayInv, RelayTypeOK, RelayRecords, RelayOK, RecordOK, BoundOK
  <2> QED  BY <2>1, <2>2 DEF RelayInv, RelayTypeOK, RelayRecords, RegistryTypeOK, Controllers
<1>2. CASE RelayRefused
  <2>1. /\ relay.phase = "admitted" /\ relay' = [relay EXCEPT !.phase = "refused"]
        /\ UNCHANGED <<activeTurns, client>>
    BY <1>2 DEF RelayRefused
  <2>2. RelayOK(relay', client)
    BY <2>1, RelayAssumption DEF RelayInv, RelayTypeOK, RelayRecords, RelayOK, RecordOK, BoundOK
  <2> QED  BY <2>1, <2>2 DEF RelayInv, RelayTypeOK, RelayRecords, RegistryTypeOK
<1>3. CASE RelayAborted
  <2>1. relay.phase = "reading" /\ relay.aborted /\ Finish(relay, <<>>) /\ client' = client
    BY <1>3 DEF RelayAborted
  <2>2. relay \in RelayRecords /\ RecordOK(relay, client)
    BY DEF RelayInv, RelayTypeOK, RelayOK
  <2> QED  BY <2>1, <2>2, FinishKeepsRelay
<1>4. CASE RelayResumes
  <2> DEFINE ph == IF relay.queuedBytes > MaxQueue /\ ~relay.cancelled /\ ~relay.aborted
                   THEN "paused" ELSE "reading"
  <2>1. /\ relay.phase = "paused" /\ relay' = [relay EXCEPT !.woken = FALSE, !.phase = ph]
        /\ UNCHANGED <<activeTurns, client>>
    BY <1>4 DEF RelayResumes
  <2>2. ph \in {"reading", "paused"}
        /\ (ph = "reading" => relay.cancelled \/ relay.aborted \/ relay.queuedBytes <= MaxQueue)
    BY RelayAssumption DEF RelayInv, RelayTypeOK, RelayRecords
  <2> HIDE DEF ph
  <2>3. RecordOK(relay', client)
    BY <2>1, <2>2 DEF RelayInv, RelayTypeOK, RelayRecords, RelayOK, RecordOK
  <2>4. BoundOK(relay')
    BY <2>1, <2>2 DEF RelayInv, RelayTypeOK, RelayRecords, RelayOK, BoundOK
  <2>5. relay' \in RelayRecords
    BY <2>1, <2>2 DEF RelayInv, RelayTypeOK, RelayRecords
  <2> QED  BY <2>1, <2>3, <2>4, <2>5 DEF RelayInv, RelayTypeOK, RegistryTypeOK, RelayOK
<1> QED  BY <1>1, <1>2, <1>3, <1>4

(* A wake-up, an abort and a cancellation only set their flags.            *)
LEMMA AbortedOK ==
    ASSUME NEW r \in RelayRecords, NEW c, RelayOK(r, c)
    PROVE  Aborted(r) \in RelayRecords /\ RelayOK(Aborted(r), c)
<1> DEFINE w == r.woken \/ r.phase = "paused"
<1>1. Aborted(r) = [r EXCEPT !.aborted = TRUE, !.woken = w]
  BY DEF Aborted, Woken, RelayRecords
<1>2. w \in BOOLEAN
  OBVIOUS
<1> HIDE DEF w
<1>3. RecordOK(Aborted(r), c)
  BY <1>1 DEF RelayRecords, RelayOK, RecordOK
<1>4. BoundOK(Aborted(r))
  BY <1>1 DEF RelayRecords, RelayOK, BoundOK
<1> QED  BY <1>1, <1>2, <1>3, <1>4 DEF RelayRecords, RelayOK

(* A relay whose client is gone goes on under its timer.                   *)
LEMMA CancelledOK ==
    ASSUME RelayTypeOK, RelayOK(relay, client)
    PROVE  Cancelled(relay) \in RelayRecords /\ RelayOK(Cancelled(relay), "gone")
<1>1. CASE Running
  <2> DEFINE w == relay.woken \/ relay.phase = "paused"
  <2>1. Cancelled(relay) = [relay EXCEPT !.cancelled = TRUE, !.timer = TRUE, !.woken = w]
    BY <1>1 DEF Cancelled, Woken, RelayTypeOK, RelayRecords
  <2>2. w \in BOOLEAN
    OBVIOUS
  <2> HIDE DEF w
  <2>3. RecordOK(Cancelled(relay), "gone")
    BY <1>1, <2>1 DEF Running, RelayTypeOK, RelayRecords, RelayOK, RecordOK
  <2>4. BoundOK(Cancelled(relay))
    BY <2>1 DEF RelayTypeOK, RelayRecords, RelayOK, BoundOK
  <2> QED  BY <2>1, <2>2, <2>3, <2>4 DEF RelayTypeOK, RelayRecords, RelayOK
<1>2. CASE ~Running
  BY <1>2 DEF Cancelled, RelayTypeOK, RelayOK, RecordOK
<1> QED  BY <1>1, <1>2

(* The client's steps.                                                     *)
LEMMA ClientKeepsRelay ==
    ASSUME RelayInv,
           ClientReads \/ RelayClientDone \/ RelayClientLeaves \/ CancelRelay \/ DrainExpires
    PROVE  RelayInv'
<1>1. CASE ClientReads
  <2> DEFINE r == [relay EXCEPT !.inStream = @ - 1]
             w == relay.woken \/ relay.phase = "paused"
  <2>1. /\ relay.inStream > 0 /\ UNCHANGED <<activeTurns, client>>
        /\ relay' = IF r.inStream = 0 /\ Running THEN Pulled(r) ELSE r
    BY <1>1 DEF ClientReads
  <2>2. w \in BOOLEAN
    OBVIOUS
  <2>3. r \in RelayRecords /\ RelayOK(r, client)
    BY <2>1, RelayAssumption
    DEF RelayInv, RelayTypeOK, RelayRecords, RelayOK, RecordOK, BoundOK
  <2>4. CASE r.inStream = 0 /\ Running
    <3>1. relay' = [r EXCEPT !.queuedBytes = 0, !.woken = w]
      BY <2>1, <2>4 DEF Pulled, Woken, RelayInv, RelayTypeOK, RelayRecords
    <3> HIDE DEF r, w
    <3>2. RecordOK(relay', client)
      BY <2>3, <3>1 DEF RelayRecords, RelayOK, RecordOK
    <3>3. BoundOK(relay')
      BY <2>3, <2>4, <3>1, RelayAssumption DEF RelayRecords, RelayOK, BoundOK
    <3> QED  BY <2>1, <2>2, <2>3, <3>1, <3>2, <3>3
             DEF RelayInv, RelayTypeOK, RelayRecords, RegistryTypeOK, RelayOK
  <2>5. CASE ~(r.inStream = 0 /\ Running)
    BY <2>1, <2>3, <2>5 DEF RelayInv, RelayTypeOK, RegistryTypeOK
  <2> QED  BY <2>4, <2>5
<1>2. CASE RelayClientDone
  BY <1>2 DEF RelayClientDone, RelayInv, RelayTypeOK, RegistryTypeOK, RelayOK, RecordOK
<1>3. CASE RelayClientLeaves \/ CancelRelay
  <2>1. relay' = Cancelled(relay) /\ client' = "gone" /\ activeTurns' = activeTurns
    BY <1>3 DEF RelayClientLeaves, CancelRelay
  <2> QED  BY <2>1, CancelledOK DEF RelayInv, RelayTypeOK, RegistryTypeOK
<1>4. CASE DrainExpires
  <2> DEFINE r == Aborted(relay)
  <2>1. relay' = [r EXCEPT !.timer = FALSE] /\ UNCHANGED <<activeTurns, client>>
    BY <1>4 DEF DrainExpires
  <2>2. r \in RelayRecords /\ RelayOK(r, client)
    BY AbortedOK DEF RelayInv, RelayTypeOK
  <2> HIDE DEF r
  <2>3. relay' \in RelayRecords /\ RelayOK(relay', client)
    BY <2>1, <2>2 DEF RelayRecords, RelayOK, RecordOK, BoundOK
  <2> QED  BY <2>1, <2>3 DEF RelayInv, RelayTypeOK, RegistryTypeOK
<1> QED  BY <1>1, <1>2, <1>3, <1>4

(* Every step of a relay keeps its invariant.                              *)
LEMMA RelayStep ==
    ASSUME RelayInv, RelayNext
    PROVE  RelayInv'
  BY ReadKeepsRelay, EofKeepsRelay, FailureKeepsRelay, ProducerKeepsRelay, ClientKeepsRelay
  DEF RelayNext

------------------------------------------------------------------------------
(***************************************************************************)
(* The system.                                                             *)
(***************************************************************************)

(* The invariant as the parts the steps are proved on.                     *)
LEMMA InvParts ==
    Inv <=> /\ StreamInv /\ RelayInv /\ RegistryOK /\ SavedOK /\ OneKind
            /\ request \in Requests
            /\ proc \in {"up", "draining", "stopped", "exited"}
            /\ deadline \in BOOLEAN /\ forced \in BOOLEAN /\ snapshot \in Snapshots
  BY DEF Inv, TypeOK, StreamInv, RelayInv

(* Nothing has arrived and the process is up.                              *)
LEMMA InitInv == Init => Inv
<1> SUFFICES ASSUME Init PROVE Inv
  OBVIOUS
<1>1. QueueOK(queue) /\ given \in Seq(Kinds)
  BY ShortSequences DEF Init, StreamInit, Empty, QueueOK, Queues
<1>2. turn \in TurnRecords
  <2>1. <<>> \in Seq(Statuses)
    OBVIOUS
  <2> QED  BY <2>1, ShortSequences, StreamAssumption
           DEF Init, StreamInit, NoTurn, TurnRecords, Phases
<1>3. StreamOK(turn, queue, client)
  BY DEF Init, StreamInit, NoTurn, Empty, StreamOK
<1>4. relay \in RelayRecords
  BY SomeOutcomes, RelayAssumption DEF Init, RelayInit, NoRelay, RelayRecords
<1>5. RelayOK(relay, client)
  BY SomeOutcomes, RelayAssumption DEF Init, RelayInit, NoRelay, RelayOK, RecordOK, BoundOK
<1>6. RegistryTypeOK /\ RegistryOK /\ SavedOK /\ OneKind /\ snapshot \in Snapshots
  BY DEF Init, Snapshots, StreamInit, RelayInit, NoTurn, NoRelay, RegistryTypeOK, RegistryOK, SavedOK,
         OneKind, Running
<1> QED  BY <1>1, <1>2, <1>3, <1>4, <1>5, <1>6, InvParts
         DEF Init, StreamInv, StreamTypeOK, RelayInv, RelayTypeOK, QueueOK

(* Which controllers a step takes from the registry, and when it changes   *)
(* what the client was told or the memory holds.                           *)
LEMMA StreamStepFacts ==
    ASSUME StreamInv, RegistryOK, StreamNext
    PROVE  /\ turn'.phase = "absent" <=> turn.phase = "absent"
           /\ client # "there" => client' = client
           /\ client' # client => turn.phase # "absent" \/ client' # "done"
           /\ client' = "there" /\ turn'.phase \in {"gated", "reading", "closed"} => "body" \in activeTurns'
           /\ client' = "there" /\ "socket" \in activeTurns => "socket" \in activeTurns'
           /\ client = "done" => turn'.told = turn.told /\ turn'.remembered = turn.remembered
<1> USE DEF StreamTypeOK, TurnRecords
<1>1. CASE BeginTurn
  BY <1>1 DEF BeginTurn, OpenStream, RegisterTurn, StreamInv
<1>2. CASE \E e \in Kinds : AdapterPushes(e)
  BY <1>2 DEF AdapterPushes, StreamInv, RegistryOK
<1>3. CASE AdapterReturns \/ AdapterThrows
  <2>1. /\ UNCHANGED <<activeTurns, client>> /\ turn'.phase = turn.phase
        /\ turn'.told = turn.told /\ turn'.remembered = turn.remembered
    BY <1>3 DEF AdapterReturns, AdapterThrows, StreamInv
  <2> QED  BY <2>1 DEF RegistryOK
<1>4. CASE Wait
  BY <1>4 DEF Wait, RegistryOK
<1>5. CASE PreflightTakes
  BY <1>5 DEF PreflightTakes, OpenStream, RegisterTurn, StreamInv
<1>6. CASE PreflightEmpty
  BY <1>6 DEF PreflightEmpty, StreamInv
<1>7. CASE Pull
  BY <1>7 DEF Pull, StreamInv, RegistryOK
<1>8. CASE turn.phase = "reading" /\ turn'.phase # "absent" /\ UNCHANGED <<activeTurns, client>>
  <2>1. client # "done"
    BY <1>8 DEF StreamInv, StreamOK
  <2> QED  BY <1>8, <2>1 DEF RegistryOK
<1>9. CASE StepReplayed \/ StepTakes \/ StepEnds \/ Stall
  <2>1. turn.phase = "reading" /\ UNCHANGED <<activeTurns, client>>
    BY <1>9 DEF StepReplayed, StepTakes, StepEnds, Stall
  <2>2. turn'.phase # "absent"
    <3>1. turn.told = <<>> /\ ~turn.remembered /\ turn \in TurnRecords
      BY <2>1 DEF StreamInv, StreamOK
    <3>2. CASE StepReplayed
      <4> DEFINE t == [turn EXCEPT !.buffered = Tail(@)]
                 e == Head(turn.buffered)
      <4>1. turn.buffered # <<>> /\ turn' = Handled(t, e)
        BY <3>2 DEF StepReplayed
      <4>2. e \in Kinds /\ Tail(turn.buffered) \in Seq(Kinds)
        BY <4>1, HeadTailProperties DEF StreamInv
      <4>3. t \in TurnRecords /\ t.phase = "reading" /\ t.told = <<>> /\ ~t.remembered
        BY <2>1, <3>1, <4>2
      <4> HIDE DEF t, e
      <4> QED  BY <4>1, <4>2, <4>3, HandledPhase
    <3>3. CASE StepTakes
      <4>1. turn' = Handled(turn, Oldest(queue)) /\ Oldest(queue) \in Kinds
        BY <3>3, TakenOK DEF StepTakes, StreamInv
      <4> QED  BY <2>1, <3>1, <4>1, HandledPhase
    <3>4. CASE StepEnds \/ Stall
      BY <3>1, <3>4 DEF StepEnds, Stall, Terminated
    <3> QED  BY <1>9, <3>2, <3>3, <3>4
  <2> QED  BY <1>8, <2>1, <2>2
<1>10. CASE StepResumesLate
  <2>1. /\ turn.phase = "closed" /\ queue.reader = "handed" /\ UNCHANGED <<activeTurns, client>>
        /\ turn' = [turn EXCEPT !.remembered = @ \/ Oldest(queue) = "done"]
    BY <1>10 DEF StepResumesLate
  <2>2. client = "gone"
    BY <2>1 DEF StreamInv, StreamOK
  <2> QED  BY <2>1, <2>2 DEF StreamInv, RegistryOK
<1>11. CASE StreamClientLeaves \/ CancelBody
  <2>1. client' = "gone" /\ client # "done"
        /\ (client = "gone" => client' = client)
    BY <1>11 DEF StreamClientLeaves, CancelBody
  <2>2. turn'.phase # "absent" /\ turn.phase # "absent"
    BY <1>11 DEF StreamClientLeaves, CancelBody, CancelStream, Streaming, StreamInv
  <2>3. client = "there" \/ client = "gone"
    BY <2>1 DEF StreamInv, RegistryTypeOK
  <2> QED  BY <2>1, <2>2, <2>3
<1>12. CASE ClientReadsEnd
  BY <1>12 DEF ClientReadsEnd
<1>13. CASE SocketTurnEnds
  BY <1>13 DEF SocketTurnEnds, StreamInv
<1> QED  BY <1>1, <1>2, <1>3, <1>4, <1>5, <1>6, <1>7, <1>9, <1>10, <1>11, <1>12, <1>13
         DEF StreamNext

(* A client that has left does not return, and a relay that runs for a     *)
(* client is registered.                                                   *)
LEMMA RelayStepFacts ==
    ASSUME RelayInv, RegistryOK, RelayNext
    PROVE  /\ client # "there" => client' = client
           /\ client' = "there" /\ Running' => "relay" \in activeTurns'
<1> USE DEF RelayTypeOK, RelayRecords
<1>1. CASE RelayOpens \/ RelayRefused
  BY <1>1 DEF RelayOpens, RelayRefused, RegisterTurn, Running, RelayInv
<1>2. ASSUME NEW r, NEW syn, Finish(r, syn), DOMAIN r = DOMAIN relay
      PROVE  ~Running'
  BY <1>2 DEF Finish, RelayEnded, Running, RelayInv
<1>3. ASSUME NEW terminal \in BOOLEAN, RelayReads(terminal)
      PROVE  /\ client' = client /\ Running
             /\ Running' => activeTurns' = activeTurns
  <2> DEFINE d == [Inspected([relay EXCEPT !.chunks = @ + 1], terminal) EXCEPT !.drained = @ + 1]
  <2>1. client' = client /\ Running /\ (UNCHANGED activeTurns \/ Finish(d, <<>>))
    BY <1>3 DEF RelayReads, Running
  <2>2. DOMAIN d = DOMAIN relay
    BY DEF Inspected, RelayInv
  <2> HIDE DEF d
  <2> QED  BY <2>1, <2>2, <1>2
<1>4. ASSUME NEW terminal \in BOOLEAN, RelayEof(terminal)
      PROVE  ~Running' /\ client' = client
  <2> DEFINE r == Inspected(relay, terminal)
  <2>1. client' = client /\ Finish(r, Synthetic(r, "incomplete"))
    BY <1>4 DEF RelayEof
  <2>2. DOMAIN r = DOMAIN relay
    BY DEF Inspected, RelayInv
  <2> HIDE DEF r
  <2> QED  BY <2>1, <2>2, <1>2
<1>5. CASE RelayFails \/ RelayAborted
  <2>1. client' = client /\ \E r, syn : Finish(r, syn) /\ DOMAIN r = DOMAIN relay
    BY <1>5 DEF RelayFails, RelayAborted, RelayInv
  <2> QED  BY <2>1, <1>2
<1>6. CASE RelayResumes \/ DrainExpires
  <2>1. UNCHANGED <<activeTurns, client>> /\ (Running' => Running)
    BY <1>6 DEF RelayResumes, DrainExpires, Aborted, Woken, Running, RelayInv
  <2> QED  BY <2>1 DEF RegistryOK
<1>7. CASE ClientReads
  <2>1. UNCHANGED <<activeTurns, client>> /\ (Running' => Running)
    BY <1>7 DEF ClientReads, Pulled, Woken, Running, RelayInv
  <2> QED  BY <2>1 DEF RegistryOK
<1>8. CASE RelayClientDone \/ RelayClientLeaves \/ CancelRelay
  BY <1>8 DEF RelayClientDone, RelayClientLeaves, CancelRelay
<1>9. ASSUME NEW terminal \in BOOLEAN, RelayReads(terminal) \/ RelayEof(terminal)
      PROVE  /\ client' = client
             /\ client' = "there" /\ Running' => "relay" \in activeTurns'
  BY <1>3, <1>4, <1>9 DEF RegistryOK
<1> QED  BY <1>1, <1>5, <1>6, <1>7, <1>8, <1>9 DEF RelayNext

(* A step of the bridged turn keeps the invariant of the process.          *)
LEMMA BridgedKeepsInv ==
    ASSUME Inv, BridgedStep
    PROVE  Inv'
<1>1. /\ StreamInv /\ RelayInv /\ RegistryOK /\ SavedOK /\ OneKind
      /\ Bridged /\ proc # "exited" /\ StreamNext
      /\ snapshot' = IF turn'.remembered = turn.remembered THEN snapshot ELSE "pending"
      /\ UNCHANGED <<relay, request, proc, deadline, forced>>
  BY InvParts DEF BridgedStep
<1>2. StreamInv'
  BY <1>1, StreamStep
<1>3. relay.phase = "absent" /\ relay'.phase = "absent"
  BY <1>1 DEF OneKind
<1>4. /\ turn'.phase = "absent" <=> turn.phase = "absent"
      /\ client # "there" => client' = client
      /\ client' # client => turn.phase # "absent" \/ client' # "done"
      /\ client' = "there" /\ turn'.phase \in {"gated", "reading", "closed"} => "body" \in activeTurns'
      /\ client' = "there" /\ "socket" \in activeTurns => "socket" \in activeTurns'
      /\ client = "done" => turn'.told = turn.told /\ turn'.remembered = turn.remembered
  BY <1>1, StreamStepFacts
<1>5. client \in {"there", "done", "gone"} /\ RegistryTypeOK'
  BY <1>1, <1>2 DEF StreamInv, RegistryTypeOK
<1>6. RelayInv'
  <2>1. client' = "gone" \/ client' = client \/ client = "there"
    BY <1>4
  <2> QED  BY <1>1, <1>5, <2>1 DEF RelayInv, RelayTypeOK, RelayOK, RecordOK
<1>7. RegistryOK'
  <2>1. ~Running'
    BY <1>3 DEF Running
  <2>2. client' = "there" => client = "there"
    BY <1>4
  <2> QED  BY <1>1, <1>4, <2>1, <2>2 DEF RegistryOK
<1>8. SavedOK'
  <2>1. CASE proc' = "stopped" \/ (proc' = "exited" /\ ~forced')
    <3>1. client # "there" /\ client' = client
      BY <1>1, <1>4, <2>1 DEF SavedOK
    <3>2. turn'.told = <<"completed">> /\ client' = "done" => snapshot' # "pending"
      BY <1>1, <1>4, <2>1, <3>1 DEF SavedOK
    <3> QED  BY <3>1, <3>2 DEF SavedOK
  <2> QED  BY <2>1 DEF SavedOK
<1>9. OneKind'
  BY <1>1, <1>3, <1>4 DEF OneKind, Bridged
<1>10. snapshot' \in Snapshots
  BY <1>1, InvParts DEF Snapshots
<1> QED  BY <1>1, <1>2, <1>6, <1>7, <1>8, <1>9, <1>10
         DEF Inv, TypeOK, StreamInv, RelayInv

(* A step of the relayed turn keeps the invariant of the process.          *)
LEMMA RelayedKeepsInv ==
    ASSUME Inv, RelayedStep
    PROVE  Inv'
<1>1. /\ StreamInv /\ RelayInv /\ RegistryOK /\ SavedOK /\ OneKind
      /\ ~Bridged /\ RelayNext /\ request' = request
      /\ UNCHANGED <<queue, given, turn, proc, deadline, forced, snapshot>>
  BY InvParts DEF RelayedStep, streamVars, procVars
<1>2. RelayInv'
  BY <1>1, RelayStep
<1>3. turn.phase = "absent"
  BY <1>1 DEF OneKind
<1>4. /\ client # "there" => client' = client
      /\ client' = "there" /\ Running' => "relay" \in activeTurns'
  BY <1>1, RelayStepFacts
<1>5. StreamInv'
  <2>1. RegistryTypeOK'
    BY <1>2 DEF RelayInv
  <2>2. StreamOK(turn', queue', client')
    BY <1>1, <1>3 DEF StreamInv, StreamOK
  <2> QED  BY <1>1, <2>1, <2>2 DEF StreamInv, StreamTypeOK, QueueOK
<1>6. RegistryOK'
  BY <1>1, <1>3, <1>4 DEF RegistryOK
<1>7. SavedOK'
  <2>1. turn.told # <<"completed">>
    BY <1>1, <1>3, ToldOnce DEF StreamInv, StreamOK, Statuses
  <2> QED  BY <1>1, <1>4, <2>1 DEF SavedOK
<1>8. OneKind'
  BY <1>1, <1>3 DEF OneKind, Bridged
<1> QED  BY <1>1, <1>2, <1>5, <1>6, <1>7, <1>8 DEF Inv, TypeOK, StreamInv, RelayInv

(* A request arrives.                                                      *)
LEMMA ArrivalKeepsInv ==
    ASSUME Inv, ArriveBridged \/ ArriveRelayed
    PROVE  Inv'
<1>1. StreamInv /\ RelayInv /\ RegistryOK /\ SavedOK /\ OneKind
  BY InvParts
<1>2. CASE ArriveBridged
  <2>1. /\ Bridged /\ turn.phase = "absent" /\ turn' = [turn EXCEPT !.phase = "admitted"]
        /\ activeTurns' \in {activeTurns, activeTurns \cup {"socket"}}
        /\ request[2] = "socket" => "socket" \in activeTurns'
        /\ UNCHANGED <<queue, given, relay, client, request, proc, deadline, forced, snapshot>>
    BY <1>2 DEF ArriveBridged, RegisterTurn, procVars
  <2>2. StreamOK(turn', queue', client')
    BY <1>1, <2>1 DEF StreamInv, StreamTypeOK, TurnRecords, StreamOK, OneKind
  <2>3. StreamInv'
    BY <1>1, <2>1, <2>2
    DEF StreamInv, StreamTypeOK, TurnRecords, RegistryTypeOK, QueueOK, Phases, Controllers
  <2>4. RelayInv'
    BY <1>1, <2>1, <2>3 DEF RelayInv, RelayTypeOK, StreamInv
  <2>5. RegistryOK' /\ SavedOK' /\ OneKind'
    BY <1>1, <2>1 DEF RegistryOK, SavedOK, OneKind, Running, Bridged, StreamInv, StreamTypeOK, TurnRecords
  <2> QED  BY <2>1, <2>3, <2>4, <2>5 DEF Inv, TypeOK, StreamInv, RelayInv
<1>3. CASE ArriveRelayed
  <2>1. /\ ~Bridged /\ relay.phase = "absent" /\ relay' = [relay EXCEPT !.phase = "admitted"]
        /\ UNCHANGED <<queue, given, turn, activeTurns, client, request, proc, deadline, forced, snapshot>>
    BY <1>3 DEF ArriveRelayed, streamVars, procVars
  <2>2. relay' \in RelayRecords /\ RelayOK(relay', client')
    BY <1>1, <2>1 DEF RelayInv, RelayTypeOK, RelayRecords, RelayOK, RecordOK, BoundOK
  <2>3. RegistryOK' /\ SavedOK' /\ OneKind'
    BY <1>1, <2>1 DEF RegistryOK, SavedOK, OneKind, Running, Bridged, RelayInv, RelayTypeOK, RelayRecords
  <2> QED  BY <1>1, <2>1, <2>2, <2>3
           DEF Inv, TypeOK, StreamInv, StreamTypeOK, RelayInv, RelayTypeOK, RegistryTypeOK
<1> QED  BY <1>2, <1>3

(* The timer of the saved state, the drain and the exit.                   *)
LEMMA ShutdownKeepsInv ==
    ASSUME Inv,
           PersistTimer \/ DrainBegins \/ DeadlinePasses \/ DrainEnds \/ Exit \/ SecondSignal
    PROVE  Inv'
<1>1. StreamInv /\ RelayInv /\ RegistryOK /\ SavedOK /\ OneKind /\ request \in Requests
      /\ proc \in {"up", "draining", "stopped", "exited"}
      /\ deadline \in BOOLEAN /\ forced \in BOOLEAN /\ snapshot \in Snapshots
  BY InvParts
<1>2. CASE DrainEnds
  <2> DEFINE b == turn.aborted \/ "socket" \in activeTurns
             c == IF client = "there" THEN "gone" ELSE client
  <2>1. /\ proc' = "stopped" /\ turn' = [turn EXCEPT !.aborted = b]
        /\ relay' = relay \/ relay' = Aborted(relay)
        /\ activeTurns' = {} /\ client' = c /\ snapshot' # "pending"
        /\ UNCHANGED <<queue, given, request, deadline, forced>>
    BY <1>2 DEF DrainEnds, Flushed, Persisted
  <2>2. snapshot' \in Snapshots
    BY <1>1, <1>2 DEF DrainEnds, Flushed, Persisted, Snapshots
  <2>3. /\ b \in BOOLEAN /\ c \in {"done", "gone"} /\ (c # client => client = "there" /\ c = "gone")
    BY <1>1 DEF StreamInv, RegistryTypeOK
  <2> HIDE DEF b, c
  <2>4. StreamOK(turn', queue', client')
    BY <1>1, <2>1, <2>3 DEF StreamInv, StreamTypeOK, TurnRecords, StreamOK
  <2>5. StreamInv'
    BY <1>1, <2>1, <2>3, <2>4 DEF StreamInv, StreamTypeOK, TurnRecords, RegistryTypeOK, QueueOK
  <2>6. relay' \in RelayRecords /\ RelayOK(relay', client)
    BY <1>1, <2>1, AbortedOK DEF RelayInv, RelayTypeOK
  <2>7. RelayInv'
    BY <2>1, <2>3, <2>5, <2>6 DEF StreamInv, RelayInv, RelayTypeOK, RelayOK, RecordOK
  <2>8. RegistryOK' /\ SavedOK'
    BY <2>1, <2>3 DEF RegistryOK, SavedOK
  <2>9. OneKind'
    BY <1>1, <2>1, <2>3
    DEF OneKind, Bridged, StreamInv, StreamTypeOK, TurnRecords, RelayInv, RelayTypeOK, RelayRecords,
        Aborted, Woken
  <2> QED  BY <1>1, <2>1, <2>2, <2>5, <2>7, <2>8, <2>9 DEF Inv, TypeOK, StreamInv, RelayInv
<1>3. CASE PersistTimer \/ DrainBegins \/ DeadlinePasses \/ Exit \/ SecondSignal
  <2>1. UNCHANGED <<streamVars, relay, activeTurns, client, request>>
    BY <1>3 DEF PersistTimer, DrainBegins, DeadlinePasses, Exit, SecondSignal
  <2>2. StreamInv' /\ RelayInv' /\ RegistryOK' /\ OneKind'
    BY <1>1, <2>1
    DEF streamVars, StreamInv, StreamTypeOK, RegistryTypeOK, QueueOK, RelayInv, RelayTypeOK,
        RegistryOK, OneKind, Running, Bridged
  <2>3. SavedOK'
    BY <1>1, <1>3, <2>1
    DEF streamVars, SavedOK, PersistTimer, Persisted, DrainBegins, DeadlinePasses, Exit, SecondSignal
  <2>4. /\ proc' \in {"up", "draining", "stopped", "exited"}
        /\ deadline' \in BOOLEAN /\ forced' \in BOOLEAN /\ snapshot' \in Snapshots
    BY <1>1, <1>3 DEF PersistTimer, Persisted, Snapshots, DrainBegins, DeadlinePasses, Exit, SecondSignal
  <2> QED  BY <1>1, <2>1, <2>2, <2>3, <2>4 DEF Inv, TypeOK, StreamInv, RelayInv
<1> QED  BY <1>2, <1>3

(* Nothing happens.                                                        *)
LEMMA StutterKeepsInv ==
    ASSUME Inv, UNCHANGED vars
    PROVE  Inv'
  BY DEF vars, streamVars, procVars, Inv, TypeOK, StreamTypeOK, RelayTypeOK, RegistryTypeOK,
         QueueOK, StreamOK, RelayOK, RecordOK, BoundOK, RegistryOK, SavedOK, OneKind, Running, Bridged

(* Every step keeps the invariant.                                         *)
LEMMA NextInv == Inv /\ [Next]_vars => Inv'
  BY BridgedKeepsInv, RelayedKeepsInv, ArrivalKeepsInv, ShutdownKeepsInv, StutterKeepsInv DEF Next

(* The inductive invariant of the two turns, the registry and the          *)
(* shutdown.                                                               *)
THEOREM Invariance == Spec => []Inv
  BY InitInv, NextInv, PTL DEF Spec

------------------------------------------------------------------------------
(***************************************************************************)
(* What the invariant shows.                                               *)
(***************************************************************************)

(* Every variable keeps its type, for any limits, kinds and requests.      *)
THEOREM TypeCorrect == Spec => []TypeOK
<1>1. Inv => TypeOK
  BY DEF Inv
<1> QED  BY <1>1, Invariance, PTL

(* A turn has one outcome, whichever of the adapter, the client, the stall *)
(* timer and the shutdown ends it, in whatever order they do.              *)
THEOREM TurnsEndOnce == Spec => []OneOutcome
<1>1. Inv => OneOutcome
  <2> SUFFICES ASSUME Inv PROVE OneOutcome
    OBVIOUS
  <2>1. StreamOK(turn, queue, client) /\ RecordOK(relay, client)
    BY DEF Inv, RelayOK
  <2>a. \A x : /\ x = <<>> => Len(x) = 0
               /\ \A s : x = <<s>> => Len(x) = 1
    OBVIOUS
  <2>b. turn.told = <<>> \/ \E s \in Statuses : turn.told = <<s>>
    BY <2>1 DEF StreamOK
  <2>c. relay.outcomes = <<>> \/ \E s : relay.outcomes = <<s>>
    BY <2>1 DEF RecordOK, Outcomes
  <2>d. turn.phase = "closed" /\ client = "done" => turn.told # <<>>
    BY <2>1 DEF StreamOK
  <2>e. Len(turn.told) \in {0, 1} /\ Len(relay.outcomes) \in {0, 1}
    BY <2>a, <2>b, <2>c, Zenon
  <2>f. \A n \in {0, 1} : n <= 1
    OBVIOUS
  <2>2. Len(turn.told) <= 1 /\ Len(relay.outcomes) <= 1
    BY <2>e, <2>f, Zenon
  <2>3. turn.phase = "closed" /\ client = "done" => Len(turn.told) = 1
    BY <2>a, <2>b, <2>d
  <2>4. turn.remembered => turn.told = <<"completed">> \/ client = "gone"
    BY <2>1 DEF StreamOK
  <2>6. /\ relay.terminal => relay.outcomes = <<"terminal">>
        /\ relay.phase = "done" /\ relay.outcomes = <<>> => relay.aborted /\ ~relay.cancelled
        /\ relay.outcomes = <<"cancel">> => relay.cancelled
        /\ relay.cancelled => client = "gone"
    BY <2>1 DEF RecordOK
  <2>7. <<"cancel">> # <<>> /\ <<"cancel">> # <<"terminal">>
    BY SomeOutcomes
  <2>8. relay.outcomes = <<"cancel">> <=> relay.phase = "done" /\ relay.cancelled /\ ~relay.terminal
    BY <2>1, <2>7 DEF RecordOK
  <2> QED  BY <2>2, <2>3, <2>4, <2>6, <2>8 DEF OneOutcome
<1> QED  BY <1>1, Invariance, PTL

(* The client's stream of a relayed turn is bounded, for any limit.        *)
THEOREM RelayHoldsItsLimit == Spec => []RelayIsBounded
<1>1. Inv => RelayIsBounded
  BY DEF Inv, RelayOK, BoundOK, RelayIsBounded
<1> QED  BY <1>1, Invariance, PTL

(* A client that was told "completed" finds its response after a restart.  *)
THEOREM CompletedSurvives == Spec => []CompletedIsSaved
<1>1. Inv => CompletedIsSaved
  BY DEF Inv, SavedOK, CompletedIsSaved
<1> QED  BY <1>1, Invariance, PTL

(* A shutdown before its deadline cuts off no registered turn.             *)
THEOREM ShutdownWaits == Spec => NothingCutEarly
<1> DEFINE A == proc = "draining" /\ proc' = "stopped" /\ ~deadline /\ client = "there" =>
                    /\ turn.phase \in {"absent", "admitted", "preflight", "refused"}
                    /\ turn.phase # "absent" => request[2] = "http"
                    /\ relay.phase \in {"absent", "admitted", "done", "refused"}
<1>1. Inv /\ [Next]_vars => [A]_vars
  <2> SUFFICES ASSUME Inv, Next, proc = "draining", proc' = "stopped", ~deadline, client = "there"
               PROVE  A
    BY DEF vars, procVars
  <2>1. DrainEnds
    BY DEF Next, ArriveBridged, ArriveRelayed, BridgedStep, RelayedStep, PersistTimer, DrainBegins,
           DeadlinePasses, Exit, SecondSignal, procVars
  <2>2. activeTurns = {}
    BY <2>1 DEF DrainEnds, MayStop
  <2>3. request[2] \in {"http", "socket"}
    BY TurnsAssumption DEF Inv, TypeOK
  <2>4. /\ turn.phase \notin {"gated", "reading", "closed"} /\ ~Running
        /\ turn.phase # "absent" => request[2] # "socket"
    BY <2>2 DEF Inv, RegistryOK
  <2>5. turn.phase \in Phases /\ relay.phase \in {"absent", "admitted", "reading", "paused", "done", "refused"}
    BY DEF Inv, TypeOK, StreamTypeOK, TurnRecords, RelayTypeOK, RelayRecords
  <2> QED  BY <2>3, <2>4, <2>5 DEF Phases, Running
<1> QED  BY <1>1, Invariance, PTL DEF Spec, NothingCutEarly

------------------------------------------------------------------------------
(***************************************************************************)
(* The queue implements the bounded channel.                               *)
(***************************************************************************)

(* What close, push and the reader do to the backlog.                      *)
LEMMA ClosedBacklog ==
    ASSUME NEW q, QueueOK(q)
    PROVE  /\ Backlog(Closed(q)) = Backlog(q)
           /\ (Closed(q).reader = "ended" => q.reader = "ended" \/ Backlog(q) = <<>>)
           /\ (q.reader = "ended" => Closed(q).reader = "ended")
           /\ (q.closed => Closed(q) = q)
<1>1. Closed(q).handed = q.handed /\ Closed(q).queued = q.queued
  BY DEF Closed, QueueOK, Queues
<1>2. q.reader = "waiting" => Backlog(q) = <<>>
  BY DEF QueueOK, Backlog
<1>3. q.closed => Closed(q) = q
  BY DEF QueueOK, Queues, Closed
<1>4. q.reader # "waiting" => Closed(q).reader = q.reader
  BY DEF QueueOK, Queues, Closed
<1>5. q.reader = "waiting" => Closed(q).reader = "ended"
  BY DEF QueueOK, Queues, Closed
<1> QED  BY <1>1, <1>2, <1>3, <1>4, <1>5 DEF Backlog

(* What waits in the queue, as a sequence of events.                       *)
LEMMA BacklogTyped ==
    ASSUME NEW q, QueueOK(q)
    PROVE  /\ Backlog(q) \in Seq(Kinds)
           /\ q.handed \in Seq(Kinds) /\ q.queued \in Seq(Kinds)
           /\ Len(Backlog(q)) = Len(q.handed) + Len(q.queued)
  BY ConcatProperties DEF QueueOK, Queues, Backlog

(* An event that is queued is the last of the backlog.                     *)
LEMMA AppendedBacklog ==
    ASSUME NEW q, QueueOK(q), NEW e \in Kinds
    PROVE  q.handed \o Append(q.queued, e) = Append(Backlog(q), e)
<1>1. q.handed \in Seq(Kinds) /\ q.queued \in Seq(Kinds) /\ <<e>> \in Seq(Kinds)
      /\ Backlog(q) \in Seq(Kinds)
  BY BacklogTyped, ShortSequences
<1>2. /\ Append(q.queued, e) = q.queued \o <<e>>
      /\ Append(Backlog(q), e) = Backlog(q) \o <<e>>
  BY <1>1, AppendIsConcat
<1> DEFINE S == Seq(Kinds)
<1>3. \A s, t, u \in S : (s \o t) \o u = s \o (t \o u)
  BY ConcatAssociative
<1> HIDE DEF S
<1>4. q.handed \in S /\ q.queued \in S /\ <<e>> \in S
  BY <1>1 DEF S
<1>5. (q.handed \o q.queued) \o <<e>> = q.handed \o (q.queued \o <<e>>)
  BY <1>3, <1>4, Zenon
<1> QED  BY <1>2, <1>5 DEF Backlog

(* A push into an open queue puts the event in, or, over the limit, the    *)
(* failure, which closes it.                                               *)
LEMMA PushedBacklog ==
    ASSUME NEW q, QueueOK(q), ~q.closed, NEW e \in Kinds
    PROVE  /\ Pushed(q, e).reader # "ended" /\ q.reader # "ended"
           /\ \/ /\ Len(Backlog(q)) <= MaxBacklog
                 /\ Backlog(Pushed(q, e)) = Append(Backlog(q), e)
                 /\ ~Pushed(q, e).closed
              \/ /\ Len(Backlog(q)) >= MaxBacklog
                 /\ Backlog(Pushed(q, e)) = Append(Backlog(q), Failure)
                 /\ Pushed(q, e).closed
<1>1. /\ q.reader # "ended"
      /\ Len(Backlog(q)) = Len(q.handed) + Len(q.queued)
      /\ Len(q.queued) \in Nat /\ Len(q.handed) \in Nat
  <2>1. q.reader # "ended"
    BY DEF QueueOK
  <2>2. q.queued \in Seq(Kinds) /\ q.handed \in Seq(Kinds)
        /\ Len(Backlog(q)) = Len(q.handed) + Len(q.queued)
    BY BacklogTyped
  <2> QED  BY <2>1, <2>2
<1>2. Len(q.handed) <= 1
  <2>1. CASE q.handed = <<>>
    BY <2>1
  <2>2. ASSUME NEW x, q.handed = <<x>> PROVE Len(q.handed) <= 1
    BY <2>2
  <2> QED  BY <2>1, <2>2 DEF QueueOK
<1>3. CASE q.reader = "waiting"
  <2>1. Pushed(q, e) = [q EXCEPT !.reader = "handed", !.handed = <<e>>]
    BY <1>3 DEF Pushed
  <2>2. q.queued = <<>> /\ q.handed = <<>>
    BY <1>3 DEF QueueOK
  <2>4. <<e>> \o <<>> = <<e>> /\ <<>> \o <<>> = <<>> /\ Append(<<>>, e) = <<e>> /\ Len(<<>>) = 0
    OBVIOUS
  <2>3. Backlog(Pushed(q, e)) = <<e>> /\ Backlog(q) = <<>>
    <3>1. Pushed(q, e).handed = <<e>> /\ Pushed(q, e).queued = <<>>
      BY <2>1, <2>2 DEF QueueOK, Queues
    <3> QED  BY <2>2, <2>4, <3>1 DEF Backlog
  <2>5. ~Pushed(q, e).closed /\ Pushed(q, e).reader = "handed"
    BY <2>1 DEF QueueOK, Queues
  <2>6. Len(Backlog(q)) <= MaxBacklog
    BY <2>3, <2>4, QueueAssumption
  <2>7. Pushed(q, e).reader # "ended"
    BY <2>5
  <2> QED  BY <1>1, <2>3, <2>4, <2>5, <2>6, <2>7, Zenon
<1>4. CASE q.reader # "waiting" /\ Len(q.queued) < MaxBacklog
  <2>1. ~Overflows(q)
    BY <1>1, <1>4, QueueAssumption DEF Overflows
  <2>2. Pushed(q, e) = [q EXCEPT !.queued = Append(q.queued, e)]
    BY <1>4, <2>1 DEF Pushed
  <2>3. /\ Pushed(q, e).handed = q.handed /\ Pushed(q, e).queued = Append(q.queued, e)
        /\ Pushed(q, e).closed = q.closed /\ Pushed(q, e).reader = q.reader
    BY <2>2 DEF QueueOK, Queues
  <2>4. Backlog(Pushed(q, e)) = Append(Backlog(q), e)
    BY <2>3, AppendedBacklog DEF Backlog
  <2>5. Len(Backlog(q)) <= MaxBacklog
    <3>1. \A n, m, b : n \in Nat /\ m \in Nat /\ n <= 1 /\ m < MaxBacklog /\ b = n + m => b <= MaxBacklog
      BY QueueAssumption
    <3> QED  BY <1>1, <1>2, <1>4, <3>1, Zenon
  <2> QED  BY <1>1, <2>3, <2>4, <2>5, Zenon
<1>5. CASE q.reader # "waiting" /\ Len(q.queued) >= MaxBacklog
  <2>1. Overflows(q)
    BY <1>5 DEF Overflows
  <2>2. Pushed(q, e) = [q EXCEPT !.queued = Append(q.queued, Failure), !.closed = TRUE]
    BY <1>5, <2>1 DEF Pushed, Closed, QueueOK, Queues
  <2>3. /\ Pushed(q, e).handed = q.handed /\ Pushed(q, e).queued = Append(q.queued, Failure)
        /\ Pushed(q, e).closed /\ Pushed(q, e).reader = q.reader
    BY <2>2 DEF QueueOK, Queues
  <2>4. Backlog(Pushed(q, e)) = Append(Backlog(q), Failure)
    BY <2>3, AppendedBacklog, QueueAssumption DEF Backlog
  <2>5. Len(Backlog(q)) >= MaxBacklog
    <3>1. \A n, m, b : n \in Nat /\ m \in Nat /\ m >= MaxBacklog /\ b = n + m => b >= MaxBacklog
      BY QueueAssumption
    <3> QED  BY <1>1, <1>5, <3>1, Zenon
  <2> QED  BY <1>1, <2>3, <2>4, <2>5, Zenon
<1>6. Len(q.queued) < MaxBacklog \/ Len(q.queued) >= MaxBacklog
  BY <1>1, QueueAssumption
<1> QED  BY <1>3, <1>4, <1>5, <1>6, Zenon

(* The reader takes the oldest event.                                      *)
LEMMA TakenBacklog ==
    ASSUME NEW q, QueueOK(q), MayTake(q)
    PROVE  /\ Backlog(q) # <<>> /\ Oldest(q) = Head(Backlog(q))
           /\ Backlog(Taken(q)) = Tail(Backlog(q))
           /\ Taken(q).reader = "idle" /\ q.reader # "ended"
           /\ Taken(q).closed = q.closed
<1>1. Taken(q).reader = "idle" /\ q.reader # "ended" /\ Taken(q).closed = q.closed
  BY TakenOK DEF MayTake
<1>2. q.queued \in Seq(Kinds)
  BY DEF QueueOK, Queues
<1>3. CASE q.reader = "handed"
  <2>1. PICK e \in Kinds : q.handed = <<e>>
    BY <1>3 DEF QueueOK
  <2>2. Taken(q) = [q EXCEPT !.reader = "idle", !.handed = <<>>] /\ Oldest(q) = e
    BY <1>3, <2>1 DEF Taken, Oldest
  <2>3. Backlog(Taken(q)) = <<>> \o q.queued /\ Backlog(q) = <<e>> \o q.queued
    BY <2>1, <2>2 DEF Backlog, QueueOK, Queues
  <2>4. <<>> \o q.queued = q.queued
    BY <1>2, ConcatEmptySeq
  <2>5. <<e>> \o q.queued # <<>> /\ Head(<<e>> \o q.queued) = e /\ Tail(<<e>> \o q.queued) = q.queued
    BY <1>2
  <2> QED  BY <1>1, <2>2, <2>3, <2>4, <2>5
<1>4. CASE q.reader # "handed"
  <2>1. q.handed = <<>> /\ q.queued # <<>> /\ q.reader = "idle"
    BY <1>4 DEF QueueOK, MayTake
  <2>2. Taken(q) = [q EXCEPT !.queued = Tail(@)] /\ Oldest(q) = Head(q.queued)
    BY <1>4 DEF Taken, Oldest
  <2>3. Backlog(q) = <<>> \o q.queued /\ Backlog(Taken(q)) = <<>> \o Tail(q.queued)
    BY <2>1, <2>2 DEF Backlog, QueueOK, Queues
  <2>4. Tail(q.queued) \in Seq(Kinds)
    BY <1>2, <2>1, HeadTailProperties
  <2>5. <<>> \o q.queued = q.queued /\ <<>> \o Tail(q.queued) = Tail(q.queued)
    BY <1>2, <2>4, ConcatEmptySeq
  <2> QED  BY <1>1, <2>1, <2>2, <2>3, <2>5
<1> QED  BY <1>3, <1>4

(* The queue begins as an empty channel.                                   *)
LEMMA ChannelInit == Init => Channel!Init
<1>1. <<>> \o <<>> = <<>>
  OBVIOUS
<1> QED  BY <1>1 DEF Init, StreamInit, Empty, Backlog, Channel!Init

(* Every step of a turn is a step of the channel, or none.                 *)
LEMMA QueueStep ==
    ASSUME QueueOK(queue),
           \/ UNCHANGED <<queue, given>>
           \/ queue' = Closed(queue) /\ given' = given
           \/ \E e \in Kinds : queue' = Pushed(queue, e) /\ given' = given
           \/ \E e \in Kinds : queue' = Closed(Pushed(queue, e)) /\ given' = given
           \/ MayTake(queue) /\ queue' = Taken(queue) /\ given' = <<Oldest(queue)>>
           \/ MayTake(queue) /\ queue' = Closed(Taken(queue)) /\ given' = <<Oldest(queue)>>
           \/ EndReached /\ queue' = Ended(queue) /\ given' = given
           \/ MayWait(queue) /\ queue' = Awaiting(queue) /\ given' = given
    PROVE  [Channel!Next]_(Channel!channelVars)
<1> USE DEF Channel!Next, Channel!channelVars
<1>1. CASE UNCHANGED <<queue, given>>
  BY <1>1 DEF Backlog
<1>2. CASE queue' = Closed(queue) /\ given' = given
  <2>1. /\ Backlog(queue') = Backlog(queue) /\ queue'.closed
        /\ (queue'.reader = "ended") \in {queue.reader = "ended", Backlog(queue) = <<>>}
    BY <1>2, ClosedOK, ClosedBacklog
  <2> QED  BY <1>2, <2>1 DEF Channel!Close
<1>3. ASSUME NEW e \in Kinds, queue' = Pushed(queue, e), given' = given
      PROVE  [Channel!Next]_(Channel!channelVars)
  <2>1. CASE queue.closed
    <3>1. queue' = queue
      BY <1>3, <2>1 DEF Pushed
    <3> QED  BY <1>1, <1>3, <3>1
  <2>2. CASE ~queue.closed
    <3>1. /\ queue'.reader # "ended" /\ queue.reader # "ended"
          /\ \/ /\ Len(Backlog(queue)) <= MaxBacklog
                /\ Backlog(queue') = Append(Backlog(queue), e)
                /\ ~queue'.closed
             \/ /\ Len(Backlog(queue)) >= MaxBacklog
                /\ Backlog(queue') = Append(Backlog(queue), Failure)
                /\ queue'.closed
      BY <1>3, <2>2, PushedBacklog
    <3> QED  BY <1>3, <2>2, <3>1, Zenon DEF Channel!Put, Channel!Overflow, Channel!MayClose
  <2> QED  BY <2>1, <2>2
<1>4. ASSUME NEW e \in Kinds, queue' = Closed(Pushed(queue, e)), given' = given
      PROVE  [Channel!Next]_(Channel!channelVars)
  <2> DEFINE p == Pushed(queue, e)
  <2>1. CASE queue.closed
    <3>1. queue' = Closed(queue)
      BY <1>4, <2>1 DEF Pushed
    <3> QED  BY <1>2, <1>4, <3>1
  <2>2. CASE ~queue.closed
    <3>1. QueueOK(p)
      BY PushedOK
    <3>2. /\ p.reader # "ended" /\ queue.reader # "ended"
          /\ \/ /\ Len(Backlog(queue)) <= MaxBacklog
                /\ Backlog(p) = Append(Backlog(queue), e)
             \/ /\ Len(Backlog(queue)) >= MaxBacklog
                /\ Backlog(p) = Append(Backlog(queue), Failure)
      BY <2>2, PushedBacklog
    <3>3. queue' = Closed(p)
      BY <1>4
    <3> HIDE DEF p
    <3>4. Backlog(queue') = Backlog(p) /\ queue'.closed
      BY <3>1, <3>3, ClosedOK, ClosedBacklog
    <3>5. queue'.reader # "ended"
      <4>1. Backlog(p) # <<>>
        <5>1. Backlog(queue) \in Seq(Kinds) /\ Failure \in Kinds
          BY BacklogTyped, QueueAssumption
        <5>2. \A s \in Seq(Kinds), x \in Kinds : Append(s, x) # <<>>
          OBVIOUS
        <5> QED  BY <3>2, <5>1, <5>2, Zenon
      <4> QED  BY <3>1, <3>2, <3>3, <4>1, ClosedBacklog
    <3> QED  BY <1>4, <2>2, <3>2, <3>4, <3>5, Zenon
             DEF Channel!Put, Channel!Overflow, Channel!MayClose
  <2> QED  BY <2>1, <2>2
<1>5. CASE MayTake(queue) /\ queue' = Taken(queue) /\ given' = <<Oldest(queue)>>
  <2>1. /\ Backlog(queue) # <<>> /\ Oldest(queue) = Head(Backlog(queue))
        /\ Backlog(queue') = Tail(Backlog(queue))
        /\ queue'.reader # "ended" /\ queue.reader # "ended" /\ queue'.closed = queue.closed
    BY <1>5, TakenBacklog
  <2> QED  BY <1>5, <2>1, Zenon DEF Channel!Take, Channel!MayClose
<1>6. CASE MayTake(queue) /\ queue' = Closed(Taken(queue)) /\ given' = <<Oldest(queue)>>
  <2> DEFINE p == Taken(queue)
  <2>1. /\ Backlog(queue) # <<>> /\ Oldest(queue) = Head(Backlog(queue))
        /\ Backlog(p) = Tail(Backlog(queue))
        /\ p.reader = "idle" /\ queue.reader # "ended" /\ QueueOK(p)
    BY <1>6, TakenBacklog, TakenOK
  <2> HIDE DEF p
  <2>2. queue' = Closed(p)
    BY <1>6 DEF p
  <2>3. Backlog(queue') = Backlog(p) /\ queue'.closed
    BY <2>1, <2>2, ClosedOK, ClosedBacklog
  <2>4. queue'.reader # "ended"
    BY <2>1, <2>2 DEF Closed, QueueOK, Queues
  <2> QED  BY <1>6, <2>1, <2>3, <2>4, Zenon DEF Channel!Take, Channel!MayClose
<1>7. CASE EndReached /\ queue' = Ended(queue) /\ given' = given
  <2>1. /\ queue'.handed = queue.handed /\ queue'.queued = queue.queued
        /\ queue'.reader = "ended" /\ queue'.closed /\ queue.closed
        /\ queue.queued = <<>> /\ queue.handed = <<>>
    BY <1>7 DEF EndReached, MayEnd, Ended, QueueOK, Queues
  <2>2. <<>> \o <<>> = <<>>
    OBVIOUS
  <2>3. Backlog(queue') = Backlog(queue) /\ Backlog(queue) = <<>>
    BY <2>1, <2>2 DEF Backlog
  <2> QED  BY <1>7, <2>1, <2>3, Zenon DEF Channel!Close
<1>8. CASE MayWait(queue) /\ queue' = Awaiting(queue) /\ given' = given
  <2>1. /\ queue'.handed = queue.handed /\ queue'.queued = queue.queued
        /\ queue'.reader = "waiting" /\ queue.reader = "idle" /\ queue'.closed = queue.closed
    BY <1>8 DEF MayWait, Awaiting, QueueOK, Queues
  <2> QED  BY <1>8, <2>1 DEF Backlog
<1> QED  BY <1>1, <1>2, <1>3, <1>4, <1>5, <1>6, <1>7, <1>8

(* What a step of the system does to the queue.                            *)
LEMMA StepOfQueue ==
    ASSUME Inv, [Next]_vars
    PROVE  \/ UNCHANGED <<queue, given>>
           \/ queue' = Closed(queue) /\ given' = given
           \/ \E e \in Kinds : queue' = Pushed(queue, e) /\ given' = given
           \/ \E e \in Kinds : queue' = Closed(Pushed(queue, e)) /\ given' = given
           \/ MayTake(queue) /\ queue' = Taken(queue) /\ given' = <<Oldest(queue)>>
           \/ MayTake(queue) /\ queue' = Closed(Taken(queue)) /\ given' = <<Oldest(queue)>>
           \/ EndReached /\ queue' = Ended(queue) /\ given' = given
           \/ MayWait(queue) /\ queue' = Awaiting(queue) /\ given' = given
<1>1. UNCHANGED <<queue, given>> \/ (BridgedStep /\ StreamNext)
  BY DEF Next, vars, streamVars, procVars, ArriveBridged, ArriveRelayed, RelayedStep, PersistTimer,
         DrainBegins, DeadlinePasses, DrainEnds, Exit, SecondSignal, BridgedStep
<1>2. CASE StreamNext
  BY <1>2, QueueAssumption
  DEF StreamNext, BeginTurn, AdapterPushes, AdapterReturns, AdapterThrows, Wait, PreflightTakes,
      PreflightEmpty, Pull, StepReplayed, StepTakes, StepEnds, Stall, StepResumesLate, MayTake,
      StreamClientLeaves, CancelBody, CancelStream, ClientReadsEnd, SocketTurnEnds, After
<1> QED  BY <1>1, <1>2

(* The event queue implements the bounded channel, for any limit and any   *)
(* kinds of events, whatever happens around it.                            *)
THEOREM QueueIsChannel == Spec => ChannelRefined
<1>1. Inv /\ [Next]_vars => [Channel!Next]_(Channel!channelVars)
  <2> SUFFICES ASSUME Inv, [Next]_vars PROVE [Channel!Next]_(Channel!channelVars)
    OBVIOUS
  <2>1. QueueOK(queue)
    BY DEF Inv
  <2> QED  BY <2>1, StepOfQueue, QueueStep
<1> QED  BY <1>1, ChannelInit, Invariance, PTL DEF Spec, ChannelRefined, Channel!Spec

===============================================================================
