---------------------------- MODULE BoundedChannel ----------------------------
(***************************************************************************)
(* What the event queue between an adapter and its consumer promises: the  *)
(* events come out once, in the order in which they went in, those that    *)
(* were in before the end come out before it; the backlog is bounded, and  *)
(* the event that says so is the last one.                                 *)
(***************************************************************************)
EXTENDS Naturals, Sequences

CONSTANTS
    Kinds,      \* what may be put in
    Overrun,    \* the event that stands for what did not fit
    Bound       \* the backlog that is never refused

VARIABLES
    pending,    \* what is in the channel, the oldest first
    open,       \* whether more may be put in
    given,      \* the last event that came out
    ended       \* whether the reader has been told that nothing will follow

channelVars == <<pending, open, given, ended>>

Init ==
    /\ pending = <<>>
    /\ open = TRUE
    /\ given = <<>>
    /\ ended = FALSE

MayClose == open' \in {open, FALSE}

(* Who puts something in, or takes something out, may close the channel in *)
(* the same step.                                                          *)
Put ==
    /\ open /\ Len(pending) <= Bound
    /\ \E e \in Kinds : pending' = Append(pending, e)
    /\ MayClose
    /\ UNCHANGED <<given, ended>>

Overflow ==
    /\ open /\ Len(pending) >= Bound
    /\ pending' = Append(pending, Overrun)
    /\ open' = FALSE
    /\ UNCHANGED <<given, ended>>

Take ==
    /\ pending # <<>> /\ ~ended
    /\ given' = <<Head(pending)>>
    /\ pending' = Tail(pending)
    /\ MayClose
    /\ UNCHANGED ended

Close ==
    /\ open' = FALSE
    /\ ended' \in {ended, pending = <<>>}
    /\ UNCHANGED <<pending, given>>

Next == Put \/ Overflow \/ Take \/ Close

Spec == Init /\ [][Next]_channelVars
===============================================================================
