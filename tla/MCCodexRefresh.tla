---------------------------- MODULE MCCodexRefresh ----------------------------
(* Instances of CodexRefresh for TLC: which process makes which calls.     *)
EXTENDS CodexRefresh, TLC

CONSTANTS c1, c2, c3, p1, p2

OneProcess == [c \in Calls |-> p1]
TwoProcesses == [c \in Calls |-> IF c = c3 THEN p2 ELSE p1]

(* The calls of one process are interchangeable.                           *)
Interchangeable == Permutations(Calls)

=============================================================================
