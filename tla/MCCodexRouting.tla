---------------------------- MODULE MCCodexRouting ----------------------------
(* Instances of CodexRouting for TLC.                                      *)
EXTENDS CodexRouting, TLC

CONSTANTS a1, a2, t1, t2, r1, r2

OneFirst == a1 :> 1 @@ a2 :> 0      \* a1 is configured, a2 may log in
OnlyOne == a1 :> 1
BothIn == a1 :> 1 @@ a2 :> 2
Ladder == <<1, 2>>
OneStep == <<1>>

SameRequests == Permutations(Requests)
SameThreadsAndRequests == Permutations(Threads) \cup Permutations(Requests)
=============================================================================
