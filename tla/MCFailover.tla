------------------------------ MODULE MCFailover ------------------------------
(* An instance of Failover for TLC: a combo of a member with a key pool    *)
(* and one without, of equal weight.                                       *)
EXTENDS Failover, TLC

CONSTANTS k1, k2, k3, m1, m2, r1, r2

ThreeKeys == <<k1, k2, k3>>
TwoTargets == <<m1, m2>>
Equal == m1 :> 1 @@ m2 :> 1
AnyOrSecond == {{m1, m2}, {m2}}
===============================================================================
