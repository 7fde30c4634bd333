------------------------------ MODULE Cooldowns ------------------------------
(***************************************************************************)
(* The cooldown tables of src/providers/key-failover.ts (per API key) and  *)
(* src/combos/failover.ts (per combo member), which are the same code      *)
(* twice.  The code stores the instant at which a cooldown ends and drops  *)
(* the entry when it is next looked at; a table here holds the time that   *)
(* is left, 0 for no entry, and Aged is the passing of one unit.           *)
(***************************************************************************)
EXTENDS Integers

CONSTANTS
    DefaultCooldown,    \* DEFAULT_COOLDOWN_MS: no usable Retry-After
    MaxCooldown,        \* MAX_COOLDOWN_MS caps what the upstream asks for
    RetryAfters         \* the values a Retry-After header may have

NoHeader == 0           \* absent, unparsable or not in the future

ASSUME CooldownsAssumption ==
    /\ MaxCooldown \in Nat \ {0}
    /\ DefaultCooldown \in 1 .. MaxCooldown
    /\ RetryAfters \subseteq Nat

CooldownFor(header) ==
    IF header = NoHeader THEN DefaultCooldown
    ELSE IF header > MaxCooldown THEN MaxCooldown ELSE header

Tables(S) == [S -> 0 .. MaxCooldown]
Cooled(cooling, x, header) == [cooling EXCEPT ![x] = CooldownFor(header)]
Aged(cooling) ==
    [x \in DOMAIN cooling |-> IF cooling[x] = 0 THEN 0 ELSE cooling[x] - 1]
Cleared(cooling) == [x \in DOMAIN cooling |-> 0]
==============================================================================
