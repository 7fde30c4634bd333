------------------------------- MODULE KeyPool -------------------------------
(***************************************************************************)
(* The API keys of one provider: config.providers[name].apiKeyPool and the *)
(* active apiKey, with the rotation of src/providers/key-failover.ts and   *)
(* the changes of src/providers/api-keys.ts that the management API makes. *)
(* Every function here runs without an await, so each is one step.         *)
(***************************************************************************)
EXTENDS Cooldowns, Sequences

CONSTANTS
    Keys,       \* the keys the provider may have
    NoKey,      \* no key
    FirstPool,  \* the pool at the start, its first key active
    Managed     \* bound: the keys the operator adds, removes and makes active

ASSUME KeyPoolAssumption ==
    /\ NoKey \notin Keys
    /\ FirstPool \in Seq(Keys) /\ Len(FirstPool) >= 1
    /\ \A i, j \in 1 .. Len(FirstPool) : FirstPool[i] = FirstPool[j] => i = j
    /\ Managed \subseteq Keys

VARIABLES
    pool,       \* apiKeyPool, in order
    liveKey,    \* apiKey: the key a new request is sent with
    keyCooling  \* keyCooldowns

poolVars == <<pool, liveKey, keyCooling>>

Pooled == {pool[i] : i \in 1 .. Len(pool)}
Position(k) == IF k \in Pooled THEN CHOOSE i \in 1 .. Len(pool) : pool[i] = k ELSE 0

PoolTypeOK ==
    /\ pool \in Seq(Keys) /\ Len(pool) >= 1
    /\ \A i, j \in 1 .. Len(pool) : pool[i] = pool[j] => i = j
    /\ liveKey \in Keys
    /\ keyCooling \in Tables(Keys)

PoolInit ==
    /\ pool = FirstPool
    /\ liveKey = FirstPool[1]
    /\ keyCooling = [k \in Keys |-> 0]

------------------------------------------------------------------------------
(* rotateKeyOn429(attempted, header).  The key that was refused is cooled, *)
(* if the pool still has it.  When another request has already rotated     *)
(* away from it and the live key is free, that key is taken as it is.      *)
(* Otherwise the pool is scanned from the refused key on; a key that is    *)
(* not in the pool any more has index -1 in the code, 0 here.              *)
(* Mutants: the key that is live now is cooled; none is.                   *)
CoolsLiveKey(attempted, header) == Cooled(keyCooling, liveKey, header)
CoolsNothing(attempted, header) == keyCooling

CoolingAfter(attempted, header) ==
    IF attempted \in Pooled THEN Cooled(keyCooling, attempted, header) ELSE keyCooling

(* Mutant: every 429 rotates.                                              *)
NoRaceTest(attempted, cooling) == FALSE

LostRace(attempted, cooling) ==
    /\ liveKey # attempted
    /\ liveKey \in Pooled
    /\ cooling[liveKey] = 0

Candidate(attempted, i) == pool[((Position(attempted) + i - 1) % Len(pool)) + 1]

(* Mutant: the scan is one short.                                          *)
OffsetsOneShort(attempted, cooling) ==
    {i \in 1 .. Len(pool) - 2 : cooling[Candidate(attempted, i)] = 0}

FreeOffsets(attempted, cooling) ==
    {i \in 1 .. Len(pool) - 1 : cooling[Candidate(attempted, i)] = 0}

NextKey(attempted, cooling) ==
    LET free == FreeOffsets(attempted, cooling)
    IN  IF free = {} THEN NoKey
        ELSE Candidate(attempted, CHOOSE i \in free : \A j \in free : i <= j)

(* The key the request goes on with, or NoKey: the 429 is returned.        *)
Rotation(attempted, header) ==
    LET cooling == CoolingAfter(attempted, header)
    IN  IF Len(pool) < 2 THEN NoKey
        ELSE IF LostRace(attempted, cooling) THEN liveKey
        ELSE NextKey(attempted, cooling)

RotateKeyOn429(attempted, header) ==
    LET next == Rotation(attempted, header)
    IN  /\ keyCooling' = IF Len(pool) < 2 THEN keyCooling ELSE CoolingAfter(attempted, header)
        /\ liveKey' = IF next = NoKey THEN liveKey ELSE next
        /\ UNCHANGED pool

------------------------------------------------------------------------------
(* The management API.  The handlers for keys clear the cooldowns, the one *)
(* that overwrites the provider with a new apiKey does not.                *)
AddToPool(k) ==
    /\ pool' = IF k \in Pooled THEN pool ELSE Append(pool, k)
    /\ liveKey' = k

OverwriteProvider(k) == AddToPool(k) /\ UNCHANGED keyCooling

AddProviderApiKey(k) == AddToPool(k) /\ keyCooling' = Cleared(keyCooling)

SetActiveProviderApiKey(k) ==
    /\ k \in Pooled
    /\ liveKey' = k
    /\ keyCooling' = Cleared(keyCooling)
    /\ UNCHANGED pool

(* A provider without any key left is outside the model.                   *)
RemoveProviderApiKey(k) ==
    /\ k \in Pooled
    /\ Len(pool) > 1
    /\ pool' = [i \in 1 .. Len(pool) - 1 |-> IF i < Position(k) THEN pool[i] ELSE pool[i + 1]]
    /\ liveKey' = IF liveKey = k THEN pool'[1] ELSE liveKey
    /\ keyCooling' = Cleared(keyCooling)

ManageKeys ==
    \E k \in Managed :
        \/ OverwriteProvider(k)
        \/ AddProviderApiKey(k)
        \/ SetActiveProviderApiKey(k)
        \/ RemoveProviderApiKey(k)
==============================================================================
