---------------------------- MODULE ComboSelection ----------------------------
(***************************************************************************)
(* A combo, a model name that stands for several provider/model members:   *)
(* src/combos/resolve.ts, which chooses the member of a request, and       *)
(* src/combos/failover.ts, which keeps failed members out of the choice.   *)
(* With the strategy "round-robin" a member stays active until it has had  *)
(* StickyLimit successes or a failure; the next one is chosen by smooth    *)
(* weighted round-robin.  With "failover" the first usable member is.      *)
(***************************************************************************)
EXTENDS Cooldowns, Sequences, FiniteSetsExt

CONSTANTS
    Targets,        \* combo.targets: the members, in order
    Weight,         \* the weight of each member
    StickyLimit,    \* combo.stickyLimit
    RoundRobin,     \* combo.strategy is "round-robin"
    NoMember        \* no member

Members == {Targets[i] : i \in DOMAIN Targets}

ASSUME ComboAssumption ==
    /\ Targets \in Seq(Members) /\ Len(Targets) \in Nat \ {0}
    /\ \A i, j \in DOMAIN Targets : Targets[i] = Targets[j] => i = j
    /\ Weight \in [Members -> Nat \ {0}]
    /\ StickyLimit \in Nat \ {0}
    /\ RoundRobin \in BOOLEAN
    /\ NoMember \notin Members

VARIABLES
    selection,      \* SelectionState: activeKey, successes, currentWeights
    memberCooling   \* targetCooldowns

comboVars == <<selection, memberCooling>>

Fresh == [active |-> NoMember, successes |-> 0, weights |-> [m \in Members |-> 0]]
Dropped(sel) == [sel EXCEPT !.active = NoMember, !.successes = 0]

SelectionTypeOK ==
    /\ selection.active \in Members \cup {NoMember}
    /\ selection.successes \in 0 .. StickyLimit - 1
    /\ selection.weights \in [Members -> Int]
    /\ memberCooling \in Tables(Members)

------------------------------------------------------------------------------
FirstOf(S) ==
    LET at == {i \in DOMAIN Targets : Targets[i] \in S}
    IN  IF at = {} THEN NoMember
        ELSE Targets[CHOOSE i \in at : \A j \in at : i <= j]

(* smoothWeightedIndex over the eligible members.                          *)
Scores(sel, eligible) ==
    [m \in Members |-> IF m \in eligible THEN sel.weights[m] + Weight[m] ELSE sel.weights[m]]

Leading(sel, eligible) ==
    LET scores == Scores(sel, eligible)
    IN  {m \in eligible : \A n \in eligible : scores[n] <= scores[m]}

SmoothWeighted(sel, eligible) ==
    LET best == FirstOf(Leading(sel, eligible))
        total == MapThenSumSet(LAMBDA m : Weight[m], eligible)
    IN  IF eligible = {} THEN Dropped(sel)
        ELSE [active |-> best, successes |-> 0,
              weights |-> [Scores(sel, eligible) EXCEPT ![best] = @ - total]]

(* pickComboTarget: the selection after the pick, and the picked member.   *)
PickSelection(sel, eligible) ==
    IF ~RoundRobin \/ sel.active \in eligible THEN sel ELSE SmoothWeighted(sel, eligible)

PickComboTarget(sel, eligible) ==
    IF RoundRobin THEN PickSelection(sel, eligible).active ELSE FirstOf(eligible)

(* noteComboSuccess and noteComboFailure.  Mutants: the count is not reset *)
(* with the last success; a failure of any member ends the turn.           *)
SuccessCountsOn(sel, m) ==
    IF ~RoundRobin \/ sel.active # m THEN sel ELSE [sel EXCEPT !.successes = @ + 1]
AnyFailureDrops(sel, m) == Dropped(sel)

NoteSuccess(sel, m) ==
    IF ~RoundRobin \/ sel.active # m THEN sel
    ELSE IF sel.successes + 1 >= StickyLimit THEN Dropped(sel)
    ELSE [sel EXCEPT !.successes = @ + 1]

NoteFailure(sel, m) == IF sel.active = m THEN Dropped(sel) ELSE sel

(* isComboTargetInCooldown, for all members.                               *)
NotCooling(cooling) == {m \in Members : cooling[m] = 0}

(* Saving or deleting the combo clears both tables.                        *)
PutCombo == selection' = Fresh /\ memberCooling' = Cleared(memberCooling)
==============================================================================
