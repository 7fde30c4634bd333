---------------------------- MODULE FailoverProofs ----------------------------
(***************************************************************************)
(* Proofs about Failover, for every set of keys, of combo members and of   *)
(* requests, every weight and every duration.                              *)
(***************************************************************************)
EXTENDS Failover, FiniteSetTheorems, WellFoundedInduction, TLAPS

------------------------------------------------------------------------------
(***************************************************************************)
(* The choice of an index.                                                 *)
(***************************************************************************)

(* Every non-empty set of numbers has a least one.                         *)
LEMMA LeastExists ==
    ASSUME NEW S, S \subseteq Nat, S # {}
    PROVE  \E n \in S : \A m \in S : n <= m
<1> DEFINE R == OpToRel(<, Nat)
<1>1. IsWellFoundedOn(R, Nat)
  BY NatLessThanWellFounded
<1>2. PICK n \in S : \A m \in S : <<m, n>> \notin R
  <2> HIDE DEF R
  <2> QED  BY <1>1, WFMin
<1>3. \A m \in S : ~ (m < n)
  BY <1>2 DEF OpToRel
<1> QED  BY <1>3

(* The least element that a scan chooses is one of those it scans.         *)
LEMMA LeastIsChosen ==
    ASSUME NEW S, S \subseteq Nat, S # {}
    PROVE  (CHOOSE i \in S : \A j \in S : i <= j) \in S
  BY LeastExists

(* The scan goes through the pool round its end.                           *)
LEMMA ModOfSum ==
    ASSUME NEW n \in Nat \ {0}, NEW x \in 0 .. n - 1
    PROVE  x % n = x /\ (x + n) % n = x
  OBVIOUS

------------------------------------------------------------------------------
(***************************************************************************)
(* Sums over a set.  MapThenSumSet takes the elements one by one, as       *)
(* CHOOSE finds them; the lemmas say that it is the sum, in any order.     *)
(***************************************************************************)
Picked(s) == CHOOSE x \in s : TRUE
(* g is a table of the sums of the sets in D.                              *)
Adds(g, D, W) ==
    g = [s \in D |-> IF s = {} THEN 0 ELSE W[Picked(s)] + g[s \ {Picked(s)}]]
(* The subsets of S with n elements at most.                               *)
Small(S, n) == {s \in SUBSET S : Cardinality(s) <= n}
(* The sum of W over S.                                                    *)
Sum(W, S) == MapThenSumSet(LAMBDA x : W[x], S)

(* What the sum picks from a finite set leaves a smaller one.              *)
LEMMA PickedFacts ==
    ASSUME NEW s, IsFiniteSet(s), s # {}
    PROVE  /\ Picked(s) \in s
           /\ IsFiniteSet(s \ {Picked(s)})
           /\ Cardinality(s) \in Nat \ {0}
           /\ Cardinality(s \ {Picked(s)}) = Cardinality(s) - 1
<1>1. Picked(s) \in s
  BY DEF Picked
<1> QED  BY <1>1, FS_RemoveElement, FS_CardinalityType, FS_EmptySet

(* The table of the sums of all small sets exists.                         *)
LEMMA SumsOfSmall ==
    ASSUME NEW W, NEW S, IsFiniteSet(S), NEW n \in Nat
    PROVE  \E g : Adds(g, Small(S, n), W)
<1> DEFINE bad == {k \in Nat : ~ \E g : Adds(g, Small(S, k), W)}
<1> SUFFICES ASSUME bad # {} PROVE FALSE
  OBVIOUS
<1>1. PICK k \in bad : \A j \in bad : k <= j
  <2> bad \subseteq Nat
    OBVIOUS
  <2> HIDE DEF bad
  <2> QED  BY LeastExists
<1>2. k \in Nat /\ \A g : ~ Adds(g, Small(S, k), W)
  OBVIOUS
<1>3. \A s \in SUBSET S : IsFiniteSet(s) /\ Cardinality(s) \in Nat
  BY FS_Subset, FS_CardinalityType
<1>4. CASE k = 0
  <2> DEFINE g == [s \in Small(S, 0) |-> 0]
  <2>1. \A s \in Small(S, 0) : s = {}
    BY <1>3, FS_EmptySet DEF Small
  <2>2. g = [s \in Small(S, 0) |-> IF s = {} THEN 0 ELSE W[Picked(s)] + g[s \ {Picked(s)}]]
    BY <2>1
  <2> HIDE DEF g
  <2> QED  BY <1>2, <1>4, <2>2 DEF Adds
<1>5. CASE k # 0
  <2>1. k - 1 \in Nat /\ k - 1 \notin bad
    BY <1>1, <1>2, <1>5
  <2>2. PICK g : Adds(g, Small(S, k - 1), W)
    BY <2>1
  <2> DEFINE h == [s \in Small(S, k) |-> IF s = {} THEN 0 ELSE W[Picked(s)] + g[s \ {Picked(s)}]]
  <2>3. Small(S, k - 1) \subseteq Small(S, k)
    BY <1>2, <1>3 DEF Small
  <2>4. \A s \in Small(S, k - 1) :
          g[s] = IF s = {} THEN 0 ELSE W[Picked(s)] + g[s \ {Picked(s)}]
    BY <2>2 DEF Adds
  <2>5. \A s \in Small(S, k - 1) : h[s] = g[s]
    BY <2>3, <2>4
  <2>6. \A s \in Small(S, k) : s # {} => s \ {Picked(s)} \in Small(S, k - 1)
    BY <1>2, <1>3, PickedFacts DEF Small
  <2>7. h = [s \in Small(S, k) |-> IF s = {} THEN 0 ELSE W[Picked(s)] + h[s \ {Picked(s)}]]
    BY <2>5, <2>6
  <2> HIDE DEF h
  <2> QED  BY <1>2, <2>7 DEF Adds
<1> QED  BY <1>4, <1>5

(* The sum is the entry of such a table.                                   *)
LEMMA SumIsTabled ==
    ASSUME NEW W, NEW S, IsFiniteSet(S)
    PROVE  \E g : Adds(g, SUBSET S, W) /\ Sum(W, S) = g[S]
<1>1. Cardinality(S) \in Nat /\ Small(S, Cardinality(S)) = SUBSET S
  BY FS_Subset, FS_CardinalityType DEF Small
<1>2. \E g : Adds(g, Small(S, Cardinality(S)), W)
  BY <1>1, SumsOfSmall
<1>3. \E g : Adds(g, SUBSET S, W)
  BY <1>1, <1>2
<1>4. Sum(W, S) = (CHOOSE g : g = [s \in SUBSET S |->
          IF s = {} THEN 0 ELSE W[Picked(s)] + g[s \ {Picked(s)}]])[S]
  BY DEF Sum, MapThenSumSet, MapThenFoldSet, Picked
<1> QED  BY <1>3, <1>4 DEF Adds

(* A table of sums holds the sum of every set it has an entry for.         *)
LEMMA TableHoldsSums ==
    ASSUME NEW W, NEW S, IsFiniteSet(S), NEW g, Adds(g, SUBSET S, W), NEW T \in SUBSET S
    PROVE  g[T] = Sum(W, T)
<1>1. PICK h : Adds(h, SUBSET T, W) /\ Sum(W, T) = h[T]
  BY SumIsTabled, FS_Subset
<1>2. \A s \in SUBSET T : IsFiniteSet(s) /\ Cardinality(s) \in Nat
  BY FS_Subset, FS_CardinalityType
<1>3. \A s \in SUBSET T : g[s] = IF s = {} THEN 0 ELSE W[Picked(s)] + g[s \ {Picked(s)}]
  BY DEF Adds
<1>4. \A s \in SUBSET T : h[s] = IF s = {} THEN 0 ELSE W[Picked(s)] + h[s \ {Picked(s)}]
  BY <1>1 DEF Adds
<1> DEFINE bad == {Cardinality(s) : s \in {t \in SUBSET T : g[t] # h[t]}}
<1>5. bad = {}
  <2> SUFFICES ASSUME bad # {} PROVE FALSE
    OBVIOUS
  <2>1. PICK k \in bad : \A j \in bad : k <= j
    <3> bad \subseteq Nat
      BY <1>2
    <3> HIDE DEF bad
    <3> QED  BY LeastExists
  <2>2. PICK s \in SUBSET T : g[s] # h[s] /\ Cardinality(s) = k
    OBVIOUS
  <2>3. s # {}
    BY <1>3, <1>4, <2>2
  <2> DEFINE rest == s \ {Picked(s)}
  <2>4. Cardinality(rest) = k - 1 /\ k \in Nat /\ rest \in SUBSET T
    BY <1>2, <2>2, <2>3, PickedFacts
  <2>5. g[rest] # h[rest]
    BY <1>3, <1>4, <2>2, <2>3
  <2> QED  BY <2>1, <2>4, <2>5
<1> QED  BY <1>1, <1>5

(* The sum of a set: the picked element and the sum of the others.         *)
LEMMA SumUnfolds ==
    ASSUME NEW W, NEW S, IsFiniteSet(S)
    PROVE  Sum(W, S) = IF S = {} THEN 0 ELSE W[Picked(S)] + Sum(W, S \ {Picked(S)})
<1>1. PICK g : Adds(g, SUBSET S, W) /\ Sum(W, S) = g[S]
  BY SumIsTabled
<1>2. g[S] = IF S = {} THEN 0 ELSE W[Picked(S)] + g[S \ {Picked(S)}]
  BY <1>1 DEF Adds
<1>3. ASSUME NEW T \in SUBSET S PROVE g[T] = Sum(W, T)
  <2>1. Adds(g, SUBSET S, W)
    BY <1>1
  <2> QED  BY ONLY IsFiniteSet(S), T \in SUBSET S, <2>1, TableHoldsSums
<1>4. S \ {Picked(S)} \in SUBSET S
  OBVIOUS
<1> QED  BY <1>1, <1>2, <1>3, <1>4

(* A statement about finite sets that is false has a smallest counter-     *)
(* example.                                                                *)
LEMMA SmallestExists ==
    ASSUME NEW S, IsFiniteSet(S), NEW bad \in SUBSET SUBSET S, bad # {}
    PROVE  \E s \in bad :
              /\ IsFiniteSet(s) /\ Cardinality(s) \in Nat
              /\ \A t \in bad : Cardinality(s) <= Cardinality(t)
<1> DEFINE sizes == {Cardinality(s) : s \in bad}
<1>1. \A s \in bad : IsFiniteSet(s) /\ Cardinality(s) \in Nat
  BY FS_Subset, FS_CardinalityType
<1>2. PICK k \in sizes : \A j \in sizes : k <= j
  <2> sizes \subseteq Nat /\ sizes # {}
    BY <1>1
  <2> HIDE DEF sizes
  <2> QED  BY LeastExists
<1> QED  BY <1>1, <1>2

(* The sum of integers is one.                                             *)
LEMMA SumTyped ==
    ASSUME NEW W, NEW S, IsFiniteSet(S), \A x \in S : W[x] \in Int
    PROVE  \A s \in SUBSET S : Sum(W, s) \in Int
<1> DEFINE bad == {s \in SUBSET S : Sum(W, s) \notin Int}
<1> SUFFICES ASSUME bad # {} PROVE FALSE
  OBVIOUS
<1>1. PICK s \in bad : /\ IsFiniteSet(s) /\ Cardinality(s) \in Nat
                       /\ \A t \in bad : Cardinality(s) <= Cardinality(t)
  <2> bad \in SUBSET SUBSET S
    OBVIOUS
  <2> HIDE DEF bad
  <2> QED  BY SmallestExists
<1>2. s # {} /\ Sum(W, s) = W[Picked(s)] + Sum(W, s \ {Picked(s)})
  BY <1>1, SumUnfolds
<1>3. s \ {Picked(s)} \in SUBSET S /\ s \ {Picked(s)} \notin bad /\ W[Picked(s)] \in Int
  BY <1>1, <1>2, PickedFacts
<1> QED  BY <1>2, <1>3

(* Any element may be taken first.                                         *)
LEMMA SumRemoves ==
    ASSUME NEW W, NEW S, IsFiniteSet(S), \A x \in S : W[x] \in Int
    PROVE  \A s \in SUBSET S : \A x \in s : Sum(W, s) = W[x] + Sum(W, s \ {x})
<1> DEFINE bad == {s \in SUBSET S : \E x \in s : Sum(W, s) # W[x] + Sum(W, s \ {x})}
<1> SUFFICES ASSUME bad # {} PROVE FALSE
  OBVIOUS
<1>1. PICK s \in bad : /\ IsFiniteSet(s) /\ Cardinality(s) \in Nat
                       /\ \A t \in bad : Cardinality(s) <= Cardinality(t)
  <2> bad \in SUBSET SUBSET S
    OBVIOUS
  <2> HIDE DEF bad
  <2> QED  BY SmallestExists
<1>2. PICK x \in s : Sum(W, s) # W[x] + Sum(W, s \ {x})
  OBVIOUS
<1> DEFINE p == Picked(s)
<1>3. p \in s /\ Sum(W, s) = W[p] + Sum(W, s \ {p})
  BY <1>1, <1>2, SumUnfolds, PickedFacts
<1> HIDE DEF p
<1>4. x # p
  BY <1>2, <1>3
<1>5. /\ Cardinality(s \ {p}) = Cardinality(s) - 1 /\ s \ {p} \in SUBSET S
      /\ Cardinality(s \ {x}) = Cardinality(s) - 1 /\ s \ {x} \in SUBSET S
  BY <1>1, <1>3, FS_RemoveElement
<1>6. s \ {p} \notin bad /\ s \ {x} \notin bad
  BY <1>1, <1>5
<1>7. /\ Sum(W, s \ {p}) = W[x] + Sum(W, (s \ {p}) \ {x})
      /\ Sum(W, s \ {x}) = W[p] + Sum(W, (s \ {x}) \ {p})
  BY <1>2, <1>3, <1>4, <1>5, <1>6
<1> DEFINE others == Sum(W, (s \ {p}) \ {x})
<1>8. (s \ {p}) \ {x} = (s \ {x}) \ {p} /\ (s \ {p}) \ {x} \in SUBSET S
  OBVIOUS
<1>9. W[x] \in Int /\ W[p] \in Int /\ others \in Int
  BY <1>3, <1>8, SumTyped
<1>10. Sum(W, s) = W[p] + (W[x] + others) /\ Sum(W, s \ {x}) = W[p] + others
  BY <1>3, <1>7, <1>8
<1> HIDE DEF others
<1> QED  BY <1>2, <1>9, <1>10

(* The sum of a table that adds, on a part T of its domain, one table to   *)
(* another.                                                                *)
LEMMA SumOfTotals ==
    ASSUME NEW V, NEW W, NEW U, NEW S, IsFiniteSet(S), NEW T \in SUBSET S,
           \A x \in S : V[x] \in Int /\ W[x] \in Int /\ U[x] \in Int,
           \A x \in S : V[x] = IF x \in T THEN W[x] + U[x] ELSE W[x]
    PROVE  Sum(V, S) = Sum(W, S) + Sum(U, T)
<1>1. \A s \in SUBSET S : Sum(V, s) = Sum(W, s) + Sum(U, s \cap T)
  <2> DEFINE bad == {s \in SUBSET S : Sum(V, s) # Sum(W, s) + Sum(U, s \cap T)}
  <2> SUFFICES ASSUME bad # {} PROVE FALSE
    OBVIOUS
  <2>1. PICK s \in bad : /\ IsFiniteSet(s) /\ Cardinality(s) \in Nat
                         /\ \A t \in bad : Cardinality(s) <= Cardinality(t)
    <3> bad \in SUBSET SUBSET S
      OBVIOUS
    <3> HIDE DEF bad
    <3> QED  BY SmallestExists
  <2>2. s \in SUBSET S /\ Sum(V, s) # Sum(W, s) + Sum(U, s \cap T)
    OBVIOUS
  <2>3. s # {}
    <3> SUFFICES ASSUME s = {} PROVE FALSE
      OBVIOUS
    <3>1. s \cap T = {}
      OBVIOUS
    <3>2. Sum(V, {}) = 0 /\ Sum(W, {}) = 0 /\ Sum(U, {}) = 0
      BY SumUnfolds, FS_EmptySet
    <3> QED  BY <2>2, <3>1, <3>2
  <2>4. PICK x \in s : TRUE
    BY <2>3
  <2> DEFINE rest == s \ {x}
  <2>5. /\ Cardinality(rest) = Cardinality(s) - 1 /\ rest \in SUBSET S
        /\ rest \cap T \in SUBSET S /\ s \cap T \in SUBSET S
    BY <2>1, <2>4, FS_RemoveElement
  <2>6. rest \notin bad
    BY <2>1, <2>5
  <2>7. Sum(V, rest) = Sum(W, rest) + Sum(U, rest \cap T)
    BY <2>5, <2>6
  <2>8. Sum(V, s) = V[x] + Sum(V, rest) /\ Sum(W, s) = W[x] + Sum(W, rest)
    BY <2>2, <2>4, SumRemoves
  <2>9. Sum(U, s \cap T) = IF x \in T THEN U[x] + Sum(U, rest \cap T) ELSE Sum(U, rest \cap T)
    <3>1. x \in T => x \in s \cap T /\ (s \cap T) \ {x} = rest \cap T
      BY <2>4
    <3>2. x \notin T => s \cap T = rest \cap T
      BY <2>4
    <3>3. \A y \in s \cap T : Sum(U, s \cap T) = U[y] + Sum(U, (s \cap T) \ {y})
      BY <2>5, SumRemoves
    <3>4. CASE x \in T
      BY <3>1, <3>3, <3>4
    <3>5. CASE x \notin T
      BY <3>2, <3>5
    <3> QED  BY <3>4, <3>5
  <2>10. /\ Sum(V, rest) \in Int /\ Sum(W, rest) \in Int /\ Sum(U, rest \cap T) \in Int
         /\ V[x] \in Int /\ W[x] \in Int /\ U[x] \in Int
         /\ V[x] = IF x \in T THEN W[x] + U[x] ELSE W[x]
    BY <2>4, <2>5, SumTyped
  <2> HIDE DEF rest
  <2> QED  BY <2>2, <2>7, <2>8, <2>9, <2>10
<1>2. S \cap T = T /\ S \in SUBSET S
  OBVIOUS
<1>3. Sum(V, S) = Sum(W, S) + Sum(U, S \cap T)
  BY <1>1, <1>2
<1> QED  BY <1>2, <1>3

------------------------------------------------------------------------------
(***************************************************************************)
(* Cooldowns and keys.                                                     *)
(***************************************************************************)

(* A cooldown lasts one tick at least and MaxCooldown at most, whatever    *)
(* the header says.                                                        *)
LEMMA CooldownIsPositive ==
    ASSUME NEW header \in Headers
    PROVE  CooldownFor(header) \in 1 .. MaxCooldown
  BY CooldownsAssumption DEF Headers, NoHeader, CooldownFor

(* Cooling a key leaves the others as they are.                            *)
LEMMA CoolingFacts ==
    ASSUME PoolTypeOK, NEW k \in Keys, NEW header \in Headers
    PROVE  /\ CoolingAfter(k, header) \in Tables(Keys)
           /\ k \in Pooled => CoolingAfter(k, header)[k] > 0
           /\ \A other \in Keys \ {k} : CoolingAfter(k, header)[other] = keyCooling[other]
           /\ k \notin Pooled => CoolingAfter(k, header) = keyCooling
<1>1. CooldownFor(header) \in 1 .. MaxCooldown
  BY CooldownIsPositive
<1> QED  BY <1>1, CooldownsAssumption DEF PoolTypeOK, Tables, CoolingAfter, Cooled

(* A key of the pool has a position, and the position leads back to it.    *)
LEMMA PositionTyped ==
    ASSUME PoolTypeOK, NEW k
    PROVE  /\ Position(k) \in 0 .. Len(pool)
           /\ k \in Pooled => Position(k) \in 1 .. Len(pool) /\ pool[Position(k)] = k
  BY DEF PoolTypeOK, Position, Pooled

(* The scan from a key looks at keys of the pool only.                     *)
LEMMA CandidateIsPooled ==
    ASSUME PoolTypeOK, NEW k, NEW i \in 1 .. Len(pool)
    PROVE  Candidate(k, i) \in Pooled
<1>1. Position(k) + i - 1 \in Int /\ Len(pool) \in Nat \ {0}
  BY PositionTyped DEF PoolTypeOK
<1>2. (Position(k) + i - 1) % Len(pool) \in 0 .. Len(pool) - 1
  BY <1>1
<1> QED  BY <1>1, <1>2 DEF Candidate, Pooled

(* The key that a rotation goes on with is in the pool and free.           *)
LEMMA RotationFacts ==
    ASSUME PoolTypeOK, NEW k \in Keys, NEW header \in Headers,
           Rotation(k, header) # NoKey
    PROVE  /\ Rotation(k, header) \in Pooled
           /\ CoolingAfter(k, header)[Rotation(k, header)] = 0
<1> DEFINE cooling == CoolingAfter(k, header)
           free == FreeOffsets(k, cooling)
           least == CHOOSE i \in free : \A j \in free : i <= j
<1>1. CASE LostRace(k, cooling)
  BY <1>1 DEF Rotation, LostRace
<1>2. CASE ~ LostRace(k, cooling)
  <2>1. Rotation(k, header) = NextKey(k, cooling) /\ Len(pool) \in Nat
    BY <1>2 DEF Rotation, PoolTypeOK
  <2>2. free # {} /\ Rotation(k, header) = Candidate(k, least)
    BY <2>1 DEF NextKey
  <2>3. free \subseteq Nat /\ free \subseteq 1 .. Len(pool)
    BY <2>1 DEF FreeOffsets
  <2> HIDE DEF free
  <2>4. least \in free
    BY <2>2, <2>3, LeastIsChosen
  <2>5. cooling[Candidate(k, least)] = 0
    BY <2>4 DEF free, FreeOffsets
  <2> QED  BY <2>2, <2>3, <2>4, <2>5, CandidateIsPooled
<1> QED  BY <1>1, <1>2

(* A rotation goes on with another key than the refused one.               *)
LEMMA RotationMoves ==
    ASSUME PoolTypeOK, NEW k \in Keys, NEW header \in Headers,
           Rotation(k, header) # NoKey
    PROVE  Rotation(k, header) # k
  BY RotationFacts, CoolingFacts

(* The pool holds keys.                                                    *)
LEMMA PooledAreKeys == ASSUME PoolTypeOK PROVE Pooled \subseteq Keys
  BY DEF PoolTypeOK, Pooled

(* Every key of the pool but the refused one is a candidate of the scan.   *)
LEMMA ScanCovers ==
    ASSUME PoolTypeOK, NEW k \in Pooled, NEW other \in Pooled \ {k}
    PROVE  \E i \in 1 .. Len(pool) - 1 : Candidate(k, i) = other
<1> DEFINE n == Len(pool)
           p == Position(k)
           q == Position(other)
<1>1. n \in Nat \ {0} /\ p \in 1 .. n /\ q \in 1 .. n /\ pool[p] = k /\ pool[q] = other
  BY PositionTyped DEF PoolTypeOK
<1>2. p # q
  BY <1>1
<1>3. (q - 1) % n = q - 1 /\ (q - 1 + n) % n = q - 1
  BY <1>1, ModOfSum
<1>4. CASE p < q
  <2>1. q - p \in 1 .. n - 1 /\ p + (q - p) - 1 = q - 1
    BY <1>1, <1>4
  <2>2. Candidate(k, q - p) = pool[((p + (q - p) - 1) % n) + 1]
    BY DEF Candidate
  <2> HIDE DEF n, p, q
  <2>3. Candidate(k, q - p) = pool[q]
    BY <1>1, <1>3, <2>1, <2>2
  <2> QED  BY <1>1, <2>1, <2>3 DEF n
<1>5. CASE p > q
  <2>1. q - p + n \in 1 .. n - 1 /\ p + (q - p + n) - 1 = q - 1 + n
    BY <1>1, <1>5
  <2>2. Candidate(k, q - p + n) = pool[((p + (q - p + n) - 1) % n) + 1]
    BY DEF Candidate
  <2> HIDE DEF n, p, q
  <2>3. Candidate(k, q - p + n) = pool[q]
    BY <1>1, <1>3, <2>1, <2>2
  <2> QED  BY <1>1, <2>1, <2>3 DEF n
<1> QED  BY <1>1, <1>2, <1>4, <1>5

------------------------------------------------------------------------------
(***************************************************************************)
(* The choice of a member.                                                 *)
(***************************************************************************)

(* The selection of a combo.  The credits of its members add up to nothing *)
(* at all times: the member that is picked pays what the others were given.*)
SelectionState ==
    [active : Members \cup {NoMember}, successes : 0 .. StickyLimit - 1, weights : [Members -> Int]]

Selection(sel) == sel \in SelectionState /\ Sum(sel.weights, Members) = 0

(* A combo has finitely many members.                                      *)
LEMMA MembersAreFinite == IsFiniteSet(Members)
<1>1. Targets \in [1 .. Len(Targets) -> Members] /\ Len(Targets) \in Nat
  BY ComboAssumption
<1>2. Targets \in Surjection(1 .. Len(Targets), Members)
  BY <1>1 DEF Surjection, Members
<1> QED  BY <1>1, <1>2, FS_Surjection, FS_Interval

(* Of finitely many members, one has the highest score.                    *)
LEMMA LeaderExists ==
    ASSUME NEW W, NEW S, IsFiniteSet(S), S # {}, \A x \in S : W[x] \in Int
    PROVE  \E x \in S : \A y \in S : W[y] <= W[x]
<1> DEFINE bad == {s \in SUBSET S : s # {} /\ ~ \E x \in s : \A y \in s : W[y] <= W[x]}
<1> SUFFICES ASSUME bad # {} PROVE FALSE
  OBVIOUS
<1>1. PICK s \in bad : /\ IsFiniteSet(s) /\ Cardinality(s) \in Nat
                       /\ \A t \in bad : Cardinality(s) <= Cardinality(t)
  <2> bad \in SUBSET SUBSET S
    OBVIOUS
  <2> HIDE DEF bad
  <2> QED  BY SmallestExists
<1>2. PICK x \in s : TRUE
  OBVIOUS
<1> DEFINE rest == s \ {x}
<1>3. Cardinality(rest) = Cardinality(s) - 1 /\ rest \in SUBSET S
  BY <1>1, FS_RemoveElement
<1>4. rest # {}
  BY <1>2
<1>5. rest \notin bad
  <2> HIDE DEF rest, bad
  <2> QED  BY <1>1, <1>3
<1>6. PICK m \in rest : \A y \in rest : W[y] <= W[m]
  BY <1>3, <1>4, <1>5
<1>7. W[m] \in Int /\ W[x] \in Int
  BY <1>3
<1>8. CASE W[x] <= W[m]
  BY <1>6, <1>8
<1>9. CASE W[m] <= W[x]
  BY <1>3, <1>6, <1>7, <1>9
<1> QED  BY <1>7, <1>8, <1>9

(* The first of a set in the order of the combo is one of the set, or none *)
(* when none of the combo is in it.                                        *)
LEMMA FirstOfIsMember ==
    ASSUME NEW S
    PROVE  /\ FirstOf(S) \in S \cup {NoMember} /\ FirstOf(S) \in Members \cup {NoMember}
           /\ S \cap Members # {} => FirstOf(S) \in S \cap Members
<1> DEFINE at == {i \in DOMAIN Targets : Targets[i] \in S}
           least == CHOOSE i \in at : \A j \in at : i <= j
<1>1. at \subseteq Nat
  BY ComboAssumption
<1>2. CASE at = {}
  BY <1>2 DEF FirstOf, Members
<1>3. CASE at # {}
  <2>1. FirstOf(S) = Targets[least]
    BY <1>3 DEF FirstOf
  <2>2. least \in at
    <3> HIDE DEF at
    <3> QED  BY <1>1, <1>3, LeastIsChosen
  <2> QED  BY <2>1, <2>2 DEF Members
<1> QED  BY <1>2, <1>3

(* A combo that is new has given no credit.                                *)
LEMMA FreshTyped == Selection(Fresh)
<1> DEFINE none == [m \in Members |-> 0]
<1>1. Fresh \in SelectionState /\ Fresh.weights = none /\ none \in [Members -> Int]
  BY ComboAssumption DEF Fresh, SelectionState
<1>2. IsFiniteSet(Members)
  BY MembersAreFinite
<1>3. /\ \A x \in Members : none[x] \in Int /\ none[x] \in Int /\ none[x] \in Int
      /\ \A x \in Members : none[x] = IF x \in Members THEN none[x] + none[x] ELSE none[x]
  OBVIOUS
<1> HIDE DEF none
<1>4. Sum(none, Members) = Sum(none, Members) + Sum(none, Members)
  BY ONLY <1>2, <1>3, SumOfTotals
<1>5. \A s \in SUBSET Members : Sum(none, s) \in Int
  BY <1>2, <1>3, SumTyped
<1> DEFINE sum == Sum(none, Members)
<1>6. sum \in Int /\ sum = sum + sum
  BY <1>4, <1>5
<1> HIDE DEF sum
<1>7. sum = 0
  BY <1>6
<1> QED  BY <1>1, <1>7 DEF Selection, sum

(* A sticky member that is given up leaves the credits as they are.        *)
LEMMA DroppedTyped ==
    ASSUME NEW sel, Selection(sel)
    PROVE  Selection(Dropped(sel)) /\ Dropped(sel).active = NoMember
<1>1. sel \in SelectionState /\ 0 \in 0 .. StickyLimit - 1
  BY ComboAssumption DEF Selection
<1>2. /\ Dropped(sel) \in SelectionState /\ Dropped(sel).active = NoMember
      /\ Dropped(sel).weights = sel.weights
  BY <1>1 DEF SelectionState, Dropped
<1> QED  BY <1>2 DEF Selection

(* A round credits every eligible member with its weight; these credits    *)
(* add up to what the leader pays.                                         *)
LEMMA RoundBalances ==
    ASSUME NEW sel, Selection(sel), NEW eligible \in SUBSET Members,
           NEW best \in Members
    PROVE  LET weights == [Scores(sel, eligible) EXCEPT ![best] = @ - Sum(Weight, eligible)]
           IN  weights \in [Members -> Int] /\ Sum(weights, Members) = 0
<1> DEFINE credits == sel.weights
           scores == Scores(sel, eligible)
           total == Sum(Weight, eligible)
           weights == [scores EXCEPT ![best] = @ - total]
           others == Members \ {best}
<1>1. /\ IsFiniteSet(Members) /\ credits \in [Members -> Int] /\ Sum(credits, Members) = 0
      /\ Weight \in [Members -> Int]
  BY MembersAreFinite, ComboAssumption DEF Selection, SelectionState
<1>2. /\ scores \in [Members -> Int]
      /\ \A m \in Members :
            scores[m] = IF m \in eligible THEN credits[m] + Weight[m] ELSE credits[m]
  BY <1>1 DEF Scores
<1> HIDE DEF scores, credits
<1>3. \A x \in Members : scores[x] \in Int /\ credits[x] \in Int /\ Weight[x] \in Int
  BY <1>1, <1>2
<1>4. Sum(scores, Members) = Sum(credits, Members) + Sum(Weight, eligible)
  <2>1. /\ IsFiniteSet(Members)
        /\ \A x \in Members :
              scores[x] = IF x \in eligible THEN credits[x] + Weight[x] ELSE credits[x]
    BY <1>1, <1>2
  <2>2. eligible \in SUBSET Members
    OBVIOUS
  <2> QED  BY ONLY <1>3, <2>1, <2>2, SumOfTotals
<1>5. total \in Int
  BY <1>1, <1>3, SumTyped
<1>7. Sum(scores, Members) = total
  BY <1>1, <1>4, <1>5
<1> HIDE DEF total
<1>8. /\ weights \in [Members -> Int] /\ weights[best] = scores[best] - total
      /\ \A m \in others : weights[m] = scores[m]
  BY <1>2, <1>5
<1> HIDE DEF weights
<1>9. \A x \in Members : weights[x] \in Int
  BY <1>8
<1>10. Sum(scores, Members) = scores[best] + Sum(scores, others)
  BY <1>1, <1>3, SumRemoves
<1>11. Sum(weights, Members) = weights[best] + Sum(weights, others)
  BY <1>1, <1>9, SumRemoves
<1>12. others \in SUBSET Members /\ IsFiniteSet(others)
  BY <1>1, FS_Subset
<1> HIDE DEF others
<1>13. Sum(weights, others) = Sum(scores, others)
  <2>1. \A x \in others : weights[x] \in Int /\ scores[x] \in Int /\ Weight[x] \in Int
    BY <1>3, <1>9, <1>12
  <2>2. \A x \in others : weights[x] = IF x \in {} THEN scores[x] + Weight[x] ELSE scores[x]
    BY <1>8
  <2>3. {} \in SUBSET others
    OBVIOUS
  <2>4. Sum(weights, others) = Sum(scores, others) + Sum(Weight, {})
    BY ONLY <1>12, <2>1, <2>2, <2>3, SumOfTotals
  <2>5. Sum(Weight, {}) = 0
    BY SumUnfolds, FS_EmptySet
  <2>6. Sum(scores, others) \in Int
    BY <1>1, <1>3, <1>12, SumTyped
  <2> QED  BY <2>4, <2>5, <2>6
<1>14. Sum(scores, others) \in Int /\ scores[best] \in Int
  BY <1>1, <1>3, <1>12, SumTyped
<1>15. Sum(weights, Members) = 0
  <2> DEFINE rest == Sum(scores, others)
             score == scores[best]
  <2>1. /\ score \in Int /\ rest \in Int /\ total \in Int /\ total = score + rest
        /\ Sum(weights, Members) = (score - total) + rest
    BY <1>5, <1>7, <1>8, <1>10, <1>11, <1>13, <1>14
  <2> HIDE DEF rest, score
  <2> QED  BY <2>1
<1> QED  BY <1>8, <1>15 DEF weights, total, scores, credits

(* The weighted round picks an eligible member, whenever there is one.     *)
LEMMA SmoothWeightedFacts ==
    ASSUME NEW sel, Selection(sel), NEW eligible \in SUBSET Members
    PROVE  /\ Selection(SmoothWeighted(sel, eligible))
           /\ SmoothWeighted(sel, eligible).active \in
                  IF eligible = {} THEN {NoMember} ELSE eligible
<1> DEFINE leading == Leading(sel, eligible)
           best == FirstOf(leading)
<1>1. CASE eligible = {}
  BY <1>1, DroppedTyped DEF SmoothWeighted
<1>2. CASE eligible # {}
  <2>1. \A m \in eligible : Scores(sel, eligible)[m] \in Int
    BY ComboAssumption DEF Selection, SelectionState, Scores
  <2>2. leading # {} /\ leading \subseteq eligible
    BY <1>2, <2>1, LeaderExists, MembersAreFinite, FS_Subset DEF Leading
  <2> HIDE DEF leading
  <2>3. best \in eligible /\ best \in Members
    BY <2>2, FirstOfIsMember
  <2> HIDE DEF best
  <2> DEFINE weights == [Scores(sel, eligible) EXCEPT ![best] = @ - Sum(Weight, eligible)]
  <2>4. SmoothWeighted(sel, eligible) = [active |-> best, successes |-> 0, weights |-> weights]
    BY <1>2 DEF SmoothWeighted, best, leading, Sum
  <2>5. weights \in [Members -> Int] /\ Sum(weights, Members) = 0
    BY <2>3, RoundBalances
  <2> HIDE DEF weights
  <2>6. Selection(SmoothWeighted(sel, eligible))
    BY <2>3, <2>4, <2>5, ComboAssumption DEF Selection, SelectionState
  <2> QED  BY <1>2, <2>3, <2>4, <2>6
<1> QED  BY <1>1, <1>2

(* A pick leaves a well-formed selection.                                  *)
LEMMA PickSelectionTyped ==
    ASSUME NEW sel, Selection(sel), NEW eligible \in SUBSET Members
    PROVE  Selection(PickSelection(sel, eligible))
  BY SmoothWeightedFacts DEF PickSelection

(* pickComboTarget finds a member whenever one is eligible, in the order   *)
(* of the combo or by weight, and never one that is not eligible: a loop   *)
(* gives up only when no member is left for its request.                   *)
THEOREM PickFindsTheEligible ==
    ASSUME NEW sel, Selection(sel), NEW eligible \in SUBSET Members
    PROVE  PickComboTarget(sel, eligible) \in IF eligible = {} THEN {NoMember} ELSE eligible
<1>1. CASE RoundRobin
  BY <1>1, SmoothWeightedFacts DEF PickComboTarget, PickSelection
<1>2. CASE ~ RoundRobin
  BY <1>2, FirstOfIsMember DEF PickComboTarget
<1> QED  BY <1>1, <1>2

(* A member that is picked is an eligible one.                             *)
LEMMA PickIsEligible ==
    ASSUME NEW sel, Selection(sel), NEW eligible \in SUBSET Members
    PROVE  /\ PickComboTarget(sel, eligible) \in eligible \cup {NoMember}
           /\ PickComboTarget(sel, eligible) \in Members \cup {NoMember}
  BY PickFindsTheEligible

(* A success leaves a well-formed selection.                               *)
LEMMA NoteSuccessTyped ==
    ASSUME NEW sel, Selection(sel), NEW m
    PROVE  Selection(NoteSuccess(sel, m))
<1> DEFINE counted == [sel EXCEPT !.successes = @ + 1]
<1>1. CASE sel.successes + 1 >= StickyLimit
  BY <1>1, DroppedTyped DEF NoteSuccess
<1>2. CASE ~ (sel.successes + 1 >= StickyLimit)
  <2>1. sel \in SelectionState /\ sel.successes + 1 \in 0 .. StickyLimit - 1
    BY <1>2, ComboAssumption DEF Selection, SelectionState
  <2>2. counted \in SelectionState /\ counted.weights = sel.weights
    BY <2>1 DEF SelectionState
  <2> QED  BY <1>2, <2>2 DEF NoteSuccess, Selection
<1> QED  BY <1>1, <1>2

(* A failure leaves a well-formed selection.                               *)
LEMMA NoteFailureTyped ==
    ASSUME NEW sel, Selection(sel), NEW m
    PROVE  Selection(NoteFailure(sel, m))
  BY DroppedTyped DEF NoteFailure

------------------------------------------------------------------------------
(***************************************************************************)
(* The invariant: a request that is under way to the provider with the     *)
(* pool holds one of its keys, and the history of members that a combo     *)
(* request was given is the set "exclude" of its loop.                     *)
(***************************************************************************)
RequestState ==
    [phase : {"free", "sent", "failed"}, member : Members \cup {Direct, NoMember},
     key : Keys \cup {NoKey}, tried : SUBSET Members, payload : SUBSET Members,
     header : Headers]

(* What is known of the requests.                                          *)
Requested ==
    /\ req \in [Requests -> RequestState]
    /\ sends \in [Requests -> [Members -> Nat]]
    /\ \A r \in Requests :
          req[r].phase # "free" =>
              /\ UsesPool(req[r].member) => req[r].key \in Keys
              /\ req[r].member # NoMember
              /\ req[r].phase = "failed" => req[r].member \in Members
    /\ \A r \in Requests : req[r].phase = "free" => req[r].tried = {}
    /\ \A r \in Requests : \A m \in Members : sends[r][m] = IF m \in req[r].tried THEN 1 ELSE 0

(* The inductive invariant.                                                *)
FailoverInv ==
    /\ PoolTypeOK
    /\ Selection(selection)
    /\ memberCooling \in Tables(Members)
    /\ Requested

(* The record of a request that is over.                                   *)
LEMMA FreeTyped ==
    /\ Free \in RequestState
    /\ Free.phase = "free" /\ Free.tried = {} /\ Free.key = NoKey /\ Free.member = NoMember
    /\ Free.payload = {} /\ Free.header = NoHeader
  BY DEF Free, RequestState, Headers

(* No key cools, no member has been picked and no request runs.            *)
LEMMA InvInitial == Init => FailoverInv
<1> SUFFICES ASSUME Init PROVE FailoverInv
  OBVIOUS
<1>1. PoolTypeOK
  BY KeyPoolAssumption, CooldownsAssumption DEF Init, PoolInit, PoolTypeOK, Tables
<1>2. Selection(selection)
  BY FreshTyped DEF Init
<1>3. memberCooling \in Tables(Members)
  BY CooldownsAssumption DEF Init, Tables
<1>4. Requested
  BY FreeTyped DEF Init, Requested
<1> QED  BY <1>1, <1>2, <1>3, <1>4 DEF FailoverInv

(* The end of a request.                                                   *)
LEMMA EndTyped ==
    ASSUME Requested, NEW r \in Requests, End(r)
    PROVE  Requested'
  BY FreeTyped DEF End, Requested

(* The key a target sends with.                                            *)
LEMMA KeyOfTyped ==
    ASSUME PoolTypeOK, NEW m
    PROVE  KeyOf(m) \in Keys \cup {NoKey} /\ (UsesPool(m) => KeyOf(m) \in Keys)
  BY DEF PoolTypeOK, KeyOf

(* What a pick does to the request, when it does not end it.               *)
LEMMA PickFacts ==
    ASSUME NEW r \in Requests, NEW sel, Selection(sel), NEW eligible \in SUBSET Members,
           NEW tried, NEW payload,
           PickComboTarget(sel, eligible) # NoMember, Pick(r, sel, eligible, tried, payload)
    PROVE  LET m == PickComboTarget(sel, eligible)
           IN  /\ m \in eligible /\ m \in Members
               /\ req' = [req EXCEPT ![r] =
                    [phase |-> "sent", member |-> m, key |-> KeyOf(m),
                     tried |-> tried \cup {m}, payload |-> payload, header |-> NoHeader]]
               /\ sends' = [sends EXCEPT ![r][m] = @ + 1]
  BY PickIsEligible DEF Pick

(* A pick gives the request a member it has not tried, or ends it.         *)
LEMMA PickTyped ==
    ASSUME PoolTypeOK, Requested, NEW r \in Requests, NEW sel, Selection(sel),
           NEW eligible \in SUBSET Members, NEW payload \in SUBSET Members, eligible \cap req[r].tried = {},
           Pick(r, sel, eligible, req[r].tried, payload)
    PROVE  Selection(selection') /\ Requested'
<1> DEFINE m == PickComboTarget(sel, eligible)
<1>1. Selection(selection')
  BY PickSelectionTyped DEF Pick
<1>2. CASE m = NoMember
  BY <1>1, <1>2, EndTyped DEF Pick
<1>3. CASE m # NoMember
  <2> DEFINE new == [phase |-> "sent", member |-> m, key |-> KeyOf(m),
                     tried |-> req[r].tried \cup {m}, payload |-> payload, header |-> NoHeader]
  <2>1. /\ m \in eligible /\ m \in Members /\ m # NoMember
        /\ req' = [req EXCEPT ![r] = new]
        /\ sends' = [sends EXCEPT ![r][m] = @ + 1]
    BY <1>3, PickFacts
  <2>2. m \notin req[r].tried
    BY <2>1
  <2>3. KeyOf(m) \in Keys \cup {NoKey} /\ (UsesPool(m) => KeyOf(m) \in Keys)
    BY KeyOfTyped
  <2> HIDE DEF m
  <2>4. new \in RequestState
    BY <2>1, <2>3 DEF RequestState, Requested, Headers
  <2>5. req' \in [Requests -> RequestState]
    BY <2>1, <2>4 DEF Requested
  <2>6. sends[r][m] = 0
    BY <2>1, <2>2 DEF Requested
  <2>7. /\ sends' \in [Requests -> [Members -> Nat]]
        /\ sends'[r][m] = 1
        /\ \A n \in Members \ {m} : sends'[r][n] = sends[r][n]
        /\ \A s \in Requests \ {r} : sends'[s] = sends[s]
    BY <2>1, <2>6 DEF Requested
  <2>8. /\ req'[r] = new
        /\ \A s \in Requests \ {r} : req'[s] = req[s]
    BY <2>1 DEF Requested
  <2>9. \A s \in Requests : \A n \in Members :
           sends'[s][n] = IF n \in req'[s].tried THEN 1 ELSE 0
    BY <2>1, <2>2, <2>7, <2>8 DEF Requested
  <2>10. \A s \in Requests :
            req'[s].phase # "free" =>
                /\ UsesPool(req'[s].member) => req'[s].key \in Keys
                /\ req'[s].member # NoMember
                /\ req'[s].phase = "failed" => req'[s].member \in Members
    BY <2>1, <2>3, <2>8 DEF Requested
  <2>11. \A s \in Requests : req'[s].phase = "free" => req'[s].tried = {}
    BY <2>8 DEF Requested
  <2> HIDE DEF new
  <2> QED  BY <1>1, <2>5, <2>7, <2>9, <2>10, <2>11 DEF Requested
<1> QED  BY <1>2, <1>3

(* A rotation cools a key of the pool and moves the live key within it.    *)
LEMMA RotateTyped ==
    ASSUME PoolTypeOK, NEW k \in Keys, NEW header \in Headers, RotateKeyOn429(k, header)
    PROVE  PoolTypeOK' /\ (Rotation(k, header) # NoKey => Rotation(k, header) \in Keys)
<1>1. Rotation(k, header) # NoKey => Rotation(k, header) \in Keys
  BY RotationFacts, PooledAreKeys
<1>2. keyCooling' \in Tables(Keys)
  BY CoolingFacts DEF RotateKeyOn429, PoolTypeOK
<1> QED  BY <1>1, <1>2 DEF RotateKeyOn429, PoolTypeOK

(* A failure, sent on to the client or kept for the combo.                 *)
LEMMA FailTyped ==
    ASSUME Requested, NEW r \in Requests, req[r].phase = "sent",
           NEW header \in Headers, Fail(r, header)
    PROVE  Requested'
<1>1. CASE req[r].member = Direct
  BY <1>1, EndTyped DEF Fail
<1>2. CASE req[r].member # Direct
  <2> DEFINE new == [req[r] EXCEPT !.phase = "failed", !.header = header]
  <2>1. req[r] \in RequestState /\ req[r].member # NoMember
    BY DEF Requested
  <2>2. /\ new \in RequestState
        /\ new.tried = req[r].tried /\ new.key = req[r].key /\ new.member = req[r].member
        /\ new.phase = "failed"
    BY <2>1 DEF RequestState
  <2>3. req[r].member \in Members
    BY <1>2, <2>1 DEF RequestState
  <2>4. req' = [req EXCEPT ![r] = new] /\ UNCHANGED sends
    BY <1>2 DEF Fail, Requested
  <2> HIDE DEF new
  <2> QED  BY <2>1, <2>2, <2>3, <2>4 DEF Requested
<1> QED  BY <1>1, <1>2

(* A 429 keeps the invariant: the rotation and then the retry or the       *)
(* failure.                                                                *)
LEMMA RateLimitedTyped ==
    ASSUME FailoverInv, NEW r \in Requests, NEW header \in Headers, RateLimited(r, header)
    PROVE  FailoverInv'
<1> USE DEF FailoverInv
<1>1. UNCHANGED <<selection, memberCooling>> /\ req[r].phase = "sent" /\ Requested
  BY DEF RateLimited, comboVars
<1>2. Selection(selection)' /\ (memberCooling \in Tables(Members))'
  BY <1>1
<1>3. CASE UsesPool(req[r].member)
  <2> DEFINE k == req[r].key
             next == Rotation(k, header)
  <2>1. k \in Keys /\ RotateKeyOn429(k, header)
    BY <1>1, <1>3 DEF RateLimited, Requested
  <2>2. PoolTypeOK' /\ (next # NoKey => next \in Keys)
    BY <2>1, RotateTyped
  <2>3. CASE next = NoKey
    BY <1>1, <1>2, <1>3, <2>2, <2>3, FailTyped DEF RateLimited
  <2>4. CASE next # NoKey
    <3> DEFINE new == [req[r] EXCEPT !.key = next]
    <3>1. req[r] \in RequestState
      BY <1>1 DEF Requested
    <3> HIDE DEF next
    <3>2. /\ new \in RequestState /\ new.key \in Keys
          /\ new.tried = req[r].tried /\ new.phase = "sent" /\ new.member = req[r].member
      BY <1>1, <2>2, <2>4, <3>1 DEF RequestState
    <3>3. req' = [req EXCEPT ![r] = new] /\ UNCHANGED sends
      BY <1>1, <1>3, <2>4 DEF RateLimited, next, Requested
    <3> HIDE DEF new
    <3>4. Requested'
      BY <1>1, <3>2, <3>3 DEF Requested
    <3> QED  BY <1>2, <2>2, <3>4
  <2> QED  BY <2>3, <2>4
<1>4. CASE ~ UsesPool(req[r].member)
  <2>1. Fail(r, header) /\ UNCHANGED poolVars
    BY <1>4 DEF RateLimited
  <2> QED  BY <1>1, <1>2, <2>1, FailTyped DEF poolVars, PoolTypeOK
<1> QED  BY <1>3, <1>4

(* A request begins with a clean record.                                   *)
LEMMA StartTyped ==
    ASSUME FailoverInv, NEW r \in Requests, StartDirect(r) \/ StartCombo(r)
    PROVE  FailoverInv'
<1> USE DEF FailoverInv
<1>1. PoolTypeOK' /\ (memberCooling \in Tables(Members))' /\ req[r].tried = {}
  BY DEF StartDirect, StartCombo, PoolTypeOK, Requested
<1>2. CASE StartDirect(r)
  <2> DEFINE new == [Free EXCEPT !.phase = "sent", !.member = Direct, !.key = liveKey]
  <2>1. /\ new \in RequestState /\ new.key \in Keys /\ new.tried = {}
        /\ new.member = Direct /\ new.phase = "sent"
    BY DEF Free, RequestState, Headers, PoolTypeOK
  <2>2. req' = [req EXCEPT ![r] = new] /\ UNCHANGED <<sends, selection>>
    BY <1>2 DEF StartDirect
  <2> HIDE DEF new
  <2>3. Requested'
    BY <1>1, <2>1, <2>2, FailoverAssumption DEF Requested
  <2> QED  BY <1>1, <2>2, <2>3
<1>3. CASE StartCombo(r)
  <2>1. PICK payload \in Payloads :
           Pick(r, selection, payload \cap NotCooling(memberCooling), req[r].tried, payload)
    BY <1>1, <1>3 DEF StartCombo
  <2>2. payload \in SUBSET Members
    BY FailoverAssumption
  <2> QED  BY <1>1, <2>1, <2>2, PickTyped
<1> QED  BY <1>2, <1>3

(* The next member of a combo is one that has not been tried.              *)
LEMMA HopTyped ==
    ASSUME FailoverInv, NEW r \in Requests, Hop(r)
    PROVE  FailoverInv'
<1> USE DEF FailoverInv
<1> DEFINE eligible == (req[r].payload \cap NotCooling(memberCooling')) \ req[r].tried
<1>1. req[r] \in RequestState /\ req[r].member \in Members
  BY DEF Hop, Requested
<1>2. CooldownFor(req[r].header) \in 1 .. MaxCooldown
  BY <1>1, CooldownIsPositive DEF RequestState
<1>3. memberCooling' \in Tables(Members)
  BY <1>1, <1>2 DEF Hop, Cooled, Tables
<1>4. Pick(r, NoteFailure(selection, req[r].member), eligible, req[r].tried, req[r].payload)
  BY DEF Hop
<1>5. req[r].payload \in SUBSET Members
  BY <1>1 DEF RequestState
<1>6. Selection(NoteFailure(selection, req[r].member)) /\ eligible \cap req[r].tried = {}
  BY NoteFailureTyped
<1>9. eligible \in SUBSET Members
  BY DEF NotCooling
<1> HIDE DEF eligible
<1>7. Selection(selection') /\ Requested'
  BY <1>4, <1>5, <1>6, <1>9, PickTyped
<1>8. PoolTypeOK'
  BY DEF Hop, poolVars, PoolTypeOK
<1> QED  BY <1>3, <1>7, <1>8

(* The other answers of an upstream.                                       *)
LEMMA AnswerTyped ==
    ASSUME FailoverInv, NEW r \in Requests, Answer(r)
    PROVE  FailoverInv'
<1> USE DEF FailoverInv
<1>1. CASE Succeeds(r)
  <2>1. Selection(selection')
    BY <1>1, NoteSuccessTyped DEF Succeeds
  <2> QED  BY <1>1, <2>1, EndTyped DEF Succeeds, PoolTypeOK
<1>2. ASSUME NEW header \in Headers, RateLimited(r, header)
      PROVE  FailoverInv'
  BY <1>2, RateLimitedTyped
<1>3. ASSUME NEW header \in Headers, Breaks(r, header)
      PROVE  FailoverInv'
  BY <1>3, FailTyped DEF Breaks, PoolTypeOK
<1>4. CASE Stops(r)
  BY <1>4, EndTyped DEF Stops, PoolTypeOK
<1> QED  BY <1>1, <1>2, <1>3, <1>4 DEF Answer

(* The passing of time shortens every cooldown.                            *)
LEMMA AgedFacts ==
    ASSUME NEW S, NEW table \in Tables(S)
    PROVE  Aged(table) \in Tables(S) /\ \A x \in S : Aged(table)[x] <= table[x]
  BY CooldownsAssumption DEF Tables, Aged

(* A cleared table of cooldowns has no longer ones.                        *)
LEMMA ClearedFacts ==
    ASSUME NEW S, NEW table \in Tables(S)
    PROVE  Cleared(table) \in Tables(S) /\ \A x \in S : Cleared(table)[x] <= table[x]
  BY CooldownsAssumption DEF Tables, Cleared

(* A key is added to the pool once.                                        *)
LEMMA AddToPoolTyped ==
    ASSUME PoolTypeOK, NEW k \in Keys, AddToPool(k)
    PROVE  /\ pool' \in Seq(Keys) /\ Len(pool') >= 1 /\ liveKey' \in Keys
           /\ \A i, j \in 1 .. Len(pool') : pool'[i] = pool'[j] => i = j
<1>1. CASE k \in Pooled
  BY <1>1 DEF AddToPool, PoolTypeOK
<1>2. CASE k \notin Pooled
  <2>1. pool' = Append(pool, k)
    BY <1>2 DEF AddToPool
  <2>2. /\ pool' \in Seq(Keys) /\ Len(pool') = Len(pool) + 1 /\ pool'[Len(pool) + 1] = k
        /\ \A i \in 1 .. Len(pool) : pool'[i] = pool[i] /\ pool'[i] # k
    BY <1>2, <2>1 DEF PoolTypeOK, Pooled
  <2> QED  BY <2>2 DEF AddToPool, PoolTypeOK
<1> QED  BY <1>1, <1>2

(* The operations on keys keep the pool free of repetitions and lengthen   *)
(* no cooldown.                                                            *)
LEMMA ManageTyped ==
    ASSUME PoolTypeOK, ManageKeys
    PROVE  PoolTypeOK' /\ \A k \in Keys : keyCooling'[k] <= keyCooling[k]
<1>1. PICK k \in Managed :
         \/ OverwriteProvider(k)
         \/ AddProviderApiKey(k)
         \/ SetActiveProviderApiKey(k)
         \/ RemoveProviderApiKey(k)
  BY DEF ManageKeys
<1>2. k \in Keys
  BY KeyPoolAssumption
<1>3. keyCooling' \in {keyCooling, Cleared(keyCooling)}
  BY <1>1 DEF OverwriteProvider, AddProviderApiKey, SetActiveProviderApiKey, RemoveProviderApiKey
<1>4. keyCooling' \in Tables(Keys) /\ \A x \in Keys : keyCooling'[x] <= keyCooling[x]
  BY <1>3, ClearedFacts DEF PoolTypeOK, Tables
<1>5. CASE OverwriteProvider(k) \/ AddProviderApiKey(k)
  BY <1>2, <1>4, <1>5, AddToPoolTyped DEF OverwriteProvider, AddProviderApiKey, PoolTypeOK
<1>6. CASE SetActiveProviderApiKey(k)
  BY <1>2, <1>4, <1>6 DEF SetActiveProviderApiKey, PoolTypeOK
<1>7. CASE RemoveProviderApiKey(k)
  <2>1. /\ pool' \in Seq(Keys) /\ Len(pool') >= 1
        /\ \A i, j \in 1 .. Len(pool') : pool'[i] = pool'[j] => i = j
    BY <1>7, PositionTyped DEF RemoveProviderApiKey, PoolTypeOK
  <2> QED  BY <1>4, <1>7, <2>1 DEF RemoveProviderApiKey, PoolTypeOK
<1> QED  BY <1>1, <1>5, <1>6, <1>7

(* Every step of a request, of the clock and of the operator keeps the     *)
(* invariant.                                                              *)
LEMMA InvInductive == FailoverInv /\ [Next]_vars => FailoverInv'
<1> SUFFICES ASSUME FailoverInv, [Next]_vars PROVE FailoverInv'
  OBVIOUS
<1>1. ASSUME NEW r \in Requests, StartDirect(r) \/ StartCombo(r)
      PROVE  FailoverInv'
  BY <1>1, StartTyped
<1>2. ASSUME NEW r \in Requests, Answer(r)
      PROVE  FailoverInv'
  BY <1>2, AnswerTyped
<1>3. ASSUME NEW r \in Requests, Hop(r)
      PROVE  FailoverInv'
  BY <1>3, HopTyped
<1>4. CASE Tick
  <2>1. keyCooling' \in Tables(Keys) /\ memberCooling' \in Tables(Members)
    BY <1>4, AgedFacts DEF Tick, FailoverInv, PoolTypeOK
  <2> QED  BY <1>4, <2>1 DEF Tick, FailoverInv, PoolTypeOK, Requested
<1>5. CASE Manage
  <2>1. CASE ManageKeys /\ UNCHANGED comboVars
    BY <1>5, <2>1, ManageTyped DEF Manage, comboVars, FailoverInv, Requested
  <2>2. CASE PutCombo /\ UNCHANGED poolVars
    <3>1. memberCooling' \in Tables(Members)
      BY <2>2, ClearedFacts DEF PutCombo, FailoverInv
    <3>2. Selection(selection)'
      BY <2>2, FreshTyped DEF PutCombo
    <3> QED  BY <1>5, <2>2, <3>1, <3>2 DEF Manage, poolVars, FailoverInv, PoolTypeOK, Requested
  <2> QED  BY <1>5, <2>1, <2>2 DEF Manage
<1>6. CASE UNCHANGED vars
  BY <1>6 DEF vars, FailoverInv, PoolTypeOK, Requested
<1> QED  BY <1>1, <1>2, <1>3, <1>4, <1>5, <1>6 DEF Next

(* The requests and the pool keep their shape: a request on its way to the *)
(* provider with the pool always holds one of the keys.                    *)
THEOREM FailoverInvariant == Spec => []FailoverInv
  BY InvInitial, InvInductive, PTL DEF Spec

(* The tables, the selection and the requests keep their types: the count  *)
(* of successes stays below the sticky limit, and a credit is a number.    *)
THEOREM TypeCorrect == Spec => []TypeOK
<1>1. FailoverInv => TypeOK
  BY DEF FailoverInv, Selection, SelectionState, Requested, RequestState, TypeOK, SelectionTypeOK
<1> QED  BY <1>1, FailoverInvariant, PTL

(* Whatever the order in which requests pick, succeed and fail, and        *)
(* whichever members they leave out, the credits of a weighted round-robin *)
(* add up to nothing: smoothWeightedIndex charges the member it picks what *)
(* it gave the eligible ones, so no member gains a standing for good.      *)
CreditsBalance == Sum(selection.weights, Members) = 0

(* The balance holds for any weights and any interleaving of requests.     *)
THEOREM CreditsAreBalanced == Spec => []CreditsBalance
<1>1. FailoverInv => CreditsBalance
  BY DEF FailoverInv, Selection, CreditsBalance
<1> QED  BY <1>1, FailoverInvariant, PTL

------------------------------------------------------------------------------
(***************************************************************************)
(* The properties.                                                         *)
(***************************************************************************)

(* The loop of a combo excludes every member it has tried, so no member is *)
(* given twice, whatever the durations of the cooldowns.                   *)
THEOREM OncePerMemberHolds == Spec => []OncePerMember
<1>1. FailoverInv => OncePerMember
  BY DEF FailoverInv, Requested, OncePerMember
<1> QED  BY <1>1, FailoverInvariant, PTL

(* A pool of any size is scanned to its end before a 429 is let through.   *)
LEMMA GivesUpLast == FailoverInv => GivenUpOnlyWhenAllCooling
<1> SUFFICES ASSUME FailoverInv, NEW r \in Requests, NEW header \in Headers,
                    req[r].phase = "sent", req[r].key \in Pooled, Len(pool) > 1,
                    Rotation(req[r].key, header) = NoKey,
                    NEW other \in Pooled
             PROVE  CoolingAfter(req[r].key, header)[other] > 0
  BY DEF GivenUpOnlyWhenAllCooling
<1> DEFINE k == req[r].key
           cooling == CoolingAfter(k, header)
<1>1. PoolTypeOK /\ k \in Keys /\ Pooled \subseteq Keys /\ NoKey \notin Keys
  BY PooledAreKeys, KeyPoolAssumption DEF FailoverInv
<1>2. cooling \in [Keys -> Nat] /\ cooling[k] > 0
  BY <1>1, CoolingFacts, CooldownsAssumption DEF Tables
<1>3. CASE other = k
  BY <1>2, <1>3
<1>4. CASE other # k
  <2>1. ~ LostRace(k, cooling)
    BY <1>1 DEF Rotation, LostRace
  <2>2. NextKey(k, cooling) = NoKey
    BY <2>1 DEF Rotation
  <2>3. FreeOffsets(k, cooling) = {}
    <3> SUFFICES ASSUME FreeOffsets(k, cooling) # {} PROVE FALSE
      OBVIOUS
    <3> DEFINE free == FreeOffsets(k, cooling)
               least == CHOOSE i \in free : \A j \in free : i <= j
    <3>1. Candidate(k, least) = NoKey
      BY <2>2 DEF NextKey
    <3>2. free \subseteq Nat /\ free \subseteq 1 .. Len(pool) /\ free # {}
      BY <1>1 DEF FreeOffsets, PoolTypeOK
    <3>3. least \in free
      <4> HIDE DEF free
      <4> QED  BY <3>2, LeastIsChosen
    <3> HIDE DEF free, least
    <3> QED  BY <1>1, <3>1, <3>2, <3>3, CandidateIsPooled
  <2>4. PICK i \in 1 .. Len(pool) - 1 : Candidate(k, i) = other
    BY <1>1, <1>4, ScanCovers
  <2>5. cooling[other] # 0
    BY <2>3, <2>4 DEF FreeOffsets
  <2> QED  BY <1>1, <1>2, <2>5
<1> QED  BY <1>3, <1>4

(* A request gives up on a 429 only when every key of the pool cools, if   *)
(* the refused key is still in the pool: the scan of rotateKeyOn429 leaves *)
(* out no key.                                                             *)
THEOREM RotationIsComplete == Spec => []GivenUpOnlyWhenAllCooling
  BY GivesUpLast, FailoverInvariant, PTL

(* What a 429 does to the pool: only the key it refused is cooled, its     *)
(* request changes, and a live key that is replaced is cooling or gone.    *)
LEMMA RateLimitedFacts ==
    ASSUME FailoverInv, NEW r \in Requests, NEW header \in Headers, RateLimited(r, header)
    PROVE  /\ \A k \in Keys : keyCooling'[k] > keyCooling[k] =>
                  /\ req[r].phase = "sent" /\ UsesPool(req[r].member)
                  /\ req[r].key = k /\ req'[r] # req[r]
           /\ liveKey' # liveKey => liveKey \notin Pooled \/ keyCooling'[liveKey] > 0
<1>1. req[r].phase = "sent" /\ PoolTypeOK /\ req[r] \in RequestState
  BY DEF RateLimited, FailoverInv, Requested
<1>2. ASSUME Fail(r, header) PROVE req'[r] # req[r]
  <2>1. req'[r].phase # "sent"
    BY <1>1, <1>2, FreeTyped DEF Fail, End, FailoverInv, Requested, RequestState
  <2> QED  BY <1>1, <2>1
<1>3. CASE UsesPool(req[r].member)
  <2> DEFINE k == req[r].key
             next == Rotation(k, header)
  <2>1. k \in Keys /\ RotateKeyOn429(k, header)
    BY <1>1, <1>3 DEF RateLimited, FailoverInv, Requested
  <2>2. req'[r] # req[r]
    <3>1. CASE next = NoKey
      BY <1>2, <1>3, <3>1 DEF RateLimited
    <3>2. CASE next # NoKey
      <4>1. next # k
        BY <1>1, <2>1, <3>2, RotationMoves
      <4>2. req' = [req EXCEPT ![r].key = next]
        BY <1>3, <3>2 DEF RateLimited
      <4> HIDE DEF next
      <4>3. req'[r].key = next
        BY <1>1, <4>2 DEF FailoverInv, Requested, RequestState
      <4> QED  BY <4>1, <4>3
    <3> QED  BY <3>1, <3>2
  <2>3. \A other \in Keys \ {k} : keyCooling'[other] = keyCooling[other]
    BY <1>1, <2>1, CoolingFacts DEF RotateKeyOn429
  <2>4. keyCooling[k] \in Nat /\ \A other \in Keys : keyCooling[other] \in Nat
    BY <1>1, <2>1, CooldownsAssumption DEF PoolTypeOK, Tables
  <2>5. ASSUME liveKey' # liveKey, liveKey \in Pooled
        PROVE  keyCooling'[liveKey] > 0
    <3>1. next # NoKey /\ liveKey' = next /\ Len(pool) >= 2
      BY <1>1, <2>1, <2>5 DEF RotateKeyOn429, Rotation, PoolTypeOK
    <3>2. keyCooling' = CoolingAfter(k, header)
      BY <1>1, <2>1, <3>1 DEF RotateKeyOn429, PoolTypeOK
    <3>3. ~ LostRace(k, CoolingAfter(k, header))
      BY <2>5, <3>1 DEF Rotation
    <3>4. CASE liveKey = k
      BY <1>1, <2>1, <2>5, <3>2, <3>4, CoolingFacts
    <3>5. CASE liveKey # k
      <4>1. keyCooling'[liveKey] # 0
        BY <2>5, <3>2, <3>3, <3>5 DEF LostRace
      <4>2. liveKey \in Keys /\ PoolTypeOK
        BY <1>1 DEF PoolTypeOK
      <4>3. keyCooling' \in Tables(Keys)
        BY <2>1, <3>2, <4>2, CoolingFacts
      <4>4. keyCooling'[liveKey] \in Nat
        BY <4>2, <4>3, CooldownsAssumption DEF Tables
      <4> QED  BY <4>1, <4>4
    <3> QED  BY <3>4, <3>5
  <2> QED  BY <1>1, <1>3, <2>2, <2>3, <2>4, <2>5
<1>4. CASE ~ UsesPool(req[r].member)
  <2>1. UNCHANGED poolVars
    BY <1>4 DEF RateLimited
  <2>2. \A k \in Keys : keyCooling[k] \in Nat
    BY <1>1, CooldownsAssumption DEF PoolTypeOK, Tables
  <2> QED  BY <2>1, <2>2 DEF poolVars
<1> QED  BY <1>3, <1>4

(* No other step of a request touches the pool.                            *)
LEMMA OtherStepsLeavePool ==
    ASSUME NEW r \in Requests,
           \/ StartDirect(r) \/ StartCombo(r) \/ Hop(r)
           \/ Succeeds(r) \/ Stops(r) \/ \E header \in Headers : Breaks(r, header)
    PROVE  UNCHANGED poolVars
  BY DEF StartDirect, StartCombo, Hop, Succeeds, Stops, Breaks, poolVars

(* A key is cooled by nothing but a 429 that it was itself answered with.  *)
LEMMA InnocentStep ==
    ASSUME FailoverInv, [Next]_vars, NEW k \in Keys, keyCooling'[k] > keyCooling[k]
    PROVE  \E r \in Requests :
               /\ req[r].phase = "sent" /\ UsesPool(req[r].member)
               /\ req[r].key = k /\ req'[r] # req[r]
<1>1. PoolTypeOK /\ keyCooling \in Tables(Keys) /\ keyCooling[k] \in Nat
  BY CooldownsAssumption DEF FailoverInv, PoolTypeOK, Tables
<1>2. ASSUME UNCHANGED poolVars PROVE FALSE
  BY <1>1, <1>2 DEF poolVars
<1>3. ASSUME NEW r \in Requests, NEW header \in Headers, RateLimited(r, header)
      PROVE  \E s \in Requests :
                /\ req[s].phase = "sent" /\ UsesPool(req[s].member)
                /\ req[s].key = k /\ req'[s] # req[s]
  BY <1>3, RateLimitedFacts
<1>4. CASE Tick
  BY <1>1, <1>4, AgedFacts DEF Tick, Tables
<1>5. CASE Manage
  BY <1>1, <1>2, <1>5, ManageTyped DEF Manage, PoolTypeOK, Tables
<1>6. CASE UNCHANGED vars
  BY <1>2, <1>6 DEF vars, poolVars
<1> QED  BY <1>2, <1>3, <1>4, <1>5, <1>6, OtherStepsLeavePool DEF Next, Answer

(* A key is put to rest only by a 429 of a request that was sent with it.  *)
THEOREM InnocentKeysAreSpared == Spec => InnocentKeysStayFree
<1>1. FailoverInv /\ [Next]_vars =>
         [\A k \in Keys :
              keyCooling'[k] > keyCooling[k] =>
                  \E r \in Requests :
                      /\ req[r].phase = "sent" /\ UsesPool(req[r].member)
                      /\ req[r].key = k /\ req'[r] # req[r]]_vars
  BY InnocentStep
<1> QED  BY <1>1, FailoverInvariant, PTL DEF Spec, InnocentKeysStayFree

(* Requests that were refused with one and the same key rotate once.       *)
LEMMA RotationStep ==
    ASSUME FailoverInv, [Next]_vars, req' # req, liveKey' # liveKey
    PROVE  liveKey \notin Pooled \/ keyCooling'[liveKey] > 0
<1>1. ASSUME UNCHANGED poolVars PROVE FALSE
  BY <1>1 DEF poolVars
<1>2. ASSUME NEW r \in Requests, NEW header \in Headers, RateLimited(r, header)
      PROVE  liveKey \notin Pooled \/ keyCooling'[liveKey] > 0
  BY <1>2, RateLimitedFacts
<1>3. CASE Tick \/ Manage \/ UNCHANGED vars
  BY <1>3 DEF Tick, Manage, vars
<1> QED  BY <1>1, <1>2, <1>3, OtherStepsLeavePool DEF Next, Answer

(* A request rotates away from the live key only when it cools or has left *)
(* the pool: several refusals of one key rotate once.                      *)
THEOREM RefusalsRotateOnce == Spec => OneRotationPerRefusal
<1>1. FailoverInv /\ [Next]_vars =>
         [req' # req /\ liveKey' # liveKey =>
              liveKey \notin Pooled \/ keyCooling'[liveKey] > 0]_vars
  BY RotationStep
<1> QED  BY <1>1, FailoverInvariant, PTL DEF Spec, OneRotationPerRefusal

(* A request that gets a new member gets one that is not cooling.          *)
LEMMA PickRests ==
    ASSUME FailoverInv, NEW r \in Requests, NEW sel, Selection(sel),
           NEW payload, NEW excluded, NEW tried,
           Pick(r, sel, (payload \cap NotCooling(memberCooling')) \ excluded, tried, payload),
           NEW s \in Requests, req'[s].member \in Members \ {req[s].member}
    PROVE  memberCooling'[req'[s].member] = 0
<1> DEFINE eligible == (payload \cap NotCooling(memberCooling')) \ excluded
           m == PickComboTarget(sel, eligible)
<1>1. req \in [Requests -> RequestState] /\ Free.member = NoMember /\ NoMember \notin Members
  BY FreeTyped, ComboAssumption DEF FailoverInv, Requested
<1>2. CASE m = NoMember
  BY <1>1, <1>2 DEF Pick, End
<1>3. CASE m # NoMember
  <2>1. eligible \in SUBSET Members
    BY DEF NotCooling
  <2>2. m \in eligible /\ req'[r].member = m /\ \A t \in Requests \ {r} : req'[t] = req[t]
    BY <1>1, <1>3, <2>1, PickFacts
  <2> QED  BY <2>2 DEF NotCooling
<1> QED  BY <1>2, <1>3

(* The member a request turns to does not cool.                            *)
LEMMA RestStep ==
    ASSUME FailoverInv, [Next]_vars,
           NEW s \in Requests, req'[s].member \in Members \ {req[s].member}
    PROVE  memberCooling'[req'[s].member] = 0
<1>1. req \in [Requests -> RequestState] /\ Free.member = NoMember /\ NoMember \notin Members
  BY FreeTyped, ComboAssumption DEF FailoverInv, Requested
<1>2. Selection(selection) /\ \A m : Selection(NoteFailure(selection, m))
  BY NoteFailureTyped DEF FailoverInv
<1>3. ASSUME NEW r \in Requests, StartDirect(r) PROVE FALSE
  BY <1>1, <1>3, FailoverAssumption DEF StartDirect
<1>4. ASSUME NEW r \in Requests, StartCombo(r)
      PROVE  memberCooling'[req'[s].member] = 0
  <2>1. PICK payload \in Payloads :
           Pick(r, selection, payload \cap NotCooling(memberCooling), {}, payload)
    BY <1>4 DEF StartCombo
  <2>2. memberCooling' = memberCooling
    BY <1>4 DEF StartCombo
  <2>3. payload \cap NotCooling(memberCooling) = (payload \cap NotCooling(memberCooling')) \ {}
    BY <2>2
  <2>4. Pick(r, selection, (payload \cap NotCooling(memberCooling')) \ {}, {}, payload)
    BY <2>1, <2>3
  <2> QED  BY <1>2, <2>4, PickRests
<1>5. ASSUME NEW r \in Requests, Hop(r)
      PROVE  memberCooling'[req'[s].member] = 0
  BY <1>2, <1>5, PickRests DEF Hop
<1>6. ASSUME NEW r \in Requests, End(r) PROVE FALSE
  BY <1>1, <1>6 DEF End
<1>7. ASSUME NEW r \in Requests, NEW header, Fail(r, header) PROVE FALSE
  BY <1>1, <1>6, <1>7 DEF Fail, RequestState
<1>8. ASSUME NEW r \in Requests, Answer(r) PROVE FALSE
  <2>1. ASSUME NEW header \in Headers, RateLimited(r, header) PROVE FALSE
    BY <1>1, <1>7, <2>1 DEF RateLimited, RequestState
  <2>2. ASSUME NEW header \in Headers, Breaks(r, header) PROVE FALSE
    BY <1>7, <2>2 DEF Breaks
  <2>3. CASE Succeeds(r) \/ Stops(r)
    BY <1>6, <2>3 DEF Succeeds, Stops
  <2> QED  BY <1>8, <2>1, <2>2, <2>3 DEF Answer
<1>9. CASE Tick \/ Manage \/ UNCHANGED vars
  BY <1>9 DEF Tick, Manage, vars
<1> QED  BY <1>3, <1>4, <1>5, <1>8, <1>9 DEF Next

(* A member that failed rests for every request until its cooldown ends.   *)
THEOREM FailedMembersRest == Spec => CoolingMembersRest
<1>1. FailoverInv /\ [Next]_vars =>
         [\A r \in Requests :
              req'[r].member \in Members \ {req[r].member} =>
                  memberCooling'[req'[r].member] = 0]_vars
  BY RestStep
<1> QED  BY <1>1, FailoverInvariant, PTL DEF Spec, CoolingMembersRest

------------------------------------------------------------------------------
(* What leaves the turn of the active member as it is.                     *)
LEMMA NoteSuccessKeeps ==
    ASSUME NEW sel, Selection(sel), NEW m, m # sel.active
    PROVE  NoteSuccess(sel, m) = sel
  BY DEF NoteSuccess

(* The failure of another member leaves the selection alone.               *)
LEMMA NoteFailureKeeps ==
    ASSUME NEW sel, Selection(sel), NEW m, m # sel.active
    PROVE  NoteFailure(sel, m) = sel
  BY DEF NoteFailure

(* A sticky member that is eligible stays.                                 *)
LEMMA PickKeeps ==
    ASSUME NEW sel, NEW eligible, sel.active \in eligible
    PROVE  PickSelection(sel, eligible) = sel
  BY DEF PickSelection

(* The member whose turn it is loses it only for a cause.                  *)
LEMMA TurnStep ==
    ASSUME FailoverInv, [Next]_vars, req' # req, selection.active # NoMember,
           \/ selection'.active # selection.active
           \/ selection'.successes < selection.successes
    PROVE  \E r \in Requests :
               /\ req'[r] # req[r]
               /\ \/ req[r].member = selection.active
                  \/ memberCooling'[selection.active] > 0
                  \/ selection.active \in req[r].tried
                  \/ selection.active \notin req'[r].payload
<1> DEFINE a == selection.active
<1>1. /\ req \in [Requests -> RequestState] /\ Selection(selection)
      /\ a \in Members /\ selection.successes \in Nat
  BY ComboAssumption DEF FailoverInv, Requested, Selection, SelectionState
<1>2. selection' # selection
  BY <1>1
<1>3. PICK r \in Requests : StartCombo(r) \/ Succeeds(r) \/ Hop(r)
  <2>1. ~ (Manage \/ Tick \/ UNCHANGED vars)
    BY <1>2 DEF Manage, Tick, vars
  <2>2. ASSUME NEW r \in Requests, NEW header \in Headers PROVE ~ RateLimited(r, header)
    BY <1>2 DEF RateLimited, comboVars
  <2> QED  BY <1>2, <2>1, <2>2 DEF Next, Answer, StartDirect, Breaks, Stops
<1>4. req'[r] # req[r]
  <2> SUFFICES ASSUME req'[r] = req[r] PROVE FALSE
    OBVIOUS
  <2>1. \A s \in Requests \ {r} : req'[s] = req[s]
    BY <1>1, <1>3 DEF StartCombo, Succeeds, Hop, Pick, End
  <2>2. req' \in [Requests -> RequestState]
    BY InvInductive DEF FailoverInv, Requested
  <2> QED  BY <1>1, <2>1, <2>2
<1>5. CASE Succeeds(r)
  BY <1>1, <1>2, <1>4, <1>5, NoteSuccessKeeps DEF Succeeds
<1>6. ASSUME NEW sel, NEW payload, NEW excluded, NEW tried,
             Pick(r, sel, (payload \cap NotCooling(memberCooling')) \ excluded, tried, payload),
             sel = selection, memberCooling' \in Tables(Members), excluded = req[r].tried
      PROVE  \/ memberCooling'[a] > 0
             \/ a \in req[r].tried
             \/ a \notin req'[r].payload
  <2> DEFINE eligible == (payload \cap NotCooling(memberCooling')) \ excluded
             m == PickComboTarget(sel, eligible)
  <2>1. a \notin eligible
    BY <1>2, <1>6, PickKeeps DEF Pick
  <2>2. CASE a \in payload
    <3>1. memberCooling'[a] \in Nat
      BY <1>1, <1>6, CooldownsAssumption DEF Tables
    <3> QED  BY <1>1, <1>6, <2>1, <2>2, <3>1 DEF NotCooling
  <2>3. CASE a \notin payload
    <3>1. CASE m = NoMember
      BY <1>1, <1>6, <3>1, FreeTyped DEF Pick, End
    <3>2. CASE m # NoMember
      <4>1. eligible \in SUBSET Members
        BY DEF NotCooling
      <4> QED  BY <1>1, <1>6, <2>3, <3>2, <4>1, PickFacts
    <3> QED  BY <3>1, <3>2
  <2> QED  BY <2>2, <2>3
<1>7. memberCooling' \in Tables(Members)
  BY InvInductive DEF FailoverInv
<1>8. CASE StartCombo(r)
  <2>1. PICK payload \in Payloads :
           Pick(r, selection, payload \cap NotCooling(memberCooling), {}, payload)
    BY <1>8 DEF StartCombo
  <2>2. memberCooling' = memberCooling /\ req[r].tried = {}
    BY <1>8 DEF StartCombo, FailoverInv, Requested
  <2>3. payload \cap NotCooling(memberCooling) =
           (payload \cap NotCooling(memberCooling')) \ req[r].tried
    BY <2>2
  <2>4. Pick(r, selection, (payload \cap NotCooling(memberCooling')) \ req[r].tried, {}, payload)
    BY <2>1, <2>3
  <2> QED  BY <1>4, <1>6, <1>7, <2>4
<1>9. CASE Hop(r)
  <2>1. CASE req[r].member = a
    BY <1>4, <2>1
  <2>2. CASE req[r].member # a
    <3>1. NoteFailure(selection, req[r].member) = selection
      BY <1>1, <2>2, NoteFailureKeeps
    <3>2. Pick(r, selection,
               (req[r].payload \cap NotCooling(memberCooling')) \ req[r].tried,
               req[r].tried, req[r].payload)
      BY <1>9, <3>1 DEF Hop
    <3> QED  BY <1>4, <1>6, <1>7, <3>2
  <2> QED  BY <2>1, <2>2
<1> QED  BY <1>3, <1>5, <1>8, <1>9

(* Requests take the turn of a sticky member away only for a cause of its  *)
(* own: its success, its failure, its cooldown, or a request it cannot     *)
(* serve.                                                                  *)
THEOREM TurnsAreLostForCause == Spec => TurnLostForCause
<1>1. FailoverInv /\ [Next]_vars =>
         [LET a == selection.active
              lost == selection'.active # a \/ selection'.successes < selection.successes
          IN  a # NoMember /\ lost /\ req' # req =>
                  \E r \in Requests :
                      /\ req'[r] # req[r]
                      /\ \/ req[r].member = a
                         \/ memberCooling'[a] > 0
                         \/ a \in req[r].tried
                         \/ a \notin req'[r].payload]_vars
  BY TurnStep
<1> QED  BY <1>1, FailoverInvariant, PTL DEF Spec, TurnLostForCause
==============================================================================
