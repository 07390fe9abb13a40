------------------------------ MODULE Counting ------------------------------
(***************************************************************************)
(* How many elements of a finite set a function takes into a set of        *)
(* labels, and how that number changes when one element moves: what the    *)
(* proofs about counters of goroutines rest on.                            *)
(***************************************************************************)
EXTENDS Integers, FiniteSets, FiniteSetTheorems, TLAPS

Count(S, f, L) == Cardinality({x \in S : f[x] \in L})

\* A count is a natural number, and zero only when nobody is counted.
LEMMA CountType ==
  ASSUME NEW S, IsFiniteSet(S), NEW f, NEW L
  PROVE  /\ Count(S, f, L) \in Nat
         /\ Count(S, f, L) = 0 <=> \A x \in S : f[x] \notin L
         /\ Count(S, f, L) <= Cardinality(S)
<1> DEFINE T == {x \in S : f[x] \in L}
<1>1. T \in SUBSET S
  OBVIOUS
<1>2. IsFiniteSet(T) /\ Cardinality(T) <= Cardinality(S)
  BY <1>1, FS_Subset
<1>3. Cardinality(T) \in Nat /\ (Cardinality(T) = 0 <=> T = {})
  BY <1>2, FS_CardinalityType, FS_EmptySet
<1>4. T = {} <=> \A x \in S : f[x] \notin L
  OBVIOUS
<1>. QED
  BY <1>2, <1>3, <1>4 DEF Count

\* Two functions that take the same elements there count the same.
LEMMA CountSame ==
  ASSUME NEW S, NEW f, NEW g, NEW L, NEW M,
         \A x \in S : g[x] \in M <=> f[x] \in L
  PROVE  Count(S, g, M) = Count(S, f, L)
<1>1. {x \in S : g[x] \in M} = {x \in S : f[x] \in L}
  OBVIOUS
<1>. QED
  BY <1>1 DEF Count

\* One element moves.
LEMMA CountMoves ==
  ASSUME NEW S, IsFiniteSet(S), NEW f, NEW g, NEW L, NEW x \in S,
         \A y \in S \ {x} : g[y] \in L <=> f[y] \in L
  PROVE  Count(S, g, L) = Count(S, f, L) - (IF f[x] \in L THEN 1 ELSE 0)
                                         + (IF g[x] \in L THEN 1 ELSE 0)
<1> DEFINE F == {y \in S : f[y] \in L}
           G == {y \in S : g[y] \in L}
<1>0. Count(S, f, L) = Cardinality(F) /\ Count(S, g, L) = Cardinality(G)
  BY DEF Count
<1>1. IsFiniteSet(F) /\ IsFiniteSet(G)
  BY FS_Subset
<1>2. Cardinality(F) \in Nat /\ Cardinality(G) \in Nat
  BY <1>1, FS_CardinalityType
<1>3. CASE f[x] \in L /\ g[x] \in L
  <2>1. G = F
    BY <1>3
  <2>. HIDE DEF F, G
  <2>. QED
    BY <1>0, <1>2, <1>3, <2>1
<1>4. CASE f[x] \in L /\ g[x] \notin L
  <2>1. G = F \ {x} /\ x \in F
    BY <1>4
  <2>2. Cardinality(G) = Cardinality(F) - 1
    BY <1>1, <2>1, FS_RemoveElement
  <2>. HIDE DEF F, G
  <2>. QED
    BY <1>0, <1>2, <1>4, <2>2
<1>5. CASE f[x] \notin L /\ g[x] \in L
  <2>1. G = F \cup {x} /\ x \notin F
    BY <1>5
  <2>2. Cardinality(G) = Cardinality(F) + 1
    BY <1>1, <2>1, FS_AddElement
  <2>. HIDE DEF F, G
  <2>. QED
    BY <1>0, <1>2, <1>5, <2>2
<1>6. CASE f[x] \notin L /\ g[x] \notin L
  <2>1. G = F
    BY <1>6
  <2>. HIDE DEF F, G
  <2>. QED
    BY <1>0, <1>2, <1>6, <2>1
<1>. QED
  BY <1>3, <1>4, <1>5, <1>6

\* Labels without anything in common are counted one by one.
LEMMA CountSplit ==
  ASSUME NEW S, IsFiniteSet(S), NEW f, NEW L, NEW M, L \cap M = {}
  PROVE  Count(S, f, L \cup M) = Count(S, f, L) + Count(S, f, M)
<1> DEFINE A == {x \in S : f[x] \in L}
           B == {x \in S : f[x] \in M}
<1>0. Count(S, f, L) = Cardinality(A) /\ Count(S, f, M) = Cardinality(B)
  BY DEF Count
<1>1. IsFiniteSet(A) /\ IsFiniteSet(B)
  BY FS_Subset
<1>2. A \cap B = {} /\ {x \in S : f[x] \in L \cup M} = A \cup B
  OBVIOUS
<1>3. Cardinality(A \cup B) = Cardinality(A) + Cardinality(B) - Cardinality(A \cap B)
  BY <1>1, FS_Union
<1>4. Cardinality(A) \in Nat /\ Cardinality(B) \in Nat /\ Cardinality(A \cap B) = 0
  BY <1>1, <1>2, FS_CardinalityType, FS_EmptySet
<1>5. Count(S, f, L \cup M) = Cardinality(A \cup B)
  BY <1>2 DEF Count
<1>. HIDE DEF A, B
<1>. QED
  BY <1>0, <1>3, <1>4, <1>5
=============================================================================
