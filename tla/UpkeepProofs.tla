---------------------------- MODULE UpkeepProofs ----------------------------
(***************************************************************************)
(* Theorems about Upkeep, for every archive, any number of shards and      *)
(* taggers, and whatever fails.                                            *)
(***************************************************************************)
EXTENDS Upkeep, FiniteSetTheorems, SequenceTheorems, WellFoundedInduction, TLAPS

-----------------------------------------------------------------------------
(* Recursive definitions. *)

(* A set of natural numbers that has an element has a smallest one. *)
LEMMA SmallestOf ==
    ASSUME NEW S, S \subseteq Nat, S # {}
    PROVE  \E x \in S : \A y \in S : x <= y
<1>1. PICK R : IsWellFoundedOn(R, Nat) /\ \A x, y \in Nat : x < y => <<x, y>> \in R
  <2>1. IsWellFoundedOn(OpToRel(<, Nat), Nat)
    BY NatLessThanWellFounded
  <2>2. \A x, y \in Nat : x < y => <<x, y>> \in OpToRel(<, Nat)
    BY Zenon DEF OpToRel
  <2> QED BY <2>1, <2>2, Zenon
<1>2. PICK x \in S : \A y \in S : ~ (<<y, x>> \in R)
  <2>1. IsWellFoundedOn(R, Nat) /\ S \subseteq Nat /\ S # {}
    BY <1>1
  <2> QED BY <2>1, WFMin, Zenon
<1>3. \A y \in S : x \in Nat /\ y \in Nat /\ (y < x => <<y, x>> \in R)
  BY <1>1
<1>4. \A y \in S : ~ (y < x)
  BY <1>2, <1>3, Zenon
<1> QED BY <1>3, <1>4

(* A set of numbers up to n that has an element has a largest one. *)
LEMMA LargestOf ==
    ASSUME NEW n \in Nat, NEW S, S \subseteq 0..n, S # {}
    PROVE  \E x \in S : \A y \in S : y <= x
<1> DEFINE D == {n - x : x \in S}
<1>1. D \subseteq Nat /\ D # {}
  <2>1. \A x \in S : n - x \in Nat
    OBVIOUS
  <2>2. PICK x \in S : TRUE
    OBVIOUS
  <2>3. n - x \in D
    OBVIOUS
  <2> QED BY <2>1, <2>3
<1>2. PICK d \in D : \A e \in D : d <= e
  BY <1>1, SmallestOf
<1>3. PICK x \in S : d = n - x
  BY <1>2
<1>4. \A y \in S : n - x <= n - y
  BY <1>2, <1>3
<1> QED BY <1>4

(***************************************************************************)
(* A function whose value at i depends on its values at lower ranks only   *)
(* exists: the functions defined by recursion along references are such.   *)
(***************************************************************************)
Ranked(D, V, M, rank, step) ==
    /\ V # {} /\ M \in Nat /\ rank \in [D -> 0..M] /\ step \in [D \X [D -> V] -> V]
    /\ \A i \in D : \A f, h \in [D -> V] :
          (\A j \in D : rank[j] < rank[i] => f[j] = h[j]) => step[<<i, f>>] = step[<<i, h>>]

LEMMA RankedRecursion ==
    ASSUME NEW D, NEW V, NEW M, NEW rank, NEW step, Ranked(D, V, M, rank, step)
    PROVE  \E f \in [D -> V] : \A i \in D : f[i] = step[<<i, f>>]
<1> USE DEF Ranked
<1>0. PICK v : v \in V
  OBVIOUS
<1> DEFINE Fits(f, n) == \A i \in D : rank[i] < n => f[i] = step[<<i, f>>]
           Misses == {n \in Nat : ~ \E f \in [D -> V] : Fits(f, n)}
<1>1. Misses = {}
  <2> SUFFICES ASSUME Misses # {} PROVE FALSE
    OBVIOUS
  <2>1. PICK n \in Misses : \A k \in Misses : n <= k
    BY SmallestOf
  <2>2. n # 0
    <3>1. [i \in D |-> v] \in [D -> V] /\ \A i \in D : ~(rank[i] < 0)
      BY <1>0
    <3>2. Fits([i \in D |-> v], 0)
      BY <3>1
    <3>3. QED
      BY <3>1, <3>2
  <2>3. n \in Nat /\ n - 1 \in Nat /\ n - 1 < n
    BY <2>1, <2>2
  <2>4. PICK f \in [D -> V] : Fits(f, n - 1)
    <3>1. \A k \in Misses : k \in Nat /\ n <= k
      BY <2>1
    <3>2. n - 1 \notin Misses
      <4> HIDE DEF Misses
      <4> QED
        BY <3>1, <2>3
    <3>3. QED
      BY <3>2, <2>3
  <2> DEFINE h == [i \in D |-> IF rank[i] = n - 1 THEN step[<<i, f>>] ELSE f[i]]
  <2>5. h \in [D -> V]
    OBVIOUS
  <2>6. ASSUME NEW i \in D, rank[i] < n PROVE h[i] = step[<<i, h>>]
    <3>1. \A j \in D : rank[j] < rank[i] => f[j] = h[j]
      BY <2>6, <2>3
    <3>2. step[<<i, f>>] = step[<<i, h>>]
      BY <3>1, <2>5
    <3>3. CASE rank[i] = n - 1
      BY <3>2, <3>3
    <3>4. CASE rank[i] # n - 1
      <4>1. rank[i] < n - 1
        BY <3>4, <2>6, <2>3
      <4>2. f[i] = step[<<i, f>>]
        BY <4>1, <2>4
      <4>3. QED
        BY <4>2, <3>2, <3>4
    <3>5. QED
      BY <3>3, <3>4
  <2>7. QED
    BY <2>5, <2>6
<1>2. PICK f \in [D -> V] : Fits(f, M + 1)
  <2>1. M + 1 \notin Misses
    <3> HIDE DEF Misses
    <3> QED
      BY <1>1
  <2>2. M + 1 \in Nat
    OBVIOUS
  <2>3. QED
    <3> HIDE DEF Fits
    <3> QED
      BY <2>1, <2>2
<1>3. \A i \in D : rank[i] < M + 1
  OBVIOUS
<1>4. QED
  BY <1>2, <1>3

-----------------------------------------------------------------------------
(* What a walk reaches. *)

(* The edges of the i-th claim lead to earlier ones. *)
Layered(n, edges) == \A i \in 1..n : \A e \in edges[i] : e.to \in 1..(i - 1)

Passing(edges, through, S, i) ==
    IF i \in S \cap through THEN S \cup {e.to : e \in edges[i]} ELSE S

LEMMA GreatestOf ==
    ASSUME NEW n \in Nat, NEW S \in SUBSET (1..n), S # {}
    PROVE  Max(S) \in S /\ \A x \in S : Max(S) >= x
<1>1. S \subseteq 0..n
  OBVIOUS
<1>2. PICK x \in S : \A y \in S : y <= x
  BY <1>1, LargestOf
<1>3. \A y \in S : x >= y
  BY <1>2
<1>4. QED
  BY <1>3 DEF Max

(* P[k] is what the walk has met once it has visited the k last claims. *)
Stages(P, n, edges, through, roots) ==
    /\ P[0] = roots /\ Below(n, edges, through, roots) = P[n]
    /\ \A k \in 0..(n - 1) : P[k + 1] = Passing(edges, through, P[k], n - k)

(* The walk visits the claims from the last one down, one at a time. *)
LEMMA BelowStages ==
    ASSUME NEW n \in Nat, NEW edges, Layered(n, edges), NEW through, NEW roots \in SUBSET (1..n)
    PROVE  \E P \in [0..n -> SUBSET (1..n)] : Stages(P, n, edges, through, roots)
<1> DEFINE D == SUBSET (1..n)
           From(s, f) == IF s = {} THEN roots
                         ELSE Passing(edges, through, f[s \ {Max(s)}], Downward(n)[Max(s)])
           step == [p \in D \X [D -> D] |-> From(p[1], p[2])]
           rank == [s \in D |-> Cardinality(s)]
           iter[s \in D] == From(s, iter)
<1>1. ASSUME NEW s \in D, s # {}
      PROVE  /\ Max(s) \in s /\ Downward(n)[Max(s)] = n + 1 - Max(s) /\ s \ {Max(s)} \in D
             /\ Cardinality(s \ {Max(s)}) < Cardinality(s)
  <2>1. Max(s) \in s
    BY <1>1, GreatestOf
  <2>2. IsFiniteSet(s)
    <3>1. IsFiniteSet(1..n)
      BY FS_Interval
    <3>2. QED
      BY <3>1, FS_Subset
  <2>3. Cardinality(s) \in Nat /\ Cardinality(s \ {Max(s)}) = Cardinality(s) - 1
    BY <2>1, <2>2, FS_RemoveElement, FS_CardinalityType
  <2>4. Downward(n)[Max(s)] = n + 1 - Max(s)
    BY <2>1 DEF Downward
  <2>5. s \ {Max(s)} \in D
    OBVIOUS
  <2>6. Cardinality(s \ {Max(s)}) < Cardinality(s)
    BY <2>3
  <2>7. QED
    BY <2>1, <2>4, <2>5, <2>6, Zenon
<1>2. ASSUME NEW S \in D, NEW i \in 1..n PROVE Passing(edges, through, S, i) \in D
  <2>1. \A e \in edges[i] : e.to \in 1..n
    BY DEF Layered
  <2>2. QED
    BY <2>1 DEF Passing
<1>3. rank \in [D -> 0..n]
  <2>1. ASSUME NEW s \in D PROVE Cardinality(s) \in 0..n
    <3>1. IsFiniteSet(1..n) /\ Cardinality(1..n) = n
      BY FS_Interval
    <3>2. IsFiniteSet(s) /\ Cardinality(s) <= n
      BY <3>1, FS_Subset
    <3>3. QED
      BY <3>2, FS_CardinalityType
  <2>2. QED
    BY <2>1
<1>4. \A s \in D, f \in [D -> D] : step[<<s, f>>] = From(s, f)
  OBVIOUS
<1>5. ASSUME NEW s \in D, NEW f \in [D -> D] PROVE From(s, f) \in D
  <2>1. CASE s = {}
    BY <2>1
  <2>2. CASE s # {}
    <3>1. f[s \ {Max(s)}] \in D
      BY <2>2, <1>1
    <3>2. Max(s) \in 1..n /\ Downward(n)[Max(s)] = n + 1 - Max(s)
      BY <2>2, <1>1
    <3>3. Downward(n)[Max(s)] \in 1..n
      BY <3>2
    <3>4. QED
      BY <3>1, <3>3, <1>2, <2>2
  <2>3. QED
    BY <2>1, <2>2
<1>6. step \in [D \X [D -> D] -> D]
  BY <1>5
<1>7. ASSUME NEW s \in D, NEW f \in [D -> D], NEW h \in [D -> D],
             \A r \in D : rank[r] < rank[s] => f[r] = h[r]
      PROVE  step[<<s, f>>] = step[<<s, h>>]
  <2>1. s # {} => f[s \ {Max(s)}] = h[s \ {Max(s)}]
    BY <1>1, <1>7
  <2>2. From(s, f) = From(s, h)
    BY <2>1
  <2>3. QED
    BY <2>2, <1>4
<1>8. Ranked(D, D, n, rank, step)
  <2>1. D # {}
    OBVIOUS
  <2> HIDE DEF step, rank, D
  <2>2. QED
    BY <2>1, <1>3, <1>6, <1>7 DEF Ranked
<1>9. PICK f \in [D -> D] : \A s \in D : f[s] = step[<<s, f>>]
  <2> HIDE DEF step, rank, D
  <2> QED
    BY <1>8, RankedRecursion
<1>9a. f = [s \in D |-> From(s, f)]
  <2>1. \A s \in D : f[s] = From(s, f)
    BY <1>9, <1>4
  <2> HIDE DEF From, D
  <2>2. QED
    BY <2>1, <1>9
<1>10. iter = [s \in D |-> From(s, iter)]
  BY <1>9a DEF iter
<1>11. Below(n, edges, through, roots) = iter[1..n]
  <2>1. DOMAIN Downward(n) = 1..n
    BY DEF Downward
  <2>2. QED
    BY <2>1 DEF Below, FoldLeft, MapThenFoldSet, Passing
<1>12. \A s \in D : iter[s] = From(s, iter)
  BY <1>10
<1> HIDE DEF iter
<1>13. iter[{}] = roots
  BY <1>12
<1>14. ASSUME NEW k \in 0..(n - 1)
       PROVE  iter[1..(k + 1)] = Passing(edges, through, iter[1..k], n - k)
  <2>1. 1..(k + 1) \in D /\ 1..(k + 1) # {}
    OBVIOUS
  <2>2. Max(1..(k + 1)) = k + 1
    <3>1. k + 1 \in 1..(k + 1) /\ k + 1 \in Nat
      OBVIOUS
    <3>2. Max(1..(k + 1)) \in 1..(k + 1) /\ Max(1..(k + 1)) >= k + 1
      BY <3>1, GreatestOf
    <3>3. QED
      BY <3>1, <3>2
  <2>3. (1..(k + 1)) \ {k + 1} = 1..k
    OBVIOUS
  <2>4. Downward(n)[k + 1] = n - k
    BY DEF Downward
  <2>5. iter[1..(k + 1)] = From(1..(k + 1), iter)
    BY <1>12, <2>1
  <2>6. QED
    BY <2>1, <2>2, <2>3, <2>4, <2>5
<1> DEFINE P == [k \in 0..n |-> iter[1..k]]
<1>15. P[0] = roots /\ \A k \in 0..n : P[k] = iter[1..k]
  <2>1. 1..0 = {}
    OBVIOUS
  <2>2. QED
    BY <2>1, <1>13
<1>16. \A k \in 0..(n - 1) : k \in 0..n /\ k + 1 \in 0..n
  OBVIOUS
<1>17. \A k \in 0..(n - 1) : P[k + 1] = Passing(edges, through, P[k], n - k)
  BY <1>14, <1>15, <1>16
<1>18. \A k \in 0..n : P[k] \in D
  <2> DEFINE Off == {k \in 0..n : P[k] \notin D}
  <2>1. Off = {}
    <3> SUFFICES ASSUME Off # {} PROVE FALSE
      OBVIOUS
    <3>1. PICK k \in Off : \A j \in Off : k <= j
      <4>1. Off \subseteq Nat
        OBVIOUS
      <4> HIDE DEF Off
      <4> QED BY <4>1, SmallestOf
    <3>2. k # 0
      BY <1>15
    <3>3. k - 1 \in 0..(n - 1) /\ k - 1 \in 0..n /\ k - 1 \notin Off
      BY <3>1, <3>2
    <3>4. P[k - 1] \in D
      BY <3>3
    <3>5. P[k] = Passing(edges, through, P[k - 1], n - (k - 1))
      <4>1. (k - 1) + 1 = k
        BY <3>1
      <4>2. P[(k - 1) + 1] = Passing(edges, through, P[k - 1], n - (k - 1))
        <5> HIDE DEF P
        <5> QED
          BY <1>17, <3>3
      <4>3. QED
        BY <4>1, <4>2
    <3>6. n - (k - 1) \in 1..n
      BY <3>3
    <3>7. P[k] \in D
      BY <3>4, <3>5, <3>6, <1>2
    <3>8. QED
      BY <3>7
  <2>2. QED
    BY <2>1
<1>19. P \in [0..n -> D]
  BY <1>18
<1>20. QED
  <2>1. n \in 0..n
    OBVIOUS
  <2>2. Below(n, edges, through, roots) = P[n]
    BY <1>11, <1>15, <2>1
  <2> HIDE DEF P
  <2>3. QED
    BY <1>15, <1>17, <1>19, <2>2 DEF Stages

(* What holds first, and next wherever it holds, holds all along. *)
LEMMA CountUp ==
    ASSUME NEW n \in Nat, NEW S, 0 \in S, \A k \in 0..(n - 1) : k \in S => k + 1 \in S
    PROVE  \A k \in 0..n : k \in S
<1> DEFINE Off == {k \in 0..n : k \notin S}
<1>1. Off = {}
  <2> SUFFICES ASSUME Off # {} PROVE FALSE
    OBVIOUS
  <2>1. Off \subseteq Nat
    OBVIOUS
  <2>2. PICK k \in Off : \A j \in Off : k <= j
    <3> HIDE DEF Off
    <3> QED
      BY <2>1, SmallestOf
  <2>3. k \in 0..n /\ k # 0 /\ k \notin S
    OBVIOUS
  <2>4. k - 1 \in 0..(n - 1) /\ k - 1 \in 0..n /\ (k - 1) + 1 = k /\ ~(k <= k - 1)
    BY <2>3
  <2>5. k - 1 \in S
    BY <2>2, <2>4
  <2>6. QED
    BY <2>3, <2>4, <2>5
<1>2. QED
  BY <1>1

(* X holds the roots and the references of what it holds and the walk can read. *)
WalkClosed(X, n, edges, through, roots) ==
    roots \subseteq X /\ \A i \in X \cap through \cap 1..n : \A e \in edges[i] : e.to \in X

(***************************************************************************)
(* A walk reaches the least set that holds its roots and the references of *)
(* what it can read.                                                       *)
(***************************************************************************)
LEMMA BelowIs ==
    ASSUME NEW n \in Nat, NEW edges, Layered(n, edges), NEW through, NEW roots \in SUBSET (1..n)
    PROVE  /\ Below(n, edges, through, roots) \in SUBSET (1..n)
           /\ WalkClosed(Below(n, edges, through, roots), n, edges, through, roots)
           /\ \A X : WalkClosed(X, n, edges, through, roots)
                        => Below(n, edges, through, roots) \subseteq X
<1>0. PICK P \in [0..n -> SUBSET (1..n)] : Stages(P, n, edges, through, roots)
  BY BelowStages
<1>1. /\ P[0] = roots /\ Below(n, edges, through, roots) = P[n]
      /\ \A k \in 0..(n - 1) : P[k + 1] = Passing(edges, through, P[k], n - k)
  BY <1>0 DEF Stages
<1>2. \A k \in 0..(n - 1) : k \in 0..n /\ k + 1 \in 0..n /\ n - k \in 1..n
  OBVIOUS
<1> DEFINE Shut(k) == /\ roots \subseteq P[k]
                      /\ \A i \in P[k] \cap through : i > n - k => \A e \in edges[i] : e.to \in P[k]
           Good == {k \in 0..n : Shut(k)}
<1>3. Shut(0)
  BY <1>1
<1>4. ASSUME NEW k \in 0..(n - 1), Shut(k) PROVE Shut(k + 1)
  <2>1. P[k] \subseteq P[k + 1] /\ P[k] \in SUBSET (1..n) /\ P[k + 1] \in SUBSET (1..n)
    BY <1>1, <1>2 DEF Passing
  <2>2. ASSUME NEW i \in P[k + 1] \cap through, i > n - (k + 1) PROVE \A e \in edges[i] : e.to \in P[k + 1]
    <3>1. i \in P[k]
      <4>1. P[k + 1] \subseteq P[k] \cup {e.to : e \in edges[n - k]}
        BY <1>1 DEF Passing
      <4>2. \A e \in edges[n - k] : e.to \in 1..((n - k) - 1)
        BY <1>2 DEF Layered
      <4>3. \A e \in edges[n - k] : i # e.to
        BY <4>2, <2>2
      <4>4. QED
        BY <4>1, <4>3
    <3>2. CASE i > n - k
      BY <1>4, <2>1, <3>1, <3>2
    <3>3. CASE i = n - k
      BY <1>1, <3>1, <3>3 DEF Passing
    <3>4. i \in 1..n
      BY <2>1
    <3>5. QED
      BY <2>2, <3>2, <3>3, <3>4
  <2>3. QED
    BY <1>4, <2>1, <2>2
<1>5. Shut(n)
  <2>1. 0 \in Good /\ \A k \in 0..(n - 1) : k \in Good => k + 1 \in Good
    <3> HIDE DEF Shut
    <3> QED
      BY <1>2, <1>3, <1>4
  <2>2. \A k \in 0..n : k \in Good
    <3> HIDE DEF Good
    <3> QED
      BY <2>1, CountUp
  <2>3. QED
    BY <2>2
<1>6. ASSUME NEW X, WalkClosed(X, n, edges, through, roots) PROVE P[n] \subseteq X
  <2> DEFINE In == {k \in 0..n : P[k] \subseteq X}
  <2>1. 0 \in In
    BY <1>1, <1>6 DEF WalkClosed
  <2>2. ASSUME NEW k \in 0..(n - 1), k \in In PROVE k + 1 \in In
    <3>1. P[k] \subseteq X /\ P[k + 1] = Passing(edges, through, P[k], n - k)
      BY <1>1, <2>2
    <3>2. n - k \in X \cap through => \A e \in edges[n - k] : e.to \in X
      BY <1>2, <1>6 DEF WalkClosed
    <3>3. P[k + 1] \subseteq X
      BY <3>1, <3>2 DEF Passing
    <3>4. QED
      BY <1>2, <3>3
  <2>3. \A k \in 0..n : k \in In
    <3> HIDE DEF In
    <3> QED
      BY <2>1, <2>2, CountUp
  <2>4. QED
    BY <2>3
<1>7. n \in 0..n /\ P[n] \in SUBSET (1..n)
  OBVIOUS
<1>8. WalkClosed(P[n], n, edges, through, roots)
  <2>1. \A i \in P[n] \cap through : i > n - n
    BY <1>7
  <2>2. QED
    BY <1>5, <2>1 DEF WalkClosed
<1>9. QED
  BY <1>1, <1>6, <1>7, <1>8

-----------------------------------------------------------------------------
(* The archive. *)

LEMMA ArchiveIsLayered == Len(graph) \in Nat /\ Layered(Len(graph), RawEdges)
  BY GraphAssumption DEF Layered, RawEdges, Ids

(* closure(c): c, and with every claim what it references, and nothing else. *)
LEMMA ClosureFacts ==
    ASSUME NEW c \in Ids
    PROVE  /\ ClosureOf[c] \in SUBSET Ids /\ c \in ClosureOf[c]
           /\ \A d \in ClosureOf[c] : \A e \in graph[d].edges : e.to \in ClosureOf[c]
           /\ \A X : (c \in X /\ \A d \in X \cap Ids : \A e \in graph[d].edges : e.to \in X)
                        => ClosureOf[c] \subseteq X
<1> DEFINE B == Below(Len(graph), RawEdges, Ids, {c})
<1>1. ClosureOf[c] = B
  BY DEF ClosureOf
<1>2. {c} \in SUBSET (1..Len(graph))
  BY DEF Ids
<1>3. /\ B \in SUBSET (1..Len(graph)) /\ WalkClosed(B, Len(graph), RawEdges, Ids, {c})
      /\ \A X : WalkClosed(X, Len(graph), RawEdges, Ids, {c}) => B \subseteq X
  BY <1>2, ArchiveIsLayered, BelowIs
<1>4. \A X : WalkClosed(X, Len(graph), RawEdges, Ids, {c})
                <=> (c \in X /\ \A d \in X \cap Ids : \A e \in graph[d].edges : e.to \in X)
  BY DEF WalkClosed, RawEdges, Ids
<1> HIDE DEF B
<1>5. QED
  BY <1>1, <1>3, <1>4 DEF Ids

(* What a claim reaches, reaches no more. *)
LEMMA ClosureNests ==
    ASSUME NEW c \in Ids, NEW d \in ClosureOf[c]
    PROVE  ClosureOf[d] \subseteq ClosureOf[c]
<1>1. d \in Ids
  BY ClosureFacts
<1>2. \A x \in ClosureOf[c] : \A e \in graph[x].edges : e.to \in ClosureOf[c]
  BY ClosureFacts
<1>3. QED
  BY <1>1, <1>2, ClosureFacts

(* The tables of the spine, oldest first. *)
LEMMA SpineFacts ==
    /\ Len(Spine) \in Nat /\ 1 <= Len(Spine)
    /\ \A i \in 1..Len(Spine) : Spine[i] \in Ids /\ graph[Spine[i]].type = "branches"
<1>1. Spine \in Seq(Ids) \ {<<>>}
  BY SpineAssumption, Zenon
<1>2. \A i \in 1..Len(Spine) : graph[Spine[i]].type = "branches"
  BY SpineAssumption, Zenon
<1>3. QED
  BY <1>1, <1>2

LEMMA SpineIsAChain ==
    \A i \in 1..Len(Spine) : Predecessors(graph[Spine[i]]) = IF i = 1 THEN {} ELSE {Spine[i - 1]}
  BY SpineAssumption, Zenon

OwnEdges == UNION {graph[i].edges : i \in Ids}

(* A claim's edges as read: its own, and the named ones of the claims it overlays. *)
LEMMA OverlayUnfolds ==
    /\ Materialised \in [Ids -> SUBSET OwnEdges]
    /\ \A i \in Ids :
          Materialised[i] = graph[i].edges \cup
              {e \in UNION {Materialised[p] : p \in Predecessors(graph[i])} :
                  e.name # "" /\ \A f \in graph[i].edges : f.name # e.name}
<1> DEFINE n == Len(graph)
           D == 1..n
           V == SUBSET OwnEdges
           From(i, f) ==
              LET own == graph[i].edges
                  inherited == UNION {f[p] : p \in Predecessors(graph[i])}
              IN  own \cup {e \in inherited : e.name # "" /\ \A g \in own : g.name # e.name}
           step == [p \in D \X [D -> V] |-> From(p[1], p[2])]
           rank == [i \in D |-> i]
           E[i \in D] == From(i, E)
<1>1. n \in Nat /\ rank \in [D -> 0..n] /\ V # {}
  BY GraphAssumption
<1>2. \A i \in D : \A p \in Predecessors(graph[i]) : p \in D /\ p < i
  BY GraphAssumption DEF Predecessors, Ids
<1>3. \A i \in D : graph[i].edges \subseteq OwnEdges
  BY DEF OwnEdges, Ids
<1>4. ASSUME NEW i \in D, NEW f \in [D -> V] PROVE From(i, f) \in V
  <2>1. \A p \in Predecessors(graph[i]) : f[p] \subseteq OwnEdges
    BY <1>2
  <2>2. QED
    BY <1>3, <2>1
<1>5. step \in [D \X [D -> V] -> V]
  <2> HIDE DEF From, V, D
  <2> QED
    BY <1>4
<1>6. \A i \in D, f \in [D -> V] : step[<<i, f>>] = From(i, f)
  <2> HIDE DEF From, V, D
  <2> QED
    OBVIOUS
<1>7. ASSUME NEW i \in D, NEW f \in [D -> V], NEW h \in [D -> V],
             \A j \in D : rank[j] < rank[i] => f[j] = h[j]
      PROVE  step[<<i, f>>] = step[<<i, h>>]
  <2>1. \A p \in Predecessors(graph[i]) : f[p] = h[p]
    BY <1>2, <1>7
  <2>2. UNION {f[p] : p \in Predecessors(graph[i])} = UNION {h[p] : p \in Predecessors(graph[i])}
    BY <2>1
  <2>3. From(i, f) = From(i, h)
    BY <2>2
  <2>4. QED
    BY <2>3, <1>6
<1>8. Ranked(D, V, n, rank, step)
  <2>1. \A i \in D : \A f, h \in [D -> V] :
           (\A j \in D : rank[j] < rank[i] => f[j] = h[j]) => step[<<i, f>>] = step[<<i, h>>]
    <3> HIDE DEF step, rank, D, n, V
    <3> QED
      BY <1>7
  <2> HIDE DEF step, rank, D, n, V
  <2>2. QED
    BY <1>1, <1>5, <2>1 DEF Ranked
<1>9. PICK f \in [D -> V] : \A i \in D : f[i] = step[<<i, f>>]
  <2> HIDE DEF step, rank, D, n, V
  <2> QED
    BY <1>8, RankedRecursion
<1>10. f = [i \in D |-> From(i, f)]
  <2>1. \A i \in D : f[i] = From(i, f)
    BY <1>9, <1>6
  <2> HIDE DEF From, D, V
  <2>2. QED
    BY <2>1, <1>9
<1>11. E = [i \in D |-> From(i, E)]
  BY <1>10 DEF E
<1>12. Materialised = E
  BY DEF Materialised, EffectiveEdges
<1>13. \A i \in D : E[i] = From(i, E)
  BY <1>11
<1>14. \A i \in D : E[i] \in V
  <2> HIDE DEF E, From, V
  <2> DEFINE S == {i \in D : E[i] \notin V}
  <2> SUFFICES ASSUME S # {} PROVE FALSE
    OBVIOUS
  <2>1. S \subseteq Nat
    OBVIOUS
  <2>2. PICK i \in S : \A k \in S : i <= k
    <3> HIDE DEF S
    <3> QED
      BY <2>1, SmallestOf
  <2>3. i \in D /\ E[i] \notin V
    OBVIOUS
  <2>4. \A p \in Predecessors(graph[i]) : p \in D /\ ~(i <= p)
    BY <1>2, <2>3
  <2>5. \A p \in Predecessors(graph[i]) : E[p] \subseteq OwnEdges
    BY <2>2, <2>4 DEF V
  <2>6. From(i, E) \in V
    BY <1>3, <2>3, <2>5 DEF From, V
  <2>7. QED
    BY <1>13, <2>3, <2>6
<1>15. Materialised \in [D -> V]
  <2> HIDE DEF V, From, E
  <2> QED
    BY <1>11, <1>12, <1>14
<1>16. \A i \in D : Materialised[i] = From(i, Materialised)
  <2> HIDE DEF From, E
  <2> QED
    BY <1>12, <1>13
<1>17. QED
  BY <1>15, <1>16 DEF Ids

(* What a copy follows leads to claims of the archive, and along every stored edge. *)
LEMMA CopyFollows ==
    ASSUME NEW c \in Ids
    PROVE  CopyRefs(c) \in SUBSET Ids /\ \A e \in graph[c].edges : e.to \in CopyRefs(c)
<1>1. \A e \in OwnEdges : e.to \in Ids
  BY GraphAssumption DEF OwnEdges, Ids
<1>2. Materialised[c] \subseteq OwnEdges /\ graph[c].edges \subseteq Materialised[c]
  BY OverlayUnfolds
<1>3. QED
  BY <1>1, <1>2 DEF CopyRefs

(* The members of a set from the last claim down. *)
Listed(S) == InOrder(S, LAMBDA a, b : a > b)

LEMMA ListedIs ==
    ASSUME NEW S \in SUBSET Ids
    PROVE  Listed(S) \in Seq(Ids) /\ Range(Listed(S)) = S
<1> DEFINE n == Cardinality(S)
           above(c) == {d \in S : d > c}
           place == [c \in S |-> Cardinality(above(c)) + 1]
           s == [i \in 1..n |-> CHOOSE c \in S : Cardinality(above(c)) = i - 1]
<1>1. IsFiniteSet(S) /\ n \in Nat /\ S \subseteq Nat
  <2>1. Len(graph) \in Nat /\ IsFiniteSet(Ids)
    BY GraphAssumption, FS_Interval DEF Ids
  <2>2. IsFiniteSet(S)
    BY <2>1, FS_Subset
  <2>3. QED
    BY <2>1, <2>2, FS_CardinalityType DEF Ids
<1>2. ASSUME NEW c \in S
      PROVE  IsFiniteSet(above(c)) /\ Cardinality(above(c)) \in 0..(n - 1)
  <2>1. above(c) \in SUBSET (S \ {c})
    BY <1>1
  <2>2. IsFiniteSet(S \ {c}) /\ Cardinality(S \ {c}) = n - 1
    BY <1>1, FS_RemoveElement
  <2>3. IsFiniteSet(above(c)) /\ Cardinality(above(c)) <= n - 1
    BY <2>1, <2>2, FS_Subset
  <2>4. Cardinality(above(c)) \in Nat
    BY <2>3, FS_CardinalityType
  <2>5. QED
    BY <1>1, <2>3, <2>4
<1>3. ASSUME NEW c \in S, NEW d \in S, c < d
      PROVE  Cardinality(above(d)) # Cardinality(above(c))
  <2>0. \A x, y, z \in Nat : x < y /\ z > y => z > x
    OBVIOUS
  <2>1. above(d) \in SUBSET above(c)
    BY <1>1, <1>3, <2>0, Zenon
  <2>2. d \in above(c) /\ d \notin above(d)
    BY <1>1, <1>3
  <2>3. QED
    BY <1>2, <2>1, <2>2, FS_Subset
<1>4. place \in Injection(S, 1..n)
  <2>1. \A c \in S : Cardinality(above(c)) + 1 \in 1..n
    BY <1>1, <1>2
  <2>2. place \in [S -> 1..n]
    <3> HIDE DEF above
    <3> QED
      BY <2>1
  <2>3. ASSUME NEW c \in S, NEW d \in S, place[c] = place[d] PROVE c = d
    <3>1. Cardinality(above(c)) = Cardinality(above(d))
      <4>1. Cardinality(above(c)) \in Nat /\ Cardinality(above(d)) \in Nat
        BY <1>1, <1>2
      <4>2. place[c] = Cardinality(above(c)) + 1 /\ place[d] = Cardinality(above(d)) + 1
        <5> HIDE DEF above
        <5> QED
          OBVIOUS
      <4>3. \A x, y \in Nat : x + 1 = y + 1 => x = y
        OBVIOUS
      <4> HIDE DEF place, above
      <4>4. QED
        BY <2>3, <4>1, <4>2, <4>3, Zenon
    <3>2. c = d \/ c < d \/ d < c
      BY <1>1
    <3>3. QED
      <4> HIDE DEF above
      <4> QED
        BY <1>3, <3>1, <3>2
  <2> HIDE DEF place
  <2>4. QED
    BY <2>2, <2>3 DEF Injection, IsInjective
<1>5. place \in Surjection(S, 1..n)
  <2>1. IsFiniteSet(1..n) /\ Cardinality(1..n) = n
    BY <1>1, FS_Interval
  <2> HIDE DEF place
  <2>2. QED
    BY <1>4, <2>1, FS_Injection
<1>6. ASSUME NEW i \in 1..n
      PROVE  s[i] \in S /\ Cardinality(above(s[i])) = i - 1
  <2>1. PICK c \in S : place[c] = i
    <3> HIDE DEF place
    <3> QED
      BY <1>5 DEF Surjection
  <2>2. Cardinality(above(c)) = i - 1
    <3>1. Cardinality(above(c)) \in Nat
      BY <1>1, <1>2
    <3>2. Cardinality(above(c)) + 1 = i
      <4> HIDE DEF above
      <4> QED
        BY <2>1
    <3> HIDE DEF above
    <3>3. QED
      BY <3>1, <3>2
  <2> HIDE DEF above
  <2>3. QED
    BY <2>2
<1>7. s \in Seq(Ids) /\ Len(s) = n
  <2>1. \A i \in 1..n : s[i] \in Ids
    BY <1>6
  <2>2. s \in [1..n -> Ids]
    <3> HIDE DEF above
    <3> QED
      BY <2>1
  <2> HIDE DEF s
  <2>3. QED
    BY <1>1, <2>1, <2>2
<1>8. ASSUME NEW c \in S PROVE \E i \in 1..n : s[i] = c
  <2>1. Cardinality(above(c)) \in 0..(n - 1)
    BY <1>2
  <2>2. PICK i \in 1..n : i - 1 = Cardinality(above(c))
    <3>1. Cardinality(above(c)) + 1 \in 1..n /\ (Cardinality(above(c)) + 1) - 1 = Cardinality(above(c))
      BY <1>1, <2>1
    <3> HIDE DEF above
    <3>2. QED
      BY <3>1
  <2>3. s[i] \in S /\ Cardinality(above(s[i])) = Cardinality(above(c))
    BY <1>6, <2>2
  <2>4. s[i] = c \/ s[i] < c \/ c < s[i]
    <3>1. \A x, y \in Nat : x = y \/ x < y \/ y < x
      OBVIOUS
    <3> HIDE DEF s
    <3>2. QED
      BY <1>1, <2>3, <3>1
  <2> HIDE DEF s, above
  <2>5. QED
    BY <1>3, <2>3, <2>4
<1>9. Listed(S) = s
  BY DEF Listed, InOrder
<1> HIDE DEF s
<1>10. Range(s) = S
  <2>1. DOMAIN s = 1..n
    BY <1>7
  <2>2. Range(s) \subseteq S
    BY <1>6, <2>1 DEF Range
  <2>3. S \subseteq Range(s)
    BY <1>8, <2>1 DEF Range
  <2>4. QED
    BY <2>2, <2>3
<1>11. QED
  BY <1>7, <1>9, <1>10

LEMMA RangeOfConcat ==
    ASSUME NEW s \in Seq(Ids), NEW t \in Seq(Ids)
    PROVE  s \o t \in Seq(Ids) /\ Range(s \o t) = Range(s) \cup Range(t)
<1>1. /\ s \o t \in Seq(Ids) /\ Len(s \o t) = Len(s) + Len(t)
      /\ \A i \in 1..Len(s \o t) : (s \o t)[i] = IF i <= Len(s) THEN s[i] ELSE t[i - Len(s)]
  BY ConcatProperties
<1>2. /\ DOMAIN (s \o t) = 1..Len(s \o t) /\ DOMAIN s = 1..Len(s) /\ DOMAIN t = 1..Len(t)
      /\ Len(s) \in Nat /\ Len(t) \in Nat
  BY <1>1
<1>3. Range(s \o t) \subseteq Range(s) \cup Range(t)
  <2> SUFFICES ASSUME NEW i \in 1..Len(s \o t) PROVE (s \o t)[i] \in Range(s) \cup Range(t)
    BY <1>2 DEF Range
  <2>1. CASE i <= Len(s)
    <3>1. i \in 1..Len(s) /\ (s \o t)[i] = s[i]
      BY <1>1, <1>2, <2>1
    <3>2. QED
      BY <1>2, <3>1 DEF Range
  <2>2. CASE ~(i <= Len(s))
    <3>1. i - Len(s) \in 1..Len(t) /\ (s \o t)[i] = t[i - Len(s)]
      BY <1>1, <1>2, <2>2
    <3>2. QED
      BY <1>2, <3>1 DEF Range
  <2>3. QED
    BY <2>1, <2>2
<1>4. ASSUME NEW i \in 1..Len(s) PROVE s[i] \in Range(s \o t)
  <2>1. i \in 1..Len(s \o t) /\ (s \o t)[i] = s[i]
    BY <1>1, <1>2
  <2>2. QED
    BY <1>2, <2>1 DEF Range
<1>5. ASSUME NEW i \in 1..Len(t) PROVE t[i] \in Range(s \o t)
  <2>1. Len(s) + i \in 1..Len(s \o t) /\ (s \o t)[Len(s) + i] = t[i]
    <3>1. Len(s) + i \in 1..Len(s \o t) /\ ~(Len(s) + i <= Len(s)) /\ (Len(s) + i) - Len(s) = i
      BY <1>1, <1>2
    <3>2. QED
      BY <1>1, <3>1
  <2>2. QED
    BY <1>2, <2>1 DEF Range
<1>6. Range(s) \subseteq Range(s \o t) /\ Range(t) \subseteq Range(s \o t)
  BY <1>2, <1>4, <1>5 DEF Range
<1>7. QED
  BY <1>1, <1>3, <1>6

LEMMA RangeOfTail ==
    ASSUME NEW s \in Seq(Ids), s # <<>>
    PROVE  /\ Head(s) \in Ids /\ Tail(s) \in Seq(Ids)
           /\ Range(s) = {Head(s)} \cup Range(Tail(s))
<1>1. /\ Head(s) \in Ids /\ Head(s) = s[1] /\ Tail(s) \in Seq(Ids) /\ Len(Tail(s)) = Len(s) - 1
      /\ Len(s) \in Nat \ {0}
      /\ \A i \in 1..Len(Tail(s)) : Tail(s)[i] = s[i + 1]
  BY HeadTailProperties
<1>2. DOMAIN s = 1..Len(s) /\ DOMAIN Tail(s) = 1..Len(Tail(s))
  BY <1>1
<1>3. Range(s) \subseteq {Head(s)} \cup Range(Tail(s))
  <2> SUFFICES ASSUME NEW i \in 1..Len(s), i # 1 PROVE s[i] \in Range(Tail(s))
    BY <1>1, <1>2 DEF Range
  <2>1. i - 1 \in 1..Len(Tail(s)) /\ (i - 1) + 1 = i
    BY <1>1
  <2>2. Tail(s)[i - 1] = s[i]
    BY <1>1, <2>1
  <2>3. QED
    BY <1>2, <2>1, <2>2 DEF Range
<1>4. Range(Tail(s)) \subseteq Range(s)
  <2> SUFFICES ASSUME NEW i \in 1..Len(Tail(s)) PROVE Tail(s)[i] \in Range(s)
    BY <1>2 DEF Range
  <2>1. i + 1 \in 1..Len(s) /\ Tail(s)[i] = s[i + 1]
    BY <1>1
  <2>2. QED
    BY <1>2, <2>1 DEF Range
<1>5. Head(s) \in Range(s)
  <2>1. 1 \in 1..Len(s)
    BY <1>1
  <2>2. QED
    BY <1>1, <1>2, <2>1 DEF Range
<1>6. QED
  BY <1>1, <1>3, <1>4, <1>5

-----------------------------------------------------------------------------
(* A copy brings the whole closure. *)

CopyJob ==
    [phase : {"idle", "claim", "content", "done"}, root : Nat, queue : Seq(Ids), seen : SUBSET Ids]

CopyShape ==
    /\ top \in 1..Len(Spine) /\ dst \in SUBSET Ids
    /\ copy \in CopyJob
    /\ copy.phase \in {"claim", "content"} <=> copy.queue # <<>>
    /\ copy.phase # "idle" => copy.root \in Ids

HasContent(c) == content[c] # 0 => content[c] \in dstBlobs

Fetching(c) == copy.phase = "content" /\ c = Head(copy.queue)

(***************************************************************************)
(* Once no copy was cut short, what the destination has lacks nothing but  *)
(* what the queue still holds.                                             *)
(***************************************************************************)
CopyProgress ==
    clean =>
        /\ copy.seen \subseteq dst
        /\ copy.phase = "content" => Head(copy.queue) \in dst
        /\ copy.phase # "idle" => copy.root \in dst \cup Range(copy.queue)
        /\ \A c \in dst : Fetching(c) \/ (HasContent(c) /\ CopyRefs(c) \subseteq dst \cup Range(copy.queue))

CopyInv == CopyShape /\ CopyProgress

(* The queue loses its head and gains the references not met yet. *)
LEMMA QueuedIs ==
    ASSUME CopyShape, copy.queue # <<>>, NEW refs \in SUBSET Ids
    PROVE  LET job == Queued(refs)
           IN  /\ job \in CopyJob
               /\ job.root = copy.root /\ job.seen = copy.seen \cup {Head(copy.queue)}
               /\ Head(copy.queue) \in Ids
               /\ refs \cup Range(copy.queue) \subseteq job.seen \cup Range(job.queue)
<1> DEFINE q == copy.queue
           rest == Tail(q)
           met == copy.seen \cup Range(q)
           new == Listed(refs \ met)
<1>1. new \in Seq(Ids) /\ Range(new) = refs \ met
  BY ListedIs
<1>2. q \in Seq(Ids) /\ q # <<>>
  BY DEF CopyShape, CopyJob
<1>3. Head(q) \in Ids /\ rest \in Seq(Ids) /\ Range(q) = {Head(q)} \cup Range(rest)
  BY <1>2, RangeOfTail
<1>4. Queued(refs) = [copy EXCEPT !.seen = @ \cup {Head(q)}, !.queue = rest \o new]
  BY DEF Queued, Listed, InOrder
<1> HIDE DEF new
<1>5. rest \o new \in Seq(Ids) /\ Range(rest \o new) = Range(rest) \cup Range(new)
  BY <1>1, <1>3, RangeOfConcat
<1> DEFINE job == [copy EXCEPT !.seen = @ \cup {Head(q)}, !.queue = rest \o new]
<1>6. /\ job \in CopyJob
      /\ job.root = copy.root /\ job.seen = copy.seen \cup {Head(q)} /\ job.queue = rest \o new
  BY <1>3, <1>5 DEF CopyShape, CopyJob
<1>7. refs \cup Range(q) \subseteq copy.seen \cup {Head(q)} \cup Range(rest \o new)
  BY <1>1, <1>3, <1>5
<1>8. refs \cup Range(q) \subseteq job.seen \cup Range(job.queue)
  BY <1>6, <1>7
<1> HIDE DEF job
<1>9. Queued(refs) = job
  BY <1>4 DEF job
<1>10. QED
  BY <1>3, <1>6, <1>8, <1>9

(* The first claim of the queue is in the destination with its content, and its
   references are in the queue: the rest of the queue takes over. *)
LEMMA AdvanceKeeps ==
    ASSUME CopyInv, copy.queue # <<>>, NEW refs \in SUBSET Ids,
           copy' = Settled(Queued(refs)), clean' = clean, top' = top,
           dst' = dst \cup {Head(copy.queue)},
           dstBlobs \subseteq dstBlobs',
           clean => (content[Head(copy.queue)] # 0 => content[Head(copy.queue)] \in dstBlobs'),
           clean => CopyRefs(Head(copy.queue)) \subseteq dst \cup refs \cup Range(copy.queue)
    PROVE  CopyInv'
<1> DEFINE q == copy.queue
           h == Head(q)
           job == Queued(refs)
<1>1. /\ job \in CopyJob
      /\ job.root = copy.root /\ job.seen = copy.seen \cup {h} /\ h \in Ids
      /\ refs \cup Range(q) \subseteq job.seen \cup Range(job.queue)
  BY QueuedIs DEF CopyInv
<1>2. CopyShape /\ CopyProgress
  BY DEF CopyInv
<1> HIDE DEF job
<1>3. /\ copy'.root = copy.root /\ copy'.seen = copy.seen \cup {h} /\ copy'.queue = job.queue
      /\ copy' \in CopyJob
      /\ copy'.phase = IF job.queue = <<>> THEN "done" ELSE "claim"
  BY <1>1 DEF Settled, CopyJob, job
<1>4. copy.phase \in {"claim", "content"}
  BY <1>2 DEF CopyShape, CopyJob
<1>5. CopyShape'
  <2>1. copy'.phase \in {"claim", "content"} <=> copy'.queue # <<>>
    BY <1>3
  <2>2. copy'.root \in Ids
    BY <1>2, <1>3, <1>4 DEF CopyShape, CopyJob
  <2>3. dst' \in SUBSET Ids /\ top' \in 1..Len(Spine)
    BY <1>1, <1>2 DEF CopyShape, CopyJob
  <2>4. QED
    BY <1>3, <2>1, <2>2, <2>3 DEF CopyShape, CopyJob
<1>6. ASSUME clean PROVE CopyProgress'
  <2>1. copy'.seen \subseteq dst'
    BY <1>2, <1>3, <1>6 DEF CopyProgress
  <2>2. copy'.phase # "content"
    BY <1>3
  <2>3. dst \cup refs \cup Range(q) \subseteq dst' \cup Range(copy'.queue)
    BY <1>1, <1>3, <2>1
  <2>4. copy'.root \in dst' \cup Range(copy'.queue)
    BY <1>2, <1>3, <1>4, <1>6, <2>3 DEF CopyProgress
  <2>5. ASSUME NEW c \in dst'
        PROVE  HasContent(c)' /\ CopyRefs(c) \subseteq dst' \cup Range(copy'.queue)
    <3>1. CASE c = h
      BY <1>6, <2>3, <3>1 DEF HasContent
    <3>2. CASE c # h
      <4>1. c \in dst /\ ~Fetching(c)
        BY <3>2 DEF Fetching
      <4>2. HasContent(c) /\ CopyRefs(c) \subseteq dst \cup Range(q)
        BY <1>2, <1>6, <4>1 DEF CopyProgress
      <4>3. QED
        BY <2>3, <4>2 DEF HasContent
    <3>3. QED
      BY <3>1, <3>2
  <2>6. \A c \in dst' : CopyRefs(c)' = CopyRefs(c)
    BY DEF CopyRefs
  <2>7. QED
    BY <2>1, <2>2, <2>4, <2>5, <2>6 DEF CopyProgress
<1>7. QED
  BY <1>5, <1>6 DEF CopyInv, CopyProgress

LEMMA InitIsCopied == ASSUME Init PROVE CopyInv
<1>1. Len(Spine) \in Nat \ {0} /\ Spine[1] \in Ids
  BY SpineFacts
<1>2. dst \in SUBSET Ids /\ top \in 1..Len(Spine)
  BY <1>1 DEF Init
<1>3. copy \in CopyJob
  BY DEF Init, NoCopy, CopyJob
<1>4. QED
  BY <1>2, <1>3 DEF Init, NoCopy, CopyInv, CopyShape, CopyJob, CopyProgress

LEMMA CopyBeginKeeps == ASSUME CopyInv, CopyBegin PROVE CopyInv'
<1>1. PICK i \in 1..top :
         copy' = [phase |-> "claim", root |-> Spine[i], queue |-> <<Spine[i]>>, seen |-> {}]
  BY DEF CopyBegin
<1>2. Spine[i] \in Ids
  BY SpineFacts DEF CopyInv, CopyShape, CopyJob
<1>3. UNCHANGED <<top, dst, dstBlobs, clean>> /\ copy.queue = <<>> /\ CopyShape /\ CopyProgress
  BY DEF CopyBegin, CopyInv, CopyShape, CopyJob, store
<1>4. <<Spine[i]>> \in Seq(Ids) /\ <<Spine[i]>> # <<>> /\ Range(<<Spine[i]>>) = {Spine[i]} /\ Range(<<>>) = {}
  BY <1>2 DEF Range
<1>5. CopyShape'
  BY <1>1, <1>2, <1>3, <1>4 DEF CopyShape, CopyJob, Ids
<1>6. copy'.queue = <<Spine[i]>> /\ copy'.phase = "claim" /\ copy'.root = Spine[i] /\ copy'.seen = {}
  BY <1>1
<1>7. \A c \in dst : CopyRefs(c)' = CopyRefs(c)
  BY DEF CopyRefs
<1>8. ASSUME clean, NEW c \in dst PROVE HasContent(c)' /\ CopyRefs(c) \subseteq dst' \cup Range(copy'.queue)
  <2>1. ~Fetching(c)
    BY <1>3 DEF Fetching, CopyShape, CopyJob
  <2>2. HasContent(c) /\ CopyRefs(c) \subseteq dst \cup {}
    BY <1>3, <1>4, <1>8, <2>1 DEF CopyProgress
  <2>3. QED
    BY <1>3, <2>2 DEF HasContent
<1>9. CopyProgress'
  BY <1>3, <1>4, <1>6, <1>7, <1>8 DEF CopyProgress
<1>10. QED
  BY <1>5, <1>9 DEF CopyInv

LEMMA CopyPresentKeeps == ASSUME CopyInv, CopyPresent PROVE CopyInv'
<1>1. CopyShape /\ CopyProgress /\ copy.queue # <<>> /\ ~Fetching(Head(copy.queue))
  BY DEF CopyInv, CopyPresent, CopyShape, CopyJob, Fetching
<1>2. UNCHANGED <<top, dst, dstBlobs, clean>> /\ Head(copy.queue) \in dst /\ copy' = Settled(Queued({}))
  BY DEF CopyPresent, store
<1>3. clean => HasContent(Head(copy.queue)) /\ CopyRefs(Head(copy.queue)) \subseteq dst \cup Range(copy.queue)
  BY <1>1, <1>2 DEF CopyProgress
<1>4. QED
  BY <1>1, <1>2, <1>3, AdvanceKeeps DEF HasContent

LEMMA CopyClaimKeeps == ASSUME CopyInv, CopyClaim PROVE CopyInv'
<1> DEFINE h == Head(copy.queue)
<1>1. CopyShape /\ CopyProgress /\ copy.queue # <<>>
  BY DEF CopyInv, CopyClaim, CopyShape, CopyJob
<1>2. UNCHANGED <<top, dstBlobs, clean>> /\ dst' = dst \cup {h} /\ copy.phase = "claim" /\ h \notin dst
  BY DEF CopyClaim, store
<1>3. copy.queue \in Seq(Ids) /\ h \in Ids
  BY <1>1 DEF CopyShape, CopyJob
<1>4. CASE ~CopiesContent(h)
  <2>1. copy' = Settled(Queued(CopyRefs(h))) /\ content[h] = 0
    BY <1>4 DEF CopyClaim, CopiesContent
  <2>2. CopyRefs(h) \in SUBSET Ids
    BY <1>3, CopyFollows
  <2>3. QED
    BY <1>1, <1>2, <2>1, <2>2, AdvanceKeeps
<1>5. CASE CopiesContent(h)
  <2>1. copy' = [copy EXCEPT !.phase = "content"]
    BY <1>5 DEF CopyClaim
  <2>2. /\ copy'.queue = copy.queue /\ copy'.phase = "content" /\ copy'.root = copy.root
        /\ copy'.seen = copy.seen
        /\ copy' \in CopyJob
    BY <1>1, <2>1 DEF CopyShape, CopyJob
  <2>3. CopyShape'
    BY <1>1, <1>2, <1>3, <2>2 DEF CopyShape, CopyJob
  <2>4. \A c : CopyRefs(c)' = CopyRefs(c)
    BY DEF CopyRefs
  <2>5. ASSUME clean, NEW c \in dst', c # h
        PROVE  HasContent(c)' /\ CopyRefs(c) \subseteq dst' \cup Range(copy'.queue)
    <3>1. c \in dst /\ ~Fetching(c)
      BY <1>2, <2>5 DEF Fetching
    <3>2. HasContent(c) /\ CopyRefs(c) \subseteq dst \cup Range(copy.queue)
      BY <1>1, <2>5, <3>1 DEF CopyProgress
    <3>3. QED
      BY <1>2, <2>2, <3>2 DEF HasContent
  <2>6. Fetching(h)'
    BY <2>2 DEF Fetching
  <2>7. CopyProgress'
    BY <1>1, <1>2, <2>2, <2>4, <2>5, <2>6 DEF CopyProgress, Fetching
  <2>8. QED
    BY <2>3, <2>7 DEF CopyInv
<1>6. QED
  BY <1>4, <1>5

LEMMA CopyContentKeeps == ASSUME CopyInv, CopyContent PROVE CopyInv'
<1> DEFINE h == Head(copy.queue)
<1>1. CopyShape /\ CopyProgress /\ copy.queue # <<>>
  BY DEF CopyInv, CopyContent, CopyShape, CopyJob
<1>2. /\ UNCHANGED <<top, dst, clean>> /\ dstBlobs' = dstBlobs \cup {content[h]}
      /\ copy.phase = "content" /\ copy' = Settled(Queued(CopyRefs(h)))
  BY DEF CopyContent, store
<1>3. copy.queue \in Seq(Ids) /\ h \in Ids
  BY <1>1 DEF CopyShape, CopyJob
<1>4. CopyRefs(h) \in SUBSET Ids
  BY <1>3, CopyFollows
<1>5. CASE clean
  <2>1. h \in dst
    BY <1>1, <1>2, <1>5 DEF CopyProgress
  <2>2. QED
    BY <1>1, <1>2, <1>4, <2>1, AdvanceKeeps
<1>6. CASE ~clean
  <2> DEFINE job == Queued(CopyRefs(h))
  <2>1. job \in CopyJob /\ job.root = copy.root
    BY <1>1, <1>4, QueuedIs
  <2> HIDE DEF job
  <2>2. /\ copy' \in CopyJob /\ copy'.root = copy.root /\ copy'.queue = job.queue
        /\ copy'.phase = IF job.queue = <<>> THEN "done" ELSE "claim"
    BY <1>2, <2>1 DEF Settled, CopyJob, job
  <2>3. QED
    BY <1>1, <1>2, <1>6, <2>2 DEF CopyInv, CopyShape, CopyJob, CopyProgress
<1>7. QED
  BY <1>5, <1>6

LEMMA CopyStopsKeeps ==
    ASSUME CopyInv, copy' = NoCopy, clean' = FALSE, UNCHANGED <<top, dst>>
    PROVE  CopyInv'
<1>1. copy' \in CopyJob
  BY DEF NoCopy, CopyJob
<1>2. QED
  BY <1>1 DEF NoCopy, CopyInv, CopyShape, CopyJob, CopyProgress

LEMMA ElsewhereKeepsCopy ==
    ASSUME CopyInv, UNCHANGED target, top' \in 1..Len(Spine)
    PROVE  CopyInv'
  BY DEF CopyInv, CopyShape, CopyJob, CopyProgress, HasContent, Fetching, CopyRefs, target

LEMMA StepKeepsCopy == ASSUME CopyInv, [Next]_vars PROVE CopyInv'
<1>1. top \in 1..Len(Spine) /\ top + 1 \in Nat /\ Len(Spine) \in Nat
  BY SpineFacts DEF CopyInv, CopyShape, CopyJob
<1>2. CASE Publish
  BY <1>1, <1>2, ElsewhereKeepsCopy DEF Publish
<1>3. CASE PublishFails \/ Tick \/ SweepCollect \/ SweepClaims \/ SweepContents \/ SweepFails
  BY <1>1, <1>3, ElsewhereKeepsCopy
     DEF PublishFails, Tick, SweepCollect, SweepClaims, SweepContents, SweepFails, store
<1>4. CASE \E t \in Taggers : TagBegin(t) \/ TagRead(t) \/ TagFlush(t) \/ TagFails(t)
  BY <1>1, <1>4, ElsewhereKeepsCopy DEF TagBegin, TagRead, TagFlush, TagFails, store
<1>5. CASE CopyMisses \/ CopyFails
  BY <1>5, CopyStopsKeeps DEF CopyMisses, CopyFails, store
<1>6. CASE UNCHANGED vars
  BY <1>1, <1>6, ElsewhereKeepsCopy DEF vars, store
<1>7. QED
  BY <1>2, <1>3, <1>4, <1>5, <1>6, CopyBeginKeeps, CopyPresentKeeps, CopyClaimKeeps, CopyContentKeeps
     DEF Next

(***************************************************************************)
(* A copy that reports completion, into a Universe no copy was cut short   *)
(* in, has brought the closure of what was asked for and its contents,     *)
(* whatever is published, swept and stamped meanwhile (DefaultCopyClaims). *)
(***************************************************************************)
THEOREM CopiesAreComplete == Spec => []CopyComplete
<1>1. ASSUME CopyInv PROVE CopyComplete
  <2> SUFFICES ASSUME copy.phase = "done", clean
               PROVE  /\ ClosureOf[copy.root] \subseteq dst
                      /\ Contents(ClosureOf[copy.root]) \subseteq dstBlobs
    BY DEF CopyComplete
  <2>1. CopyShape /\ CopyProgress /\ copy.queue = <<>> /\ copy.root \in Ids /\ dst \subseteq Ids
    BY <1>1 DEF CopyInv, CopyShape, CopyJob
  <2>2. Range(copy.queue) = {}
    BY <2>1 DEF Range
  <2>3. copy.root \in dst /\ \A c \in dst : HasContent(c) /\ CopyRefs(c) \subseteq dst
    BY <2>1, <2>2 DEF CopyProgress, Fetching
  <2>4. \A d \in dst \cap Ids : \A e \in graph[d].edges : e.to \in dst
    BY <2>1, <2>3, CopyFollows
  <2>5. ClosureOf[copy.root] \subseteq dst
    BY <2>1, <2>3, <2>4, ClosureFacts
  <2>6. QED
    BY <2>3, <2>5 DEF Contents, HasContent
<1>2. QED
  BY <1>1, InitIsCopied, StepKeepsCopy, PTL DEF Spec

-----------------------------------------------------------------------------
(* Stamps tell membership. *)

Height(i) == graph[Spine[i]].height

(* What the i-th table's own edge of a branch admits to it. *)
MembersAt(i, b) == UNION {ClosureOf[e.to] : e \in {f \in TableBranches(Spine[i]) : f.name = b}}

Joins(c, b, i) == c \in MembersAt(i, b) /\ \A k \in 1..(i - 1) : c \notin MembersAt(k, b)

(* A stamp of a revision half written, on a shard not reached yet. *)
Pending(job, c, b) == MidFlush(job) /\ <<c, b>> \in job.stamps /\ job.shard <= claimShard[c]

Covered(c, b) == tags[c][b] # 0 \/ \E t \in Taggers : Pending(tagging[t], c, b)

(* Every member of a branch up to the n-th table that is held has its stamp. *)
Ready(n) == \A i \in 1..n : \A b \in Branches : \A c \in MembersAt(i, b) \cap has : Covered(c, b)

StampsTell ==
    \A c \in Ids, b \in Branches :
        tags[c][b] # 0 => \E i \in 1..top : tags[c][b] = Height(i) /\ Joins(c, b, i)

StampsReach ==
    \A c \in Ids, b \in Branches :
        tags[c][b] # 0 => \A d \in ClosureOf[c] \cap has : Covered(d, b)

RevisionsReady == \A i \in 1..Len(Spine) : rev[Spine[i]] # 0 => i \in 1..top /\ Ready(i)

StampRight(job, c, b) ==
    /\ Joins(c, b, job.next)
    /\ \A d \in ClosureOf[c] \cap has : Covered(d, b) \/ <<d, b>> \in job.stamps
    /\ (claimShard[c] < job.shard /\ c \in has) => tags[c][b] # 0

FlushRight(job) ==
    /\ \A c \in Ids, b \in Branches : <<c, b>> \in job.stamps => StampRight(job, c, b)
    /\ \A b \in Branches : \A c \in MembersAt(job.next, b) \cap has : Covered(c, b) \/ <<c, b>> \in job.stamps

JobPlaced(job) == job.phase # "idle" => job.next \in 1..job.last /\ job.last \in 1..top

JobRight(job) ==
    job.phase # "idle" => Ready(job.next - 1) /\ (job.phase = "flush" => FlushRight(job))

TagJob ==
    [phase : {"idle", "read", "flush"}, next : Nat, last : Nat, revision : Nat,
     shard : 1..Shards, stamps : SUBSET (Ids \X Branches)]

TagShape ==
    /\ top \in 1..Len(Spine) /\ has \in SUBSET Ids
    /\ tags \in [Ids -> [Branches -> Nat]] /\ rev \in [Ids -> Nat]
    /\ tagging \in [Taggers -> TagJob] /\ \A t \in Taggers : JobPlaced(tagging[t])

TagRight == StampsTell /\ StampsReach /\ RevisionsReady /\ \A t \in Taggers : JobRight(tagging[t])

TagInv == TagShape /\ (~torn => TagRight)

(* Heights rise along the spine. *)
LEMMA HeightsRise ==
    /\ \A i \in 1..Len(Spine) : Height(i) \in Nat \ {0}
    /\ \A i, j \in 1..Len(Spine) : i < j => Height(i) < Height(j)
<1>1. \A i \in 1..Len(Spine) : Height(i) \in Nat
  BY SpineFacts, GraphAssumption DEF Height
<1>2. \A i \in 1..Len(Spine) : graph[Spine[i]].edges # {}
  BY SpineAssumption, Zenon
<1>3. \A i \in 1..Len(Spine) : \A e \in graph[Spine[i]].edges :
         e.to \in Ids /\ graph[e.to].height < Height(i)
  BY SpineFacts, GraphAssumption DEF Height, Ids
<1>4. ASSUME NEW i \in 1..Len(Spine) PROVE Height(i) # 0
  <2>1. PICK e \in graph[Spine[i]].edges : TRUE
    BY <1>2
  <2>2. graph[e.to].height \in Nat /\ graph[e.to].height < Height(i)
    BY <1>3, <2>1, GraphAssumption
  <2>3. QED
    BY <1>1, <2>2
<1>5. ASSUME NEW i \in 1..Len(Spine), i # 1 PROVE Height(i - 1) < Height(i)
  <2>1. Spine[i - 1] \in Predecessors(graph[Spine[i]])
    BY <1>5, SpineIsAChain
  <2>2. PICK e \in graph[Spine[i]].edges : e.to = Spine[i - 1]
    BY <2>1 DEF Predecessors
  <2>3. QED
    BY <1>3, <2>2 DEF Height
<1>6. ASSUME NEW i \in 1..Len(Spine) PROVE \A j \in 1..Len(Spine) : i < j => Height(i) < Height(j)
  <2> DEFINE S == {d \in Nat : i + d + 1 <= Len(Spine) => Height(i) < Height(i + d + 1)}
  <2>0. Len(Spine) \in Nat
    BY SpineFacts
  <2>1. 0 \in S
    <3>1. i + 1 <= Len(Spine) => i + 1 \in 1..Len(Spine) /\ i + 1 # 1 /\ (i + 1) - 1 = i /\ i + 0 + 1 = i + 1
      BY <2>0
    <3>2. i + 0 + 1 = i + 1
      OBVIOUS
    <3>3. QED
      BY <1>5, <3>1, <3>2
  <2>2. ASSUME NEW d \in 0..(Len(Spine) - 1), d \in S PROVE d + 1 \in S
    <3> SUFFICES ASSUME i + (d + 1) + 1 <= Len(Spine) PROVE Height(i) < Height(i + (d + 1) + 1)
      BY <2>0
    <3> DEFINE m == i + (d + 1) + 1
    <3>1. m \in 1..Len(Spine) /\ m # 1 /\ m - 1 = i + d + 1 /\ m - 1 \in 1..Len(Spine) /\ i + d + 1 <= Len(Spine)
      BY <2>0
    <3>2. Height(i) < Height(m - 1)
      BY <2>2, <3>1
    <3>3. Height(m - 1) < Height(m)
      BY <1>5, <3>1
    <3>4. Height(i) \in Nat /\ Height(m - 1) \in Nat /\ Height(m) \in Nat
      BY <1>1, <3>1
    <3> HIDE DEF m
    <3>5. Height(i) < Height(m)
      BY <3>2, <3>3, <3>4
    <3>6. QED
      BY <3>5 DEF m
  <2>3. \A d \in 0..Len(Spine) : d \in S
    <3> HIDE DEF S
    <3> QED
      BY <2>0, <2>1, <2>2, CountUp
  <2>4. ASSUME NEW j \in 1..Len(Spine), i < j PROVE Height(i) < Height(j)
    <3>1. j - i - 1 \in 0..Len(Spine) /\ i + (j - i - 1) + 1 = j /\ j <= Len(Spine)
      BY <2>0, <2>4
    <3>2. j - i - 1 \in S
      BY <2>3, <3>1
    <3>3. QED
      BY <3>1, <3>2
  <2>5. QED
    BY <2>4
<1>7. QED
  BY <1>1, <1>4, <1>6

LEMMA TablesDiffer ==
    ASSUME NEW i \in 1..Len(Spine), NEW j \in 1..Len(Spine), Spine[i] = Spine[j] \/ Height(i) = Height(j)
    PROVE  i = j
<1>1. Height(i) = Height(j)
  BY DEF Height
<1>2. i = j \/ i < j \/ j < i
  BY SpineFacts
<1>3. Height(i) \in Nat /\ Height(j) \in Nat
  BY HeightsRise
<1>4. i < j => Height(i) < Height(j)
  BY HeightsRise
<1>5. j < i => Height(j) < Height(i)
  BY HeightsRise
<1>6. QED
  BY <1>1, <1>2, <1>3, <1>4, <1>5

(* Each table reaches the ones before it, and the branches they state. *)
LEMMA SpineNests ==
    ASSUME NEW n \in 1..Len(Spine)
    PROVE  \A i \in 1..n : ClosureOf[Spine[i]] \subseteq ClosureOf[Spine[n]]
<1>0. Len(Spine) \in Nat /\ n \in 1..Len(Spine) /\ \A i \in 1..Len(Spine) : Spine[i] \in Ids
  BY SpineFacts
<1>1. ASSUME NEW i \in 2..Len(Spine) PROVE ClosureOf[Spine[i - 1]] \subseteq ClosureOf[Spine[i]]
  <2>1. i \in 1..Len(Spine) /\ i # 1 /\ Spine[i] \in Ids
    BY <1>0
  <2>2. Spine[i - 1] \in Predecessors(graph[Spine[i]])
    BY <2>1, SpineIsAChain
  <2>3. PICK e \in graph[Spine[i]].edges : e.to = Spine[i - 1]
    BY <2>2 DEF Predecessors
  <2>4. Spine[i - 1] \in ClosureOf[Spine[i]]
    BY <2>1, <2>3, ClosureFacts
  <2>5. QED
    BY <2>1, <2>4, ClosureNests
<1> DEFINE S == {d \in Nat : n - d >= 1 => ClosureOf[Spine[n - d]] \subseteq ClosureOf[Spine[n]]}
<1>2. 0 \in S
  BY <1>0
<1>3. ASSUME NEW d \in 0..(n - 1), d \in S PROVE d + 1 \in S
  <2> SUFFICES ASSUME n - (d + 1) >= 1 PROVE ClosureOf[Spine[n - (d + 1)]] \subseteq ClosureOf[Spine[n]]
    BY <1>0
  <2>1. n - d \in 2..Len(Spine) /\ (n - d) - 1 = n - (d + 1) /\ n - d >= 1
    BY <1>0
  <2>2. QED
    BY <1>1, <1>3, <2>1
<1>4. \A d \in 0..n : d \in S
  <2> HIDE DEF S
  <2> QED
    BY <1>0, <1>2, <1>3, CountUp
<1>5. ASSUME NEW i \in 1..n PROVE ClosureOf[Spine[i]] \subseteq ClosureOf[Spine[n]]
  <2>1. n - i \in 0..n /\ n - (n - i) = i /\ i >= 1
    BY <1>0
  <2>2. n - i \in S
    BY <1>4, <2>1
  <2>3. QED
    BY <2>1, <2>2
<1>6. QED
  BY <1>5

LEMMA MembersBelow ==
    ASSUME NEW n \in 1..Len(Spine), NEW i \in 1..n, NEW b, NEW c \in MembersAt(i, b)
    PROVE  c \in Ids /\ c \in ClosureOf[Spine[n]] /\ ClosureOf[c] \subseteq ClosureOf[Spine[n]]
<1>1. PICK e \in TableBranches(Spine[i]) : c \in ClosureOf[e.to]
  BY DEF MembersAt
<1>2. i \in 1..Len(Spine) /\ Spine[i] \in Ids
  BY SpineFacts
<1>3. e.to \in ClosureOf[Spine[i]] /\ e.to \in Ids
  BY <1>1, <1>2, ClosureFacts DEF TableBranches
<1>4. c \in ClosureOf[Spine[i]]
  BY <1>1, <1>2, <1>3, ClosureNests
<1>5. c \in ClosureOf[Spine[n]]
  BY <1>4, SpineNests
<1>6. c \in Ids /\ Spine[n] \in Ids
  BY <1>1, <1>3, ClosureFacts, SpineFacts
<1>7. QED
  BY <1>5, <1>6, ClosureNests

(* A branch edge a table reads with is the last one the spine states for that branch. *)
Traced(i) ==
    \A e \in Materialised[Spine[i]] : e.type = "branch" =>
        \E j \in 1..i : /\ e \in TableBranches(Spine[j])
                        /\ \A m \in (j + 1)..i : \A f \in TableBranches(Spine[m]) : f.name # e.name

LEMMA EdgesAreTraced == \A i \in 1..Len(Spine) : Traced(i)
<1>0. Len(Spine) \in Nat /\ \A i \in 1..Len(Spine) : Spine[i] \in Ids
  BY SpineFacts
<1>1. ASSUME NEW i \in 1..Len(Spine), i = 1 \/ Traced(i - 1) PROVE Traced(i)
  <2> SUFFICES ASSUME NEW e \in Materialised[Spine[i]], e.type = "branch"
               PROVE  \E j \in 1..i : /\ e \in TableBranches(Spine[j])
                                      /\ \A m \in (j + 1)..i : \A f \in TableBranches(Spine[m]) : f.name # e.name
    BY DEF Traced
  <2>1. CASE e \in graph[Spine[i]].edges
    <3>1. i \in 1..i /\ (i + 1)..i = {} /\ e \in TableBranches(Spine[i])
      BY <1>0, <2>1 DEF TableBranches
    <3>2. QED
      BY <3>1
  <2>2. CASE e \notin graph[Spine[i]].edges
    <3>1. /\ e \in UNION {Materialised[p] : p \in Predecessors(graph[Spine[i]])}
          /\ \A f \in graph[Spine[i]].edges : f.name # e.name
      BY <1>0, <2>2, OverlayUnfolds
    <3>2. PICK p \in Predecessors(graph[Spine[i]]) : e \in Materialised[p]
      BY <3>1
    <3>3. i # 1 /\ p = Spine[i - 1]
      BY <3>2, SpineIsAChain
    <3>4. PICK j \in 1..(i - 1) :
             /\ e \in TableBranches(Spine[j])
             /\ \A m \in (j + 1)..(i - 1) : \A f \in TableBranches(Spine[m]) : f.name # e.name
      BY <1>1, <3>2, <3>3 DEF Traced
    <3>5. j \in 1..i /\ \A m \in (j + 1)..i : m \in (j + 1)..(i - 1) \/ m = i
      BY <1>0
    <3>6. \A f \in TableBranches(Spine[i]) : f.name # e.name
      BY <3>1 DEF TableBranches
    <3>7. QED
      BY <3>4, <3>5, <3>6
  <2>3. QED
    BY <2>1, <2>2
<1> DEFINE S == {d \in Nat : d + 1 <= Len(Spine) => Traced(d + 1)}
<1>2. 0 \in S
  <2>1. 0 + 1 = 1 /\ (1 <= Len(Spine) => 1 \in 1..Len(Spine))
    BY <1>0
  <2>2. QED
    BY <1>1, <2>1
<1>3. ASSUME NEW d \in 0..(Len(Spine) - 1), d \in S PROVE d + 1 \in S
  <2> SUFFICES ASSUME (d + 1) + 1 <= Len(Spine) PROVE Traced((d + 1) + 1)
    BY <1>0
  <2>1. (d + 1) + 1 \in 1..Len(Spine) /\ ((d + 1) + 1) - 1 = d + 1 /\ d + 1 <= Len(Spine)
    BY <1>0
  <2>2. Traced(d + 1)
    BY <1>3, <2>1
  <2>3. QED
    BY <1>1, <2>1, <2>2
<1>4. \A d \in 0..Len(Spine) : d \in S
  <2> HIDE DEF S
  <2> QED
    BY <1>0, <1>2, <1>3, CountUp
<1>5. ASSUME NEW i \in 1..Len(Spine) PROVE Traced(i)
  <2>1. i - 1 \in 0..Len(Spine) /\ (i - 1) + 1 = i
    BY <1>0
  <2>2. i - 1 \in S
    BY <1>4, <2>1
  <2>3. QED
    BY <1>0, <2>1, <2>2
<1>6. QED
  BY <1>5

LEMMA BranchesAreNamed ==
    \A i \in 1..Len(Spine) : \A e \in TableBranches(Spine[i]) :
        /\ e.name \in Branches
        /\ \A f \in graph[Spine[i]].edges : f.name = e.name => f = e
        /\ \A j \in 1..(i - 1) : \A f \in TableBranches(Spine[j]) : f.name = e.name => f.to \in ClosureOf[e.to]
  BY SpineAssumption, Zenon

(* A branch's head reaches what any table up to there admitted to the branch. *)
LEMMA HeadHolds ==
    ASSUME NEW i \in 1..Len(Spine), NEW b, NEW h \in BranchHeads(View, Spine[i], b)
    PROVE  h \in Ids /\ \A c : c \in ClosureOf[h] <=> \E k \in 1..i : c \in MembersAt(k, b)
<1>0. Len(Spine) \in Nat /\ \A k \in 1..Len(Spine) : Spine[k] \in Ids
  BY SpineFacts
<1>1. PICK e \in Materialised[Spine[i]] : e.type = "branch" /\ e.name = b /\ e.to = h
  BY DEF BranchHeads, View
<1>2. PICK j \in 1..i : /\ e \in TableBranches(Spine[j])
                        /\ \A m \in (j + 1)..i : \A f \in TableBranches(Spine[m]) : f.name # b
  BY <1>1, EdgesAreTraced DEF Traced
<1>3. j \in 1..Len(Spine) /\ \A k \in 1..i : k \in 1..(j - 1) \/ k = j \/ k \in (j + 1)..i
  BY <1>0
<1>4. h \in Ids
  BY <1>0, <1>1, <1>2, <1>3, GraphAssumption DEF TableBranches, Ids
<1>5. ASSUME NEW c \in ClosureOf[h] PROVE c \in MembersAt(j, b)
  BY <1>1, <1>2 DEF MembersAt
<1>6. ASSUME NEW k \in 1..i, NEW c \in MembersAt(k, b) PROVE c \in ClosureOf[h]
  <2>1. PICK f \in TableBranches(Spine[k]) : f.name = b /\ c \in ClosureOf[f.to]
    BY DEF MembersAt
  <2>2. f.to \in ClosureOf[h]
    <3>1. CASE k \in 1..(j - 1)
      BY <1>1, <1>2, <1>3, <2>1, <3>1, BranchesAreNamed
    <3>2. CASE k = j
      <4>1. f = e
        BY <1>1, <1>2, <1>3, <2>1, <3>2, BranchesAreNamed DEF TableBranches
      <4>2. QED
        BY <1>1, <1>4, <4>1, ClosureFacts
    <3>3. CASE k \in (j + 1)..i
      BY <1>2, <2>1, <3>3
    <3>4. QED
      BY <1>3, <3>1, <3>2, <3>3
  <2>3. QED
    BY <1>4, <2>1, <2>2, ClosureNests
<1>7. QED
  BY <1>4, <1>5, <1>6

(* Stamps that tell when each claim joined decide membership. *)
LEMMA StampsDecide ==
    ASSUME TagInv, FlushWhole, NEW scope \in Scopes(View), TagsDecide(View, scope)
    PROVE  TagAdmits(View, scope) = ClosureOf[scope.head] \cap has
<1>1. PICK p \in (1..top) \X Branches :
         /\ BranchHeads(View, Spine[p[1]], p[2]) # {}
         /\ scope = ResolveScope(View, Spine[p[1]], [branch |-> p[2]])
  BY DEF Scopes
<1> DEFINE i == p[1]
           b == p[2]
           h == scope.head
<1>2. i \in 1..top /\ b \in Branches /\ top \in 1..Len(Spine) /\ i \in 1..Len(Spine) /\ Len(Spine) \in Nat
  BY <1>1, SpineFacts DEF TagInv, TagShape
<1>3. /\ scope.branch = b /\ scope.height = Height(i) /\ b \notin {"$universe", "$archive"}
      /\ tags[h][b] # 0 /\ View.tags = tags /\ View.held = has /\ View.g = graph
  BY <1>1 DEF TagsDecide, ResolveScope, View, Height
<1>4. h \in BranchHeads(View, Spine[i], b)
  <2>1. h = CHOOSE x \in BranchHeads(View, Spine[i], b) : TRUE
    BY <1>1, <1>3 DEF ResolveScope
  <2>2. QED
    BY <1>1, <2>1
<1>5. h \in Ids /\ \A c : c \in ClosureOf[h] <=> \E k \in 1..i : c \in MembersAt(k, b)
  BY <1>2, <1>4, HeadHolds
<1>6. StampsTell /\ StampsReach /\ has \subseteq Ids
  BY DEF TagInv, TagShape, TagRight, FlushWhole
<1>7. \A c \in has : Covered(c, b) => tags[c][b] # 0
  BY DEF FlushWhole, Covered, Pending
<1>8. ASSUME NEW c \in Ids, NEW j \in 1..top, tags[c][b] = Height(j), Joins(c, b, j)
      PROVE  tags[c][b] \in 1..Height(i) <=> j <= i
  <2>1. j \in 1..Len(Spine)
    BY <1>2
  <2>2. Height(i) \in Nat /\ Height(j) \in Nat \ {0}
    BY <1>2, <2>1, HeightsRise
  <2>3. j < i => Height(j) < Height(i)
    BY <1>2, <2>1, HeightsRise
  <2>4. i < j => Height(i) < Height(j)
    BY <1>2, <2>1, HeightsRise
  <2>5. j = i => Height(j) = Height(i)
    OBVIOUS
  <2> HIDE DEF i, b
  <2>6. QED
    BY <1>2, <1>8, <2>1, <2>2, <2>3, <2>4, <2>5
<1>9. ASSUME NEW c \in has, tags[c][b] # 0 PROVE tags[c][b] \in 1..Height(i) <=> c \in ClosureOf[h]
  <2>1. PICK j \in 1..top : tags[c][b] = Height(j) /\ Joins(c, b, j)
    BY <1>2, <1>6, <1>9 DEF StampsTell
  <2>2. c \in Ids /\ c \in MembersAt(j, b) /\ \A k \in 1..(j - 1) : c \notin MembersAt(k, b)
    BY <1>6, <2>1 DEF Joins
  <2>3. j <= i <=> \E k \in 1..i : c \in MembersAt(k, b)
    BY <1>2, <2>2
  <2>4. tags[c][b] \in 1..Height(i) <=> j <= i
    BY <1>8, <2>1, <2>2
  <2> HIDE DEF i, b, h
  <2>5. QED
    BY <1>5, <2>3, <2>4
<1>10. ASSUME NEW c \in has, c \in ClosureOf[h] PROVE tags[c][b] # 0
  <2>1. Covered(c, b)
    BY <1>2, <1>3, <1>5, <1>6, <1>10 DEF StampsReach
  <2>2. QED
    BY <1>7, <2>1
<1>11. \A c \in has : tags[c][b] = 0 => tags[c][b] \notin 1..Height(i)
  OBVIOUS
<1>12. TagAdmits(View, scope) = {c \in has : tags[c][b] \in 1..Height(i)}
  BY <1>3 DEF TagAdmits
<1> HIDE DEF i, b, h
<1>13. \A c \in has : tags[c][b] \in 1..Height(i) <=> c \in ClosureOf[h]
  BY <1>9, <1>10, <1>11
<1>14. TagAdmits(View, scope) = ClosureOf[h] \cap has
  BY <1>12, <1>13
<1>15. QED
  BY <1>14 DEF h

(* Nothing below the head comes back, and what is held keeps its stamps. *)
Keeps ==
    /\ top' \in 1..Len(Spine) /\ top <= top'
    /\ \A c \in ClosureOf[Spine[top]], b \in Branches : c \in has' =>
          /\ c \in has
          /\ tags[c][b] # 0 => tags'[c][b] # 0
          /\ Covered(c, b) => Covered(c, b)'

LEMMA ReadyPersists ==
    ASSUME TagShape, Keeps, NEW n \in 0..top, Ready(n)
    PROVE  Ready(n)'
<1> SUFFICES ASSUME NEW i \in 1..n, NEW b \in Branches, NEW c \in MembersAt(i, b), c \in has'
             PROVE  Covered(c, b)'
  BY DEF Ready, MembersAt, TableBranches
<1>1. i \in 1..top /\ top \in 1..Len(Spine)
  BY SpineFacts DEF TagShape
<1>2. c \in ClosureOf[Spine[top]]
  BY <1>1, MembersBelow
<1>3. c \in has
  BY <1>2 DEF Keeps
<1>4. Covered(c, b)
  BY <1>3 DEF Ready
<1>5. QED
  BY <1>2, <1>4 DEF Keeps

LEMMA ReachPersists ==
    ASSUME TagShape, StampsTell, StampsReach, Keeps,
           NEW c \in Ids, NEW b \in Branches, tags[c][b] # 0, NEW d \in ClosureOf[c], d \in has'
    PROVE  Covered(d, b)'
<1>1. PICK i \in 1..top : c \in MembersAt(i, b)
  BY DEF StampsTell, Joins
<1>2. top \in 1..Len(Spine)
  BY DEF TagShape
<1>3. d \in ClosureOf[Spine[top]]
  BY <1>1, <1>2, MembersBelow
<1>4. d \in has
  BY <1>3 DEF Keeps
<1>5. Covered(d, b)
  BY <1>4 DEF StampsReach
<1>6. QED
  BY <1>3, <1>5 DEF Keeps

LEMMA JobPersists ==
    ASSUME TagShape, Keeps, NEW job \in TagJob, JobPlaced(job), JobRight(job)
    PROVE  JobRight(job)'
<1> SUFFICES ASSUME job.phase # "idle"
             PROVE  Ready(job.next - 1)' /\ (job.phase = "flush" => FlushRight(job)')
  BY DEF JobRight
<1>1. /\ job.next \in 1..job.last /\ job.last \in 1..top /\ Ready(job.next - 1)
      /\ job.phase = "flush" => FlushRight(job)
  BY DEF JobRight, JobPlaced
<1>2. top \in 1..Len(Spine) /\ top' \in 1..Len(Spine) /\ top <= top' /\ Len(Spine) \in Nat
  BY SpineFacts DEF TagShape, Keeps
<1>3. job.next - 1 \in 0..top /\ job.next \in 1..top
  BY <1>1, <1>2 DEF TagJob
<1>4. Ready(job.next - 1)'
  BY <1>1, <1>3, ReadyPersists
<1>5. ASSUME FlushRight(job) PROVE FlushRight(job)'
  <2>1. ASSUME NEW c \in Ids, NEW b \in Branches, <<c, b>> \in job.stamps PROVE StampRight(job, c, b)'
    <3>1. /\ Joins(c, b, job.next)
          /\ \A d \in ClosureOf[c] \cap has : Covered(d, b) \/ <<d, b>> \in job.stamps
          /\ (claimShard[c] < job.shard /\ c \in has) => tags[c][b] # 0
      BY <1>5, <2>1 DEF FlushRight, StampRight
    <3>2. c \in ClosureOf[Spine[top]] /\ ClosureOf[c] \subseteq ClosureOf[Spine[top]]
      BY <1>2, <1>3, <3>1, MembersBelow DEF Joins
    <3>3. \A d \in ClosureOf[c] \cap has' : Covered(d, b)' \/ <<d, b>> \in job.stamps
      BY <3>1, <3>2 DEF Keeps
    <3>4. (claimShard[c] < job.shard /\ c \in has') => tags'[c][b] # 0
      BY <3>1, <3>2 DEF Keeps
    <3>5. Joins(c, b, job.next)'
      BY <3>1 DEF Joins, MembersAt, TableBranches
    <3>6. QED
      BY <3>3, <3>4, <3>5 DEF StampRight
  <2>2. ASSUME NEW b \in Branches, NEW c \in MembersAt(job.next, b), c \in has'
        PROVE  Covered(c, b)' \/ <<c, b>> \in job.stamps
    <3>1. c \in ClosureOf[Spine[top]]
      BY <1>2, <1>3, MembersBelow
    <3>2. Covered(c, b) \/ <<c, b>> \in job.stamps
      BY <1>5, <2>2, <3>1 DEF FlushRight, Keeps
    <3>3. QED
      BY <2>2, <3>1, <3>2 DEF Keeps
  <2>3. QED
    BY <2>1, <2>2 DEF FlushRight, MembersAt, TableBranches
<1>6. QED
  BY <1>1, <1>4, <1>5

(* A step that writes no stamp and leaves every job as it is or right. *)
LEMMA NoStampKeeps ==
    ASSUME TagShape, TagRight, Keeps,
           \A c \in Ids, b \in Branches : tags'[c][b] # 0 => tags'[c][b] = tags[c][b],
           \A c \in Ids : rev'[c] # 0 => rev[c] # 0,
           \A t \in Taggers : tagging'[t] = tagging[t] \/ JobRight(tagging[t])'
    PROVE  TagRight'
<1>1. StampsTell /\ StampsReach /\ RevisionsReady /\ \A t \in Taggers : JobRight(tagging[t])
  BY DEF TagRight
<1>2. top \in 1..Len(Spine) /\ top' \in 1..Len(Spine) /\ top <= top' /\ Len(Spine) \in Nat
  BY SpineFacts DEF TagShape, Keeps
<1>3. \A c \in Ids, b \in Branches : tags'[c][b] # 0 => tags[c][b] # 0 /\ tags'[c][b] = tags[c][b]
  OBVIOUS
<1>4. StampsTell'
  <2> SUFFICES ASSUME NEW c \in Ids, NEW b \in Branches, tags'[c][b] # 0
               PROVE  \E i \in 1..top' : tags'[c][b] = Height(i) /\ Joins(c, b, i)
    BY DEF StampsTell, Joins, MembersAt, TableBranches, Height
  <2>1. PICK i \in 1..top : tags[c][b] = Height(i) /\ Joins(c, b, i)
    BY <1>1, <1>3 DEF StampsTell
  <2>2. i \in 1..top'
    BY <1>2
  <2>3. QED
    BY <1>3, <2>1, <2>2
<1>5. StampsReach'
  <2> SUFFICES ASSUME NEW c \in Ids, NEW b \in Branches, tags'[c][b] # 0, NEW d \in ClosureOf[c], d \in has'
               PROVE  Covered(d, b)'
    BY DEF StampsReach
  <2>1. QED
    BY <1>1, <1>3, ReachPersists
<1>6. RevisionsReady'
  <2> SUFFICES ASSUME NEW i \in 1..Len(Spine), rev'[Spine[i]] # 0 PROVE i \in 1..top' /\ Ready(i)'
    BY DEF RevisionsReady
  <2>1. i \in 1..top /\ Ready(i)
    BY <1>1, SpineFacts DEF RevisionsReady
  <2>2. i \in 0..top
    BY <1>2, <2>1
  <2>3. QED
    BY <1>2, <2>1, <2>2, ReadyPersists
<1>7. ASSUME NEW t \in Taggers PROVE JobRight(tagging[t])'
  <2>1. ASSUME tagging'[t] = tagging[t] PROVE JobRight(tagging[t])'
    <3> DEFINE job == tagging'[t]
    <3>1. PICK j \in TagJob : j = tagging[t] /\ j = tagging'[t]
      BY <2>1 DEF TagShape
    <3>2. JobRight(j) /\ JobPlaced(j)
      BY <1>1, <3>1 DEF TagShape
    <3>3. JobRight(j)'
      BY <3>2, JobPersists
    <3>4. QED
      BY <3>1, <3>3 DEF JobRight, FlushRight, StampRight
  <2>2. QED
    BY <2>1
<1>8. QED
  BY <1>4, <1>5, <1>6, <1>7 DEF TagRight

LEMMA InitIsTold == ASSUME Init PROVE TagInv
<1>1. Len(Spine) \in Nat /\ 1 \in 1..Len(Spine) /\ Spine[1] \in Ids
  BY SpineFacts
<1>2. has \in SUBSET Ids
  BY <1>1, ClosureFacts DEF Init, Added
<1>3. NoTagging \in TagJob
  BY ShardAssumption DEF NoTagging, TagJob
<1>4. TagShape
  BY <1>1, <1>2, <1>3 DEF Init, TagShape, Untagged, JobPlaced, NoTagging
<1>5. \A c \in Ids : \A b \in Branches : tags[c][b] = 0
  BY DEF Init, Untagged
<1>6. \A i \in 1..Len(Spine) : rev[Spine[i]] = 0
  BY SpineFacts DEF Init
<1>7. \A t \in Taggers : tagging[t].phase = "idle"
  BY DEF Init, NoTagging
<1>8. QED
  BY <1>4, <1>5, <1>6, <1>7 DEF TagInv, TagRight, StampsTell, StampsReach, RevisionsReady, JobRight

LEMMA ElsewhereKeepsTags ==
    ASSUME TagInv, UNCHANGED <<top, has, tags, rev, tagging, torn>>
    PROVE  TagInv'
<1>1. TagShape /\ TagShape' /\ (~torn => TagRight)
  BY DEF TagInv, TagShape, JobPlaced
<1>2. \A c, b : Covered(c, b)' = Covered(c, b)
  BY DEF Covered, Pending, MidFlush
<1>3. top' \in 1..Len(Spine) /\ top <= top'
  BY <1>1, SpineFacts DEF TagShape
<1>4. Keeps
  BY <1>2, <1>3 DEF Keeps
<1>5. ~torn => TagRight'
  BY <1>1, <1>4, NoStampKeeps
<1>6. QED
  BY <1>1, <1>5 DEF TagInv

LEMMA NewClaimsAreAbove ==
    ASSUME TagShape, top < Len(Spine)
    PROVE  /\ top + 1 \in 1..Len(Spine) /\ Added(top + 1) \in SUBSET Ids
           /\ \A c \in ClosureOf[Spine[top]] : c \notin Added(top + 1)
<1>1. top \in 1..Len(Spine) /\ Len(Spine) \in Nat
  BY SpineFacts DEF TagShape
<1>2. top + 1 \in 1..Len(Spine) /\ top + 1 # 1 /\ (top + 1) - 1 = top
  BY <1>1
<1>3. Spine[top + 1] \in Ids
  BY <1>2, SpineFacts
<1>4. Added(top + 1) = ClosureOf[Spine[top + 1]] \ ClosureOf[Spine[top]]
  BY <1>2 DEF Added
<1>5. QED
  BY <1>2, <1>3, <1>4, ClosureFacts

LEMMA PublishKeepsTags == ASSUME TagInv, Publish \/ PublishFails PROVE TagInv'
<1>1. TagShape /\ (~torn => TagRight) /\ UNCHANGED <<tags, rev, tagging, torn>> /\ top < Len(Spine)
  BY DEF TagInv, Publish, PublishFails
<1>2. /\ top + 1 \in 1..Len(Spine) /\ Added(top + 1) \in SUBSET Ids
      /\ \A c \in ClosureOf[Spine[top]] : c \notin Added(top + 1)
  BY <1>1, NewClaimsAreAbove
<1>3. has' \subseteq has \cup Added(top + 1) /\ has \subseteq has' /\ top' \in {top, top + 1}
  BY DEF Publish, PublishFails
<1>4. top \in 1..Len(Spine) /\ Len(Spine) \in Nat /\ has \in SUBSET Ids
  BY <1>1, SpineFacts DEF TagShape
<1>5. TagShape'
  BY <1>1, <1>2, <1>3, <1>4 DEF TagShape, JobPlaced
<1>6. \A c, b : Covered(c, b)' = Covered(c, b)
  BY <1>1 DEF Covered, Pending, MidFlush
<1>7. Keeps
  BY <1>1, <1>2, <1>3, <1>4, <1>6 DEF Keeps
<1>8. ~torn => TagRight'
  BY <1>1, <1>7, NoStampKeeps
<1>9. QED
  BY <1>1, <1>5, <1>8 DEF TagInv

LEMMA SweepClaimsKeepsTags == ASSUME TagInv, SweepClaims PROVE TagInv'
<1> DEFINE gone == {c \in sweep.claims : claimShard[c] = sweep.shard}
<1>1. /\ TagShape /\ (~torn => TagRight) /\ UNCHANGED <<top, tagging, torn>>
      /\ has' = has \ gone
      /\ tags' = [c \in Ids |-> IF c \in gone THEN Untagged ELSE tags[c]]
      /\ rev' = [c \in Ids |-> IF c \in gone THEN 0 ELSE rev[c]]
  BY DEF TagInv, SweepClaims
<1> HIDE DEF gone
<1>2. /\ top \in 1..Len(Spine) /\ has \in SUBSET Ids /\ Len(Spine) \in Nat
      /\ tags \in [Ids -> [Branches -> Nat]] /\ rev \in [Ids -> Nat]
  BY <1>1, SpineFacts DEF TagShape
<1>3. Untagged \in [Branches -> Nat] /\ \A b \in Branches : Untagged[b] = 0
  BY DEF Untagged
<1>4. TagShape'
  BY <1>1, <1>2, <1>3 DEF TagShape, JobPlaced
<1>5. \A c \in Ids, b \in Branches : tags'[c][b] # 0 => tags'[c][b] = tags[c][b]
  BY <1>1, <1>3
<1>6. \A c \in Ids : rev'[c] # 0 => rev[c] # 0
  BY <1>1
<1>7. ASSUME NEW c \in has', NEW b PROVE c \in has /\ tags'[c][b] = tags[c][b] /\ (Covered(c, b) => Covered(c, b)')
  <2>1. c \in has /\ c \in Ids /\ c \notin gone
    BY <1>1, <1>2
  <2>2. tags'[c][b] = tags[c][b]
    BY <1>1, <2>1
  <2>3. QED
    BY <1>1, <2>1, <2>2 DEF Covered, Pending, MidFlush
<1>8. Keeps
  <2>1. top' \in 1..Len(Spine) /\ top <= top'
    BY <1>1, <1>2
  <2>2. QED
    BY <1>7, <2>1, Zenon DEF Keeps
<1>9. ~torn => TagRight'
  BY <1>1, <1>5, <1>6, <1>8, NoStampKeeps
<1>10. QED
  BY <1>1, <1>4, <1>9 DEF TagInv

(* A tagger that is not half through a revision's stamps changes its own job. *)
LEMMA JobChanges ==
    ASSUME TagShape, NEW t \in Taggers, NEW job \in TagJob, ~MidFlush(tagging[t]), JobPlaced(job),
           tagging' = [tagging EXCEPT ![t] = job],
           UNCHANGED <<top, has, tags, rev>>
    PROVE  /\ TagShape' /\ Keeps /\ tagging'[t] = job
           /\ \A u \in Taggers : u # t => tagging'[u] = tagging[u]
           /\ \A c, b : Covered(c, b) => Covered(c, b)'
           /\ \A n : Ready(n) => Ready(n)'
<1>1. tagging'[t] = job /\ \A u \in Taggers : u # t => tagging'[u] = tagging[u]
  BY DEF TagShape
<1>2. TagShape'
  BY <1>1 DEF TagShape, JobPlaced
<1>3. \A c, b : Covered(c, b) => Covered(c, b)'
  BY <1>1 DEF Covered, Pending
<1>4. Keeps
  BY <1>3, SpineFacts DEF Keeps, TagShape
<1>5. \A n : Ready(n) => Ready(n)'
  <2> SUFFICES ASSUME NEW n, Ready(n), NEW i \in 1..n, NEW b \in Branches, NEW c \in MembersAt(i, b) \cap has
               PROVE  Covered(c, b)'
    BY DEF Ready, MembersAt, TableBranches
  <2>1. Covered(c, b)
    BY DEF Ready
  <2>2. QED
    BY <1>3, <2>1
<1>6. QED
  BY <1>1, <1>2, <1>3, <1>4, <1>5

LEMMA IdleIsRight == NoTagging \in TagJob /\ JobPlaced(NoTagging) /\ JobRight(NoTagging)
  BY ShardAssumption DEF NoTagging, TagJob, JobPlaced, JobRight

LEMMA LeastOf ==
    ASSUME NEW S \in SUBSET Nat, S # {}
    PROVE  Min(S) \in S /\ \A x \in S : Min(S) <= x
<1>1. PICK x \in S : \A y \in S : x <= y
  BY SmallestOf
<1>2. QED
  BY <1>1 DEF Min

(* A table whose revision is marked has every stamp: tagging goes on above it. *)
LEMMA TagBeginKeeps == ASSUME TagInv, NEW t \in Taggers, TagBegin(t) PROVE TagInv'
<1> DEFINE job == [phase |-> "read", next |-> SpineResume, last |-> top,
                   revision |-> Base(SpineResume), shard |-> 1, stamps |-> {}]
           S == {i \in 1..top : \A j \in i..top : rev[Spine[j]] = 0}
<1>1. /\ TagShape /\ (~torn => TagRight) /\ UNCHANGED <<top, has, tags, rev, torn>>
      /\ tagging' = [tagging EXCEPT ![t] = job] /\ ~MidFlush(tagging[t]) /\ rev[Spine[top]] = 0
  BY DEF TagInv, TagBegin, store, MidFlush
<1>2. top \in 1..Len(Spine) /\ Len(Spine) \in Nat /\ rev \in [Ids -> Nat] /\ \A i \in 1..top : Spine[i] \in Ids
  BY <1>1, SpineFacts DEF TagShape
<1>3. S \in SUBSET Nat /\ top \in S
  BY <1>1, <1>2
<1>4. SpineResume \in S /\ \A i \in S : SpineResume <= i
  <2>1. SpineResume = Min(S)
    BY DEF SpineResume
  <2> HIDE DEF S
  <2>2. QED
    BY <1>3, <2>1, LeastOf
<1>5. PICK r \in 1..top : r = SpineResume /\ r \in S /\ \A i \in S : r <= i
  BY <1>4
<1>6. r # 1 => r - 1 \in 1..top /\ rev[Spine[r - 1]] # 0
  <2> SUFFICES ASSUME r # 1, rev[Spine[r - 1]] = 0 PROVE FALSE
    BY <1>2, <1>5
  <2>1. r - 1 \in 1..top /\ \A j \in (r - 1)..top : j = r - 1 \/ j \in r..top
    BY <1>2, <1>5
  <2>2. r - 1 \in S
    BY <1>5, <2>1
  <2>3. r <= r - 1
    BY <1>5, <2>2
  <2>4. QED
    BY <1>2, <2>3
<1>7. job \in TagJob
  <2>1. Base(r) \in Nat
    BY <1>2, <1>5, <1>6 DEF Base
  <2>2. QED
    BY <1>2, <1>5, <2>1, ShardAssumption DEF TagJob
<1>7a. JobPlaced(job)
  BY <1>2, <1>5 DEF JobPlaced
<1> HIDE DEF job
<1>8. /\ TagShape' /\ Keeps /\ tagging'[t] = job
      /\ \A u \in Taggers : u # t => tagging'[u] = tagging[u]
      /\ \A n : Ready(n) => Ready(n)'
  BY <1>1, <1>7, <1>7a, JobChanges
<1>9. ASSUME ~torn PROVE JobRight(tagging[t])'
  <2>1. Ready(r - 1)
    <3>1. CASE r = 1
      BY <3>1 DEF Ready
    <3>2. CASE r # 1
      <4>1. r - 1 \in 1..Len(Spine)
        BY <1>2, <1>6, <3>2
      <4>2. QED
        BY <1>1, <1>6, <1>9, <3>2, <4>1 DEF TagRight, RevisionsReady
    <3>3. QED
      BY <3>1, <3>2
  <2>2. Ready(r - 1)'
    BY <1>8, <2>1
  <2>3. tagging'[t].phase = "read" /\ tagging'[t].next = r /\ tagging'[t].last = top
    BY <1>5, <1>8 DEF job
  <2>4. QED
    BY <1>1, <1>2, <1>5, <1>8, <2>2, <2>3 DEF JobRight
<1>10. ~torn => TagRight'
  BY <1>1, <1>8, <1>9, NoStampKeeps
<1>11. QED
  BY <1>1, <1>8, <1>10 DEF TagInv

LEMMA TagFailsKeeps == ASSUME TagInv, NEW t \in Taggers, TagFails(t) PROVE TagInv'
<1>1. /\ TagShape /\ (~torn => TagRight) /\ UNCHANGED <<top, has, tags, rev>>
      /\ tagging' = [tagging EXCEPT ![t] = NoTagging] /\ torn' = (torn \/ MidFlush(tagging[t]))
  BY DEF TagInv, TagFails, store
<1>2. CASE MidFlush(tagging[t])
  <2>1. TagShape'
    BY <1>1, IdleIsRight DEF TagShape, JobPlaced
  <2>2. QED
    BY <1>1, <1>2, <2>1 DEF TagInv
<1>3. CASE ~MidFlush(tagging[t])
  <2>1. /\ TagShape' /\ Keeps /\ tagging'[t] = NoTagging
        /\ \A u \in Taggers : u # t => tagging'[u] = tagging[u]
    BY <1>1, <1>3, IdleIsRight, JobChanges
  <2>2. JobRight(tagging[t])'
    BY <2>1 DEF JobRight, NoTagging
  <2>3. ~torn' => ~torn
    BY <1>1
  <2>4. QED
    BY <1>1, <2>1, <2>2, <2>3, NoStampKeeps DEF TagInv
<1>4. QED
  BY <1>2, <1>3

(* The walk stops at stamped claims and passes the others: below a claim it met,
   every claim was met or lies below a stamped one. *)
LEMMA WalkCovers ==
    ASSUME has \in SUBSET Ids, NEW b, NEW h \in Ids,
           NEW W, W = TagBranchClosure(b, h), W \subseteq has
    PROVE  /\ W \in SUBSET Ids /\ h \in W /\ W \subseteq ClosureOf[h]
           /\ \A c \in W : \A d \in ClosureOf[c] :
                 d \in W \/ \E y \in Ids : tags[y][b] # 0 /\ d \in ClosureOf[y]
<1> DEFINE open == {c \in has : tags[c][b] = 0}
           X == W \cup {d \in Ids : \E y \in Ids : tags[y][b] # 0 /\ d \in ClosureOf[y]}
<1>1. W = Below(Len(graph), RawEdges, open, {h})
  BY DEF TagBranchClosure
<1>2. {h} \in SUBSET (1..Len(graph))
  BY DEF Ids
<1>3. /\ W \in SUBSET (1..Len(graph)) /\ WalkClosed(W, Len(graph), RawEdges, open, {h})
      /\ \A Y : WalkClosed(Y, Len(graph), RawEdges, open, {h}) => W \subseteq Y
  <2> HIDE DEF open
  <2> QED
    BY <1>1, <1>2, ArchiveIsLayered, BelowIs
<1>3a. WalkClosed(ClosureOf[h], Len(graph), RawEdges, open, {h})
  BY ClosureFacts DEF WalkClosed, RawEdges, Ids
<1>4. W \in SUBSET Ids /\ h \in W
  BY <1>3 DEF WalkClosed, Ids
<1>5. ASSUME NEW d \in X \cap Ids, NEW e \in graph[d].edges PROVE e.to \in X
  <2>1. e.to \in Ids
    BY GraphAssumption DEF Ids
  <2>2. CASE \E y \in Ids : tags[y][b] # 0 /\ d \in ClosureOf[y]
    <3>1. PICK y \in Ids : tags[y][b] # 0 /\ d \in ClosureOf[y]
      BY <2>2
    <3>2. e.to \in ClosureOf[y]
      BY <3>1, ClosureFacts
    <3>3. QED
      BY <2>1, <3>1, <3>2
  <2>3. CASE d \in W /\ tags[d][b] # 0
    <3>1. e.to \in ClosureOf[d]
      BY ClosureFacts
    <3>2. QED
      BY <2>1, <2>3, <3>1
  <2>4. CASE d \in W /\ tags[d][b] = 0
    <3>1. d \in open
      BY <2>4
    <3>2. e.to \in W
      BY <1>3, <2>4, <3>1 DEF WalkClosed, RawEdges, Ids
    <3>3. QED
      BY <3>2
  <2>5. QED
    BY <2>2, <2>3, <2>4
<1>6. ASSUME NEW c \in W PROVE ClosureOf[c] \subseteq X
  <2>1. c \in Ids /\ c \in X
    BY <1>4
  <2> HIDE DEF X
  <2>2. QED
    BY <1>5, <2>1, ClosureFacts
<1>7. W \subseteq ClosureOf[h]
  <2> HIDE DEF open
  <2> QED
    BY <1>3, <1>3a
<1>8. QED
  BY <1>4, <1>6, <1>7

LEMMA FlushIsAJob ==
    ASSUME NEW job \in TagJob, NEW stamps \in SUBSET (Ids \X Branches)
    PROVE  [job EXCEPT !.phase = "flush", !.shard = 1, !.stamps = stamps] \in TagJob
<1>1. 1 \in 1..Shards
  BY ShardAssumption
<1>2. QED
  BY <1>1 DEF TagJob

LEMMA TagReadKeeps == ASSUME TagInv, NEW t \in Taggers, TagRead(t) PROVE TagInv'
<1>1. /\ TagShape /\ (~torn => TagRight) /\ UNCHANGED <<top, has, tags, rev>>
      /\ tagging[t].phase = "read" /\ ~MidFlush(tagging[t])
      /\ torn' = (torn \/ \E u \in Taggers : MidFlush(tagging[u]))
  BY DEF TagInv, TagRead, store, MidFlush
<1>2. PICK job \in TagJob : job = tagging[t] /\ JobPlaced(job)
  BY <1>1 DEF TagShape
<1>3. /\ top \in 1..Len(Spine) /\ Len(Spine) \in Nat /\ has \in SUBSET Ids
      /\ tags \in [Ids -> [Branches -> Nat]]
      /\ job.next \in 1..job.last /\ job.last \in 1..top /\ job.next \in 1..Len(Spine)
  BY <1>1, <1>2, SpineFacts DEF TagShape, JobPlaced, TagJob
<1> DEFINE i == job.next
           walks == {<<e.name, TagBranchClosure(e.name, e.to)>> : e \in TableBranches(Spine[i])}
           stamps == UNION {{<<c, w[1]>> : c \in {d \in w[2] : tags[d][w[1]] = 0}} : w \in walks}
           read == [job EXCEPT !.phase = "flush", !.shard = 1, !.stamps = stamps]
<1>4. tagging' = [tagging EXCEPT ![t] = IF \A w \in walks : w[2] \subseteq has THEN read ELSE NoTagging]
  BY <1>2 DEF TagRead, TableAt
<1>5. CASE ~ \A w \in walks : w[2] \subseteq has
  <2>1. tagging' = [tagging EXCEPT ![t] = NoTagging]
    BY <1>4, <1>5
  <2>2. /\ TagShape' /\ Keeps /\ tagging'[t] = NoTagging
        /\ \A u \in Taggers : u # t => tagging'[u] = tagging[u]
    BY <1>1, <2>1, IdleIsRight, JobChanges
  <2>3. JobRight(tagging[t])'
    BY <2>2 DEF JobRight, NoTagging
  <2>4. ~torn' => ~torn
    BY <1>1
  <2>5. QED
    BY <1>1, <2>2, <2>3, <2>4, NoStampKeeps DEF TagInv
<1>6. CASE \A w \in walks : w[2] \subseteq has
  <2>1. \A c, b : <<c, b>> \in stamps <=>
           \E e \in TableBranches(Spine[i]) : e.name = b /\ c \in TagBranchClosure(b, e.to) /\ tags[c][b] = 0
    <3>1. \A c, b : <<c, b>> \in stamps <=>
             \E w \in walks : w[1] = b /\ c \in w[2] /\ tags[c][b] = 0
      <4> HIDE DEF walks
      <4> QED
        OBVIOUS
    <3>2. \A n, W : <<n, W>>[1] = n /\ <<n, W>>[2] = W
      OBVIOUS
    <3>3. \A w \in walks : \E e \in TableBranches(Spine[i]) : w[1] = e.name /\ w[2] = TagBranchClosure(e.name, e.to)
      BY <3>2
    <3>4. \A e \in TableBranches(Spine[i]) :
             \E w \in walks : w[1] = e.name /\ w[2] = TagBranchClosure(e.name, e.to)
      BY <3>2
    <3> HIDE DEF walks, stamps
    <3>5. ASSUME NEW c, NEW b, <<c, b>> \in stamps
          PROVE  \E e \in TableBranches(Spine[i]) :
                    e.name = b /\ c \in TagBranchClosure(b, e.to) /\ tags[c][b] = 0
      <4>1. PICK w \in walks : w[1] = b /\ c \in w[2] /\ tags[c][b] = 0
        BY <3>1, <3>5, Zenon
      <4>2. PICK e \in TableBranches(Spine[i]) : w[1] = e.name /\ w[2] = TagBranchClosure(e.name, e.to)
        BY <3>3, <4>1, Zenon
      <4>3. QED
        BY <4>1, <4>2, Zenon
    <3>6. ASSUME NEW c, NEW b, NEW e \in TableBranches(Spine[i]),
                 e.name = b, c \in TagBranchClosure(b, e.to), tags[c][b] = 0
          PROVE  <<c, b>> \in stamps
      <4>1. PICK w \in walks : w[1] = e.name /\ w[2] = TagBranchClosure(e.name, e.to)
        BY <3>4, Zenon
      <4>2. QED
        BY <3>1, <3>6, <4>1, Zenon
    <3>7. QED
      BY <3>5, <3>6, Zenon
  <2>2. ASSUME NEW e \in TableBranches(Spine[i])
        PROVE  /\ e.to \in Ids /\ e.name \in Branches /\ TagBranchClosure(e.name, e.to) \subseteq has
               /\ e.to \in TagBranchClosure(e.name, e.to)
               /\ TagBranchClosure(e.name, e.to) \subseteq ClosureOf[e.to]
               /\ \A c \in TagBranchClosure(e.name, e.to) : \A d \in ClosureOf[c] :
                     \/ d \in TagBranchClosure(e.name, e.to)
                     \/ \E y \in Ids : tags[y][e.name] # 0 /\ d \in ClosureOf[y]
    <3>1. e.to \in Ids
      BY <1>3, SpineFacts, GraphAssumption DEF TableBranches, Ids
    <3>2. e.name \in Branches
      BY <1>3, BranchesAreNamed
    <3>3. TagBranchClosure(e.name, e.to) \subseteq has
      <4>1. <<e.name, TagBranchClosure(e.name, e.to)>> \in walks
        OBVIOUS
      <4>2. <<e.name, TagBranchClosure(e.name, e.to)>>[2] \subseteq has
        <5> HIDE DEF walks
        <5> QED
          BY <1>6, <4>1
      <4>3. QED
        BY <4>2
    <3>4. QED
      BY <1>3, <3>1, <3>2, <3>3, WalkCovers
  <2> HIDE DEF walks, stamps
  <2>3. stamps \in SUBSET (Ids \X Branches)
    <3>1. \A w \in stamps : \E c, b : w = <<c, b>>
      BY DEF stamps
    <3>2. \A c, b : <<c, b>> \in stamps => c \in Ids /\ b \in Branches
      BY <1>3, <2>1, <2>2
    <3>3. QED
      BY <3>1, <3>2
  <2>3a. read \in TagJob
    BY <2>3, FlushIsAJob
  <2>4. PICK flush \in TagJob : flush = read
    BY <2>3a, Zenon
  <2>5. /\ flush.phase = "flush" /\ flush.next = i /\ flush.last = job.last /\ flush.shard = 1
        /\ flush.stamps = stamps
    BY <2>4 DEF TagJob
  <2>5a. JobPlaced(flush)
    BY <1>3, <2>5 DEF JobPlaced
  <2> HIDE DEF read
  <2>6. /\ TagShape' /\ Keeps /\ tagging'[t] = flush
        /\ \A u \in Taggers : u # t => tagging'[u] = tagging[u]
        /\ \A c, b : Covered(c, b) => Covered(c, b)'
        /\ \A n : Ready(n) => Ready(n)'
    BY <1>1, <1>4, <1>6, <2>4, <2>5a, JobChanges
  <2>7. ASSUME ~torn' PROVE FlushRight(flush)' /\ Ready(i - 1)'
    <3>1. TagRight /\ \A u \in Taggers : ~MidFlush(tagging[u])
      BY <1>1, <2>7
    <3>2. Ready(i - 1) /\ StampsReach
      BY <1>1, <1>2, <3>1 DEF TagRight, JobRight
    <3>3. \A c, b : Covered(c, b) <=> tags[c][b] # 0
      BY <3>1 DEF Covered, Pending
    <3>4. ASSUME NEW e \in TableBranches(Spine[i]), NEW c \in TagBranchClosure(e.name, e.to),
                 NEW d \in ClosureOf[c], d \in has
          PROVE  Covered(d, e.name) \/ <<d, e.name>> \in flush.stamps
      <4>1. CASE d \in TagBranchClosure(e.name, e.to)
        BY <2>1, <2>5, <3>3, <4>1
      <4>2. CASE \E y \in Ids : tags[y][e.name] # 0 /\ d \in ClosureOf[y]
        BY <2>2, <3>2, <3>4, <4>2 DEF StampsReach
      <4>3. QED
        BY <2>2, <4>1, <4>2
    <3>5. ASSUME NEW c \in Ids, NEW b \in Branches, <<c, b>> \in flush.stamps PROVE StampRight(flush, c, b)'
      <4>1. PICK e \in TableBranches(Spine[i]) :
               e.name = b /\ c \in TagBranchClosure(b, e.to) /\ tags[c][b] = 0
        BY <2>1, <2>5, <3>5
      <4>2. c \in MembersAt(i, b) /\ c \in has
        BY <2>2, <4>1 DEF MembersAt
      <4>3. ASSUME NEW k \in 1..(i - 1), c \in MembersAt(k, b) PROVE FALSE
        <5>1. Covered(c, b)
          BY <3>2, <4>2, <4>3 DEF Ready
        <5>2. QED
          BY <3>3, <4>1, <5>1
      <4>4. Joins(c, b, flush.next)'
        BY <2>5, <4>2, <4>3 DEF Joins, MembersAt, TableBranches
      <4>5. \A d \in ClosureOf[c] \cap has' : Covered(d, b)' \/ <<d, b>> \in flush.stamps
        BY <1>1, <2>5, <2>6, <3>4, <4>1
      <4>6. ~(claimShard[c] < flush.shard)
        BY <2>5, ShardAssumption
      <4>7. QED
        BY <4>4, <4>5, <4>6 DEF StampRight
    <3>6. ASSUME NEW b \in Branches, NEW c \in MembersAt(i, b), c \in has'
          PROVE  Covered(c, b)' \/ <<c, b>> \in flush.stamps
      <4>1. PICK e \in TableBranches(Spine[i]) : e.name = b /\ c \in ClosureOf[e.to]
        BY DEF MembersAt
      <4>2. e.to \in TagBranchClosure(e.name, e.to) /\ c \in has
        BY <1>1, <2>2, <3>6
      <4>3. Covered(c, b) \/ <<c, b>> \in flush.stamps
        BY <3>4, <4>1, <4>2
      <4>4. QED
        BY <2>6, <4>3
    <3>7. FlushRight(flush)'
      BY <2>5, <3>5, <3>6 DEF FlushRight, MembersAt, TableBranches
    <3>8. QED
      BY <2>6, <3>2, <3>7
  <2>8. ~torn' => JobRight(tagging[t])'
    <3> SUFFICES ASSUME ~torn' PROVE JobRight(tagging[t])'
      OBVIOUS
    <3>1. FlushRight(flush)' /\ Ready(flush.next - 1)'
      BY <2>5, <2>7
    <3>2. JobRight(flush)'
      BY <3>1 DEF JobRight
    <3>3. QED
      BY <2>6, <3>2
  <2>9. ~torn' => TagRight'
    BY <1>1, <2>6, <2>8, NoStampKeeps
  <2>10. QED
    BY <2>6, <2>9 DEF TagInv
<1>7. QED
  BY <1>5, <1>6

(* Where a flush goes next: the next shard, the next revision, or the end. *)
LEMMA FlushGoesOn ==
    ASSUME NEW job \in TagJob, job.phase = "flush", JobPlaced(job),
           NEW after,
           after = NextShard(job, IF job.next = job.last THEN NoTagging
                                  ELSE [job EXCEPT !.phase = "read", !.next = @ + 1, !.revision = @ + 1])
    PROVE  /\ after \in TagJob /\ JobPlaced(after)
           /\ job.shard < Shards =>
                 /\ after.phase = "flush" /\ after.next = job.next
                 /\ after.shard = job.shard + 1 /\ after.stamps = job.stamps
           /\ ~(job.shard < Shards) =>
                 after.phase = "idle" \/ (after.phase = "read" /\ after.next = job.next + 1)
<1>1. job.next \in 1..job.last /\ job.last \in 1..top /\ job.shard \in 1..Shards /\ Shards \in Nat \ {0}
  BY ShardAssumption DEF JobPlaced, TagJob
<1>2. CASE job.shard < Shards
  <2>1. after = [job EXCEPT !.shard = @ + 1]
    BY <1>2 DEF NextShard
  <2>2. job.shard + 1 \in 1..Shards
    BY <1>1, <1>2
  <2>3. after \in TagJob
    BY <2>1, <2>2 DEF TagJob
  <2>4. /\ after.phase = "flush" /\ after.next = job.next /\ after.last = job.last
        /\ after.shard = job.shard + 1 /\ after.stamps = job.stamps
    BY <2>1 DEF TagJob
  <2>5. QED
    BY <1>1, <1>2, <2>3, <2>4 DEF JobPlaced
<1>3. CASE ~(job.shard < Shards) /\ job.next = job.last
  <2>1. after = NoTagging
    BY <1>3 DEF NextShard
  <2>2. QED
    BY <1>3, <2>1, IdleIsRight DEF NoTagging
<1>4. CASE ~(job.shard < Shards) /\ job.next # job.last
  <2>1. after = [job EXCEPT !.phase = "read", !.next = @ + 1, !.revision = @ + 1]
    BY <1>4 DEF NextShard
  <2>2. job.next + 1 \in Nat /\ job.revision + 1 \in Nat
    BY DEF TagJob
  <2>3. after \in TagJob
    BY <2>1, <2>2 DEF TagJob
  <2>4. after.phase = "read" /\ after.next = job.next + 1 /\ after.last = job.last
    BY <2>1 DEF TagJob
  <2>5. after.next \in 1..after.last /\ after.last \in 1..top
    <3>1. job.last \in Nat
      BY DEF TagJob
    <3>2. QED
      BY <1>1, <1>4, <2>4, <3>1
  <2>6. QED
    BY <1>4, <2>3, <2>4, <2>5 DEF JobPlaced
<1>5. QED
  BY <1>2, <1>3, <1>4

(* A shard's group of stamps: what is written is covered, what waits is pending. *)
LEMMA TagFlushKeeps == ASSUME TagInv, NEW t \in Taggers, TagFlush(t) PROVE TagInv'
<1>1. PICK job \in TagJob : job = tagging[t] /\ JobPlaced(job)
  BY DEF TagInv, TagShape
<1>2. PICK after : after = NextShard(job, IF job.next = job.last THEN NoTagging
                       ELSE [job EXCEPT !.phase = "read", !.next = @ + 1, !.revision = @ + 1])
  OBVIOUS
<1> DEFINE n == job.next
           s == job.shard
           table == Spine[n]
<1>3. /\ job.phase = "flush" /\ TagShape /\ (~torn => TagRight) /\ UNCHANGED <<has, top, torn>>
      /\ tags' = [c \in Ids |-> [b \in Branches |->
                   IF claimShard[c] = s /\ <<c, b>> \in job.stamps THEN Height(n) ELSE tags[c][b]]]
      /\ rev' = IF claimShard[table] = s THEN [rev EXCEPT ![table] = job.revision + 1] ELSE rev
      /\ tagging' = [tagging EXCEPT ![t] = after]
  BY <1>1, <1>2 DEF TagInv, TagFlush, TableAt, Height
<1>4. /\ top \in 1..Len(Spine) /\ Len(Spine) \in Nat /\ has \in SUBSET Ids
      /\ tags \in [Ids -> [Branches -> Nat]] /\ rev \in [Ids -> Nat]
      /\ tagging \in [Taggers -> TagJob] /\ \A u \in Taggers : JobPlaced(tagging[u])
      /\ n \in 1..job.last /\ job.last \in 1..top /\ n \in 1..top /\ n \in 1..Len(Spine) /\ table \in Ids
      /\ Height(n) \in Nat \ {0} /\ job.revision + 1 \in Nat
      /\ s \in 1..Shards /\ Shards \in Nat \ {0} /\ \A c \in Ids : claimShard[c] \in 1..Shards
  <2>1. n \in 1..job.last /\ job.last \in 1..top
    BY <1>1, <1>3 DEF JobPlaced
  <2>2. top \in 1..Len(Spine) /\ Len(Spine) \in Nat
    BY <1>3, SpineFacts DEF TagShape
  <2>3. n \in 1..top /\ n \in 1..Len(Spine)
    BY <2>1, <2>2
  <2>4. table \in Ids /\ Height(n) \in Nat \ {0}
    BY <2>3, SpineFacts, HeightsRise
  <2>5. /\ has \in SUBSET Ids
        /\ tags \in [Ids -> [Branches -> Nat]] /\ rev \in [Ids -> Nat]
        /\ tagging \in [Taggers -> TagJob] /\ \A u \in Taggers : JobPlaced(tagging[u])
    BY <1>3 DEF TagShape
  <2>6. s \in 1..Shards /\ Shards \in Nat \ {0} /\ (\A c \in Ids : claimShard[c] \in 1..Shards) /\ job.revision + 1 \in Nat
    BY ShardAssumption DEF TagJob
  <2>7. QED
    BY <2>1, <2>2, <2>3, <2>4, <2>5, <2>6
<1>5. /\ after \in TagJob /\ JobPlaced(after)
      /\ s < Shards => /\ after.phase = "flush" /\ after.next = n
                       /\ after.shard = s + 1 /\ after.stamps = job.stamps
      /\ ~(s < Shards) => after.phase = "idle" \/ (after.phase = "read" /\ after.next = n + 1)
  BY <1>1, <1>2, <1>3, FlushGoesOn
<1>6. tagging'[t] = after /\ \A u \in Taggers : u # t => tagging'[u] = tagging[u]
  BY <1>3, <1>4
<1> HIDE DEF n, s, table
<1>7. \A c \in Ids, b \in Branches :
         tags'[c][b] = IF claimShard[c] = s /\ <<c, b>> \in job.stamps THEN Height(n) ELSE tags[c][b]
  BY <1>3
<1>8. TagShape'
  <2>1. tags' \in [Ids -> [Branches -> Nat]]
    BY <1>3, <1>4
  <2>2. rev' \in [Ids -> Nat]
    BY <1>3, <1>4
  <2>3. tagging' \in [Taggers -> TagJob]
    BY <1>3, <1>4, <1>5
  <2>4. ASSUME NEW u \in Taggers PROVE JobPlaced(tagging[u])'
    BY <1>3, <1>4, <1>5, <1>6 DEF JobPlaced
  <2>5. QED
    BY <1>3, <1>4, <2>1, <2>2, <2>3, <2>4 DEF TagShape
<1>9. ASSUME ~torn PROVE TagRight'
  <2>1. /\ StampsTell /\ StampsReach /\ RevisionsReady /\ \A u \in Taggers : JobRight(tagging[u])
        /\ Ready(n - 1) /\ FlushRight(job)
    BY <1>1, <1>3, <1>9 DEF TagRight, JobRight, n
  <2>2. \A c \in Ids, b \in Branches : tags[c][b] # 0 => tags'[c][b] # 0
    BY <1>4, <1>7
  <2>3. ASSUME NEW c \in Ids, NEW b \in Branches, <<c, b>> \in job.stamps PROVE StampRight(job, c, b)
    BY <2>1, <2>3 DEF FlushRight
  <2>4. ASSUME NEW d \in has, NEW b \in Branches, <<d, b>> \in job.stamps PROVE Covered(d, b)'
    <3>1. d \in Ids /\ claimShard[d] \in 1..Shards
      BY <1>4
    <3>2. CASE claimShard[d] < s
      BY <2>2, <2>3, <2>4, <3>1, <3>2 DEF StampRight, Covered, s
    <3>3. CASE claimShard[d] = s
      BY <1>4, <1>7, <2>4, <3>1, <3>3 DEF Covered
    <3>4. CASE s < claimShard[d]
      <4>1. s < Shards /\ s + 1 > 1 /\ s + 1 <= claimShard[d]
        BY <1>4, <3>1, <3>4
      <4>2. Pending(after, d, b)
        BY <1>5, <2>4, <4>1 DEF Pending, MidFlush
      <4>3. QED
        BY <1>6, <4>2 DEF Covered, Pending, MidFlush
    <3>5. QED
      BY <1>4, <3>1, <3>2, <3>3, <3>4
  <2>5. ASSUME NEW d \in has, NEW b \in Branches, Covered(d, b) PROVE Covered(d, b)'
    <3>1. CASE tags[d][b] # 0
      BY <1>4, <2>2, <3>1 DEF Covered
    <3>2. ASSUME NEW u \in Taggers, Pending(tagging[u], d, b) PROVE Covered(d, b)'
      <4>1. CASE u = t
        BY <1>1, <2>4, <3>2, <4>1 DEF Pending
      <4>2. CASE u # t
        BY <1>6, <3>2, <4>2 DEF Covered, Pending, MidFlush
      <4>3. QED
        BY <4>1, <4>2
    <3>3. QED
      BY <2>5, <3>1, <3>2 DEF Covered
  <2>6. Keeps
    <3>1. top' \in 1..Len(Spine) /\ top <= top'
      BY <1>3, <1>4
    <3>2. \A c \in ClosureOf[Spine[top]] : c \in Ids
      BY <1>4, SpineFacts, ClosureFacts
    <3>3. QED
      BY <1>3, <2>2, <2>5, <3>1, <3>2 DEF Keeps
  <2>7. StampsTell'
    <3> SUFFICES ASSUME NEW c \in Ids, NEW b \in Branches, tags'[c][b] # 0
                 PROVE  \E i \in 1..top' : tags'[c][b] = Height(i) /\ Joins(c, b, i)
      BY DEF StampsTell, Joins, MembersAt, TableBranches, Height
    <3>0. 1..top' = 1..top
      BY <1>3
    <3>1. CASE claimShard[c] = s /\ <<c, b>> \in job.stamps
      <4>1. tags'[c][b] = Height(n) /\ Joins(c, b, n)
        BY <1>7, <2>3, <3>1 DEF StampRight, n
      <4>2. QED
        BY <1>4, <3>0, <4>1
    <3>2. CASE ~(claimShard[c] = s /\ <<c, b>> \in job.stamps)
      <4>1. tags'[c][b] = tags[c][b]
        BY <1>7, <3>2
      <4>2. QED
        BY <2>1, <3>0, <4>1 DEF StampsTell
    <3>3. QED
      BY <3>1, <3>2
  <2>8. StampsReach'
    <3> SUFFICES ASSUME NEW c \in Ids, NEW b \in Branches, tags'[c][b] # 0, NEW d \in ClosureOf[c], d \in has'
                 PROVE  Covered(d, b)'
      BY DEF StampsReach
    <3>1. CASE claimShard[c] = s /\ <<c, b>> \in job.stamps
      <4>1. Covered(d, b) \/ <<d, b>> \in job.stamps
        BY <1>3, <2>3, <3>1 DEF StampRight
      <4>2. QED
        BY <1>3, <2>4, <2>5, <4>1
    <3>2. CASE ~(claimShard[c] = s /\ <<c, b>> \in job.stamps)
      <4>1. tags[c][b] # 0
        BY <1>7, <3>2
      <4>2. QED
        BY <1>3, <2>1, <2>6, <4>1, ReachPersists
    <3>3. QED
      BY <3>1, <3>2
  <2>9. Ready(n - 1)' /\ Ready(n)'
    <3>1. n - 1 \in 0..top /\ \A i \in 1..n : i \in 1..(n - 1) \/ i = n
      BY <1>4
    <3>2. Ready(n - 1)'
      BY <1>3, <2>1, <2>6, <3>1, ReadyPersists
    <3>3. ASSUME NEW b \in Branches, NEW c \in MembersAt(n, b), c \in has' PROVE Covered(c, b)'
      <4>1. c \in has /\ (Covered(c, b) \/ <<c, b>> \in job.stamps)
        BY <1>3, <2>1, <3>3 DEF FlushRight, n
      <4>2. QED
        BY <2>4, <2>5, <4>1
    <3>4. ASSUME NEW i \in 1..n, NEW b \in Branches, NEW c \in MembersAt(i, b), c \in has' PROVE Covered(c, b)'
      <4>1. CASE i \in 1..(n - 1)
        BY <3>2, <3>4, <4>1 DEF Ready, MembersAt, TableBranches
      <4>2. CASE i = n
        BY <3>3, <3>4, <4>2
      <4>3. QED
        BY <3>1, <4>1, <4>2
    <3>5. Ready(n)'
      BY <3>4 DEF Ready, MembersAt, TableBranches, n
    <3>6. QED
      BY <3>2, <3>5
  <2>10. RevisionsReady'
    <3> SUFFICES ASSUME NEW i \in 1..Len(Spine), rev'[Spine[i]] # 0 PROVE i \in 1..top' /\ Ready(i)'
      BY DEF RevisionsReady
    <3>1. CASE Spine[i] = table
      <4>1. i = n
        BY <1>4, <3>1, TablesDiffer DEF table
      <4>2. QED
        BY <1>3, <1>4, <2>9, <4>1
    <3>2. CASE Spine[i] # table
      <4>1. Spine[i] \in Ids
        BY SpineFacts
      <4>2. rev'[Spine[i]] = rev[Spine[i]]
        BY <1>3, <1>4, <3>2, <4>1
      <4>3. i \in 1..top /\ Ready(i)
        BY <2>1, <4>2 DEF RevisionsReady
      <4>4. i \in 0..top
        BY <4>3
      <4>5. Ready(i)'
        BY <1>3, <2>6, <4>3, <4>4, ReadyPersists
      <4>6. QED
        BY <1>3, <4>3, <4>5
    <3>3. QED
      BY <3>1, <3>2
  <2>11. JobRight(after)'
    <3>1. CASE s < Shards
      <4>1. after.phase = "flush" /\ after.next = n /\ after.shard = s + 1 /\ after.stamps = job.stamps
        BY <1>5, <3>1
      <4>2. ASSUME NEW c \in Ids, NEW b \in Branches, <<c, b>> \in after.stamps PROVE StampRight(after, c, b)'
        <5>1. StampRight(job, c, b)
          BY <2>3, <4>1, <4>2
        <5>2. Joins(c, b, after.next)'
          BY <4>1, <5>1 DEF StampRight, Joins, MembersAt, TableBranches, n
        <5>3. \A d \in ClosureOf[c] \cap has' : Covered(d, b)' \/ <<d, b>> \in after.stamps
          BY <1>3, <2>5, <4>1, <5>1 DEF StampRight
        <5>4. ASSUME claimShard[c] < after.shard, c \in has' PROVE tags'[c][b] # 0
          <6>1. claimShard[c] \in 1..Shards /\ (claimShard[c] < s \/ claimShard[c] = s)
            BY <1>4, <4>1, <5>4
          <6>2. CASE claimShard[c] < s
            BY <1>3, <2>2, <5>1, <5>4, <6>2 DEF StampRight, s
          <6>3. CASE claimShard[c] = s
            BY <1>4, <1>7, <4>1, <4>2, <6>3
          <6>4. QED
            BY <6>1, <6>2, <6>3
        <5>5. QED
          BY <5>2, <5>3, <5>4 DEF StampRight
      <4>3. ASSUME NEW b \in Branches, NEW c \in MembersAt(after.next, b), c \in has'
            PROVE  Covered(c, b)' \/ <<c, b>> \in after.stamps
        <5>1. Covered(c, b) \/ <<c, b>> \in job.stamps
          BY <1>3, <2>1, <4>1, <4>3 DEF FlushRight, n
        <5>2. QED
          BY <1>3, <2>5, <4>1, <4>3, <5>1
      <4>4. FlushRight(after)'
        BY <4>2, <4>3 DEF FlushRight, MembersAt, TableBranches
      <4>5. Ready(after.next - 1)'
        BY <2>9, <4>1
      <4>6. QED
        BY <4>4, <4>5 DEF JobRight
    <3>2. CASE ~(s < Shards)
      <4>1. CASE after.phase = "idle"
        BY <4>1 DEF JobRight
      <4>2. CASE after.phase = "read" /\ after.next = n + 1
        <5>1. after.next - 1 = n
          BY <1>4, <4>2
        <5>2. Ready(after.next - 1)'
          BY <2>9, <5>1
        <5>3. QED
          BY <4>2, <5>2 DEF JobRight
      <4>3. QED
        BY <1>5, <3>2, <4>1, <4>2
    <3>3. QED
      BY <3>1, <3>2
  <2>12. ASSUME NEW u \in Taggers PROVE JobRight(tagging[u])'
    <3>1. CASE u = t
      <4>1. tagging'[u] = after
        BY <1>6, <3>1
      <4>2. QED
        BY <2>11, <4>1 DEF JobRight, FlushRight, StampRight
    <3>2. CASE u # t
      <4>1. PICK j \in TagJob : j = tagging[u] /\ j = tagging'[u]
        BY <1>4, <1>6, <3>2
      <4>2. JobRight(j) /\ JobPlaced(j)
        BY <1>4, <2>1, <4>1
      <4>3. JobRight(j)'
        BY <1>3, <2>6, <4>2, JobPersists
      <4>4. QED
        BY <4>1, <4>3 DEF JobRight, FlushRight, StampRight
    <3>3. QED
      BY <3>1, <3>2
  <2>13. QED
    BY <2>7, <2>8, <2>10, <2>12 DEF TagRight
<1>10. QED
  BY <1>3, <1>8, <1>9 DEF TagInv

LEMMA StepKeepsTags == ASSUME TagInv, [Next]_vars PROVE TagInv'
<1>1. CASE UNCHANGED vars
  BY <1>1, ElsewhereKeepsTags DEF vars, store
<1>2. CASE Publish \/ PublishFails
  BY <1>2, PublishKeepsTags
<1>3. CASE Tick \/ SweepCollect \/ SweepContents \/ SweepFails
  BY <1>3, ElsewhereKeepsTags DEF Tick, SweepCollect, SweepContents, SweepFails, store
<1>4. CASE SweepClaims
  BY <1>4, SweepClaimsKeepsTags
<1>5. ASSUME NEW t \in Taggers, TagBegin(t) \/ TagRead(t) \/ TagFlush(t) \/ TagFails(t) PROVE TagInv'
  BY <1>5, TagBeginKeeps, TagReadKeeps, TagFlushKeeps, TagFailsKeeps
<1>6. CASE CopyBegin \/ CopyPresent \/ CopyClaim \/ CopyContent \/ CopyMisses \/ CopyFails
  BY <1>6, ElsewhereKeepsTags
     DEF CopyBegin, CopyPresent, CopyClaim, CopyContent, CopyMisses, CopyFails, store
<1>7. QED
  BY <1>1, <1>2, <1>3, <1>4, <1>5, <1>6 DEF Next

(***************************************************************************)
(* For every graph, spine and partition, and any number of taggers that    *)
(* race, give up and resume while sweeps take claims and their stamps      *)
(* away: wherever the stamps decide membership of a branch, they admit     *)
(* exactly what its head reaches and the Universe still holds.             *)
(***************************************************************************)
THEOREM StampsTellMembership == Spec => []TagsTellBranch
<1>1. TagInv => TagsTellBranch
  BY StampsDecide DEF TagsTellBranch
<1>2. QED
  BY <1>1, InitIsTold, StepKeepsTags, PTL DEF Spec

-----------------------------------------------------------------------------
(* The shape of the state, and the numbering of the tables. *)

SweepJob ==
    [phase : {"idle", "claims", "contents"}, shard : Nat, claims : SUBSET Ids, contents : SUBSET Hashes]

Rest ==
    /\ blobs \in SUBSET Hashes /\ dstBlobs \in SUBSET Hashes
    /\ now \in 1..MaxTime /\ clean \in BOOLEAN /\ torn \in BOOLEAN
    /\ sweep \in SweepJob

Stamped == {0} \cup {Height(i) : i \in 1..Len(Spine)}

(* A revision is marked with its place, a job carries the place before its table's. *)
Numbered ==
    /\ rev \in [Ids -> 0..Len(Spine)] /\ RevisionsCountTables
    /\ \A t \in Taggers : tagging[t].phase # "idle" => tagging[t].revision = tagging[t].next - 1

StampsAreHeights == tags \in [Ids -> [Branches -> Stamped]]

ShapeInv == TagInv /\ CopyInv /\ Rest /\ Numbered /\ StampsAreHeights

LEMMA ContentsAreHashes == \A S \in SUBSET Ids : Contents(S) \in SUBSET Hashes
  BY DEF Contents, Hashes

LEMMA ShapeIsTyped == ASSUME ShapeInv PROVE TypeOK
<1>1. TagShape /\ CopyShape /\ Rest /\ rev \in [Ids -> 0..Len(Spine)]
  BY DEF ShapeInv, TagInv, CopyInv, Numbered
<1>2. tags \in [Ids -> [Branches -> {0} \cup {graph[Spine[i]].height : i \in DOMAIN Spine}]]
  <2>1. DOMAIN Spine = 1..Len(Spine)
    <3>1. Spine \in Seq(Ids)
      BY SpineAssumption, Zenon
    <3>2. QED
      BY <3>1
  <2>2. QED
    BY <2>1 DEF ShapeInv, StampsAreHeights, Stamped, Height
<1>3. \A t \in Taggers : /\ tagging[t].phase \in {"idle", "read", "flush"}
                         /\ tagging[t].phase # "idle" => tagging[t].next \in 1..tagging[t].last
  BY <1>1 DEF TagShape, TagJob, JobPlaced
<1>4. /\ copy.phase \in {"idle", "claim", "content", "done"}
      /\ copy.phase \in {"claim", "content"} => copy.queue # <<>>
  BY <1>1 DEF CopyShape, CopyJob
<1>5. sweep.phase \in {"idle", "claims", "contents"} /\ sweep.claims \subseteq Ids
  BY <1>1 DEF Rest, SweepJob
<1>6. QED
  BY <1>1, <1>2, <1>3, <1>4, <1>5 DEF TypeOK, TagShape, CopyShape, Rest

LEMMA InitIsShaped == ASSUME Init PROVE ShapeInv
<1>1. TagInv /\ CopyInv
  BY InitIsTold, InitIsCopied
<1>2. blobs \in SUBSET Hashes
  <2>1. Added(1) \in SUBSET Ids
    BY SpineFacts, ClosureFacts DEF Added
  <2>2. QED
    BY <2>1, ContentsAreHashes DEF Init
<1>3. Rest
  <2>1. NoSweep \in SweepJob
    BY DEF NoSweep, SweepJob
  <2>2. 1 \in 1..MaxTime
    BY ShardAssumption
  <2>3. QED
    BY <1>2, <2>1, <2>2 DEF Init, Rest
<1>4. Numbered /\ StampsAreHeights
  BY SpineFacts DEF Init, Numbered, RevisionsCountTables, NoTagging, StampsAreHeights, Stamped, Untagged
<1>5. QED
  BY <1>1, <1>3, <1>4 DEF ShapeInv

LEMMA RestKeeps == ASSUME ShapeInv, Next PROVE Rest'
<1>1. Rest /\ TagShape /\ CopyShape /\ has \in SUBSET Ids /\ top \in 1..Len(Spine)
  BY DEF ShapeInv, TagInv, CopyInv, TagShape
<1>2. CASE Publish \/ PublishFails
  <2>1. Added(top + 1) \in SUBSET Ids
    BY <1>1, <1>2, NewClaimsAreAbove DEF Publish, PublishFails
  <2>2. blobs' \in SUBSET Hashes
    BY <1>1, <1>2, <2>1, ContentsAreHashes DEF Publish, PublishFails, Rest
  <2>3. QED
    BY <1>1, <1>2, <2>2 DEF Publish, PublishFails, Rest, target
<1>3. CASE Tick
  BY <1>1, <1>3, ShardAssumption DEF Tick, Rest, store, target
<1>4. CASE SweepCollect
  <2> DEFINE due == {c \in Below(Len(graph), RawEdges, has, {Spine[top]}) \cap has : DueForDeletion(c)}
  <2>1. sweep' = [phase |-> "claims", shard |-> 1, claims |-> due, contents |-> Contents(due)]
    BY <1>4 DEF SweepCollect
  <2>2. due \in SUBSET Ids /\ Contents(due) \in SUBSET Hashes
    <3>1. due \in SUBSET Ids
      BY <1>1
    <3>2. QED
      BY <3>1, ContentsAreHashes
  <2> HIDE DEF due
  <2>3. sweep' \in SweepJob
    BY <2>1, <2>2 DEF SweepJob
  <2>4. QED
    BY <1>1, <1>4, <2>3 DEF SweepCollect, Rest, store, target
<1>5. CASE SweepClaims \/ SweepContents
  <2>1. NoSweep \in SweepJob /\ sweep \in SweepJob
    BY <1>1 DEF NoSweep, SweepJob, Rest
  <2>2. [sweep EXCEPT !.shard = @ + 1] \in SweepJob
    BY <2>1 DEF SweepJob
  <2>2a. [sweep EXCEPT !.phase = "contents", !.shard = 1] \in SweepJob
    BY <2>1 DEF SweepJob
  <2>3. sweep' \in SweepJob
    BY <1>5, <2>1, <2>2, <2>2a DEF SweepClaims, SweepContents, NextShard
  <2>4. /\ blobs' \subseteq blobs /\ dstBlobs' = dstBlobs /\ now' = now /\ clean' = clean /\ torn' = torn
    BY <1>5 DEF SweepClaims, SweepContents, target
  <2>5. QED
    BY <1>1, <2>3, <2>4 DEF Rest
<1>6. CASE SweepFails
  BY <1>1, <1>6 DEF SweepFails, Rest, SweepJob, NoSweep, store, target
<1>7. ASSUME NEW t \in Taggers, TagBegin(t) \/ TagRead(t) \/ TagFlush(t) \/ TagFails(t) PROVE Rest'
  <2>1. UNCHANGED <<blobs, dstBlobs, now, clean, sweep>>
    BY <1>7 DEF TagBegin, TagRead, TagFlush, TagFails, store, target
  <2>2. torn' \in BOOLEAN
    BY <1>1, <1>7 DEF TagBegin, TagRead, TagFlush, TagFails, Rest
  <2>3. QED
    BY <1>1, <2>1, <2>2 DEF Rest
<1>8. CASE CopyContent
  <2>1. content[Head(copy.queue)] \in blobs
    BY <1>8 DEF CopyContent
  <2>2. QED
    BY <1>1, <1>8, <2>1 DEF CopyContent, Rest, store
<1>9. CASE CopyBegin \/ CopyPresent \/ CopyClaim \/ CopyMisses \/ CopyFails
  BY <1>1, <1>9 DEF CopyBegin, CopyPresent, CopyClaim, CopyMisses, CopyFails, Rest, store
<1>10. QED
  BY <1>2, <1>3, <1>4, <1>5, <1>6, <1>7, <1>8, <1>9 DEF Next

(* Where a mark stands below the untagged run, it carries its table's place. *)
LEMMA ResumeNumbers ==
    ASSUME TagShape, Numbered, rev[Spine[top]] = 0
    PROVE  Base(SpineResume) = SpineResume - 1
<1> DEFINE S == {i \in 1..top : \A j \in i..top : rev[Spine[j]] = 0}
<1>1. top \in 1..Len(Spine) /\ Len(Spine) \in Nat
  BY SpineFacts DEF TagShape
<1>2. S \in SUBSET Nat /\ top \in S
  BY <1>1
<1>3. SpineResume \in S /\ \A i \in S : SpineResume <= i
  <2>1. SpineResume = Min(S)
    BY DEF SpineResume
  <2> HIDE DEF S
  <2>2. QED
    BY <1>2, <2>1, LeastOf
<1>4. PICK r \in 1..top : r = SpineResume /\ r \in S /\ \A i \in S : r <= i
  BY <1>3
<1>5. ASSUME r # 1 PROVE rev[Spine[r - 1]] = r - 1
  <2>1. r - 1 \in 1..top /\ r - 1 \in 1..Len(Spine) /\ \A j \in (r - 1)..top : j = r - 1 \/ j \in r..top
    BY <1>1, <1>4, <1>5
  <2>2. rev[Spine[r - 1]] # 0
    <3> SUFFICES ASSUME rev[Spine[r - 1]] = 0 PROVE FALSE
      OBVIOUS
    <3>1. r - 1 \in S
      BY <1>4, <2>1
    <3>2. r <= r - 1
      BY <1>4, <3>1
    <3>3. QED
      BY <1>1, <3>2
  <2>3. QED
    BY <2>1, <2>2 DEF Numbered, RevisionsCountTables
<1>6. QED
  BY <1>1, <1>4, <1>5 DEF Base

LEMMA MarksKeep ==
    ASSUME ShapeInv, UNCHANGED <<tags, rev, tagging>>
    PROVE  Numbered' /\ StampsAreHeights'
  BY DEF ShapeInv, Numbered, RevisionsCountTables, StampsAreHeights

(* A job ends, or keeps its place and its number, or starts where they agree. *)
LEMMA JobKeepsNumbers ==
    ASSUME ShapeInv, NEW t \in Taggers, NEW job, tagging' = [tagging EXCEPT ![t] = job],
           job.phase # "idle" => job.revision = job.next - 1,
           UNCHANGED <<tags, rev>>
    PROVE  Numbered' /\ StampsAreHeights'
<1>1. tagging'[t] = job /\ \A u \in Taggers : u # t => tagging'[u] = tagging[u]
  BY DEF ShapeInv, TagInv, TagShape
<1>2. \A u \in Taggers : tagging'[u].phase # "idle" => tagging'[u].revision = tagging'[u].next - 1
  BY <1>1 DEF ShapeInv, Numbered
<1>3. QED
  BY <1>2 DEF ShapeInv, Numbered, RevisionsCountTables, StampsAreHeights

LEMMA SweepKeepsNumbers == ASSUME ShapeInv, SweepClaims PROVE Numbered' /\ StampsAreHeights'
<1> DEFINE gone == {c \in sweep.claims : claimShard[c] = sweep.shard}
<1>1. /\ UNCHANGED tagging
      /\ tags' = [c \in Ids |-> IF c \in gone THEN Untagged ELSE tags[c]]
      /\ rev' = [c \in Ids |-> IF c \in gone THEN 0 ELSE rev[c]]
  BY DEF SweepClaims
<1> HIDE DEF gone
<1>2. Untagged \in [Branches -> Stamped]
  BY DEF Untagged, Stamped
<1>3. StampsAreHeights'
  BY <1>1, <1>2 DEF ShapeInv, StampsAreHeights
<1>4. rev \in [Ids -> 0..Len(Spine)] /\ Len(Spine) \in Nat /\ \A i \in 1..Len(Spine) : Spine[i] \in Ids
  BY SpineFacts DEF ShapeInv, Numbered
<1>5. rev' \in [Ids -> 0..Len(Spine)] /\ \A c \in Ids : rev'[c] \in {0, rev[c]}
  BY <1>1, <1>4
<1>6. RevisionsCountTables'
  BY <1>4, <1>5 DEF ShapeInv, Numbered, RevisionsCountTables
<1>7. QED
  BY <1>1, <1>3, <1>5, <1>6 DEF ShapeInv, Numbered

LEMMA FlushKeepsNumbers ==
    ASSUME ShapeInv, NEW t \in Taggers, TagFlush(t)
    PROVE  Numbered' /\ StampsAreHeights'
<1>1. PICK job \in TagJob : job = tagging[t] /\ JobPlaced(job)
  BY DEF ShapeInv, TagInv, TagShape
<1>2. PICK after : after = NextShard(job, IF job.next = job.last THEN NoTagging
                       ELSE [job EXCEPT !.phase = "read", !.next = @ + 1, !.revision = @ + 1])
  OBVIOUS
<1> DEFINE n == job.next
           s == job.shard
           table == Spine[n]
<1>3. /\ job.phase = "flush" /\ TagShape
      /\ tags' = [c \in Ids |-> [b \in Branches |->
                   IF claimShard[c] = s /\ <<c, b>> \in job.stamps THEN Height(n) ELSE tags[c][b]]]
      /\ rev' = IF claimShard[table] = s THEN [rev EXCEPT ![table] = job.revision + 1] ELSE rev
      /\ tagging' = [tagging EXCEPT ![t] = after]
  BY <1>1, <1>2 DEF ShapeInv, TagInv, TagFlush, TableAt, Height
<1>4. /\ n \in 1..Len(Spine) /\ Len(Spine) \in Nat /\ job.revision = n - 1 /\ job.revision + 1 = n
      /\ rev \in [Ids -> 0..Len(Spine)] /\ table \in Ids /\ Height(n) \in Stamped
  <2>1. n \in 1..job.last /\ job.last \in 1..top /\ top \in 1..Len(Spine) /\ Len(Spine) \in Nat
    BY <1>1, <1>3, SpineFacts DEF JobPlaced, TagShape
  <2>2. n \in 1..Len(Spine)
    BY <2>1
  <2>3. job.revision = n - 1 /\ rev \in [Ids -> 0..Len(Spine)]
    BY <1>1, <1>3 DEF ShapeInv, Numbered
  <2>4. table \in Ids /\ Height(n) \in Stamped
    BY <2>2, SpineFacts DEF Stamped
  <2>5. QED
    BY <2>1, <2>2, <2>3, <2>4
<1> HIDE DEF n, s, table
<1>5. StampsAreHeights'
  BY <1>3, <1>4 DEF ShapeInv, StampsAreHeights
<1>6. rev' \in [Ids -> 0..Len(Spine)] /\ \A c \in Ids : rev'[c] = rev[c] \/ (c = table /\ rev'[c] = n)
  BY <1>3, <1>4
<1>7. RevisionsCountTables'
  <2> SUFFICES ASSUME NEW i \in 1..Len(Spine) PROVE rev'[Spine[i]] \in {0, i}
    BY DEF RevisionsCountTables
  <2>1. Spine[i] \in Ids /\ rev[Spine[i]] \in {0, i}
    BY SpineFacts DEF ShapeInv, Numbered, RevisionsCountTables
  <2>2. Spine[i] = table => i = n
    BY <1>4, TablesDiffer DEF table
  <2>3. QED
    BY <1>6, <2>1, <2>2
<1>8. after.phase # "idle" => after.revision = after.next - 1
  <2>1. CASE job.shard < Shards
    <3>1. after = [job EXCEPT !.shard = @ + 1]
      BY <1>2, <2>1 DEF NextShard
    <3>2. after.revision = job.revision /\ after.next = job.next
      BY <3>1 DEF TagJob
    <3>3. QED
      BY <1>4, <3>2 DEF n
  <2>2. CASE ~(job.shard < Shards) /\ job.next = job.last
    <3>1. after = NoTagging
      BY <1>2, <2>2 DEF NextShard
    <3>2. QED
      BY <3>1 DEF NoTagging
  <2>3. CASE ~(job.shard < Shards) /\ job.next # job.last
    <3>1. after = [job EXCEPT !.phase = "read", !.next = @ + 1, !.revision = @ + 1]
      BY <1>2, <2>3 DEF NextShard
    <3>2. after.revision = job.revision + 1 /\ after.next = job.next + 1
      BY <3>1 DEF TagJob
    <3>3. QED
      BY <1>4, <3>2 DEF n
  <2>4. QED
    BY <2>1, <2>2, <2>3
<1>9. \A u \in Taggers : tagging'[u].phase # "idle" => tagging'[u].revision = tagging'[u].next - 1
  <2>1. tagging'[t] = after /\ \A u \in Taggers : u # t => tagging'[u] = tagging[u]
    BY <1>3 DEF TagShape
  <2>2. QED
    BY <1>8, <2>1 DEF ShapeInv, Numbered
<1>10. QED
  BY <1>5, <1>6, <1>7, <1>9 DEF Numbered

LEMMA StepKeepsShape == ASSUME ShapeInv, [Next]_vars PROVE ShapeInv'
<1>1. TagInv' /\ CopyInv'
  BY StepKeepsTags, StepKeepsCopy DEF ShapeInv
<1>2. CASE UNCHANGED vars
  BY <1>1, <1>2, MarksKeep DEF vars, store, target, ShapeInv, Rest
<1>3. ASSUME Next PROVE Numbered' /\ StampsAreHeights'
  <2>1. CASE Publish \/ PublishFails \/ Tick \/ SweepCollect \/ SweepContents \/ SweepFails
    BY <2>1, MarksKeep DEF Publish, PublishFails, Tick, SweepCollect, SweepContents, SweepFails, store
  <2>2. CASE SweepClaims
    BY <2>2, SweepKeepsNumbers
  <2>3. ASSUME NEW t \in Taggers, TagBegin(t) PROVE Numbered' /\ StampsAreHeights'
    <3>1. Base(SpineResume) = SpineResume - 1
      BY <2>3, ResumeNumbers DEF TagBegin, ShapeInv, TagInv
    <3>2. QED
      BY <2>3, <3>1, JobKeepsNumbers DEF TagBegin, store
  <2>4. ASSUME NEW t \in Taggers, TagRead(t) PROVE Numbered' /\ StampsAreHeights'
    <3>1. PICK job \in TagJob : job = tagging[t]
      BY DEF ShapeInv, TagInv, TagShape
    <3>2. job.phase = "read" /\ job.revision = job.next - 1
      BY <2>4, <3>1 DEF TagRead, ShapeInv, Numbered
    <3>3. PICK after : /\ tagging' = [tagging EXCEPT ![t] = after]
                       /\ \/ after = NoTagging
                          \/ \E stamps : after = [job EXCEPT !.phase = "flush", !.shard = 1, !.stamps = stamps]
      BY <2>4, <3>1 DEF TagRead
    <3>4. after.phase # "idle" => after.revision = after.next - 1
      <4>1. CASE after = NoTagging
        BY <4>1 DEF NoTagging
      <4>2. ASSUME NEW stamps, after = [job EXCEPT !.phase = "flush", !.shard = 1, !.stamps = stamps]
            PROVE  after.revision = after.next - 1
        <5>1. after.revision = job.revision /\ after.next = job.next
          BY <4>2 DEF TagJob
        <5>2. QED
          BY <3>2, <5>1
      <4>3. QED
        BY <3>3, <4>1, <4>2
    <3>5. QED
      BY <2>4, <3>3, <3>4, JobKeepsNumbers DEF TagRead, store
  <2>5. ASSUME NEW t \in Taggers, TagFlush(t) PROVE Numbered' /\ StampsAreHeights'
    BY <2>5, FlushKeepsNumbers
  <2>6. ASSUME NEW t \in Taggers, TagFails(t) PROVE Numbered' /\ StampsAreHeights'
    <3>1. NoTagging.phase = "idle"
      BY DEF NoTagging
    <3>2. QED
      BY <2>6, <3>1, JobKeepsNumbers DEF TagFails, store
  <2>7. CASE CopyBegin \/ CopyPresent \/ CopyClaim \/ CopyContent \/ CopyMisses \/ CopyFails
    BY <2>7, MarksKeep DEF CopyBegin, CopyPresent, CopyClaim, CopyContent, CopyMisses, CopyFails, store
  <2>8. QED
    BY <1>3, <2>1, <2>2, <2>3, <2>4, <2>5, <2>6, <2>7 DEF Next
<1>4. QED
  BY <1>1, <1>2, <1>3, RestKeeps DEF ShapeInv

(***************************************************************************)
(* The state keeps its shape through every interleaving of commits, Tag    *)
(* calls, sweeps and copies: places of the spine, heights of its tables,   *)
(* jobs that carry what their phase needs.                                 *)
(***************************************************************************)
THEOREM TypeCorrect == Spec => []TypeOK
<1>1. ShapeInv => TypeOK
  BY ShapeIsTyped
<1>2. QED
  BY <1>1, InitIsShaped, StepKeepsShape, PTL DEF Spec

(***************************************************************************)
(* A table is never marked with another revision than its place in the     *)
(* spine, whoever marks it and wherever tagging resumed (TagArchive).      *)
(***************************************************************************)
THEOREM RevisionsAreCounted == Spec => []RevisionsCountTables
<1>1. ShapeInv => RevisionsCountTables
  BY DEF ShapeInv, Numbered
<1>2. QED
  BY <1>1, InitIsShaped, StepKeepsShape, PTL DEF Spec

LEMMA TornStays == ASSUME Next, torn PROVE torn'
<1>1. CASE \E t \in Taggers : TagBegin(t) \/ TagRead(t) \/ TagFlush(t) \/ TagFails(t)
  BY <1>1 DEF TagBegin, TagRead, TagFlush, TagFails
<1>2. CASE Publish \/ PublishFails \/ Tick \/ SweepCollect \/ SweepClaims \/ SweepContents \/ SweepFails
  BY <1>2 DEF Publish, PublishFails, Tick, SweepCollect, SweepClaims, SweepContents, SweepFails
<1>3. CASE CopyBegin \/ CopyPresent \/ CopyClaim \/ CopyContent \/ CopyMisses \/ CopyFails
  BY <1>3 DEF CopyBegin, CopyPresent, CopyClaim, CopyContent, CopyMisses, CopyFails
<1>4. QED
  BY <1>1, <1>2, <1>3 DEF Next

(***************************************************************************)
(* No Tag call changes a stamp another one gave: a claim joins a branch at *)
(* one table only, and each stamp has that table's height (the oldest      *)
(* revision wins in tagBranchClosure).                                     *)
(***************************************************************************)
THEOREM OldestRevisionWins == Spec => StampsStay
<1> DEFINE Stay == ~torn' => \A c \in Ids, b \in Branches :
                       0 \notin {tags[c][b], tags'[c][b]} => tags'[c][b] = tags[c][b]
<1>1. ASSUME TagInv, TagInv', Next PROVE Stay
  <2> SUFFICES ASSUME ~torn', NEW c \in Ids, NEW b \in Branches, tags[c][b] # 0, tags'[c][b] # 0
               PROVE  tags'[c][b] = tags[c][b]
    OBVIOUS
  <2>1. StampsTell /\ StampsTell' /\ top \in 1..Len(Spine) /\ top' \in 1..Len(Spine)
    BY <1>1, TornStays DEF TagInv, TagRight, TagShape
  <2>2. PICK i \in 1..top : tags[c][b] = Height(i) /\ Joins(c, b, i)
    BY <2>1 DEF StampsTell
  <2>3. PICK j \in 1..top' : tags'[c][b] = Height(j) /\ Joins(c, b, j)
    BY <2>1 DEF StampsTell, Joins, MembersAt, TableBranches, Height
  <2>4. i = j \/ i \in 1..(j - 1) \/ j \in 1..(i - 1)
    BY <2>1, <2>2, <2>3
  <2>5. QED
    BY <2>2, <2>3, <2>4 DEF Joins
<1>2. TagInv /\ TagInv' /\ [Next]_vars => [Stay]_vars
  BY <1>1
<1>3. QED
  BY <1>2, InitIsTold, StepKeepsTags, PTL DEF Spec, StampsStay
=============================================================================
