----------------------------- MODULE VerifyProofs -----------------------------
(***************************************************************************)
(* Theorems about Verify, for every archive, every offer, every set of     *)
(* verification options and every bound.                                   *)
(***************************************************************************)
EXTENDS Verify, FiniteSetTheorems, WellFoundedInduction, TLAPS

-----------------------------------------------------------------------------
(* Recursive definitions. *)

(* A set of natural numbers that has an element has a smallest one. *)
LEMMA SmallestOf ==
    ASSUME NEW S, S \subseteq Nat, S # {}
    PROVE  \E x \in S : \A y \in S : x <= y
<1>1. PICK R : IsWellFoundedOn(R, Nat) /\ \A x, y \in Nat : x < y => <<x, y>> \in R
  <2>1. IsWellFoundedOn(OpToRel(<, Nat), Nat)
    BY NatLessThanWellFounded
  <2>2. \A x, y \in Nat : x < y => <<x, y>> \in OpToRel(<, Nat)
    BY Zenon DEF OpToRel
  <2> QED BY <2>1, <2>2, Zenon
<1>2. PICK x \in S : \A y \in S : ~ (<<y, x>> \in R)
  <2>1. IsWellFoundedOn(R, Nat) /\ S \subseteq Nat /\ S # {}
    BY <1>1
  <2> QED BY <2>1, WFMin, Zenon
<1>3. \A y \in S : x \in Nat /\ y \in Nat /\ (y < x => <<y, x>> \in R)
  BY <1>1
<1>4. \A y \in S : ~ (y < x)
  BY <1>2, <1>3, Zenon
<1> QED BY <1>3, <1>4

(* A set of numbers up to n that has an element has a largest one. *)
LEMMA LargestOf ==
    ASSUME NEW n \in Nat, NEW S, S \subseteq 0..n, S # {}
    PROVE  \E x \in S : \A y \in S : y <= x
<1> DEFINE D == {n - x : x \in S}
<1>1. D \subseteq Nat /\ D # {}
  <2>1. \A x \in S : n - x \in Nat
    OBVIOUS
  <2>2. PICK x \in S : TRUE
    OBVIOUS
  <2>3. n - x \in D
    OBVIOUS
  <2> QED BY <2>1, <2>3
<1>2. PICK d \in D : \A e \in D : d <= e
  BY <1>1, SmallestOf
<1>3. PICK x \in S : d = n - x
  BY <1>2
<1>4. \A y \in S : n - x <= n - y
  BY <1>2, <1>3
<1> QED BY <1>4

(***************************************************************************)
(* A function whose value at i depends on its values at lower ranks only   *)
(* exists: the functions defined by recursion along references are such.   *)
(***************************************************************************)
Ranked(D, V, M, rank, step) ==
    /\ V # {} /\ M \in Nat /\ rank \in [D -> 0..M] /\ step \in [D \X [D -> V] -> V]
    /\ \A i \in D : \A f, h \in [D -> V] :
          (\A j \in D : rank[j] < rank[i] => f[j] = h[j]) => step[<<i, f>>] = step[<<i, h>>]

LEMMA RankedRecursion ==
    ASSUME NEW D, NEW V, NEW M, NEW rank, NEW step, Ranked(D, V, M, rank, step)
    PROVE  \E f \in [D -> V] : \A i \in D : f[i] = step[<<i, f>>]
<1> USE DEF Ranked
<1>0. PICK v : v \in V
  OBVIOUS
<1> DEFINE Fits(f, n) == \A i \in D : rank[i] < n => f[i] = step[<<i, f>>]
           Misses == {n \in Nat : ~ \E f \in [D -> V] : Fits(f, n)}
<1>1. Misses = {}
  <2> SUFFICES ASSUME Misses # {} PROVE FALSE
    OBVIOUS
  <2>1. PICK n \in Misses : \A k \in Misses : n <= k
    BY SmallestOf
  <2>2. n # 0
    <3>1. [i \in D |-> v] \in [D -> V] /\ \A i \in D : ~(rank[i] < 0)
      BY <1>0
    <3>2. Fits([i \in D |-> v], 0)
      BY <3>1
    <3>3. QED
      BY <3>1, <3>2
  <2>3. n \in Nat /\ n - 1 \in Nat /\ n - 1 < n
    BY <2>1, <2>2
  <2>4. PICK f \in [D -> V] : Fits(f, n - 1)
    <3>1. \A k \in Misses : k \in Nat /\ n <= k
      BY <2>1
    <3>2. n - 1 \notin Misses
      <4> HIDE DEF Misses
      <4> QED
        BY <3>1, <2>3
    <3>3. QED
      BY <3>2, <2>3
  <2> DEFINE h == [i \in D |-> IF rank[i] = n - 1 THEN step[<<i, f>>] ELSE f[i]]
  <2>5. h \in [D -> V]
    OBVIOUS
  <2>6. ASSUME NEW i \in D, rank[i] < n PROVE h[i] = step[<<i, h>>]
    <3>1. \A j \in D : rank[j] < rank[i] => f[j] = h[j]
      BY <2>6, <2>3
    <3>2. step[<<i, f>>] = step[<<i, h>>]
      BY <3>1, <2>5
    <3>3. CASE rank[i] = n - 1
      BY <3>2, <3>3
    <3>4. CASE rank[i] # n - 1
      <4>1. rank[i] < n - 1
        BY <3>4, <2>6, <2>3
      <4>2. f[i] = step[<<i, f>>]
        BY <4>1, <2>4
      <4>3. QED
        BY <4>2, <3>2, <3>4
    <3>5. QED
      BY <3>3, <3>4
  <2>7. QED
    BY <2>5, <2>6
<1>2. PICK f \in [D -> V] : Fits(f, M + 1)
  <2>1. M + 1 \notin Misses
    <3> HIDE DEF Misses
    <3> QED
      BY <1>1
  <2>2. M + 1 \in Nat
    OBVIOUS
  <2>3. QED
    <3> HIDE DEF Fits
    <3> QED
      BY <2>1, <2>2
<1>3. \A i \in D : rank[i] < M + 1
  OBVIOUS
<1>4. QED
  BY <1>2, <1>3

-----------------------------------------------------------------------------
(* Archives: what was ever sealed, each claim citing earlier ones. *)

(* The strings, those the code writes by itself named. *)
Text == STRING \cup {"", "contributor", "diff", "rule", "root", "gap"}

StoredEdge == [to : Nat, type : Text, name : Text, due : Nat, ends : Nat]

Claim ==
    [type : STRING, edges : SUBSET StoredEdge, at : Nat, height : Nat, due : Nat,
     omits : BOOLEAN, blob : BOOLEAN, key : STRING, pubkey : STRING, from : Nat, until : Nat,
     broken : BOOLEAN]

Archive(g) ==
    /\ g \in Seq(Claim)
    /\ \A i \in 1..Len(g) : Refs(g[i]) \subseteq 1..(i - 1)

LEMMA ArchiveTypes ==
    ASSUME NEW g, Archive(g)
    PROVE  /\ Len(g) \in Nat
           /\ \A i \in 1..Len(g) : g[i] \in Claim /\ Refs(g[i]) \subseteq 1..(i - 1)
           /\ \A i \in 1..Len(g) : Predecessors(g[i]) \subseteq Refs(g[i])
           /\ \A i \in 1..Len(g) : \A r \in Refs(g[i]) : r \in 1..Len(g) /\ r < i
<1>1. Len(g) \in Nat /\ \A i \in 1..Len(g) : g[i] \in Claim
  BY DEF Archive
<1>2. \A i \in 1..Len(g) : Refs(g[i]) \subseteq 1..(i - 1)
  BY DEF Archive
<1>3. \A i \in 1..Len(g) : Predecessors(g[i]) \subseteq Refs(g[i])
  BY DEF Predecessors, Refs
<1>4. ASSUME NEW i \in 1..Len(g), NEW r \in Refs(g[i]) PROVE r \in 1..Len(g) /\ r < i
  <2>1. r \in 1..(i - 1)
    BY <1>2
  <2>2. QED
    BY <2>1, <1>1
<1>5. QED
  BY <1>1, <1>2, <1>3, <1>4

(* What a walk reaches holds the roots and, of its present claims, the references. *)
LEMMA ReachedUnfolds ==
    ASSUME NEW g, Archive(g), NEW present, NEW roots
    PROVE  /\ Reached(g, present, roots) \subseteq 1..Len(g)
           /\ \A i \in 1..Len(g) :
                 i \in Reached(g, present, roots) <=>
                    \/ i \in roots
                    \/ \E j \in (i + 1)..Len(g) : /\ j \in present /\ i \in Refs(g[j])
                                                 /\ j \in Reached(g, present, roots)
<1> DEFINE n == Len(g)
           D == 1..n
           From(i, f) == \/ i \in roots
                         \/ \E j \in (i + 1)..n : j \in present /\ i \in Refs(g[j]) /\ f[j]
           step == [p \in D \X [D -> BOOLEAN] |-> From(p[1], p[2])]
           rank == [i \in D |-> n - i]
           R[i \in D] == From(i, R)
<1>1. n \in Nat
  BY ArchiveTypes
<1>2. rank \in [D -> 0..n] /\ TRUE \in BOOLEAN
  BY <1>1
<1>3. step \in [D \X [D -> BOOLEAN] -> BOOLEAN]
  OBVIOUS
<1>4. \A i \in D, f \in [D -> BOOLEAN] : step[<<i, f>>] = From(i, f)
  OBVIOUS
<1>5. ASSUME NEW i \in D, NEW f \in [D -> BOOLEAN], NEW h \in [D -> BOOLEAN],
             \A j \in D : rank[j] < rank[i] => f[j] = h[j]
      PROVE  step[<<i, f>>] = step[<<i, h>>]
  <2>1. \A j \in (i + 1)..n : j \in D /\ rank[j] < rank[i]
    BY <1>1
  <2>2. \A j \in (i + 1)..n : f[j] = h[j]
    BY <2>1, <1>5
  <2>3. From(i, f) = From(i, h)
    BY <2>2
  <2>4. QED
    BY <2>3, <1>4
<1>6. Ranked(D, BOOLEAN, n, rank, step)
  <2>1. \A i \in D : \A f, h \in [D -> BOOLEAN] :
           (\A j \in D : rank[j] < rank[i] => f[j] = h[j]) => step[<<i, f>>] = step[<<i, h>>]
    <3> HIDE DEF step, rank, D, n
    <3> QED
      BY <1>5
  <2>2. QED
    <3> HIDE DEF step, rank, D, n
    <3> QED
      BY <1>1, <1>2, <1>3, <2>1 DEF Ranked
<1>7. PICK f \in [D -> BOOLEAN] : f = [i \in D |-> From(i, f)]
  <2>1. \E f \in [D -> BOOLEAN] : \A i \in D : f[i] = step[<<i, f>>]
    <3> HIDE DEF step, rank, D, n
    <3> QED
      BY <1>6, RankedRecursion
  <2>2. QED
    BY <2>1, <1>4
<1>8. R = [i \in D |-> From(i, R)]
  BY <1>7 DEF R
<1>9. Reached(g, present, roots) = {i \in D : R[i]}
  BY DEF Reached
<1>10. \A i \in D : R[i] = From(i, R)
  BY <1>8
<1>11. ASSUME NEW i \in D
       PROVE  i \in Reached(g, present, roots) <=>
                    \/ i \in roots
                    \/ \E j \in (i + 1)..n : /\ j \in present /\ i \in Refs(g[j])
                                            /\ j \in Reached(g, present, roots)
  <2>1. \A j \in (i + 1)..n : j \in D
    BY <1>1
  <2>2. QED
    BY <1>9, <1>10, <2>1
<1>12. QED
  BY <1>9, <1>11

LEMMA ReachedIsClosed ==
    ASSUME NEW g, Archive(g), NEW present, NEW roots
    PROVE  /\ Reached(g, present, roots) \subseteq 1..Len(g)
           /\ roots \cap 1..Len(g) \subseteq Reached(g, present, roots)
           /\ \A j \in Reached(g, present, roots) \cap present :
                 Refs(g[j]) \subseteq Reached(g, present, roots)
<1> DEFINE X == Reached(g, present, roots)
<1>1. X \subseteq 1..Len(g) /\ roots \cap 1..Len(g) \subseteq X
  BY ReachedUnfolds
<1>2. ASSUME NEW j \in X \cap present, NEW i \in Refs(g[j]) PROVE i \in X
  <2>1. j \in 1..Len(g) /\ i \in 1..(j - 1) /\ Len(g) \in Nat
    BY <1>1, <1>2, ArchiveTypes
  <2>2. i \in 1..Len(g) /\ j \in (i + 1)..Len(g)
    BY <2>1
  <2>3. QED
    BY <2>2, <1>2, ReachedUnfolds
<1>3. QED
  BY <1>1, <1>2

(* A set that holds the roots and is closed under the references of its present claims. *)
LEMMA ReachedIsLeast ==
    ASSUME NEW g, Archive(g), NEW present, NEW roots, NEW X,
           roots \cap 1..Len(g) \subseteq X,
           \A j \in X \cap present \cap 1..Len(g) : Refs(g[j]) \subseteq X
    PROVE  Reached(g, present, roots) \subseteq X
<1> DEFINE S == Reached(g, present, roots) \ X
<1> SUFFICES ASSUME S # {} PROVE FALSE
  OBVIOUS
<1>1. Len(g) \in Nat /\ S \subseteq 0..Len(g)
  BY ReachedUnfolds, ArchiveTypes
<1>2. PICK i \in S : \A k \in S : k <= i
  BY <1>1, LargestOf
<1>3. i \in 1..Len(g) /\ i \notin roots
  BY ReachedUnfolds
<1>4. PICK j \in (i + 1)..Len(g) :
          j \in present /\ i \in Refs(g[j]) /\ j \in Reached(g, present, roots)
  BY <1>3, ReachedUnfolds
<1>5. j \in 1..Len(g) /\ ~(j <= i)
  BY <1>1, <1>3, <1>4
<1>6. j \in X
  BY <1>2, <1>4, <1>5
<1>7. QED
  BY <1>4, <1>5, <1>6

(* More present claims and more roots reach more. *)
LEMMA ReachedGrows ==
    ASSUME NEW g, Archive(g), NEW p, NEW q, NEW r, NEW s, p \subseteq q, r \subseteq s
    PROVE  Reached(g, p, r) \subseteq Reached(g, q, s)
<1>1. /\ s \cap 1..Len(g) \subseteq Reached(g, q, s)
      /\ \A j \in Reached(g, q, s) \cap q : Refs(g[j]) \subseteq Reached(g, q, s)
  BY ReachedIsClosed
<1>2. QED
  BY <1>1, ReachedIsLeast

(* The schedule a claim reads with: its own, or what its predecessor reads with. *)
LEMMA DueUnfolds ==
    ASSUME NEW g, Archive(g)
    PROVE  /\ Due(g) \in [1..Len(g) -> Nat]
           /\ \A i \in 1..Len(g) :
                 Due(g)[i] = IF g[i].due # 0 \/ g[i].omits \/ Predecessors(g[i]) = {} THEN g[i].due
                             ELSE Due(g)[CHOOSE p \in Predecessors(g[i]) : TRUE]
<1> DEFINE n == Len(g)
           D == 1..n
           From(i, f) == IF g[i].due # 0 \/ g[i].omits \/ Predecessors(g[i]) = {} THEN g[i].due
                         ELSE f[CHOOSE p \in Predecessors(g[i]) : TRUE]
           step == [p \in D \X [D -> Nat] |-> From(p[1], p[2])]
           rank == [i \in D |-> i]
           DD[i \in D] == From(i, DD)
<1>1. n \in Nat /\ rank \in [D -> 0..n] /\ Nat # {}
  BY ArchiveTypes
<1>2. \A i \in D : \/ Predecessors(g[i]) = {}
                   \/ /\ (CHOOSE p \in Predecessors(g[i]) : TRUE) \in D
                      /\ (CHOOSE p \in Predecessors(g[i]) : TRUE) < i
  BY ArchiveTypes
<1>3. \A i \in D : g[i].due \in Nat
  BY ArchiveTypes DEF Claim
<1>4. step \in [D \X [D -> Nat] -> Nat]
  <2>1. \A i \in D : \A f \in [D -> Nat] : From(i, f) \in Nat
    BY <1>2, <1>3
  <2>2. QED
    <3> HIDE DEF From
    <3> QED
      BY <2>1
<1>5. \A i \in D, f \in [D -> Nat] : step[<<i, f>>] = From(i, f)
  <2> HIDE DEF From
  <2> QED
    OBVIOUS
<1>6. ASSUME NEW i \in D, NEW f \in [D -> Nat], NEW h \in [D -> Nat],
             \A j \in D : rank[j] < rank[i] => f[j] = h[j]
      PROVE  step[<<i, f>>] = step[<<i, h>>]
  <2>1. From(i, f) = From(i, h)
    BY <1>2, <1>6
  <2>2. QED
    BY <2>1, <1>5
<1>7. Ranked(D, Nat, n, rank, step)
  <2>1. \A i \in D : \A f, h \in [D -> Nat] :
           (\A j \in D : rank[j] < rank[i] => f[j] = h[j]) => step[<<i, f>>] = step[<<i, h>>]
    <3> HIDE DEF step, rank, D, n
    <3> QED
      BY <1>6
  <2>2. QED
    <3> HIDE DEF step, rank, D, n
    <3> QED
      BY <1>1, <1>4, <2>1 DEF Ranked
<1>8. PICK f \in [D -> Nat] : f = [i \in D |-> From(i, f)]
  <2>1. \E f \in [D -> Nat] : \A i \in D : f[i] = step[<<i, f>>]
    <3> HIDE DEF step, rank, D, n
    <3> QED
      BY <1>7, RankedRecursion
  <2>2. QED
    <3> HIDE DEF From
    <3> QED
      BY <2>1, <1>5
<1>9. DD = [i \in D |-> From(i, DD)]
  BY <1>8 DEF DD
<1>10. Due(g) = DD
  BY DEF Due
<1>11. DD \in [D -> Nat]
  <2> SUFFICES ASSUME {i \in D : DD[i] \notin Nat} # {} PROVE FALSE
    BY <1>9
  <2> DEFINE S == {i \in D : DD[i] \notin Nat}
  <2>1. PICK i \in S : \A k \in S : i <= k
    <3>1. S \subseteq Nat
      OBVIOUS
    <3>2. QED
      BY <3>1, SmallestOf
  <2>2. i \in D /\ DD[i] = From(i, DD) /\ DD[i] \notin Nat
    BY <1>9
  <2> DEFINE pre == CHOOSE p \in Predecessors(g[i]) : TRUE
  <2>3. Predecessors(g[i]) # {} /\ DD[i] = DD[pre]
    BY <2>2, <1>3
  <2>4. pre \in D /\ pre < i
    BY <2>2, <2>3, <1>2
  <2>5. pre \notin S
    <3>1. ~(i <= pre)
      BY <2>2, <2>4
    <3>2. QED
      BY <3>1, <2>1
  <2>6. QED
    BY <2>2, <2>3, <2>4, <2>5
<1>12. \A i \in D : DD[i] = From(i, DD)
  BY <1>9
<1>13. QED
  BY <1>10, <1>11, <1>12

(* Claims can be read while they and every claim they overlay are present. *)
LEMMA ResolvableUnfolds ==
    ASSUME NEW g, Archive(g), NEW here
    PROVE  /\ Resolvable(g, here) \subseteq here \cap 1..Len(g)
           /\ \A i \in 1..Len(g) :
                 i \in Resolvable(g, here) <=>
                    i \in here /\ Predecessors(g[i]) \subseteq Resolvable(g, here)
<1> DEFINE n == Len(g)
           D == 1..n
           From(i, f) == i \in here /\ \A p \in Predecessors(g[i]) : f[p]
           step == [p \in D \X [D -> BOOLEAN] |-> From(p[1], p[2])]
           rank == [i \in D |-> i]
           R[i \in D] == From(i, R)
<1>1. n \in Nat /\ rank \in [D -> 0..n] /\ TRUE \in BOOLEAN
  BY ArchiveTypes
<1>2. \A i \in D : \A p \in Predecessors(g[i]) : p \in D /\ p < i
  BY ArchiveTypes
<1>3. step \in [D \X [D -> BOOLEAN] -> BOOLEAN]
  OBVIOUS
<1>4. \A i \in D, f \in [D -> BOOLEAN] : step[<<i, f>>] = From(i, f)
  OBVIOUS
<1>5. ASSUME NEW i \in D, NEW f \in [D -> BOOLEAN], NEW h \in [D -> BOOLEAN],
             \A j \in D : rank[j] < rank[i] => f[j] = h[j]
      PROVE  step[<<i, f>>] = step[<<i, h>>]
  <2>1. \A p \in Predecessors(g[i]) : f[p] = h[p]
    BY <1>2, <1>5
  <2>2. From(i, f) = From(i, h)
    BY <2>1
  <2>3. QED
    BY <2>2, <1>4
<1>6. Ranked(D, BOOLEAN, n, rank, step)
  <2>1. \A i \in D : \A f, h \in [D -> BOOLEAN] :
           (\A j \in D : rank[j] < rank[i] => f[j] = h[j]) => step[<<i, f>>] = step[<<i, h>>]
    <3> HIDE DEF step, rank, D, n
    <3> QED
      BY <1>5
  <2>2. QED
    <3> HIDE DEF step, rank, D, n
    <3> QED
      BY <1>1, <1>3, <2>1 DEF Ranked
<1>7. PICK f \in [D -> BOOLEAN] : f = [i \in D |-> From(i, f)]
  <2>1. \E f \in [D -> BOOLEAN] : \A i \in D : f[i] = step[<<i, f>>]
    <3> HIDE DEF step, rank, D, n
    <3> QED
      BY <1>6, RankedRecursion
  <2>2. QED
    BY <2>1, <1>4
<1>8. R = [i \in D |-> From(i, R)]
  BY <1>7 DEF R
<1>9. Resolvable(g, here) = {i \in D : R[i]}
  BY DEF Resolvable
<1>10. \A i \in D : R[i] = From(i, R)
  BY <1>8
<1>11. ASSUME NEW i \in D
       PROVE  i \in Resolvable(g, here) <=>
                 i \in here /\ Predecessors(g[i]) \subseteq Resolvable(g, here)
  <2>1. \A p \in Predecessors(g[i]) : p \in D
    BY <1>2
  <2>2. QED
    BY <1>9, <1>10, <2>1
<1>12. Resolvable(g, here) \subseteq here \cap D
  BY <1>9, <1>10
<1>13. QED
  BY <1>11, <1>12

(***************************************************************************)
(* What a claim reads as depends on the claims it overlays alone: another  *)
(* archive that holds the same claims up to n gives it the same schedule,  *)
(* and more present claims can only make it readable.                      *)
(***************************************************************************)
SameDiffs(g, h, n) ==
    /\ n \in Nat /\ n <= Len(g) /\ n <= Len(h)
    /\ \A i \in 1..n : /\ g[i].edges = h[i].edges /\ g[i].due = h[i].due
                       /\ g[i].omits = h[i].omits

LEMMA SameReferences ==
    ASSUME NEW g, NEW h, NEW n, SameDiffs(g, h, n), NEW i \in 1..n
    PROVE  Refs(g[i]) = Refs(h[i]) /\ Predecessors(g[i]) = Predecessors(h[i])
BY DEF SameDiffs, Refs, Predecessors

LEMMA DueIsLocal ==
    ASSUME NEW g, NEW h, Archive(g), Archive(h), NEW n, SameDiffs(g, h, n)
    PROVE  \A i \in 1..n : Due(g)[i] = Due(h)[i]
<1> DEFINE S == {i \in 1..n : Due(g)[i] # Due(h)[i]}
<1> SUFFICES ASSUME S # {} PROVE FALSE
  OBVIOUS
<1>1. n \in Nat /\ S \subseteq Nat /\ 1..n \subseteq 1..Len(g) /\ 1..n \subseteq 1..Len(h)
  BY ArchiveTypes DEF SameDiffs
<1>2. PICK i \in S : \A k \in S : i <= k
  BY <1>1, SmallestOf
<1>3. i \in 1..n /\ i \in 1..Len(g) /\ i \in 1..Len(h)
  BY <1>1
<1>4. /\ Predecessors(g[i]) = Predecessors(h[i])
      /\ g[i].due = h[i].due /\ g[i].omits = h[i].omits
  BY <1>3, SameReferences DEF SameDiffs
<1> DEFINE pre == CHOOSE p \in Predecessors(g[i]) : TRUE
<1>5. Predecessors(g[i]) # {} /\ Due(g)[i] = Due(g)[pre] /\ Due(h)[i] = Due(h)[pre]
  <2>1. Due(g)[i] # Due(h)[i]
    OBVIOUS
  <2>2. (CHOOSE p \in Predecessors(h[i]) : TRUE) = pre
    BY <1>4
  <2>3. Due(g)[i] = IF g[i].due # 0 \/ g[i].omits \/ Predecessors(g[i]) = {} THEN g[i].due
                    ELSE Due(g)[pre]
    BY <1>3, DueUnfolds
  <2>4. Due(h)[i] = IF h[i].due # 0 \/ h[i].omits \/ Predecessors(h[i]) = {} THEN h[i].due
                    ELSE Due(h)[CHOOSE p \in Predecessors(h[i]) : TRUE]
    BY <1>3, DueUnfolds
  <2>5. QED
    BY <1>4, <2>1, <2>2, <2>3, <2>4
<1>6. pre \in 1..n /\ pre < i
  <2>1. pre \in Predecessors(g[i])
    BY <1>5
  <2>2. pre \in 1..Len(g) /\ pre < i
    BY <2>1, <1>3, ArchiveTypes
  <2>3. QED
    BY <2>2, <1>1, <1>3
<1>7. pre \notin S
  <2>1. ~(i <= pre)
    BY <1>3, <1>6
  <2>2. QED
    BY <2>1, <1>2
<1>8. QED
  BY <1>2, <1>5, <1>6, <1>7

LEMMA ResolvableIsLocal ==
    ASSUME NEW g, NEW h, Archive(g), Archive(h), NEW n, SameDiffs(g, h, n), NEW p, NEW q,
           p \cap 1..n \subseteq q
    PROVE  Resolvable(g, p) \cap 1..n \subseteq Resolvable(h, q)
<1> DEFINE S == (Resolvable(g, p) \cap 1..n) \ Resolvable(h, q)
<1> SUFFICES ASSUME S # {} PROVE FALSE
  OBVIOUS
<1>1. n \in Nat /\ S \subseteq Nat /\ 1..n \subseteq 1..Len(g) /\ 1..n \subseteq 1..Len(h)
  BY ArchiveTypes DEF SameDiffs
<1>2. PICK i \in S : \A k \in S : i <= k
  BY <1>1, SmallestOf
<1>3. i \in 1..n /\ i \in 1..Len(g) /\ i \in 1..Len(h)
  BY <1>1
<1>4. Predecessors(g[i]) = Predecessors(h[i])
  BY <1>3, SameReferences
<1>5. i \in p /\ Predecessors(g[i]) \subseteq Resolvable(g, p)
  BY <1>3, ResolvableUnfolds
<1>6. ASSUME NEW r \in Predecessors(g[i]) PROVE r \in Resolvable(h, q)
  <2>1. r \in 1..Len(g) /\ r < i
    BY <1>3, ArchiveTypes
  <2>2. r \in 1..n /\ ~(i <= r)
    BY <2>1, <1>1, <1>3
  <2>3. r \notin S
    BY <2>2, <1>2
  <2>4. QED
    BY <2>2, <2>3, <1>5
<1>7. i \in Resolvable(h, q)
  BY <1>3, <1>4, <1>5, <1>6, ResolvableUnfolds
<1>8. QED
  BY <1>2, <1>7

(* The values a function takes on a set of places up to n have a greatest. *)
LEMMA ImageHasLargest ==
    ASSUME NEW n \in Nat, NEW T, T \subseteq 1..n, T # {}, NEW h, \A r \in T : h[r] \in Nat
    PROVE  \E m \in T : \A r \in T : h[r] <= h[m]
<1> DEFINE Q(k) == T \cap 1..k = {} \/ \E m \in T \cap 1..k : \A r \in T \cap 1..k : h[r] <= h[m]
           Misses == {k \in Nat : ~Q(k)}
<1>1. Misses = {}
  <2> SUFFICES ASSUME Misses # {} PROVE FALSE
    OBVIOUS
  <2>1. PICK k \in Misses : \A j \in Misses : k <= j
    BY SmallestOf
  <2>2. Q(0)
    OBVIOUS
  <2>3. k \in Nat /\ k # 0
    BY <2>1, <2>2
  <2>0. ~Q(k)
    BY <2>1
  <2>4. k - 1 \in Nat /\ ~(k <= k - 1)
    BY <2>3
  <2>5. Q(k - 1)
    <3> HIDE DEF Q
    <3> QED
      BY <2>1, <2>4
  <2>6. 1..k = (1..(k - 1)) \cup {k}
    <3> HIDE DEF Misses
    <3> QED
      BY <2>3
  <2>7. CASE k \notin T
    <3>1. T \cap 1..k = T \cap 1..(k - 1)
      BY <2>6, <2>7
    <3>2. QED
      BY <3>1, <2>0, <2>5
  <2>8. CASE k \in T
    <3>1. T \cap 1..k = (T \cap 1..(k - 1)) \cup {k} /\ h[k] \in Nat
      BY <2>6, <2>8
    <3>2. CASE T \cap 1..(k - 1) = {}
      BY <3>1, <3>2, <2>0
    <3>3. CASE T \cap 1..(k - 1) # {}
      <4>1. PICK m \in T \cap 1..(k - 1) : \A r \in T \cap 1..(k - 1) : h[r] <= h[m]
        BY <3>3, <2>5
      <4>2. CASE h[k] <= h[m]
        <5>1. \A r \in T \cap 1..k : h[r] <= h[m]
          BY <3>1, <4>1, <4>2
        <5>2. QED
          BY <5>1, <3>1, <2>0
      <4>3. CASE ~(h[k] <= h[m])
        <5>1. \A r \in T \cap 1..k : h[r] <= h[k]
          BY <3>1, <4>1, <4>3
        <5>2. QED
          BY <5>1, <3>1, <2>0
      <4>4. QED
        BY <4>2, <4>3
    <3>4. QED
      BY <3>2, <3>3
  <2>9. QED
    BY <2>7, <2>8
<1>2. Q(n)
  <2> HIDE DEF Q
  <2> QED
    BY <1>1
<1>3. T \cap 1..n = T
  OBVIOUS
<1>4. QED
  BY <1>2, <1>3

LEMMA MaxIs ==
    ASSUME NEW S, S \subseteq Nat, NEW m \in S, \A y \in S : y <= m
    PROVE  Max(S) = m
<1>1. \E x \in S : \A y \in S : x >= y
  OBVIOUS
<1>2. Max(S) \in S /\ \A y \in S : Max(S) >= y
  BY <1>1 DEF Max
<1>3. Max(S) \in Nat /\ m \in Nat /\ Max(S) <= m /\ Max(S) >= m
  BY <1>2
<1>4. QED
  BY <1>3

(* 1 + the greatest height, 0 over nothing: above each, and no higher than it must be. *)
LEMMA HeightOverImage ==
    ASSUME NEW n \in Nat, NEW T, T \subseteq 1..n, NEW h, \A r \in T : h[r] \in Nat
    PROVE  /\ HeightOver({h[r] : r \in T}) \in Nat
           /\ T = {} => HeightOver({h[r] : r \in T}) = 0
           /\ \A r \in T : h[r] < HeightOver({h[r0] : r0 \in T})
           /\ T # {} => /\ HeightOver({h[r] : r \in T}) = 1 + Max({0} \cup {h[r] : r \in T})
                        /\ \E m \in T : HeightOver({h[r] : r \in T}) = 1 + h[m]
<1> DEFINE S == {h[r] : r \in T}
<1>1. CASE T = {}
  BY <1>1 DEF HeightOver
<1>2. CASE T # {}
  <2>1. PICK m \in T : \A r \in T : h[r] <= h[m]
    BY <1>2, ImageHasLargest
  <2>2. h[m] \in S /\ S \subseteq Nat /\ \A y \in S : y <= h[m]
    BY <2>1
  <2>3. Max(S) = h[m] /\ Max({0} \cup S) = h[m] /\ h[m] \in Nat
    <3> HIDE DEF S
    <3>1. h[m] \in {0} \cup S /\ {0} \cup S \subseteq Nat /\ \A y \in {0} \cup S : y <= h[m]
      BY <2>2
    <3>2. Max(S) = h[m]
      BY <2>2, MaxIs
    <3>3. Max({0} \cup S) = h[m]
      BY <3>1, MaxIs
    <3>4. QED
      BY <3>2, <3>3, <2>2
  <2>4. HeightOver(S) = 1 + h[m]
    <3> HIDE DEF S
    <3> QED
      BY <2>2, <2>3 DEF HeightOver
  <2>5. \A r \in T : h[r] \in Nat /\ h[r] < 1 + h[m]
    BY <2>1, <2>3
  <2>6. QED
    <3> HIDE DEF S
    <3>1. HeightOver(S) \in Nat
      BY <2>3, <2>4
    <3>2. \A r \in T : h[r] < HeightOver(S)
      BY <2>4, <2>5
    <3>3. \E k \in T : HeightOver(S) = 1 + h[k]
      BY <2>4
    <3>4. HeightOver(S) = 1 + Max({0} \cup S)
      BY <2>3, <2>4
    <3>5. QED
      BY <1>2, <3>1, <3>2, <3>3, <3>4 DEF S
<1>3. QED
  BY <1>1, <1>2

LEMMA HeightOverClaims ==
    ASSUME NEW g, Archive(g), NEW T, T \subseteq 1..Len(g)
    PROVE  /\ HeightOver({g[r].height : r \in T}) \in Nat
           /\ T = {} => HeightOver({g[r].height : r \in T}) = 0
           /\ \A r \in T : g[r].height < HeightOver({g[r0].height : r0 \in T})
           /\ T # {} => /\ HeightOver({g[r].height : r \in T})
                               = 1 + Max({0} \cup {g[r].height : r \in T})
                        /\ \E m \in T : HeightOver({g[r].height : r \in T}) = 1 + g[m].height
<1> DEFINE n == Len(g)
           h == [r \in T |-> g[r].height]
<1>1. n \in Nat /\ T \subseteq 1..n /\ \A r \in T : h[r] = g[r].height /\ h[r] \in Nat
  BY ArchiveTypes DEF Claim
<1>2. {h[r] : r \in T} = {g[r].height : r \in T}
  BY <1>1
<1>0. n \in Nat /\ T \subseteq 1..n /\ \A r \in T : h[r] \in Nat
  BY <1>1
<1> HIDE DEF n, h
<1>3. /\ HeightOver({h[r] : r \in T}) \in Nat
      /\ T = {} => HeightOver({h[r] : r \in T}) = 0
      /\ \A r \in T : h[r] < HeightOver({h[r0] : r0 \in T})
      /\ T # {} => /\ HeightOver({h[r] : r \in T}) = 1 + Max({0} \cup {h[r] : r \in T})
                   /\ \E m \in T : HeightOver({h[r] : r \in T}) = 1 + h[m]
  BY <1>0, HeightOverImage
<1>4. QED
  BY <1>1, <1>2, <1>3

(* The longest chain below a claim is one longer than the longest below its references. *)
LEMMA ChainUnfolds ==
    ASSUME Archive(made)
    PROVE  \A i \in 1..Len(made) :
               LongestChain[i] = HeightOver({LongestChain[r] : r \in Refs(made[i])})
<1> DEFINE n == Len(made)
           D == 1..n
           From(i, f) == HeightOver({f[r] : r \in Refs(made[i])})
           step == [p \in D \X [D -> Nat] |-> From(p[1], p[2])]
           rank == [i \in D |-> i]
           H[i \in D] == From(i, H)
<1>1. n \in Nat /\ rank \in [D -> 0..n] /\ Nat # {}
  BY ArchiveTypes
<1>2. \A i \in D : Refs(made[i]) \subseteq 1..n /\ \A r \in Refs(made[i]) : r < i
  BY ArchiveTypes
<1>3. step \in [D \X [D -> Nat] -> Nat]
  <2>1. ASSUME NEW i \in D, NEW f \in [D -> Nat] PROVE From(i, f) \in Nat
    <3>1. \A r \in Refs(made[i]) : f[r] \in Nat
      BY <1>2
    <3> DEFINE T == Refs(made[i])
    <3>2. T \subseteq 1..n /\ n \in Nat /\ \A r \in T : f[r] \in Nat
      BY <3>1, <1>1, <1>2
    <3>3. HeightOver({f[r] : r \in T}) \in Nat
      <4> HIDE DEF n, T
      <4> QED
        BY <3>2, HeightOverImage
    <3>4. QED
      BY <3>3
  <2>2. QED
    <3> HIDE DEF From
    <3> QED
      BY <2>1
<1>4. \A i \in D, f \in [D -> Nat] : step[<<i, f>>] = From(i, f)
  <2> HIDE DEF From
  <2> QED
    OBVIOUS
<1>5. ASSUME NEW i \in D, NEW f \in [D -> Nat], NEW h \in [D -> Nat],
             \A j \in D : rank[j] < rank[i] => f[j] = h[j]
      PROVE  step[<<i, f>>] = step[<<i, h>>]
  <2>1. \A r \in Refs(made[i]) : f[r] = h[r]
    BY <1>2, <1>5
  <2>2. {f[r] : r \in Refs(made[i])} = {h[r] : r \in Refs(made[i])}
    BY <2>1
  <2>3. From(i, f) = From(i, h)
    BY <2>2
  <2>4. QED
    BY <2>3, <1>4
<1>6. Ranked(D, Nat, n, rank, step)
  <2>1. \A i \in D : \A f, h \in [D -> Nat] :
           (\A j \in D : rank[j] < rank[i] => f[j] = h[j]) => step[<<i, f>>] = step[<<i, h>>]
    <3> HIDE DEF step, rank, D, n
    <3> QED
      BY <1>5
  <2>2. QED
    <3> HIDE DEF step, rank, D, n
    <3> QED
      BY <1>1, <1>3, <2>1 DEF Ranked
<1>7. PICK f \in [D -> Nat] : f = [i \in D |-> From(i, f)]
  <2>1. \E f \in [D -> Nat] : \A i \in D : f[i] = step[<<i, f>>]
    <3> HIDE DEF step, rank, D, n
    <3> QED
      BY <1>6, RankedRecursion
  <2>2. QED
    <3> HIDE DEF From
    <3> QED
      BY <2>1, <1>4
<1>8. H = [i \in D |-> From(i, H)]
  BY <1>7 DEF H
<1>9. LongestChain = H
  BY DEF LongestChain
<1>10. QED
  BY <1>8, <1>9
-----------------------------------------------------------------------------
(***************************************************************************)
(* The inductive invariant.  TypeInv: what was sealed is an archive, and   *)
(* what the run keeps are its claims.  Kept: a claim other rules read goes *)
(* only by being lost.  AdmittedInv: what a claim passed at admission      *)
(* still holds of it.  WalkInv: a full run without failures so far has     *)
(* judged what it visited, and has followed it or will.  PassInv: a run    *)
(* over lawful claims alone has found nothing.                             *)
(***************************************************************************)
Item == [id : Nat, depth : Nat, dated : BOOLEAN]

Run ==
    [pc : {"idle", "walk", "judge", "done", "aborted"}, cfg : Config, scope : {"graph", "archive"},
     roots : SUBSET Nat, queue : SUBSET Item, visited : SUBSET Nat, gaps : SUBSET Nat,
     marked : SUBSET Nat, failures : SUBSET (Nat \X Text), done : Nat, cur : Item,
     seen : SUBSET Nat, raced : BOOLEAN]

Made == 1..Len(made)

TypeInv ==
    /\ Archive(made) /\ Len(made) \in Ids
    /\ now \in Nat /\ Floor <= now
    /\ held \subseteq Made /\ blobs \subseteq Made
    /\ forged \subseteq Made /\ blind \subseteq Made /\ lost \subseteq Made
    /\ lost \cap held = {}
    /\ run \in Run
    /\ run.roots \subseteq Made /\ {q.id : q \in run.queue} \subseteq Made
    /\ run.visited \subseteq Made /\ run.gaps \subseteq run.visited
    /\ IF run.pc = "judge" THEN run.cur.id \in run.visited ELSE run.cur.id = 0

KeptInv == \A i \in Made : made[i].type \in Structural => i \in held \cup lost

(* The rules that concern the claim alone or the claims it references. *)
Lawful(g, here, i) ==
    /\ RecordRules(g, i) /\ RuleCreatedAtStated(g, i) /\ RuleSignature(g, i)
    /\ RuleArchiveFirstTableHeight(g, i)
    /\ g[i].height = HeightOver({g[r].height : r \in Refs(g[i])})
    /\ \A r \in Refs(g[i]) : g[r].at <= g[i].at
    /\ RuleDeleteMarkShape(g, i) /\ RuleStructureNotDeletable(g, i)
    /\ RuleBranchTableReference(g, here, i) /\ RuleDeleteByCopied(g, here, i)
    /\ g[i].edges # {} => ContributorEdges(g[i]) # {}
    /\ SignerOf(g, i) # i =>
          /\ g[i].at >= g[SignerOf(g, i)].from
          /\ g[SignerOf(g, i)].until # 0 => g[i].at <= g[SignerOf(g, i)].until

AdmittedInv ==
    \A i \in Made \ forged :
        /\ Lawful(made, held, i) /\ made[i].at <= now
        /\ i \notin blind => \A e \in made[i].edges : e.due = Due(made)[e.to]

(* Where the walk has been or will go. *)
Ahead == run.visited \cup {q.id : q \in run.queue}

(* What a claim that was judged satisfies, and keeps while others are removed. *)
Judged(i) ==
    /\ made[i].key = made[SignerOf(made, i)].pubkey
    /\ \A r \in Refs(made[i]) \cap held : made[r].at <= made[i].at
    /\ Refs(made[i]) \subseteq held =>
          made[i].height = HeightOver({made[r].height : r \in Refs(made[i])})
    /\ SignerOf(made, i) # i =>
          \A t \in EndsFor(made, held, run.roots, SignerOf(made, i)) : made[i].at <= t

(* A claim the walk read states a schedule for i. *)
Announced(i) == \E j \in run.visited : \E e \in made[j].edges : e.to = i /\ e.due # 0

CleanWalk ==
    /\ run.roots \subseteq Ahead
    /\ \A i \in (run.visited \cap held) \ {run.cur.id} : Judged(i) /\ Refs(made[i]) \subseteq Ahead
    /\ \A q \in run.queue : q.dated => Announced(q.id)
    /\ \A i \in run.visited \cap lost : i \in run.gaps \/ Announced(i)
    /\ \A i \in run.marked : MarkedBy(run.visited, i)
    /\ \A m \in (run.visited \cap held) \ {run.cur.id} : made[m].type = "delete" =>
          \A e \in made[m].edges : e.type = "delete" => e.to \in run.marked
    /\ run.pc = "judge" =>
          /\ Refs(made[run.cur.id]) \cap held \subseteq run.seen
          /\ run.seen \subseteq Refs(made[run.cur.id])
          /\ made[run.cur.id].type = "delete" => run.cur.id \in held
          /\ run.cur.id \notin lost
    /\ run.pc = "done" => run.queue = {} /\ run.gaps \subseteq run.marked

WalkInv ==
    run.pc \in {"walk", "judge", "done"} /\ Full(run.cfg) /\ run.failures = {} => CleanWalk

(* What LawfulPasses asks of the archive: none of it changes while nothing races the run. *)
AllLawful ==
    /\ Full(run.cfg) /\ ~run.raced
    /\ forged = {} /\ lost = {} /\ Closure \cap blind = {} /\ KeysHeld /\ SignersStandAlone
    /\ run.roots \subseteq held
    /\ run.scope = "archive" => \A i \in run.roots : made[i].type = "branches"
    /\ run.cfg.content => \A i \in held : made[i].blob => i \in blobs

PassInv ==
    run.pc \in {"walk", "judge"} /\ AllLawful =>
        /\ run.failures = {}
        /\ Ahead \subseteq Closure
        /\ \A q \in run.queue \cup {run.cur} : q.depth = 0 => q.id \in run.roots \cup {0}
        /\ \A q \in run.queue : q.id \in run.roots \/ (q.dated <=> Due(made)[q.id] # 0)
        /\ \A i \in run.gaps : i \notin held /\ Due(made)[i] = 0
        /\ run.pc = "judge" => run.cur.id \in held /\ run.seen = Refs(made[run.cur.id]) \cap held

VerifyInv == TypeInv /\ KeptInv /\ AdmittedInv /\ WalkInv /\ PassInv /\ LawfulPasses

-----------------------------------------------------------------------------
(* What the builder seals, and an archive that grows by it. *)

LEMMA BuildTypes ==
    ASSUME NEW g, Archive(g), NEW here, NEW b, BuildAccepted(b, g, here), NEW t \in Nat
    PROVE  /\ BuildClaim(b, g, t) \in Claim
           /\ Refs(BuildClaim(b, g, t)) \subseteq 1..Len(g)
<1> DEFINE c == BuildClaim(b, g, t)
           edges == AssembledEdges(b, g)
<1>1. /\ b \in Builder /\ b.edges \subseteq EdgeConfig /\ Len(g) \in Nat
      /\ b.type \in STRING /\ b.contributor \in Nat /\ b.diffOf \in Nat /\ b.at \in Nat
      /\ b.due \in Nat /\ b.omits \in BOOLEAN /\ b.external \in BOOLEAN /\ b.stated \in Nat
      /\ b.key \in STRING /\ b.pubkey \in STRING /\ b.from \in Nat /\ b.until \in Nat
  BY ArchiveTypes DEF BuildAccepted, Builder
<1>2. ASSUME NEW cfg \in b.edges
      PROVE  /\ cfg.to \in 1..Len(g) /\ cfg.type \in Text /\ cfg.name \in Text
             /\ cfg.due \in Nat /\ cfg.ends \in Nat
  <2>1. cfg \in EdgeConfig
    BY <1>1
  <2>2. cfg.to # 0 /\ cfg.to <= Len(g)
    BY DEF BuildAccepted, CitesSealed, EdgeAccepted
  <2>3. cfg.to \in Nat /\ cfg.due \in Nat /\ cfg.ends \in Nat /\ cfg.type \in STRING /\ cfg.name \in STRING
    BY <2>1 DEF EdgeConfig
  <2>4. cfg.type \in Text /\ cfg.name \in Text
    BY <2>3 DEF Text
  <2>5. cfg.to \in 1..Len(g)
    BY <1>1, <2>2, <2>3
  <2>6. QED
    BY <2>3, <2>4, <2>5
<1>3. \A cfg \in b.edges :
          NewEdge(cfg, Due(g)[cfg.to]) \in StoredEdge /\ NewEdge(cfg, Due(g)[cfg.to]).to \in 1..Len(g)
  <2>1. \A cfg \in b.edges : Due(g)[cfg.to] \in Nat
    BY <1>2, DueUnfolds
  <2>2. QED
    BY <1>2, <2>1 DEF NewEdge, StoredEdge
<1>4. ASSUME ~IsRootContributor(b)
      PROVE  /\ ContributorEdge(b.contributor) \in StoredEdge
             /\ ContributorEdge(b.contributor).to \in 1..Len(g)
  <2>1. b.contributor \in 1..Len(g)
    BY <1>4 DEF BuildAccepted, IsContributor
  <2>2. "contributor" \in Text /\ "" \in Text /\ b.contributor \in Nat /\ 0 \in Nat
    BY <1>1 DEF Text
  <2>3. QED
    BY <2>1, <2>2 DEF ContributorEdge, StoredEdge
<1>5. ASSUME b.diffOf # 0 PROVE DiffEdge(b.diffOf) \in StoredEdge /\ DiffEdge(b.diffOf).to \in 1..Len(g)
  <2>1. b.diffOf \in 1..Len(g)
    <3>1. b.diffOf <= Len(g)
      BY DEF BuildAccepted, CitesSealed
    <3>2. b.diffOf \in Nat /\ Len(g) \in Nat
      BY <1>1
    <3>3. QED
      BY <3>1, <3>2, <1>5
  <2>2. "diff" \in Text /\ "" \in Text /\ b.diffOf \in Nat /\ 0 \in Nat
    BY <1>1 DEF Text
  <2>3. QED
    BY <2>1, <2>2 DEF DiffEdge, StoredEdge
<1>6. \A e \in edges : e \in StoredEdge /\ e.to \in 1..Len(g)
  BY <1>3, <1>4, <1>5 DEF AssembledEdges
<1>7. ResolveHeight(b, g) \in Nat
  <2> DEFINE T == {e.to : e \in edges}
  <2>1. T \subseteq 1..Len(g)
    BY <1>6
  <2>2. HeightOver({g[r].height : r \in T}) \in Nat
    <3> HIDE DEF T
    <3> QED
      BY <2>1, HeightOverClaims
  <2>3. {g[r].height : r \in T} = {g[e.to].height : e \in edges}
    OBVIOUS
  <2>4. QED
    BY <2>2, <2>3, <1>1 DEF ResolveHeight
<1>8. c.edges = edges /\ Refs(c) = {e.to : e \in edges}
  BY DEF BuildClaim, Refs
<1>9. c \in Claim
  <2>1. edges \in SUBSET StoredEdge
    BY <1>6
  <2>2. (IF b.at = 0 THEN t ELSE b.at) \in Nat
    BY <1>1
  <2>3. QED
    <3> HIDE DEF edges
    <3> QED
      BY <1>1, <1>7, <2>1, <2>2 DEF BuildClaim, Claim, edges
<1>10. QED
  BY <1>6, <1>8, <1>9

LEMMA AppendArchive ==
    ASSUME NEW g, Archive(g), NEW c \in Claim, Refs(c) \subseteq 1..Len(g)
    PROVE  /\ Archive(Append(g, c)) /\ Len(Append(g, c)) = Len(g) + 1
           /\ 1..Len(Append(g, c)) = (1..Len(g)) \cup {Len(g) + 1}
           /\ Append(g, c)[Len(g) + 1] = c
           /\ \A i \in 1..Len(g) : Append(g, c)[i] = g[i]
           /\ SameDiffs(g, Append(g, c), Len(g)) /\ SameDiffs(Append(g, c), g, Len(g))
<1> DEFINE h == Append(g, c)
<1>1. Len(g) \in Nat /\ g \in Seq(Claim)
  BY ArchiveTypes DEF Archive
<1>2. /\ h \in Seq(Claim) /\ Len(h) = Len(g) + 1 /\ h[Len(g) + 1] = c
      /\ \A i \in 1..Len(g) : h[i] = g[i]
  BY <1>1
<1>3. 1..Len(h) = (1..Len(g)) \cup {Len(g) + 1}
  BY <1>1, <1>2
<1>4. ASSUME NEW i \in 1..Len(h) PROVE Refs(h[i]) \subseteq 1..(i - 1)
  <2>1. CASE i = Len(g) + 1
    BY <2>1, <1>1, <1>2
  <2>2. CASE i \in 1..Len(g)
    BY <2>2, <1>2, ArchiveTypes
  <2>3. QED
    BY <1>3, <2>1, <2>2
<1>5. Archive(h)
  BY <1>2, <1>4 DEF Archive
<1>6. SameDiffs(g, h, Len(g)) /\ SameDiffs(h, g, Len(g))
  BY <1>1, <1>2 DEF SameDiffs
<1>7. QED
  BY <1>2, <1>3, <1>5, <1>6

LEMMA SignerIs ==
    ASSUME NEW g, Archive(g), NEW i \in 1..Len(g),
           g[i].edges # {} => ContributorEdges(g[i]) # {}
    PROVE  /\ SignerOf(g, i) \in 1..Len(g)
           /\ g[i].edges = {} => SignerOf(g, i) = i
           /\ g[i].edges # {} =>
                 /\ SignerOf(g, i) \in Refs(g[i]) /\ SignerOf(g, i) # i
                 /\ \E e \in ContributorEdges(g[i]) : SignerOf(g, i) = e.to
<1>1. CASE g[i].edges = {}
  BY <1>1 DEF SignerOf
<1>2. CASE g[i].edges # {}
  <2>1. PICK e : e \in ContributorEdges(g[i]) /\ e = CHOOSE f \in ContributorEdges(g[i]) : TRUE
    BY <1>2
  <2>2. SignerOf(g, i) = e.to
    BY <1>2, <2>1 DEF SignerOf
  <2>3. e.to \in Refs(g[i])
    BY <2>1 DEF ContributorEdges, Refs
  <2>4. e.to \in 1..Len(g) /\ e.to < i
    BY <2>3, ArchiveTypes
  <2>5. SignerOf(g, i) \in 1..Len(g) /\ SignerOf(g, i) \in Refs(g[i])
    BY <2>2, <2>3, <2>4
  <2>6. SignerOf(g, i) # i
    BY <2>2, <2>4
  <2>7. \E f \in ContributorEdges(g[i]) : SignerOf(g, i) = f.to
    BY <2>1, <2>2, Zenon
  <2>8. QED
    BY <1>2, <2>5, <2>6, <2>7
<1>3. QED
  BY <1>1, <1>2

(* Another archive with the same claims up to n, but for bytes that rotted. *)
SameClaims(g, h, n) ==
    /\ n \in Nat /\ n <= Len(g) /\ n <= Len(h)
    /\ \A i \in 1..n :
          /\ g[i].type = h[i].type /\ g[i].edges = h[i].edges /\ g[i].at = h[i].at
          /\ g[i].height = h[i].height /\ g[i].due = h[i].due /\ g[i].omits = h[i].omits
          /\ g[i].key = h[i].key /\ g[i].pubkey = h[i].pubkey
          /\ g[i].from = h[i].from /\ g[i].until = h[i].until

LEMMA SameClaimsAgree ==
    ASSUME NEW g, NEW h, Archive(g), Archive(h), NEW n, SameClaims(g, h, n)
    PROVE  /\ SameDiffs(g, h, n) /\ SameDiffs(h, g, n)
           /\ \A i \in 1..n :
                 /\ i \in 1..Len(g) /\ i \in 1..Len(h)
                 /\ Refs(g[i]) = Refs(h[i]) /\ Predecessors(g[i]) = Predecessors(h[i])
                 /\ ContributorEdges(g[i]) = ContributorEdges(h[i])
                 /\ SignerOf(g, i) = SignerOf(h, i)
                 /\ Due(g)[i] = Due(h)[i]
                 /\ \A r \in Refs(g[i]) : r \in 1..n
<1>1. SameDiffs(g, h, n) /\ SameDiffs(h, g, n)
  BY DEF SameClaims, SameDiffs
<1>2. \A i \in 1..n : Due(g)[i] = Due(h)[i]
  BY <1>1, DueIsLocal
<1>3. Len(g) \in Nat /\ Len(h) \in Nat /\ n \in Nat
  BY ArchiveTypes DEF SameClaims
<1>4. \A i \in 1..n : i \in 1..Len(g) /\ i \in 1..Len(h)
  BY <1>3 DEF SameClaims
<1>5. ASSUME NEW i \in 1..n
      PROVE  /\ Refs(g[i]) = Refs(h[i]) /\ Predecessors(g[i]) = Predecessors(h[i])
             /\ ContributorEdges(g[i]) = ContributorEdges(h[i])
             /\ SignerOf(g, i) = SignerOf(h, i)
  <2>1. g[i].edges = h[i].edges
    BY DEF SameClaims
  <2>2. ContributorEdges(g[i]) = ContributorEdges(h[i])
    BY <2>1 DEF ContributorEdges
  <2>3. SignerOf(g, i) = SignerOf(h, i)
    BY <2>1, <2>2 DEF SignerOf
  <2>4. Refs(g[i]) = Refs(h[i]) /\ Predecessors(g[i]) = Predecessors(h[i])
    BY <2>1 DEF Refs, Predecessors
  <2>5. QED
    BY <2>2, <2>3, <2>4
<1>6. ASSUME NEW i \in 1..n, NEW r \in Refs(g[i]) PROVE r \in 1..n
  <2>1. r \in 1..Len(g) /\ r < i
    BY <1>4, ArchiveTypes
  <2>2. QED
    BY <2>1, <1>3
<1>7. QED
  BY <1>1, <1>2, <1>4, <1>5, <1>6

(* What holds of a lawful claim still does when claims are added, removed or rot around it. *)
LEMMA LawfulKept ==
    ASSUME NEW g, NEW h, Archive(g), Archive(h), NEW n, SameClaims(g, h, n),
           NEW i \in 1..n, g[i].broken = h[i].broken,
           NEW p, NEW q, q \cap 1..n \subseteq p, Lawful(g, p, i)
    PROVE  Lawful(h, q, i)
<1>1. /\ i \in 1..Len(g) /\ i \in 1..Len(h)
      /\ Refs(g[i]) = Refs(h[i]) /\ ContributorEdges(g[i]) = ContributorEdges(h[i])
      /\ SignerOf(g, i) = SignerOf(h, i)
      /\ \A r \in Refs(g[i]) : r \in 1..n
  BY SameClaimsAgree
<1>2. \A k \in 1..n :
          /\ g[k].type = h[k].type /\ g[k].edges = h[k].edges /\ g[k].at = h[k].at
          /\ g[k].height = h[k].height /\ g[k].due = h[k].due /\ g[k].omits = h[k].omits
          /\ g[k].key = h[k].key /\ g[k].pubkey = h[k].pubkey
          /\ g[k].from = h[k].from /\ g[k].until = h[k].until
  BY DEF SameClaims
<1>3. g[i].edges # {} => ContributorEdges(g[i]) # {}
  BY DEF Lawful
<1>4. SignerOf(g, i) \in 1..n
  BY <1>1, <1>3, SignerIs
<1>5. Resolvable(h, q) \cap 1..n \subseteq Resolvable(g, p)
  BY SameClaimsAgree, ResolvableIsLocal
<1>6. \A e \in g[i].edges : e.to \in 1..n
  BY <1>1 DEF Refs
<1>7. RecordRules(h, i) /\ RuleCreatedAtStated(h, i) /\ RuleDeleteMarkShape(h, i)
      /\ RuleStructureNotDeletable(h, i)
  BY <1>2 DEF Lawful, RecordRules, RuleCreatedAtStated, RuleDeleteMarkShape, RuleStructureNotDeletable
<1>8. RuleSignature(h, i)
  BY <1>1, <1>2, <1>4 DEF Lawful, RuleSignature
<1>9. RuleArchiveFirstTableHeight(h, i)
  BY <1>1, <1>2 DEF Lawful, RuleArchiveFirstTableHeight
<1>10. h[i].height = HeightOver({h[r].height : r \in Refs(h[i])})
  <2>1. {g[r].height : r \in Refs(g[i])} = {h[r].height : r \in Refs(h[i])}
    BY <1>1, <1>2
  <2>2. QED
    BY <2>1, <1>2 DEF Lawful
<1>11. \A r \in Refs(h[i]) : h[r].at <= h[i].at
  BY <1>1, <1>2 DEF Lawful
<1>12. RuleBranchTableReference(h, q, i)
  BY <1>2, <1>5, <1>6 DEF Lawful, RuleBranchTableReference
<1>13. RuleDeleteByCopied(h, q, i)
  <2>1. \A k \in 1..n : Due(g)[k] = Due(h)[k]
    BY SameClaimsAgree
  <2>2. QED
    BY <1>2, <1>5, <1>6, <2>1 DEF Lawful, RuleDeleteByCopied
<1>14. SignerOf(h, i) # i =>
          /\ h[i].at >= h[SignerOf(h, i)].from
          /\ h[SignerOf(h, i)].until # 0 => h[i].at <= h[SignerOf(h, i)].until
  BY <1>1, <1>2, <1>4 DEF Lawful
<1>15. h[i].edges # {} => ContributorEdges(h[i]) # {}
  BY <1>1, <1>2, <1>3
<1>16. QED
  BY <1>7, <1>8, <1>9, <1>10, <1>11, <1>12, <1>13, <1>14, <1>15 DEF Lawful

(* A claim that passes every rule with all of its references present is lawful. *)
LEMMA VerifiedIsLawful ==
    ASSUME NEW g, Archive(g), NEW i \in 1..Len(g), NEW here, NEW content, NEW roots, NEW cfg,
           VerifyClaim(g, here, content, roots, cfg, i, Refs(g[i]))
    PROVE  Lawful(g, here, i) /\ Refs(g[i]) \subseteq here
<1>1. VerifyRules(g, here, content, roots, cfg, i, Refs(g[i])) /\ ResolveSigner(g, here, i)
  BY DEF VerifyClaim
<1>2. g[i].edges # {} => ContributorEdges(g[i]) # {}
  BY <1>1 DEF ResolveSigner
<1>3. /\ RecordRules(g, i) /\ RuleCreatedAtStated(g, i) /\ RuleSignature(g, i)
      /\ RuleArchiveFirstTableHeight(g, i)
      /\ RuleDeleteMarkShape(g, i) /\ RuleStructureNotDeletable(g, i)
      /\ RuleBranchTableReference(g, here, i) /\ RuleDeleteByCopied(g, here, i)
  BY <1>1 DEF VerifyRules
<1>4. Refs(g[i]) \subseteq here
      /\ g[i].height = IF g[i].edges = {} THEN 0
                       ELSE 1 + Max({0} \cup {g[r].height : r \in Refs(g[i])})
  BY <1>1 DEF VerifyRules, RuleHeight
<1>5. g[i].height = HeightOver({g[r].height : r \in Refs(g[i])})
  <2> DEFINE T == Refs(g[i])
  <2>1. T \subseteq 1..Len(g)
    BY ArchiveTypes
  <2>2. /\ T = {} => HeightOver({g[r].height : r \in T}) = 0
        /\ T # {} => HeightOver({g[r].height : r \in T})
                       = 1 + Max({0} \cup {g[r].height : r \in T})
    <3> HIDE DEF T
    <3> QED
      BY <2>1, HeightOverClaims
  <2>3. T = {} <=> g[i].edges = {}
    BY DEF Refs
  <2>4. QED
    BY <2>2, <2>3, <1>4
<1>6. \A r \in Refs(g[i]) : g[r].at <= g[i].at
  <2>1. \A r \in Refs(g[i]) \cap here : g[i].at >= g[r].at
    BY <1>1 DEF VerifyRules, RuleCreatedAtMonotone
  <2>2. \A r \in Refs(g[i]) : g[r].at \in Nat /\ g[i].at \in Nat
    BY ArchiveTypes DEF Claim
  <2>3. QED
    BY <2>1, <2>2, <1>4
<1>7. SignerOf(g, i) # i =>
          /\ g[i].at >= g[SignerOf(g, i)].from
          /\ g[SignerOf(g, i)].until # 0 => g[i].at <= g[SignerOf(g, i)].until
  BY <1>1 DEF VerifyRules, RuleKeyWindow
<1>8. QED
  BY <1>2, <1>3, <1>4, <1>5, <1>6, <1>7 DEF Lawful

-----------------------------------------------------------------------------
(* The invariant holds of the first claim alone. *)

LEMMA InitIsVerified == ASSUME Init PROVE VerifyInv
<1> DEFINE c == BuildClaim(Root, <<>>, Floor)
<1>1. /\ BuildAccepted(Root, <<>>, {}) /\ IsRootContributor(Root) /\ Root.edges = {}
      /\ Root.diffOf = 0 /\ Root.at = 0 /\ ~Root.invalid
  BY RootAssumption
<1>2. AssembledEdges(Root, <<>>) = {}
  BY <1>1 DEF AssembledEdges
<1>3. Archive(<<>>) /\ Floor \in Nat
  BY DEF Archive, Floor
<1>4. c \in Claim /\ Refs(c) \subseteq 1..Len(<<>>)
  BY <1>1, <1>3, BuildTypes
<1>5. made = Append(<<>>, c)
  <2>1. made = <<c>>
    BY DEF Init
  <2> HIDE DEF c
  <2>2. QED
    BY <2>1
<1>6. Archive(made) /\ Len(made) = 1 /\ made[1] = c /\ Made = {1}
  <2> HIDE DEF c
  <2>1. /\ Archive(Append(<<>>, c)) /\ Len(Append(<<>>, c)) = Len(<<>>) + 1
        /\ Append(<<>>, c)[Len(<<>>) + 1] = c
    BY <1>3, <1>4, AppendArchive
  <2>2. Len(<<>>) + 1 = 1
    OBVIOUS
  <2>3. Len(made) = 1
    BY <1>5, <2>1, <2>2
  <2>4. Made = {1}
    BY <2>3 DEF Made
  <2>5. QED
    BY <1>5, <2>1, <2>2, <2>3, <2>4
<1>7. /\ c.type = "contributor" /\ c.edges = {} /\ c.at = Floor /\ c.due = Root.due
      /\ c.key = Root.key /\ c.pubkey = Root.pubkey /\ c.broken = FALSE
      /\ c.height = ResolveHeight(Root, <<>>)
  BY <1>1, <1>2 DEF BuildClaim, IsRootContributor
<1>8. c.key = c.pubkey /\ CheckDeletable(c.type, c.due)
  <2>1. CheckClaim(Root) /\ CheckSigningConsistency(Root, <<>>)
    BY <1>1 DEF BuildAccepted
  <2>2. c.type = Root.type
    BY <1>1, <1>7 DEF IsRootContributor
  <2> HIDE DEF c
  <2>3. CheckDeletable(c.type, c.due)
    BY <1>7, <2>1, <2>2 DEF CheckClaim
  <2>4. QED
    BY <1>1, <1>7, <2>1, <2>3 DEF CheckSigningConsistency
<1>9. c.height = 0
  <2>1. HeightOver({}) = 0
    BY DEF HeightOver
  <2>2. Root.height = "fixed" => Root.stated = 0
    BY <1>1, <1>2 DEF BuildAccepted, HeightResolved
  <2>3. {<<>>[e.to].height : e \in AssembledEdges(Root, <<>>)} = {}
    BY <1>2
  <2>4. QED
    BY <1>7, <2>1, <2>2, <2>3 DEF ResolveHeight
<1> HIDE DEF c
<1>10. Refs(c) = {} /\ SignerOf(made, 1) = 1
  BY <1>6, <1>7 DEF Refs, SignerOf
<1>11. Lawful(made, held, 1)
  <2>1. RecordRules(made, 1) /\ RuleCreatedAtStated(made, 1) /\ RuleDeleteMarkShape(made, 1)
        /\ RuleStructureNotDeletable(made, 1) /\ RuleArchiveFirstTableHeight(made, 1)
    BY <1>6, <1>7, <1>8 DEF RecordRules, RuleCreatedAtStated, RuleDeleteMarkShape,
       RuleStructureNotDeletable, RuleArchiveFirstTableHeight, Floor
  <2>2. RuleSignature(made, 1)
    BY <1>6, <1>8, <1>10 DEF RuleSignature
  <2>3. made[1].height = HeightOver({made[r].height : r \in Refs(made[1])})
    BY <1>6, <1>9, <1>10 DEF HeightOver
  <2>4. RuleBranchTableReference(made, held, 1) /\ RuleDeleteByCopied(made, held, 1)
    BY <1>6, <1>7 DEF RuleBranchTableReference, RuleDeleteByCopied
  <2>5. QED
    BY <1>6, <1>7, <1>10, <2>1, <2>2, <2>3, <2>4 DEF Lawful
<1>12. AdmittedInv
  <2>1. made[1].at <= now
    BY <1>6, <1>7 DEF Init, Floor
  <2>2. made[1].edges = {}
    BY <1>6, <1>7
  <2>3. QED
    BY <1>6, <1>11, <2>1, <2>2 DEF AdmittedInv
<1>13. run \in Run /\ run.pc = "idle" /\ run.cur.id = 0 /\ run.roots = {} /\ run.queue = {}
       /\ run.visited = {} /\ run.gaps = {}
  <2>1. run = Idle
    BY DEF Init
  <2>2. (CHOOSE cf \in Configs : TRUE) \in Config
    BY ConfigsAssumption
  <2>3. [id |-> 0, depth |-> 0, dated |-> FALSE] \in Item
    BY DEF Item
  <2>4. Idle \in Run
    BY <2>2, <2>3 DEF Idle, Run
  <2>5. QED
    BY <2>1, <2>4 DEF Idle
<1>14. TypeInv
  <2>1. /\ held = {1} /\ blobs = {} /\ now = Floor /\ forged = {} /\ blind = {} /\ lost = {}
    BY DEF Init
  <2>2. 1 \in Ids
    BY BoundsAssumption DEF Ids
  <2>3. now \in Nat /\ Floor <= now
    BY <2>1 DEF Floor
  <2>4. QED
    BY <1>6, <1>13, <2>1, <2>2, <2>3 DEF TypeInv
<1>15. KeptInv
  BY <1>6 DEF KeptInv, Init
<1>16. WalkInv /\ PassInv /\ LawfulPasses
  BY <1>13 DEF WalkInv, PassInv, LawfulPasses
<1>17. QED
  BY <1>12, <1>14, <1>15, <1>16 DEF VerifyInv

-----------------------------------------------------------------------------
(* Before a run: claims are added, removed or rot, the clock ticks. *)

(* While no run is under way the invariant says nothing of it. *)
LEMMA IdleIsVerified ==
    ASSUME TypeInv', KeptInv', AdmittedInv', run'.pc = "idle"
    PROVE  VerifyInv'
BY DEF VerifyInv, WalkInv, PassInv, LawfulPasses

LEMMA StoreKeeps ==
    ASSUME TypeInv, KeptInv, AdmittedInv, run.pc = "idle", Len(made) < MaxMade,
           NEW c \in Claim, Refs(c) \subseteq Made, Store(c), UNCHANGED <<now, run, lost>>,
           blind \subseteq blind', blind' \subseteq blind \cup {Len(made) + 1},
           forged \subseteq forged', forged' \subseteq forged \cup {Len(made) + 1},
           Len(made) + 1 \in forged'
             \/ /\ Lawful(made', held', Len(made) + 1) /\ c.at <= now
                /\ Len(made) + 1 \in blind'
                     \/ \A e \in c.edges : e.due = Due(made')[e.to]
    PROVE  VerifyInv'
<1> DEFINE n == Len(made)
<1>1. Archive(made) /\ n \in Nat /\ n < MaxMade /\ MaxMade \in Nat
  BY ArchiveTypes, BoundsAssumption DEF TypeInv
<1>2. /\ made' = Append(made, c) /\ held' = held \cup {n + 1}
      /\ blobs' \subseteq blobs \cup {n + 1}
  BY DEF Store
<1>3. /\ Archive(made') /\ Len(made') = n + 1 /\ Made' = Made \cup {n + 1}
      /\ made'[n + 1] = c /\ \A i \in Made : made'[i] = made[i]
      /\ SameDiffs(made, made', n)
  <2>1. /\ Archive(Append(made, c)) /\ Len(Append(made, c)) = n + 1
        /\ 1..Len(Append(made, c)) = (1..n) \cup {n + 1}
        /\ Append(made, c)[n + 1] = c
        /\ \A i \in 1..n : Append(made, c)[i] = made[i]
        /\ SameDiffs(made, Append(made, c), n)
    BY <1>1, AppendArchive DEF Made
  <2>2. QED
    BY <1>2, <2>1 DEF Made
<1>4. TypeInv'
  <2>1. n + 1 \in Ids
    BY <1>1 DEF Ids
  <2>2. Made \subseteq Made'
    BY <1>3
  <2>3. Archive(made') /\ Len(made') \in Ids
    BY <1>3, <2>1
  <2>4. /\ held' \subseteq Made' /\ blobs' \subseteq Made' /\ forged' \subseteq Made'
        /\ blind' \subseteq Made' /\ lost' \subseteq Made'
    BY <1>2, <1>3 DEF TypeInv
  <2>5. lost' \cap held' = {}
    <3>1. n + 1 \notin Made
      BY <1>1 DEF Made
    <3>2. QED
      BY <1>2, <3>1 DEF TypeInv
  <2>6. /\ run'.roots \subseteq Made' /\ {q.id : q \in run'.queue} \subseteq Made'
        /\ run'.visited \subseteq Made'
    BY <2>2 DEF TypeInv
  <2>7. QED
    BY <2>3, <2>4, <2>5, <2>6 DEF TypeInv
<1>5. KeptInv'
  BY <1>2, <1>3 DEF KeptInv
<1>6. SameClaims(made, made', n)
  BY <1>1, <1>3 DEF SameClaims, Made
<1>7. \A i \in Made : Due(made')[i] = Due(made)[i]
  BY <1>1, <1>3, DueIsLocal DEF Made
<1>8. ASSUME NEW i \in Made' \ forged'
      PROVE  /\ Lawful(made', held', i) /\ made'[i].at <= now'
             /\ i \notin blind' => \A e \in made'[i].edges : e.due = Due(made')[e.to]
  <2>1. CASE i = n + 1
    BY <2>1, <1>3
  <2>2. CASE i \in Made
    <3>1. i \in Made \ forged
      BY <2>2
    <3>2. /\ Lawful(made, held, i) /\ made[i].at <= now
          /\ i \notin blind => \A e \in made[i].edges : e.due = Due(made)[e.to]
      BY <3>1 DEF AdmittedInv
    <3>3. held' \cap 1..n \subseteq held /\ i \in 1..n /\ made[i].broken = made'[i].broken
      BY <1>1, <1>2, <1>3, <2>2 DEF Made
    <3>4. Lawful(made', held', i)
      BY <1>1, <1>3, <1>6, <3>2, <3>3, LawfulKept
    <3>5. \A e \in made[i].edges : e.to \in Made
      BY <1>1, <3>3, ArchiveTypes DEF Refs, Made
    <3>6. QED
      BY <1>3, <1>7, <2>2, <3>2, <3>4, <3>5
  <2>3. QED
    BY <1>3, <2>1, <2>2
<1>9. AdmittedInv'
  BY <1>8 DEF AdmittedInv
<1>10. QED
  BY <1>4, <1>5, <1>9, IdleIsVerified

LEMMA AdmitKeeps ==
    ASSUME TypeInv, KeptInv, AdmittedInv, run.pc = "idle", Len(made) < MaxMade,
           NEW c \in Claim, Refs(c) \subseteq Made, Admit(c), UNCHANGED <<now, run, forged, lost>>
    PROVE  VerifyInv'
<1> DEFINE n == Len(made)
<1>1. Archive(made) /\ n \in Nat
  BY ArchiveTypes DEF TypeInv
<1>2. made' = Append(made, c) /\ held' = held \cup {n + 1}
  BY DEF Admit, Store
<1>3. /\ Archive(made') /\ Len(made') = n + 1 /\ made'[n + 1] = c /\ n + 1 \in 1..Len(made')
      /\ SameDiffs(made, made', n)
  <2>1. /\ Archive(Append(made, c)) /\ Len(Append(made, c)) = n + 1
        /\ Append(made, c)[n + 1] = c /\ SameDiffs(made, Append(made, c), n)
    BY <1>1, AppendArchive DEF Made
  <2>2. QED
    BY <1>1, <1>2, <2>1
<1>4. PICK cfg : VerifyClaim(made', held', blobs \cup {n + 1}, {n + 1}, cfg, n + 1, Refs(made'[n + 1]))
  BY <1>1, <1>2, <1>3 DEF Admit, Admitted
<1>5. Lawful(made', held', n + 1)
  <2> DEFINE g == made'
             here == held'
             k == n + 1
             content == blobs \cup {k}
  <2>1. Archive(g) /\ k \in 1..Len(g)
    BY <1>3
  <2>2. VerifyClaim(g, here, content, {k}, cfg, k, Refs(g[k]))
    BY <1>4
  <2> HIDE DEF g, here, k, content
  <2>3. Lawful(g, here, k)
    BY <2>1, <2>2, VerifiedIsLawful
  <2>4. QED
    BY <2>3 DEF g, here, k
<1>6. c.at <= now
  BY DEF Admit, Admitted, AdmitCreatedAt
<1>7. ASSUME n + 1 \notin blind' PROVE \A e \in c.edges : e.due = Due(made')[e.to]
  <2>1. Refs(c) \subseteq Resolvable(made, held)
    BY <1>7 DEF Admit
  <2>2. held \cap 1..n \subseteq held'
    BY <1>2
  <2>3. Resolvable(made, held) \cap 1..n \subseteq Resolvable(made', held')
    BY <1>1, <1>3, <2>2, ResolvableIsLocal
  <2>4. \A e \in c.edges : e.to \in Resolvable(made', held')
    BY <2>1, <2>3 DEF Refs, Made
  <2>5. RuleDeleteByCopied(made', held', n + 1)
    BY <1>5 DEF Lawful
  <2>6. QED
    BY <1>3, <2>4, <2>5 DEF RuleDeleteByCopied
<1>8. Store(c) /\ blind \subseteq blind' /\ blind' \subseteq blind \cup {n + 1}
  BY DEF Admit
<1>9. QED
  BY <1>5, <1>6, <1>7, <1>8, StoreKeeps

LEMMA BuiltIsTyped ==
    ASSUME TypeInv, NEW b, BuildAccepted(b, made, held)
    PROVE  BuildClaim(b, made, now) \in Claim /\ Refs(BuildClaim(b, made, now)) \subseteq Made
BY BuildTypes DEF TypeInv, Made

LEMMA ContributeKeeps ==
    ASSUME VerifyInv, NEW b, Contribute(b) PROVE VerifyInv'
<1> DEFINE c == BuildClaim(b, made, now)
<1>1. TypeInv /\ KeptInv /\ AdmittedInv
  BY DEF VerifyInv
<1>2. /\ run.pc = "idle" /\ Len(made) < MaxMade /\ BuildAccepted(b, made, held) /\ Admit(c)
      /\ UNCHANGED <<now, run, forged, lost>>
  BY DEF Contribute
<1>3. c \in Claim /\ Refs(c) \subseteq Made
  BY <1>1, <1>2, BuiltIsTyped
<1> HIDE DEF c
<1>4. QED
  BY <1>1, <1>2, <1>3, AdmitKeeps

LEMMA ConsolidateKeeps ==
    ASSUME VerifyInv, NEW k, Consolidate(k) PROVE VerifyInv'
<1>1. TypeInv /\ KeptInv /\ AdmittedInv
  BY DEF VerifyInv
<1>2. PICK b : /\ run.pc = "idle" /\ Len(made) < MaxMade
               /\ BuildAccepted(b, made, held) /\ Admit(BuildClaim(b, made, now))
               /\ UNCHANGED <<now, run, forged, lost>>
  BY DEF Consolidate
<1> DEFINE c == BuildClaim(b, made, now)
<1>3. c \in Claim /\ Refs(c) \subseteq Made
  BY <1>1, <1>2, BuiltIsTyped
<1>4. Admit(c)
  BY <1>2
<1> HIDE DEF c
<1>5. QED
  BY <1>1, <1>2, <1>3, <1>4, AdmitKeeps

LEMMA SmuggleKeeps ==
    ASSUME VerifyInv, NEW b, Smuggle(b) PROVE VerifyInv'
<1> DEFINE c == BuildClaim(b, made, now)
<1>1. TypeInv /\ KeptInv /\ AdmittedInv
  BY DEF VerifyInv
<1>2. /\ run.pc = "idle" /\ Len(made) < MaxMade /\ BuildAccepted(b, made, held) /\ Store(c)
      /\ UNCHANGED <<now, run, blind, lost>> /\ forged' = forged \cup {Len(made) + 1}
  BY DEF Smuggle
<1>3. c \in Claim /\ Refs(c) \subseteq Made
  BY <1>1, <1>2, BuiltIsTyped
<1> HIDE DEF c
<1>4. /\ blind \subseteq blind' /\ blind' \subseteq blind \cup {Len(made) + 1}
      /\ forged \subseteq forged' /\ forged' \subseteq forged \cup {Len(made) + 1}
      /\ Len(made) + 1 \in forged' /\ UNCHANGED <<now, run, lost>>
  BY <1>2
<1>5. QED
  BY <1>1, <1>2, <1>3, <1>4, StoreKeeps

LEMMA TickKeeps ==
    ASSUME VerifyInv, Tick PROVE VerifyInv'
<1>1. TypeInv /\ KeptInv /\ AdmittedInv /\ now \in Nat /\ Floor \in Nat
  BY DEF VerifyInv, TypeInv, Floor
<1>2. /\ now' = now + 1 /\ run'.pc = "idle" /\ MaxNow \in Nat
      /\ UNCHANGED <<made, held, blobs, run, forged, blind, lost>>
  BY BoundsAssumption DEF Tick
<1>3. TypeInv'
  <2>1. now' \in Nat /\ Floor <= now'
    BY <1>1, <1>2 DEF TypeInv
  <2>2. Archive(made') /\ Len(made') \in Ids
    BY <1>1, <1>2 DEF TypeInv
  <2>3. QED
    BY <1>1, <1>2, <2>1, <2>2 DEF TypeInv, Made
<1>4. KeptInv'
  BY <1>1, <1>2 DEF KeptInv, Made
<1>5. AdmittedInv'
  <2>1. \A i \in Made : made[i].at \in Nat
    BY <1>1, ArchiveTypes DEF TypeInv, Made, Claim
  <2>2. \A i \in Made \ forged : made[i].at <= now'
    BY <1>1, <1>2, <2>1 DEF AdmittedInv
  <2>3. ASSUME NEW i \in Made' \ forged'
        PROVE  /\ Lawful(made', held', i) /\ made'[i].at <= now'
               /\ i \notin blind' => \A e \in made'[i].edges : e.due = Due(made')[e.to]
    <3>1. i \in Made \ forged
      BY <1>2 DEF Made
    <3>2. QED
      BY <1>1, <1>2, <2>2, <3>1 DEF AdmittedInv
  <2>4. QED
    BY <2>3 DEF AdmittedInv
<1>6. QED
  BY <1>2, <1>3, <1>4, <1>5, IdleIsVerified

(* Fewer present claims impose fewer ends on a key. *)
LEMMA EndsForGrows ==
    ASSUME NEW g, Archive(g), NEW p, NEW q, NEW r, NEW s, NEW k, p \subseteq q, r \subseteq s
    PROVE  EndsFor(g, p, r, k) \subseteq EndsFor(g, q, s, k)
<1>1. Reached(g, p, r) \cap p \subseteq Reached(g, q, s) \cap q
  BY ReachedGrows
<1>2. UNION {g[j].edges : j \in Reached(g, p, r) \cap p}
        \subseteq UNION {g[j].edges : j \in Reached(g, q, s) \cap q}
  BY <1>1
<1>3. QED
  BY <1>2 DEF EndsFor

LEMMA ReflexiveClaims ==
    ASSUME NEW g, Archive(g) PROVE SameClaims(g, g, Len(g))
BY ArchiveTypes DEF SameClaims

(* A removal: the archive is as it was, less is present, and what rules read was not deleted. *)
LEMMA RemovalKeeps ==
    ASSUME VerifyInv, UNCHANGED <<made, now, forged, blind>>, held' \subseteq held, blobs' \subseteq blobs,
           run' = [run EXCEPT !.raced = run.pc # "idle"], run.pc \in {"idle", "walk", "judge"},
           KeptInv', lost' \subseteq Made, lost' \cap held' = {},
           run.pc # "idle" => lost' = lost
    PROVE  VerifyInv'
<1>1. /\ TypeInv /\ KeptInv /\ AdmittedInv /\ WalkInv /\ run \in Run /\ Archive(made)
      /\ Len(made) \in Nat
  BY ArchiveTypes DEF VerifyInv, TypeInv
<1>2. /\ run' \in Run /\ run'.raced = (run.pc # "idle") /\ run'.pc = run.pc /\ run'.cfg = run.cfg
      /\ run'.roots = run.roots /\ run'.queue = run.queue /\ run'.visited = run.visited
      /\ run'.gaps = run.gaps /\ run'.marked = run.marked /\ run'.failures = run.failures
      /\ run'.cur = run.cur /\ run'.seen = run.seen
  BY <1>1 DEF Run
<1>3. made' = made /\ Made' = Made
  BY DEF Made
<1>4. TypeInv'
  <2>1. Archive(made') /\ Len(made') \in Ids /\ now' \in Nat /\ Floor <= now'
    BY <1>1 DEF TypeInv
  <2>2. /\ held' \subseteq Made' /\ blobs' \subseteq Made' /\ forged' \subseteq Made'
        /\ blind' \subseteq Made' /\ lost' \subseteq Made' /\ lost' \cap held' = {}
    BY <1>1, <1>3 DEF TypeInv
  <2>3. /\ run'.roots \subseteq Made' /\ {q.id : q \in run'.queue} \subseteq Made'
        /\ run'.visited \subseteq Made' /\ run'.gaps \subseteq run'.visited
        /\ IF run'.pc = "judge" THEN run'.cur.id \in run'.visited ELSE run'.cur.id = 0
    BY <1>1, <1>2, <1>3 DEF TypeInv
  <2>4. QED
    BY <1>2, <2>1, <2>2, <2>3 DEF TypeInv
<1>5. AdmittedInv'
  <2>1. ASSUME NEW i \in Made \ forged
        PROVE  /\ Lawful(made, held', i) /\ made[i].at <= now
               /\ i \notin blind => \A e \in made[i].edges : e.due = Due(made)[e.to]
    <3>1. /\ Lawful(made, held, i) /\ made[i].at <= now
          /\ i \notin blind => \A e \in made[i].edges : e.due = Due(made)[e.to]
      BY <1>1 DEF AdmittedInv
    <3>2. held' \cap 1..Len(made) \subseteq held /\ i \in 1..Len(made)
      BY DEF Made
    <3> DEFINE q == held'
    <3>3. q \cap 1..Len(made) \subseteq held
      BY <3>2
    <3> HIDE DEF q
    <3>4. Lawful(made, q, i)
      BY <1>1, <3>1, <3>2, <3>3, ReflexiveClaims, LawfulKept
    <3>5. QED
      BY <3>1, <3>4 DEF q
  <2>2. QED
    BY <1>3, <2>1 DEF AdmittedInv
<1>6. CASE run.pc = "idle"
  BY <1>2, <1>4, <1>5, <1>6, IdleIsVerified
<1>7. CASE run.pc # "idle"
  <2>1. lost' = lost /\ run'.raced = TRUE /\ run'.pc \in {"walk", "judge"}
    BY <1>2, <1>7
  <2>2. PassInv' /\ LawfulPasses'
    BY <2>1 DEF PassInv, AllLawful, LawfulPasses
  <2>3. ASSUME NEW m \in held, made[m].type = "delete" PROVE m \in held'
    <3>1. m \in Made /\ m \notin lost
      BY <1>1 DEF TypeInv
    <3>2. m \in Made' /\ made'[m].type \in Structural
      BY <1>3, <2>3, <3>1 DEF Structural
    <3>3. QED
      BY <2>1, <3>1, <3>2 DEF KeptInv
  <2>4. ASSUME CleanWalk PROVE CleanWalk'
    <3>1. Ahead' = Ahead /\ run'.roots \subseteq Ahead'
      BY <1>2, <2>4 DEF Ahead, CleanWalk
    <3>2. ASSUME NEW i \in (run.visited \cap held') \ {run.cur.id}
          PROVE  Judged(i)' /\ Refs(made[i]) \subseteq Ahead
      <4>1. Judged(i) /\ Refs(made[i]) \subseteq Ahead
        BY <2>4 DEF CleanWalk
      <4>2. /\ made[i].key = made[SignerOf(made, i)].pubkey
            /\ \A r \in Refs(made[i]) \cap held' : made[r].at <= made[i].at
            /\ Refs(made[i]) \subseteq held' =>
                  made[i].height = HeightOver({made[r].height : r \in Refs(made[i])})
        BY <4>1 DEF Judged
      <4>3. EndsFor(made, held', run.roots, SignerOf(made, i))
               \subseteq EndsFor(made, held, run.roots, SignerOf(made, i))
        BY <1>1, EndsForGrows
      <4>4. SignerOf(made, i) # i =>
               \A t \in EndsFor(made, held', run.roots, SignerOf(made, i)) : made[i].at <= t
        BY <4>1, <4>3 DEF Judged
      <4>5. QED
        BY <1>2, <1>3, <4>1, <4>2, <4>4 DEF Judged
    <3>3. \A q \in run.queue : q.dated => Announced(q.id)'
      BY <1>2, <1>3, <2>4 DEF CleanWalk, Announced
    <3>4. \A i \in run.visited \cap lost : i \in run.gaps \/ Announced(i)'
      BY <1>2, <1>3, <2>4 DEF CleanWalk, Announced
    <3>5. ASSUME NEW i \in run.marked PROVE MarkedBy(run.visited, i)'
      <4>1. PICK m \in run.visited \cap held :
               \E e \in made[m].edges : made[m].type = "delete" /\ e.type = "delete" /\ e.to = i
        BY <2>4 DEF CleanWalk, MarkedBy
      <4>2. m \in held'
        BY <2>3, <4>1
      <4>3. QED
        BY <1>2, <1>3, <4>1, <4>2 DEF MarkedBy
    <3>6. \A m \in (run.visited \cap held') \ {run.cur.id} : made[m].type = "delete" =>
             \A e \in made[m].edges : e.type = "delete" => e.to \in run.marked
      BY <2>4 DEF CleanWalk
    <3>7. run.pc = "judge" =>
             /\ Refs(made[run.cur.id]) \cap held' \subseteq run.seen
             /\ run.seen \subseteq Refs(made[run.cur.id])
             /\ made[run.cur.id].type = "delete" => run.cur.id \in held'
             /\ run.cur.id \notin lost
      BY <2>3, <2>4 DEF CleanWalk
    <3>8. QED
      BY <1>2, <1>3, <2>1, <3>1, <3>2, <3>3, <3>4, <3>5, <3>6, <3>7 DEF CleanWalk
  <2>5. WalkInv'
    <3>1. run.pc \in {"walk", "judge"} /\ WalkInv
      BY <1>1, <1>7
    <3>2. QED
      BY <1>2, <2>4, <3>1 DEF WalkInv
  <2>6. QED
    BY <1>4, <1>5, <2>2, <2>5 DEF VerifyInv
<1>8. QED
  BY <1>6, <1>7

LEMMA SweepKeeps ==
    ASSUME VerifyInv, Sweep PROVE VerifyInv'
<1>1. KeptInv /\ lost \subseteq Made /\ lost \cap held = {}
  BY DEF VerifyInv, TypeInv
<1>2. PICK due : /\ \A i \in due : made[i].type \notin Structural
                 /\ held' = held \ due /\ blobs' = blobs \ due
                 /\ UNCHANGED <<made, lost>> /\ Removal
  BY DEF Sweep, CheckDeletable
<1>3. KeptInv'
  BY <1>1, <1>2 DEF KeptInv, Made
<1>4. QED
  BY <1>1, <1>2, <1>3, RemovalKeeps DEF Removal

LEMMA FulfilKeeps ==
    ASSUME VerifyInv, NEW m, Fulfil(m) PROVE VerifyInv'
<1>1. KeptInv /\ lost \subseteq Made /\ lost \cap held = {}
  BY DEF VerifyInv, TypeInv
<1>2. PICK k : /\ made[k].type \notin Structural
               /\ held' = held \ {k} /\ blobs' = blobs \ {k}
               /\ UNCHANGED <<made, lost>> /\ Removal
  BY DEF Fulfil
<1>3. KeptInv'
  BY <1>1, <1>2 DEF KeptInv, Made
<1>4. QED
  BY <1>1, <1>2, <1>3, RemovalKeeps DEF Removal

LEMMA LoseKeeps ==
    ASSUME VerifyInv, NEW i, Lose(i) PROVE VerifyInv'
<1>1. KeptInv /\ lost \subseteq Made /\ lost \cap held = {} /\ held \subseteq Made
  BY DEF VerifyInv, TypeInv
<1>2. /\ i \in held /\ held' = held \ {i} /\ lost' = lost \cup {i} /\ UNCHANGED <<made, blobs>>
      /\ run.pc = "idle" /\ Removal
  BY DEF Lose
<1>3. KeptInv'
  BY <1>1, <1>2 DEF KeptInv, Made
<1>4. QED
  BY <1>1, <1>2, <1>3, RemovalKeeps DEF Removal

LEMMA LoseContentKeeps ==
    ASSUME VerifyInv, NEW i, LoseContent(i) PROVE VerifyInv'
<1>1. KeptInv /\ lost \subseteq Made /\ lost \cap held = {}
  BY DEF VerifyInv, TypeInv
<1>2. blobs' = blobs \ {i} /\ UNCHANGED <<made, held, lost>> /\ Removal
  BY DEF LoseContent
<1>3. KeptInv'
  BY <1>1, <1>2 DEF KeptInv, Made
<1>4. QED
  BY <1>1, <1>2, <1>3, RemovalKeeps DEF Removal

LEMMA RotKeeps ==
    ASSUME VerifyInv, NEW i \in Made, Rot(i) PROVE VerifyInv'
<1>1. /\ TypeInv /\ KeptInv /\ AdmittedInv /\ Archive(made) /\ Len(made) \in Nat
      /\ made \in Seq(Claim)
  BY ArchiveTypes DEF VerifyInv, TypeInv, Archive
<1>2. /\ made' = [made EXCEPT ![i].broken = TRUE] /\ forged' = forged \cup {i}
      /\ UNCHANGED <<held, blobs, now, run, blind, lost>> /\ run'.pc = "idle"
  BY DEF Rot
<1>3. Len(made') = Len(made) /\ Made' = Made
  BY <1>1, <1>2 DEF Made
<1>4. /\ \A j \in Made : made'[j] = IF j = i THEN [made[j] EXCEPT !.broken = TRUE] ELSE made[j]
      /\ \A j \in Made : made[j] \in Claim
  <2>1. made \in [1..Len(made) -> Claim]
    BY <1>1
  <2>2. DOMAIN made = Made
    BY <2>1 DEF Made
  <2>3. \A j \in Made : made'[j] = IF j = i THEN [made[j] EXCEPT !.broken = TRUE] ELSE made[j]
    BY <1>2, <2>2, Zenon
  <2>4. QED
    BY <2>1, <2>3 DEF Made
<1>5. \A j \in Made :
          /\ made'[j] \in Claim
          /\ made[j].type = made'[j].type /\ made[j].edges = made'[j].edges /\ made[j].at = made'[j].at
          /\ made[j].height = made'[j].height /\ made[j].due = made'[j].due
          /\ made[j].omits = made'[j].omits
          /\ made[j].key = made'[j].key /\ made[j].pubkey = made'[j].pubkey
          /\ made[j].from = made'[j].from /\ made[j].until = made'[j].until
  BY <1>4 DEF Claim
<1>6. Archive(made')
  <2>1. made' \in Seq(Claim)
    <3>1. made' \in [1..Len(made) -> Claim]
      BY <1>1, <1>2, <1>4, <1>5 DEF Made
    <3>2. QED
      BY <1>1, <3>1
  <2>2. \A j \in Made : Refs(made'[j]) = Refs(made[j])
    BY <1>5 DEF Refs
  <2>3. QED
    BY <1>1, <1>3, <2>1, <2>2 DEF Archive, Made
<1>7. SameClaims(made, made', Len(made))
  BY <1>1, <1>3, <1>5 DEF SameClaims, Made
<1>8. TypeInv'
  <2>1. forged' \subseteq Made'
    BY <1>1, <1>2, <1>3 DEF TypeInv
  <2>2. QED
    BY <1>1, <1>2, <1>3, <1>6, <2>1 DEF TypeInv
<1>9. KeptInv'
  BY <1>1, <1>2, <1>3, <1>5 DEF KeptInv
<1>10. ASSUME NEW j \in Made' \ forged'
       PROVE  /\ Lawful(made', held', j) /\ made'[j].at <= now'
              /\ j \notin blind' => \A e \in made'[j].edges : e.due = Due(made')[e.to]
  <2>1. j \in Made \ forged /\ j # i /\ j \in 1..Len(made)
    BY <1>2, <1>3 DEF Made
  <2>2. made'[j] = made[j]
    BY <1>4, <2>1
  <2>3. /\ Lawful(made, held, j) /\ made[j].at <= now
        /\ j \notin blind => \A e \in made[j].edges : e.due = Due(made)[e.to]
    BY <1>1, <2>1 DEF AdmittedInv
  <2>4. held' \cap 1..Len(made) \subseteq held /\ made[j].broken = made'[j].broken
    BY <1>2, <2>2
  <2> DEFINE h == made'
             q == held'
  <2>5. Archive(h) /\ SameClaims(made, h, Len(made)) /\ q \cap 1..Len(made) \subseteq held
        /\ made[j].broken = h[j].broken
    BY <1>6, <1>7, <2>4
  <2>6. Lawful(h, q, j) /\ \A k \in 1..Len(made) : Due(made)[k] = Due(h)[k]
    <3> HIDE DEF h, q
    <3>1. Lawful(h, q, j)
      BY <1>1, <2>1, <2>3, <2>5, LawfulKept
    <3>2. \A k \in 1..Len(made) : Due(made)[k] = Due(h)[k]
      BY <1>1, <2>5, SameClaimsAgree
    <3>3. QED
      BY <3>1, <3>2
  <2>7. \A e \in made[j].edges : e.to \in 1..Len(made)
    BY <1>1, <2>1, ArchiveTypes DEF Refs
  <2>8. QED
    BY <1>2, <2>2, <2>3, <2>6, <2>7
<1>11. AdmittedInv'
  BY <1>10 DEF AdmittedInv
<1>12. QED
  BY <1>2, <1>8, <1>9, <1>11, IdleIsVerified

-----------------------------------------------------------------------------
(* The run.  Nothing but the run changes: the archive's invariants stand. *)

RunTypes ==
    /\ run \in Run
    /\ run.roots \subseteq Made /\ {q.id : q \in run.queue} \subseteq Made
    /\ run.visited \subseteq Made /\ run.gaps \subseteq run.visited
    /\ IF run.pc = "judge" THEN run.cur.id \in run.visited ELSE run.cur.id = 0

LEMMA RunKeeps ==
    ASSUME VerifyInv, Unchanged, RunTypes'
    PROVE  TypeInv' /\ KeptInv' /\ AdmittedInv' /\ Made' = Made
<1>1. UNCHANGED <<made, held, blobs, now, forged, blind, lost>>
  BY DEF Unchanged
<1>2. Made' = Made
  BY <1>1 DEF Made
<1>3. TypeInv /\ KeptInv /\ AdmittedInv
  BY DEF VerifyInv
<1>4. TypeInv'
  BY <1>1, <1>2, <1>3 DEF TypeInv, RunTypes
<1>5. KeptInv'
  BY <1>1, <1>2, <1>3 DEF KeptInv
<1>6. AdmittedInv'
  BY <1>1, <1>2, <1>3 DEF AdmittedInv
<1>7. QED
  BY <1>2, <1>4, <1>5, <1>6

(* What the run's options and roots decide is the same as long as they are. *)
LEMMA SameScope ==
    ASSUME Unchanged, run'.cfg = run.cfg, run'.scope = run.scope, run'.roots = run.roots,
           run'.raced = run.raced
    PROVE  /\ Closure' = Closure /\ (AllLawful' <=> AllLawful)
           /\ \A i : Judged(i)' <=> Judged(i)
<1>1. UNCHANGED <<made, held, blobs, now, forged, blind, lost>>
  BY DEF Unchanged
<1>2. Closure' = Closure
  BY <1>1 DEF Closure
<1>3. KeysHeld' <=> KeysHeld
  BY <1>1, <1>2 DEF KeysHeld
<1>4. SignersStandAlone' <=> SignersStandAlone
  BY <1>1, <1>2 DEF SignersStandAlone
<1>5. AllLawful' <=> AllLawful
  BY <1>1, <1>2, <1>3, <1>4 DEF AllLawful
<1>6. \A i : Judged(i)' <=> Judged(i)
  BY <1>1 DEF Judged
<1>7. QED
  BY <1>2, <1>5, <1>6

LEMMA RootsAreMade ==
    ASSUME Archive(made), NEW scope PROVE RootsOf(made, scope) \subseteq Made
<1>1. OpenHeads(made) \subseteq Made
  BY DEF OpenHeads, Made
<1>2. ASSUME Tables(made) # {} PROVE Max(Tables(made)) \in Made
  <2>1. Len(made) \in Nat /\ Tables(made) \subseteq Made
    BY ArchiveTypes DEF Tables, Made
  <2>2. Tables(made) \subseteq 0..Len(made) /\ Tables(made) \subseteq Nat
    BY <2>1 DEF Made
  <2>3. PICK m \in Tables(made) : \A y \in Tables(made) : y <= m
    BY <1>2, <2>1, <2>2, LargestOf
  <2>4. Max(Tables(made)) = m
    BY <2>2, <2>3, MaxIs
  <2>5. QED
    BY <2>1, <2>3, <2>4
<1>3. QED
  BY <1>1, <1>2 DEF RootsOf

LEMMA BeginKeeps ==
    ASSUME VerifyInv, NEW cfg \in Configs, NEW scope \in {"graph", "archive"}, Begin(cfg, scope)
    PROVE  VerifyInv'
<1> DEFINE roots == RootsOf(made, scope)
           items == {[id |-> r, depth |-> 0, dated |-> FALSE] : r \in roots}
<1>1. Archive(made) /\ Made \subseteq Nat /\ Unchanged
  BY ArchiveTypes DEF VerifyInv, TypeInv, Made, Begin
<1>2. roots \subseteq Made
  BY <1>1, RootsAreMade
<1>3. /\ run' = [Idle EXCEPT !.pc = "walk", !.cfg = cfg, !.scope = scope, !.roots = roots,
                             !.queue = items]
  BY DEF Begin
<1>4. /\ run'.pc = "walk" /\ run'.cfg = cfg /\ run'.scope = scope /\ run'.roots = roots
      /\ run'.queue = items /\ run'.visited = {} /\ run'.gaps = {} /\ run'.marked = {}
      /\ run'.failures = {} /\ run'.cur = [id |-> 0, depth |-> 0, dated |-> FALSE]
      /\ run'.raced = FALSE
  <2> HIDE DEF roots, items
  <2> QED
    BY <1>3 DEF Idle
<1>5. cfg \in Config /\ items \in SUBSET Item /\ [id |-> 0, depth |-> 0, dated |-> FALSE] \in Item
  <2>1. \A r \in roots : r \in Nat
    BY <1>1, <1>2
  <2>2. \A r \in roots : [id |-> r, depth |-> 0, dated |-> FALSE] \in Item
    <3> HIDE DEF roots
    <3> QED
      BY <2>1 DEF Item
  <2>3. items \subseteq Item
    <3> HIDE DEF roots, Item
    <3> QED
      BY <2>2
  <2>4. [id |-> 0, depth |-> 0, dated |-> FALSE] \in Item
    BY DEF Item
  <2>5. QED
    BY <2>3, <2>4, ConfigsAssumption
<1>6. run' \in Run
  <2>1. roots \in SUBSET Nat
    BY <1>1, <1>2
  <2> HIDE DEF roots, items
  <2>2. QED
    BY <1>3, <1>5, <2>1 DEF Run, Idle
<1>7. {q.id : q \in items} = roots /\ \A q \in items : q.dated = FALSE /\ q.id \in roots
  <2>1. \A q \in items : q.dated = FALSE /\ q.id \in roots
    <3> HIDE DEF roots
    <3> QED
      OBVIOUS
  <2>2. ASSUME NEW k \in roots PROVE k \in {q.id : q \in items}
    <3> DEFINE q == [id |-> k, depth |-> 0, dated |-> FALSE]
    <3>1. q \in items /\ q.id = k
      OBVIOUS
    <3>2. QED
      <4> HIDE DEF items, q
      <4> QED
        BY <3>1
  <2>3. QED
    <3> HIDE DEF items, roots
    <3> QED
      BY <2>1, <2>2
<1> HIDE DEF roots, items
<1>8. RunTypes'
  <2>1. Made' = Made
    BY <1>1 DEF Made, Unchanged
  <2>2. QED
    BY <1>2, <1>4, <1>6, <1>7, <2>1 DEF RunTypes
<1>9. TypeInv' /\ KeptInv' /\ AdmittedInv' /\ made' = made /\ held' = held
  BY <1>1, <1>8, RunKeeps DEF Unchanged
<1>10. Ahead' = roots
  BY <1>4, <1>7 DEF Ahead
<1>11. WalkInv'
  BY <1>4, <1>7, <1>10 DEF WalkInv, CleanWalk
<1>12. PassInv'
  <2>1. Closure' = Reached(made, held, roots)
    BY <1>4, <1>9 DEF Closure
  <2>2. roots \subseteq Reached(made, held, roots)
    BY <1>1, <1>2, ReachedIsClosed DEF Made
  <2>3. QED
    BY <1>4, <1>7, <1>10, <2>1, <2>2 DEF PassInv
<1>13. LawfulPasses'
  BY <1>4 DEF LawfulPasses
<1>14. QED
  BY <1>9, <1>11, <1>12, <1>13 DEF VerifyInv

LEMMA AbortKeeps ==
    ASSUME VerifyInv, Abort PROVE VerifyInv'
<1>1. Unchanged /\ run' = [Idle EXCEPT !.pc = "aborted"]
  BY DEF Abort
<1>2. /\ run'.pc = "aborted" /\ run'.roots = {} /\ run'.queue = {} /\ run'.visited = {}
      /\ run'.gaps = {} /\ run'.cur.id = 0
  BY <1>1 DEF Idle
<1>3. run' \in Run
  <2>1. (CHOOSE c \in Configs : TRUE) \in Config
    BY ConfigsAssumption
  <2>2. [id |-> 0, depth |-> 0, dated |-> FALSE] \in Item
    BY DEF Item
  <2>3. QED
    BY <1>1, <2>1, <2>2 DEF Idle, Run
<1>4. RunTypes'
  BY <1>2, <1>3 DEF RunTypes
<1>5. TypeInv' /\ KeptInv' /\ AdmittedInv'
  BY <1>1, <1>4, RunKeeps
<1>6. WalkInv' /\ PassInv' /\ LawfulPasses'
  BY <1>2 DEF WalkInv, PassInv, LawfulPasses
<1>7. QED
  BY <1>5, <1>6 DEF VerifyInv

(* What the walk's facts say while no claim is being judged. *)
LEMMA WalkFacts ==
    ASSUME TypeInv, run.pc \in {"walk", "done"}
    PROVE  run.cur.id = 0 /\ run.cur.id \notin Made
<1>1. run.cur.id = 0
  BY DEF TypeInv
<1>2. 0 \notin Made
  BY DEF Made
<1>3. QED
  BY <1>1, <1>2

LEMMA LookKeeps ==
    ASSUME VerifyInv, NEW q \in run.queue, Look(q) PROVE VerifyInv'
<1> DEFINE id == q.id
           r == [run EXCEPT !.queue = @ \ {q}, !.visited = @ \cup {q.id}]
<1>0. TypeInv /\ WalkInv /\ PassInv /\ AdmittedInv /\ Archive(made) /\ run \in Run
  BY DEF VerifyInv, TypeInv
<1>1. run.pc = "walk" /\ Unchanged
  BY DEF Look
<1>2. q \in Item /\ id \in Made /\ id \in Nat /\ made[id].at \in Nat
      /\ Refs(made[id]) \in SUBSET Nat
  <2>1. q \in Item /\ id \in Made
    BY <1>0 DEF TypeInv, Run
  <2>2. made[id] \in Claim /\ Refs(made[id]) \subseteq 1..Len(made) /\ Len(made) \in Nat
    BY <1>0, <2>1, ArchiveTypes DEF Made
  <2>3. QED
    BY <2>1, <2>2 DEF Item, Claim
<1>3. \/ id \in run.visited /\ run' = [run EXCEPT !.queue = @ \ {q}]
      \/ id \notin run.visited /\ (id \in run.cfg.trusted \/ made[id].at < run.cfg.after) /\ run' = r
      \/ /\ id \notin run.visited /\ id \notin held /\ id \notin run.cfg.trusted
         /\ run' = [r EXCEPT !.gaps = IF q.dated THEN @ ELSE @ \cup {id}]
      \/ /\ id \notin run.visited /\ id \in held
         /\ run' = [r EXCEPT !.pc = "judge", !.cur = q, !.seen = Refs(made[id]) \cap held]
  BY DEF Look
<1>4. /\ run'.cfg = run.cfg /\ run'.scope = run.scope /\ run'.roots = run.roots
      /\ run'.raced = run.raced /\ run'.failures = run.failures /\ run'.marked = run.marked
      /\ run'.queue = run.queue \ {q}
      /\ run' \in Run
      /\ \/ /\ id \in run.visited /\ run'.visited = run.visited /\ run'.gaps = run.gaps
            /\ run'.pc = "walk" /\ run'.cur = run.cur
         \/ /\ id \notin run.visited /\ (id \in run.cfg.trusted \/ made[id].at < run.cfg.after)
            /\ run'.visited = run.visited \cup {id} /\ run'.gaps = run.gaps
            /\ run'.pc = "walk" /\ run'.cur = run.cur
         \/ /\ id \notin run.visited /\ id \notin held
            /\ run'.visited = run.visited \cup {id}
            /\ run'.gaps = IF q.dated THEN run.gaps ELSE run.gaps \cup {id}
            /\ run'.pc = "walk" /\ run'.cur = run.cur
         \/ /\ id \notin run.visited /\ id \in held
            /\ run'.visited = run.visited \cup {id} /\ run'.gaps = run.gaps
            /\ run'.pc = "judge" /\ run'.cur = q /\ run'.seen = Refs(made[id]) \cap held
  <2>0. /\ r \in Run /\ r.cfg = run.cfg /\ r.scope = run.scope /\ r.roots = run.roots
        /\ r.raced = run.raced /\ r.failures = run.failures /\ r.marked = run.marked
        /\ r.queue = run.queue \ {q} /\ r.visited = run.visited \cup {id} /\ r.gaps = run.gaps
        /\ r.pc = "walk" /\ r.cur = run.cur
    BY <1>0, <1>1, <1>2 DEF Run
  <2>1. CASE id \in run.visited /\ run' = [run EXCEPT !.queue = @ \ {q}]
    BY <1>0, <1>1, <2>1 DEF Run
  <2>2. CASE /\ id \notin run.visited /\ (id \in run.cfg.trusted \/ made[id].at < run.cfg.after)
             /\ run' = r
    <3> HIDE DEF r
    <3> QED
      BY <2>0, <2>2
  <2>3. CASE /\ id \notin run.visited /\ id \notin held
             /\ run' = [r EXCEPT !.gaps = IF q.dated THEN @ ELSE @ \cup {id}]
    <3> HIDE DEF r
    <3>1. (IF q.dated THEN r.gaps ELSE r.gaps \cup {id}) \in SUBSET Nat
      BY <1>2, <2>0 DEF Run
    <3>2. QED
      BY <2>0, <2>3, <3>1 DEF Run
  <2>4. CASE /\ id \notin run.visited /\ id \in held
             /\ run' = [r EXCEPT !.pc = "judge", !.cur = q, !.seen = Refs(made[id]) \cap held]
    <3> HIDE DEF r
    <3>1. Refs(made[id]) \cap held \in SUBSET Nat
      BY <1>2
    <3>2. QED
      BY <1>2, <2>0, <2>4, <3>1 DEF Run
  <2> HIDE DEF r
  <2>5. QED
    BY <1>3, <2>1, <2>2, <2>3, <2>4
<1>5. Made' = Made /\ made' = made /\ held' = held /\ lost' = lost
  BY <1>1 DEF Made, Unchanged
<1>6. run.visited \subseteq run'.visited /\ id \in run'.visited
      /\ run'.visited \subseteq run.visited \cup {id}
  BY <1>4
<1>7. RunTypes'
  <2>1. run.cur.id = 0
    BY <1>0, <1>1 DEF TypeInv
  <2>2. /\ run'.roots \subseteq Made /\ {p.id : p \in run'.queue} \subseteq Made
        /\ run'.visited \subseteq Made
    BY <1>0, <1>2, <1>4, <1>6 DEF TypeInv
  <2>3. run'.gaps \subseteq run'.visited
    BY <1>0, <1>4 DEF TypeInv
  <2>4. IF run'.pc = "judge" THEN run'.cur.id \in run'.visited ELSE run'.cur.id = 0
    BY <1>4, <1>6, <2>1
  <2>5. QED
    BY <1>4, <1>5, <2>2, <2>3, <2>4 DEF RunTypes
<1>8. TypeInv' /\ KeptInv' /\ AdmittedInv'
  BY <1>1, <1>7, RunKeeps
<1>9. Ahead' = Ahead
  BY <1>4, <1>6 DEF Ahead
<1>10. Closure' = Closure /\ (AllLawful' <=> AllLawful) /\ \A i : Judged(i)' <=> Judged(i)
  BY <1>1, <1>4, SameScope
<1>11. ASSUME Full(run.cfg), CleanWalk PROVE CleanWalk'
  <2>1. ~(id \in run.cfg.trusted \/ made[id].at < run.cfg.after)
    BY <1>2, <1>11 DEF Full
  <2>2. run.cur.id \notin Made
    BY <1>0, <1>1, WalkFacts
  <2>3. run.visited \subseteq Made
    BY <1>0 DEF TypeInv
  <2>4. (run'.visited \cap held) \ {run'.cur.id} \subseteq (run.visited \cap held) \ {run.cur.id}
    BY <1>4, <2>1, <2>2, <2>3
  <2>5. run'.roots \subseteq Ahead'
    BY <1>4, <1>9, <1>11 DEF CleanWalk
  <2>6. \A i \in (run'.visited \cap held') \ {run'.cur.id} :
            Judged(i)' /\ Refs(made'[i]) \subseteq Ahead'
    BY <1>5, <1>9, <1>10, <1>11, <2>4 DEF CleanWalk
  <2>7. \A i : Announced(i) => Announced(i)'
    BY <1>5, <1>6 DEF Announced
  <2>8. \A p \in run'.queue : p.dated => Announced(p.id)'
    BY <1>4, <1>11, <2>7 DEF CleanWalk
  <2>9. \A i \in run'.visited \cap lost' : i \in run'.gaps \/ Announced(i)'
    <3>1. lost \cap held = {}
      BY <1>0 DEF TypeInv
    <3>2. q.dated => Announced(id)'
      BY <1>11, <2>7 DEF CleanWalk
    <3>3. run.gaps \subseteq run'.gaps
      BY <1>4
    <3>4. \A i \in run.visited \cap lost : i \in run'.gaps \/ Announced(i)'
      BY <1>11, <2>7, <3>3 DEF CleanWalk
    <3>5. id \in lost /\ id \notin run.visited => id \in run'.gaps \/ Announced(id)'
      BY <1>4, <2>1, <3>1, <3>2
    <3>6. QED
      BY <1>5, <1>6, <3>4, <3>5
  <2>10. \A i \in run'.marked : MarkedBy(run.visited, i)'
    BY <1>4, <1>5, <1>6, <1>11 DEF CleanWalk, MarkedBy
  <2>11. \A m \in (run'.visited \cap held') \ {run'.cur.id} : made'[m].type = "delete" =>
             \A e \in made'[m].edges : e.type = "delete" => e.to \in run'.marked
    BY <1>4, <1>5, <1>11, <2>4 DEF CleanWalk
  <2>12. run'.pc = "judge" =>
             /\ Refs(made'[run'.cur.id]) \cap held' \subseteq run'.seen
             /\ run'.seen \subseteq Refs(made'[run'.cur.id])
             /\ made'[run'.cur.id].type = "delete" => run'.cur.id \in held'
             /\ run'.cur.id \notin lost'
    <3>1. lost \cap held = {}
      BY <1>0 DEF TypeInv
    <3>2. QED
      BY <1>4, <1>5, <3>1
  <2>13. run'.pc # "done"
    BY <1>4
  <2>14. QED
    BY <2>5, <2>6, <2>8, <2>9, <2>10, <2>11, <2>12, <2>13 DEF CleanWalk
<1>12. WalkInv'
  <2>1. Full(run'.cfg) /\ run'.failures = {} => Full(run.cfg) /\ run.failures = {}
    BY <1>4
  <2>2. QED
    BY <1>0, <1>1, <1>11, <2>1 DEF WalkInv
<1>13. PassInv'
  <2> SUFFICES ASSUME AllLawful'
               PROVE  /\ run'.failures = {}
                      /\ Ahead' \subseteq Closure'
                      /\ \A p \in run'.queue \cup {run'.cur} :
                            p.depth = 0 => p.id \in run'.roots \cup {0}
                      /\ \A p \in run'.queue :
                            p.id \in run'.roots \/ (p.dated <=> Due(made')[p.id] # 0)
                      /\ \A i \in run'.gaps : i \notin held' /\ Due(made')[i] = 0
                      /\ run'.pc = "judge" =>
                            run'.cur.id \in held' /\ run'.seen = Refs(made'[run'.cur.id]) \cap held'
    BY DEF PassInv
  <2>1. /\ AllLawful /\ run.failures = {} /\ Ahead \subseteq Closure
        /\ \A p \in run.queue \cup {run.cur} : p.depth = 0 => p.id \in run.roots \cup {0}
        /\ \A p \in run.queue : p.id \in run.roots \/ (p.dated <=> Due(made)[p.id] # 0)
        /\ \A i \in run.gaps : i \notin held /\ Due(made)[i] = 0
    BY <1>0, <1>1, <1>10 DEF PassInv
  <2>2. ASSUME NEW i \in run'.gaps PROVE i \notin held /\ Due(made)[i] = 0
    <3>1. CASE i \in run.gaps
      BY <2>1, <3>1
    <3>2. CASE i \notin run.gaps
      <4>1. i = id /\ ~q.dated /\ id \notin held
        BY <1>4, <2>2, <3>2
      <4>2. id \notin run.roots
        BY <2>1, <4>1 DEF AllLawful
      <4>3. QED
        BY <2>1, <4>1, <4>2
    <3>3. QED
      BY <3>1, <3>2
  <2>3. run'.failures = {} /\ Ahead' \subseteq Closure'
    BY <1>4, <1>9, <1>10, <2>1
  <2>4. \A p \in run'.queue \cup {run'.cur} : p.depth = 0 => p.id \in run'.roots \cup {0}
    BY <1>4, <2>1
  <2>5. \A p \in run'.queue : p.id \in run'.roots \/ (p.dated <=> Due(made')[p.id] # 0)
    BY <1>4, <1>5, <2>1
  <2>6. run'.pc = "judge" =>
            run'.cur.id \in held' /\ run'.seen = Refs(made'[run'.cur.id]) \cap held'
    BY <1>4, <1>5
  <2>7. QED
    BY <1>5, <2>2, <2>3, <2>4, <2>5, <2>6
<1>14. LawfulPasses'
  BY <1>4 DEF LawfulPasses
<1>15. QED
  BY <1>8, <1>12, <1>13, <1>14 DEF VerifyInv

LEMMA FailingIs ==
    ASSUME NEW r \in Run, NEW f \in Nat \X Text
    PROVE  /\ Failing(r, f) \in Run
           /\ Failing(r, f).failures = r.failures \cup {f}
           /\ Failing(r, f).pc \in {r.pc, "done"}
           /\ Failing(r, f).cfg = r.cfg /\ Failing(r, f).scope = r.scope
           /\ Failing(r, f).roots = r.roots /\ Failing(r, f).raced = r.raced
           /\ Failing(r, f).visited = r.visited /\ Failing(r, f).gaps = r.gaps
           /\ Failing(r, f).queue = r.queue /\ Failing(r, f).marked = r.marked
           /\ Failing(r, f).done = r.done /\ Failing(r, f).cur = r.cur
<1> DEFINE fs == r.failures \cup {f}
           pc == IF r.cfg.stopAfter > 0 /\ Cardinality(fs) >= r.cfg.stopAfter THEN "done" ELSE r.pc
<1>1. Failing(r, f) = [r EXCEPT !.failures = fs, !.pc = pc]
  BY DEF Failing
<1>2. pc \in {r.pc, "done"} /\ fs \in SUBSET (Nat \X Text)
  BY DEF Run
<1> HIDE DEF fs, pc
<1>3. pc \in {"idle", "walk", "judge", "done", "aborted"}
  BY <1>2 DEF Run
<1>4. /\ Failing(r, f) \in Run /\ Failing(r, f).failures = fs /\ Failing(r, f).pc = pc
      /\ Failing(r, f).cfg = r.cfg /\ Failing(r, f).scope = r.scope
      /\ Failing(r, f).roots = r.roots /\ Failing(r, f).raced = r.raced
      /\ Failing(r, f).visited = r.visited /\ Failing(r, f).gaps = r.gaps
      /\ Failing(r, f).queue = r.queue /\ Failing(r, f).marked = r.marked
      /\ Failing(r, f).done = r.done /\ Failing(r, f).cur = r.cur
  BY <1>1, <1>2, <1>3 DEF Run
<1>5. QED
  BY <1>2, <1>4 DEF fs

(* What the judged claim adds to the walk when nothing stops it there. *)
NextItems ==
    {[id |-> e.to, depth |-> run.cur.depth + 1, dated |-> e.due # 0] : e \in made[run.cur.id].edges}

NextMarks ==
    IF made[run.cur.id].type # "delete" THEN {}
    ELSE {e.to : e \in {f \in made[run.cur.id].edges : f.type = "delete"}}

Followed ==
    /\ run'.pc = "walk"
    /\ run'.queue = run.queue \cup NextItems
    /\ run'.marked = run.marked \cup NextMarks

LEMMA NextIs ==
    ASSUME TypeInv, run.pc = "judge"
    PROVE  /\ run.cur.id \in Made /\ run.cur.depth \in Nat
           /\ Refs(made[run.cur.id]) \subseteq Made /\ Made \subseteq Nat
           /\ NextItems \subseteq Item
           /\ {q.id : q \in NextItems} = Refs(made[run.cur.id])
           /\ \A q \in NextItems : /\ q.depth # 0
                                   /\ \E e \in made[run.cur.id].edges :
                                         q.id = e.to /\ (q.dated <=> e.due # 0)
           /\ NextMarks \subseteq Made
<1> DEFINE i == run.cur.id
           d == run.cur.depth
           edges == made[i].edges
           item(e) == [id |-> e.to, depth |-> d + 1, dated |-> e.due # 0]
<1>1. Archive(made) /\ i \in Made /\ d \in Nat /\ Made \subseteq Nat
  BY DEF TypeInv, Run, Item, Made
<1>2. Refs(made[i]) \subseteq Made
  BY <1>1, ArchiveTypes DEF Made
<1>3. \A e \in edges : e.to \in Made
  BY <1>2 DEF Refs
<1>4. NextItems = {item(e) : e \in edges}
  BY DEF NextItems
<1>5. ASSUME NEW e \in edges
      PROVE  item(e) \in Item /\ item(e).id = e.to /\ item(e).dated = (e.due # 0) /\ item(e).depth # 0
  <2> DEFINE b == e.due # 0
  <2>0. b \in BOOLEAN
    BY Zenon
  <2>1. e.to \in Nat /\ d + 1 \in Nat /\ d + 1 # 0
    <3>1. e.to \in Nat
      BY <1>1, <1>3
    <3>2. d \in Nat
      BY <1>1
    <3> HIDE DEF d
    <3>3. QED
      BY <3>1, <3>2
  <2> HIDE DEF b, edges, d
  <2>2. [id |-> e.to, depth |-> d + 1, dated |-> b] \in Item
    BY <2>0, <2>1 DEF Item
  <2>3. item(e) = [id |-> e.to, depth |-> d + 1, dated |-> b]
    BY DEF b
  <2>4. /\ item(e).id = e.to /\ item(e).dated = b /\ item(e).depth = d + 1
    BY <2>3, Zenon
  <2>5. QED
    <3> HIDE DEF item
    <3> QED
      BY <2>1, <2>2, <2>3, <2>4 DEF b
<1>6. NextItems \subseteq Item
  <2> HIDE DEF edges, item
  <2> QED
    BY <1>4, <1>5
<1>7. \A q \in NextItems : /\ q.depth # 0
                           /\ \E e \in edges : q.id = e.to /\ (q.dated <=> e.due # 0)
  <2> HIDE DEF edges, d, item
  <2> QED
    BY <1>4, <1>5
<1>8. {q.id : q \in NextItems} = Refs(made[i])
  <2>1. \A e \in edges : item(e).id = e.to
    BY <1>5
  <2>2. Refs(made[i]) = {e.to : e \in edges}
    BY DEF Refs
  <2> HIDE DEF edges, item
  <2>3. QED
    BY <1>4, <2>1, <2>2
<1>9. NextMarks \subseteq Made
  BY <1>3 DEF NextMarks
<1>10. QED
  BY <1>1, <1>2, <1>6, <1>7, <1>8, <1>9

JudgedClean == VerifyClaim(made, held, blobs, run.roots, run.cfg, run.cur.id, run.seen)

RootedClean == run.scope = "archive" /\ run.cur.depth = 0 => RuleArchiveHead(made, run.cur.id)

(* A judgement either reports something or follows the claim's edges. *)
LEMMA JudgeOutcome ==
    ASSUME TypeInv, Judge
    PROVE  /\ run' \in Run /\ run'.pc \in {"walk", "done"} /\ run'.cur.id = 0
           /\ run'.cfg = run.cfg /\ run'.scope = run.scope /\ run'.roots = run.roots
           /\ run'.raced = run.raced /\ run'.visited = run.visited /\ run'.gaps = run.gaps
           /\ run'.queue \subseteq run.queue \cup NextItems
           /\ run'.cur.depth = 0
           /\ Full(run.cfg) /\ run'.failures = {} => run.failures = {} /\ JudgedClean /\ Followed
           /\ Full(run.cfg) /\ JudgedClean /\ RootedClean => run'.failures = run.failures /\ Followed
<1> DEFINE i == run.cur.id
           r == [run EXCEPT !.pc = "walk", !.seen = {}]
           rooted == IF run.scope = "archive" /\ run.cur.depth = 0 /\ ~RuleArchiveHead(made, i)
                     THEN Failing(r, <<i, "root">>) ELSE r
           judged == IF rooted.pc = "done" THEN rooted
                     ELSE IF VerifyClaim(made, held, blobs, run.roots, run.cfg, i, run.seen)
                          THEN rooted ELSE Failing(rooted, <<i, "rule">>)
           counted == [judged EXCEPT !.done = @ + 1]
           cur == [id |-> 0, depth |-> 0, dated |-> FALSE]
<1>1. /\ run.pc = "judge" /\ Idle.cur = cur
      /\ run' = IF judged.pc = "done" THEN [judged EXCEPT !.cur = Idle.cur]
                ELSE IF run.cfg.maxClaims > 0 /\ counted.done >= run.cfg.maxClaims
                     THEN [counted EXCEPT !.pc = "done", !.cur = Idle.cur]
                ELSE [Expand(counted) EXCEPT !.cur = Idle.cur]
  BY DEF Judge, Idle
<1>2. run \in Run /\ i \in Nat /\ NextItems \subseteq Item /\ NextMarks \subseteq Nat
  BY <1>1, NextIs DEF TypeInv
<1>3. <<i, "root">> \in Nat \X Text /\ <<i, "rule">> \in Nat \X Text
  <2>1. "root" \in Text /\ "rule" \in Text
    BY DEF Text
  <2> HIDE DEF i
  <2>2. QED
    BY <1>2, <2>1
<1> DEFINE Same(x) == /\ x.cfg = run.cfg /\ x.scope = run.scope /\ x.roots = run.roots
                      /\ x.raced = run.raced /\ x.visited = run.visited /\ x.gaps = run.gaps
                      /\ x.queue = run.queue /\ x.marked = run.marked /\ x.cur = run.cur
<1>4. r \in Run /\ r.pc = "walk" /\ r.failures = run.failures /\ Same(r)
  BY <1>2 DEF Run
<1>5. /\ rooted \in Run /\ rooted.pc \in {"walk", "done"} /\ Same(rooted)
      /\ RootedClean => rooted.pc = "walk" /\ rooted.failures = run.failures
      /\ rooted.failures = {} => rooted.pc = "walk" /\ run.failures = {}
  <2>1. CASE RootedClean
    <3>1. rooted = r
      BY <2>1 DEF RootedClean
    <3> HIDE DEF r, rooted
    <3>2. QED
      BY <1>4, <2>1, <3>1
  <2>2. CASE ~RootedClean
    <3>1. rooted = Failing(r, <<i, "root">>)
      BY <2>2 DEF RootedClean
    <3> HIDE DEF r, rooted
    <3>2. /\ rooted \in Run /\ rooted.failures = r.failures \cup {<<i, "root">>}
          /\ rooted.pc \in {r.pc, "done"} /\ rooted.cfg = r.cfg /\ rooted.scope = r.scope
          /\ rooted.roots = r.roots /\ rooted.raced = r.raced
          /\ rooted.visited = r.visited /\ rooted.gaps = r.gaps
          /\ rooted.queue = r.queue /\ rooted.marked = r.marked /\ rooted.cur = r.cur
      BY <1>3, <1>4, <3>1, FailingIs
    <3>3. rooted.failures # {}
      BY <3>2
    <3>4. QED
      BY <1>4, <2>2, <3>2, <3>3
  <2>3. QED
    BY <2>1, <2>2
<1> HIDE DEF r, rooted
<1>6. /\ judged \in Run /\ judged.pc \in {"walk", "done"} /\ Same(judged)
      /\ RootedClean /\ JudgedClean => judged.pc = "walk" /\ judged.failures = run.failures
      /\ judged.failures = {} => judged.pc = "walk" /\ run.failures = {} /\ JudgedClean
  <2>1. CASE rooted.pc = "done"
    <3>1. judged = rooted
      BY <2>1
    <3> HIDE DEF judged
    <3>2. QED
      BY <1>5, <2>1, <3>1
  <2>2. CASE rooted.pc # "done" /\ JudgedClean
    <3>1. judged = rooted
      BY <2>2 DEF JudgedClean
    <3> HIDE DEF judged
    <3>2. QED
      BY <1>5, <2>2, <3>1
  <2>3. CASE rooted.pc # "done" /\ ~JudgedClean
    <3>1. judged = Failing(rooted, <<i, "rule">>)
      BY <2>3 DEF JudgedClean
    <3> HIDE DEF judged
    <3>2. /\ judged \in Run /\ judged.failures = rooted.failures \cup {<<i, "rule">>}
          /\ judged.pc \in {rooted.pc, "done"} /\ judged.cfg = rooted.cfg
          /\ judged.scope = rooted.scope
          /\ judged.roots = rooted.roots /\ judged.raced = rooted.raced
          /\ judged.visited = rooted.visited /\ judged.gaps = rooted.gaps
          /\ judged.queue = rooted.queue /\ judged.marked = rooted.marked
          /\ judged.cur = rooted.cur
      BY <1>3, <1>5, <3>1, FailingIs
    <3>3. judged.failures # {}
      BY <3>2
    <3>4. QED
      BY <1>5, <2>3, <3>2, <3>3
  <2>4. QED
    BY <2>1, <2>2, <2>3
<1> HIDE DEF judged
<1>7. /\ counted \in Run /\ Same(counted) /\ counted.pc = judged.pc
      /\ counted.failures = judged.failures
  BY <1>6 DEF Run
<1> HIDE DEF counted
<1>8. cur \in Item
  BY DEF Item
<1>9. CASE judged.pc = "done"
  <2>1. run' = [judged EXCEPT !.cur = cur]
    BY <1>1, <1>9
  <2>2. /\ run' \in Run /\ run'.pc = "done" /\ run'.cur = cur /\ run'.failures = judged.failures
        /\ run'.cfg = run.cfg /\ run'.scope = run.scope /\ run'.roots = run.roots
        /\ run'.raced = run.raced /\ run'.visited = run.visited /\ run'.gaps = run.gaps
        /\ run'.queue = run.queue
    <3> HIDE DEF cur
    <3> QED
      BY <1>6, <1>8, <1>9, <2>1 DEF Run
  <2>3. QED
    BY <1>6, <1>9, <2>2
<1>10. CASE judged.pc # "done" /\ run.cfg.maxClaims > 0 /\ counted.done >= run.cfg.maxClaims
  <2>1. run' = [counted EXCEPT !.pc = "done", !.cur = cur]
    BY <1>1, <1>10
  <2>2. /\ run' \in Run /\ run'.pc = "done" /\ run'.cur = cur
        /\ run'.cfg = run.cfg /\ run'.scope = run.scope /\ run'.roots = run.roots
        /\ run'.raced = run.raced /\ run'.visited = run.visited /\ run'.gaps = run.gaps
        /\ run'.queue = run.queue
    <3> HIDE DEF cur
    <3> QED
      BY <1>7, <1>8, <2>1 DEF Run
  <2>3. ~Full(run.cfg)
    BY <1>10 DEF Full
  <2>4. QED
    BY <2>2, <2>3
<1>11. CASE judged.pc # "done" /\ ~(run.cfg.maxClaims > 0 /\ counted.done >= run.cfg.maxClaims)
  <2> DEFINE marked == counted.marked \cup NextMarks
             queue == IF run.cfg.maxDepth = 0 \/ run.cur.depth < run.cfg.maxDepth
                      THEN counted.queue \cup NextItems ELSE counted.queue
  <2>1. run' = [Expand(counted) EXCEPT !.cur = cur]
    BY <1>1, <1>11
  <2>2. Expand(counted) = [counted EXCEPT !.marked = marked, !.queue = queue]
    <3>1. counted.cur = run.cur /\ counted.cfg = run.cfg /\ counted.marked = run.marked
      BY <1>7
    <3>2. (IF made[run.cur.id].type # "delete" THEN counted.marked
           ELSE counted.marked \cup {e.to : e \in {f \in made[run.cur.id].edges : f.type = "delete"}})
             = marked
      BY DEF NextMarks
    <3>3. QED
      BY <3>1, <3>2 DEF Expand, NextItems
  <2>3. marked \in SUBSET Nat /\ queue \in SUBSET Item /\ queue \subseteq run.queue \cup NextItems
    BY <1>2, <1>7 DEF Run
  <2>4. marked = run.marked \cup NextMarks /\ (Full(run.cfg) => queue = run.queue \cup NextItems)
    BY <1>7 DEF Full
  <2> HIDE DEF marked, queue, cur
  <2>5. /\ run' \in Run /\ run'.pc = counted.pc /\ run'.cur = cur /\ run'.failures = counted.failures
        /\ run'.cfg = run.cfg /\ run'.scope = run.scope /\ run'.roots = run.roots
        /\ run'.raced = run.raced /\ run'.visited = run.visited /\ run'.gaps = run.gaps
        /\ run'.queue = queue /\ run'.marked = marked
    BY <1>7, <1>8, <2>1, <2>2, <2>3 DEF Run
  <2>6. run'.pc = "walk" /\ run'.failures = judged.failures
    BY <1>6, <1>7, <1>11, <2>5
  <2>7. Full(run.cfg) => Followed
    BY <2>4, <2>5, <2>6 DEF Followed
  <2>8. run'.cur.id = 0 /\ run'.cur.depth = 0
    BY <2>5 DEF cur
  <2>9. Full(run.cfg) /\ run'.failures = {} => run.failures = {} /\ JudgedClean /\ Followed
    BY <1>6, <2>6, <2>7
  <2>10. Full(run.cfg) /\ JudgedClean /\ RootedClean => run'.failures = run.failures /\ Followed
    BY <1>6, <2>6, <2>7
  <2>11. QED
    BY <2>3, <2>5, <2>6, <2>8, <2>9, <2>10
<1>12. QED
  BY <1>9, <1>10, <1>11

(* A judgement without a finding says of the claim what the walk's invariant keeps. *)
LEMMA VerifiedIsJudged ==
    ASSUME TypeInv, run.pc = "judge", CleanWalk, JudgedClean
    PROVE  Judged(run.cur.id)
<1> DEFINE i == run.cur.id
           T == Refs(made[i])
<1>1. /\ VerifyRules(made, held, blobs, run.roots, run.cfg, i, run.seen) /\ Archive(made)
      /\ i \in Made /\ i \in 1..Len(made)
  BY DEF JudgedClean, VerifyClaim, TypeInv, Made
<1>2. made[i].key = made[SignerOf(made, i)].pubkey
  BY <1>1 DEF VerifyRules, RuleSignature
<1>3. \A r \in T : made[r].at \in Nat /\ made[i].at \in Nat
  BY <1>1, ArchiveTypes DEF Claim
<1>4. \A r \in T \cap held : made[r].at <= made[i].at
  BY <1>1, <1>3 DEF VerifyRules, RuleCreatedAtMonotone
<1>5. ASSUME T \subseteq held PROVE made[i].height = HeightOver({made[r].height : r \in T})
  <2>1. run.seen = T
    BY <1>5 DEF CleanWalk
  <2>2. made[i].height = IF made[i].edges = {} THEN 0
                         ELSE 1 + Max({0} \cup {made[r].height : r \in T})
    BY <1>1, <2>1 DEF VerifyRules, RuleHeight
  <2>3. T \subseteq 1..Len(made)
    BY <1>1, ArchiveTypes
  <2>4. T = {} <=> made[i].edges = {}
    BY DEF Refs
  <2>5. /\ T = {} => HeightOver({made[r].height : r \in T}) = 0
        /\ T # {} => HeightOver({made[r].height : r \in T})
                       = 1 + Max({0} \cup {made[r].height : r \in T})
    <3> HIDE DEF T
    <3> QED
      BY <1>1, <2>3, HeightOverClaims
  <2>6. QED
    BY <2>2, <2>4, <2>5
<1>6. SignerOf(made, i) # i =>
          \A t \in EndsFor(made, held, run.roots, SignerOf(made, i)) : made[i].at <= t
  BY <1>1 DEF VerifyRules, RuleKeyWindow
<1>7. QED
  BY <1>2, <1>4, <1>5, <1>6 DEF Judged

(* A lawful claim of a closure whose keys held passes: no rule raises a false alarm. *)
LEMMA LawfulVerifies ==
    ASSUME VerifyInv, run.pc = "judge", AllLawful
    PROVE  JudgedClean /\ RootedClean
<1> DEFINE i == run.cur.id
           T == Refs(made[i])
           seen == run.seen
           s == SignerOf(made, i)
<1>1. /\ TypeInv /\ KeptInv /\ AdmittedInv /\ Archive(made) /\ Len(made) \in Nat
      /\ i \in Made /\ i \in 1..Len(made) /\ i # 0 /\ i \in run.visited
  <2>1. TypeInv /\ KeptInv /\ AdmittedInv /\ Archive(made) /\ i \in Made /\ i \in run.visited
    BY DEF VerifyInv, TypeInv
  <2>2. i \in 1..Len(made) /\ i # 0
    BY <2>1 DEF Made
  <2>3. QED
    BY <2>1, <2>2, ArchiveTypes
<1>2. /\ Ahead \subseteq Closure /\ i \in held /\ seen = T \cap held
      /\ run.cur.depth = 0 => i \in run.roots
  BY <1>1 DEF VerifyInv, PassInv
<1>3. i \in Closure \cap held /\ i \in Made \ forged
  BY <1>1, <1>2 DEF Ahead, AllLawful
<1>4. Lawful(made, held, i)
  BY <1>1, <1>3 DEF AdmittedInv
<1>5. RootedClean
  BY <1>2 DEF RootedClean, AllLawful, RuleArchiveHead
<1>6. made[i].edges # {} => ContributorEdges(made[i]) # {}
  BY <1>4 DEF Lawful
<1>7. s \in Made
  BY <1>1, <1>6, SignerIs DEF Made
<1>8. ResolveSigner(made, held, i)
  <2>1. made[s].type = "contributor" /\ Predecessors(made[s]) = {}
    BY <1>3 DEF AllLawful, SignersStandAlone
  <2>2. s \in held
    BY <1>1, <1>7, <2>1 DEF KeptInv, AllLawful, Structural
  <2>3. s \in Resolvable(made, held)
    BY <1>1, <1>7, <2>1, <2>2, ResolvableUnfolds DEF Made
  <2>4. QED
    BY <1>6, <2>3 DEF ResolveSigner
<1>9. RuleHeight(made, held, i, seen)
  <2> DEFINE want == IF made[i].edges = {} THEN 0 ELSE 1 + Max({0} \cup {made[r].height : r \in seen})
  <2>1. made[i].height = HeightOver({made[r].height : r \in T})
    BY <1>4 DEF Lawful
  <2>2. T \subseteq 1..Len(made) /\ seen \subseteq T /\ (T = {} <=> made[i].edges = {})
    <3>1. T \subseteq 1..Len(made)
      BY <1>1, ArchiveTypes
    <3>2. T = {} <=> made[i].edges = {}
      BY DEF Refs
    <3>3. QED
      BY <1>2, <3>1, <3>2
  <2>3. /\ HeightOver({made[r].height : r \in T}) \in Nat
        /\ T = {} => HeightOver({made[r].height : r \in T}) = 0
        /\ \A r \in T : made[r].height < HeightOver({made[r0].height : r0 \in T})
        /\ T # {} => /\ HeightOver({made[r].height : r \in T})
                               = 1 + Max({0} \cup {made[r].height : r \in T})
                     /\ \E m \in T : HeightOver({made[r].height : r \in T}) = 1 + made[m].height
    <3> HIDE DEF T
    <3> QED
      BY <1>1, <2>2, HeightOverClaims
  <2>4. ASSUME seen # {}
        PROVE  \E m \in seen : 1 + Max({0} \cup {made[r].height : r \in seen}) = 1 + made[m].height
    <3> HIDE DEF seen, T
    <3>1. seen \subseteq 1..Len(made)
      BY <2>2
    <3>2. /\ HeightOver({made[r].height : r \in seen}) = 1 + Max({0} \cup {made[r].height : r \in seen})
          /\ \E m \in seen : HeightOver({made[r].height : r \in seen}) = 1 + made[m].height
      BY <1>1, <2>4, <3>1, HeightOverClaims
    <3>3. QED
      BY <3>2
  <2>5. \A r \in T : made[r].height \in Nat
    BY <1>1, <2>2, ArchiveTypes DEF Claim
  <2>6. CASE seen = T
    <3>1. made[i].height = want
      BY <2>1, <2>2, <2>3, <2>6
    <3>2. QED
      BY <1>2, <2>6, <3>1 DEF RuleHeight
  <2>7. CASE seen # T
    <3>1. T # {} /\ made[i].edges # {}
      BY <2>2, <2>7
    <3>2. made[i].height >= 1 + Max({0} \cup {made[r].height : r \in seen})
      <4>1. CASE seen = {}
        <5>1. {0} \cup {made[r].height : r \in seen} = {0}
          BY <4>1
        <5>2. 0 \in {0} /\ {0} \subseteq Nat /\ \A y \in {0} : y <= 0
          OBVIOUS
        <5>3. Max({0}) = 0
          BY <5>2, MaxIs
        <5>4. PICK m \in T : made[i].height = 1 + made[m].height
          BY <2>1, <2>3, <3>1
        <5>5. made[m].height \in Nat
          BY <2>5
        <5>6. made[i].height >= 1 + 0
          BY <5>4, <5>5
        <5>7. QED
          BY <5>1, <5>3, <5>6
      <4>2. CASE seen # {}
        <5>1. PICK m \in seen : 1 + Max({0} \cup {made[r].height : r \in seen}) = 1 + made[m].height
          BY <2>4, <4>2
        <5>2. m \in T /\ made[m].height \in Nat /\ made[m].height < made[i].height
              /\ made[i].height \in Nat
          BY <2>1, <2>2, <2>3, <2>5
        <5>3. made[i].height >= 1 + made[m].height
          BY <5>2
        <5>4. QED
          BY <5>1, <5>3
      <4>3. QED
        BY <4>1, <4>2
    <3>3. seen # Refs(made[i]) /\ seen \subseteq held
      BY <1>2, <2>7
    <3> HIDE DEF seen, T
    <3>4. QED
      BY <3>1, <3>2, <3>3 DEF RuleHeight
  <2>8. QED
    BY <2>6, <2>7
<1>10. RuleCreatedAtMonotone(made, held, i)
  <2>1. \A r \in T : made[r].at \in Nat /\ made[i].at \in Nat
    BY <1>1, ArchiveTypes DEF Claim
  <2>2. QED
    BY <1>4, <2>1 DEF RuleCreatedAtMonotone, Lawful
<1>11. RuleContent(made, blobs, i, run.cfg)
  BY <1>3 DEF RuleContent, AllLawful
<1>12. RuleKeyWindow(made, held, run.roots, i)
  <2>1. s # i => \A t \in EndsFor(made, held, run.roots, s) : made[i].at <= t
    BY <1>3 DEF AllLawful, KeysHeld
  <2>2. s # i => /\ made[i].at >= made[s].from
                 /\ made[s].until # 0 => made[i].at <= made[s].until
    BY <1>4 DEF Lawful
  <2>3. QED
    BY <2>1, <2>2 DEF RuleKeyWindow
<1>13. /\ RecordRules(made, i) /\ RuleSignature(made, i) /\ RuleArchiveFirstTableHeight(made, i)
       /\ RuleCreatedAtStated(made, i) /\ RuleDeleteMarkShape(made, i)
       /\ RuleBranchTableReference(made, held, i) /\ RuleDeleteByCopied(made, held, i)
       /\ RuleStructureNotDeletable(made, i)
  BY <1>4 DEF Lawful
<1>14. VerifyRules(made, held, blobs, run.roots, run.cfg, i, seen)
  BY <1>9, <1>10, <1>11, <1>12, <1>13 DEF VerifyRules
<1>15. QED
  BY <1>5, <1>8, <1>14 DEF JudgedClean, VerifyClaim

LEMMA JudgeKeeps ==
    ASSUME VerifyInv, Judge PROVE VerifyInv'
<1> DEFINE i == run.cur.id
<1>0. TypeInv /\ AdmittedInv /\ WalkInv /\ PassInv /\ Archive(made)
  BY DEF VerifyInv, TypeInv
<1>1. run.pc = "judge" /\ Unchanged
  BY DEF Judge
<1>2. /\ i \in Made /\ run.cur.depth \in Nat /\ Refs(made[i]) \subseteq Made /\ Made \subseteq Nat
      /\ NextItems \subseteq Item /\ {q.id : q \in NextItems} = Refs(made[i])
      /\ \A q \in NextItems : /\ q.depth # 0
                              /\ \E e \in made[i].edges : q.id = e.to /\ (q.dated <=> e.due # 0)
      /\ NextMarks \subseteq Made
  BY <1>0, <1>1, NextIs
<1>3. /\ run' \in Run /\ run'.pc \in {"walk", "done"} /\ run'.cur.id = 0
      /\ run'.cfg = run.cfg /\ run'.scope = run.scope /\ run'.roots = run.roots
      /\ run'.raced = run.raced /\ run'.visited = run.visited /\ run'.gaps = run.gaps
      /\ run'.queue \subseteq run.queue \cup NextItems /\ run'.cur.depth = 0
      /\ Full(run.cfg) /\ run'.failures = {} => run.failures = {} /\ JudgedClean /\ Followed
      /\ Full(run.cfg) /\ JudgedClean /\ RootedClean => run'.failures = run.failures /\ Followed
  BY <1>0, JudgeOutcome
<1>4. Made' = Made /\ made' = made /\ held' = held /\ lost' = lost
  BY <1>1 DEF Made, Unchanged
<1>5. RunTypes'
  <2>1. {q.id : q \in run'.queue} \subseteq Made
    <3>1. \A q \in NextItems : q.id \in Made
      BY <1>2
    <3>2. \A q \in run.queue : q.id \in Made
      BY <1>0 DEF TypeInv
    <3>3. QED
      BY <1>3, <3>1, <3>2
  <2>2. run'.roots \subseteq Made /\ run'.visited \subseteq Made /\ run'.gaps \subseteq run'.visited
    BY <1>0, <1>3 DEF TypeInv
  <2>3. run'.pc # "judge"
    BY <1>3
  <2>4. QED
    BY <1>3, <1>4, <2>1, <2>2, <2>3 DEF RunTypes
<1>6. TypeInv' /\ KeptInv' /\ AdmittedInv'
  BY <1>1, <1>5, RunKeeps
<1>7. Closure' = Closure /\ (AllLawful' <=> AllLawful) /\ \A k : Judged(k)' <=> Judged(k)
  BY <1>1, <1>3, SameScope
<1>8. ASSUME Followed
      PROVE  /\ Ahead' = Ahead \cup Refs(made[i])
             /\ run'.pc = "walk" /\ run'.queue = run.queue \cup NextItems
             /\ run'.marked = run.marked \cup NextMarks
  BY <1>2, <1>3, <1>8 DEF Followed, Ahead
<1>9. ASSUME CleanWalk, JudgedClean, Followed PROVE CleanWalk'
  <2>1. Judged(i)
    BY <1>0, <1>1, <1>9, VerifiedIsJudged
  <2>2. i \in run.visited /\ i \notin lost /\ run.visited \subseteq Made
        /\ (made[i].type = "delete" => i \in held)
    BY <1>0, <1>1, <1>9 DEF TypeInv, CleanWalk
  <2>3. run'.roots \subseteq Ahead'
    BY <1>3, <1>8, <1>9 DEF CleanWalk
  <2>4. \A k \in (run'.visited \cap held') \ {run'.cur.id} :
            Judged(k)' /\ Refs(made'[k]) \subseteq Ahead'
    BY <1>3, <1>4, <1>7, <1>8, <1>9, <2>1 DEF CleanWalk
  <2>5. \A k : Announced(k) => Announced(k)'
    BY <1>3, <1>4 DEF Announced
  <2>6. \A q \in run'.queue : q.dated => Announced(q.id)'
    <3>1. \A q \in run.queue : q.dated => Announced(q.id)
      BY <1>9 DEF CleanWalk
    <3>2. ASSUME NEW q \in NextItems, q.dated PROVE Announced(q.id)'
      <4>1. PICK e \in made[i].edges : q.id = e.to /\ (q.dated <=> e.due # 0)
        BY <1>2
      <4>2. i \in run'.visited /\ made'[i] = made[i] /\ e.to = q.id /\ e.due # 0
        BY <1>3, <1>4, <2>2, <3>2, <4>1
      <4>3. QED
        BY <4>2 DEF Announced
    <3>3. QED
      BY <1>8, <1>9, <2>5, <3>1, <3>2
  <2>7. \A k \in run'.visited \cap lost' : k \in run'.gaps \/ Announced(k)'
    BY <1>3, <1>4, <1>9, <2>5 DEF CleanWalk
  <2>8. \A k \in run'.marked : MarkedBy(run.visited, k)'
    <3>1. ASSUME NEW k \in NextMarks PROVE MarkedBy(run.visited, k)'
      <4>1. made[i].type = "delete" /\ \E e \in made[i].edges : e.type = "delete" /\ e.to = k
        BY DEF NextMarks
      <4>2. i \in run'.visited \cap held' /\ made'[i] = made[i]
        BY <1>3, <1>4, <2>2, <4>1
      <4>3. QED
        BY <4>1, <4>2 DEF MarkedBy
    <3>2. \A k \in run.marked : MarkedBy(run.visited, k)'
      BY <1>3, <1>4, <1>9 DEF CleanWalk, MarkedBy
    <3>3. QED
      BY <1>8, <1>9, <3>1, <3>2
  <2>9. \A m \in (run'.visited \cap held') \ {run'.cur.id} : made'[m].type = "delete" =>
             \A e \in made'[m].edges : e.type = "delete" => e.to \in run'.marked
    <3>1. made[i].type = "delete" =>
             \A e \in made[i].edges : e.type = "delete" => e.to \in NextMarks
      BY DEF NextMarks
    <3>2. \A m \in (run.visited \cap held) \ {i} : made[m].type = "delete" =>
             \A e \in made[m].edges : e.type = "delete" => e.to \in run.marked
      BY <1>9 DEF CleanWalk
    <3>3. run'.marked = run.marked \cup NextMarks
      BY <1>8, <1>9
    <3>4. QED
      BY <1>3, <1>4, <3>1, <3>2, <3>3
  <2>10. run'.pc = "walk"
    BY <1>8, <1>9
  <2>11. QED
    BY <2>3, <2>4, <2>6, <2>7, <2>8, <2>9, <2>10 DEF CleanWalk
<1>10. WalkInv'
  <2> SUFFICES ASSUME Full(run'.cfg), run'.failures = {} PROVE CleanWalk'
    BY DEF WalkInv
  <2>1. Full(run.cfg) /\ run.failures = {} /\ JudgedClean /\ Followed
    BY <1>3
  <2>2. CleanWalk
    BY <1>0, <1>1, <2>1 DEF WalkInv
  <2>3. QED
    BY <1>9, <2>1, <2>2
<1>11. ASSUME AllLawful PROVE run'.failures = run.failures /\ Followed
  <2>1. JudgedClean /\ RootedClean /\ Full(run.cfg)
    BY <1>1, <1>11, LawfulVerifies DEF AllLawful
  <2>2. QED
    BY <1>3, <2>1
<1>12. PassInv'
  <2> SUFFICES ASSUME AllLawful'
               PROVE  /\ run'.failures = {}
                      /\ Ahead' \subseteq Closure'
                      /\ \A p \in run'.queue \cup {run'.cur} :
                            p.depth = 0 => p.id \in run'.roots \cup {0}
                      /\ \A p \in run'.queue :
                            p.id \in run'.roots \/ (p.dated <=> Due(made')[p.id] # 0)
                      /\ \A k \in run'.gaps : k \notin held' /\ Due(made')[k] = 0
    BY <1>3 DEF PassInv
  <2>1. AllLawful /\ Followed /\ run'.failures = run.failures
    BY <1>7, <1>11
  <2>2. /\ run.failures = {} /\ Ahead \subseteq Closure
        /\ \A p \in run.queue \cup {run.cur} : p.depth = 0 => p.id \in run.roots \cup {0}
        /\ \A p \in run.queue : p.id \in run.roots \/ (p.dated <=> Due(made)[p.id] # 0)
        /\ \A k \in run.gaps : k \notin held /\ Due(made)[k] = 0
        /\ i \in held
    BY <1>0, <1>1, <2>1 DEF PassInv
  <2>3. i \in Closure \cap held
    BY <1>0, <1>1, <2>2 DEF TypeInv, Ahead
  <2>4. Refs(made[i]) \subseteq Closure
    BY <1>0, <2>3, ReachedIsClosed DEF Closure
  <2>5. i \in Made \ forged /\ i \notin blind
    BY <1>2, <2>1, <2>3 DEF AllLawful
  <2>6. \A e \in made[i].edges : e.due = Due(made)[e.to]
    BY <1>0, <2>5 DEF AdmittedInv
  <2>7. \A p \in NextItems : p.depth # 0 /\ (p.dated <=> Due(made)[p.id] # 0)
    BY <1>2, <2>6
  <2>8. run'.queue = run.queue \cup NextItems /\ Ahead' \subseteq Closure'
    BY <1>7, <1>8, <2>1, <2>2, <2>4
  <2>9. run'.failures = {} /\ \A k \in run'.gaps : k \notin held' /\ Due(made')[k] = 0
    BY <1>3, <1>4, <2>1, <2>2
  <2>10. \A p \in run'.queue \cup {run'.cur} : p.depth = 0 => p.id \in run'.roots \cup {0}
    BY <1>3, <2>2, <2>7, <2>8
  <2>11. \A p \in run'.queue : p.id \in run'.roots \/ (p.dated <=> Due(made')[p.id] # 0)
    BY <1>3, <1>4, <2>2, <2>7, <2>8
  <2>12. QED
    BY <2>8, <2>9, <2>10, <2>11
<1>13. LawfulPasses'
  <2> SUFFICES ASSUME AllLawful' PROVE run'.pc # "done"
    BY DEF LawfulPasses, AllLawful
  <2>1. Followed
    BY <1>7, <1>11
  <2>2. QED
    BY <2>1 DEF Followed
<1>14. QED
  BY <1>6, <1>10, <1>12, <1>13 DEF VerifyInv

(* A full walk that found nothing and has nothing left has visited the whole closure. *)
LEMMA WalkCovers ==
    ASSUME TypeInv, CleanWalk, run.queue = {}, run.cur.id \notin Made
    PROVE  Closure \subseteq run.visited
<1>1. Archive(made) /\ Ahead = run.visited /\ run.visited \subseteq Made
  BY DEF TypeInv, Ahead
<1>2. run.roots \cap 1..Len(made) \subseteq run.visited
  BY <1>1 DEF CleanWalk
<1>3. \A j \in run.visited \cap held \cap 1..Len(made) : Refs(made[j]) \subseteq run.visited
  BY <1>1 DEF CleanWalk, Made
<1> DEFINE X == run.visited
<1>4. run.roots \cap 1..Len(made) \subseteq X
      /\ \A j \in X \cap held \cap 1..Len(made) : Refs(made[j]) \subseteq X
  BY <1>2, <1>3
<1> HIDE DEF X
<1>5. Reached(made, held, run.roots) \subseteq X
  BY <1>1, <1>4, ReachedIsLeast
<1>6. QED
  BY <1>5 DEF X, Closure

LEMMA SettleKeeps ==
    ASSUME VerifyInv, Settle PROVE VerifyInv'
<1> DEFINE unexplained == {<<i, "gap">> : i \in run.gaps \ run.marked}
<1>0. TypeInv /\ WalkInv /\ PassInv /\ Archive(made) /\ run \in Run
  BY DEF VerifyInv, TypeInv
<1>1. /\ run.pc = "walk" /\ run.queue = {} /\ Unchanged
  BY DEF Settle
<1>2. PICK fs : /\ fs \subseteq unexplained
                /\ run' = [run EXCEPT !.pc = "done", !.failures = @ \cup fs]
                /\ \/ fs = unexplained
                   \/ run.cfg.stopAfter > 0 /\ Cardinality(run.failures \cup fs) = run.cfg.stopAfter
  <2> DEFINE few == {fs \in SUBSET unexplained :
                    run.cfg.stopAfter > 0 =>
                        \/ fs = unexplained
                           /\ Cardinality(run.failures \cup fs) <= run.cfg.stopAfter
                        \/ Cardinality(run.failures \cup fs) = run.cfg.stopAfter}
  <2>1. \E fs \in IF run.cfg.stopAfter > 0 THEN few ELSE {unexplained} :
            run' = [run EXCEPT !.pc = "done", !.failures = @ \cup fs]
    BY DEF Settle
  <2> HIDE DEF unexplained
  <2>2. QED
    BY <2>1
<1>3. fs \subseteq Nat \X Text
  <2>1. \A i \in run.gaps : i \in Nat
    BY <1>0 DEF Run
  <2>2. "gap" \in Text
    BY DEF Text
  <2>3. unexplained \subseteq Nat \X Text
    BY <2>1, <2>2
  <2>4. QED
    BY <1>2, <2>3
<1>4. /\ run' \in Run /\ run'.pc = "done" /\ run'.failures = run.failures \cup fs
      /\ run'.cfg = run.cfg /\ run'.scope = run.scope /\ run'.roots = run.roots
      /\ run'.raced = run.raced /\ run'.visited = run.visited /\ run'.gaps = run.gaps
      /\ run'.queue = {} /\ run'.marked = run.marked /\ run'.cur = run.cur
  <2> HIDE DEF unexplained
  <2> QED
    BY <1>0, <1>1, <1>2, <1>3 DEF Run
<1>5. unexplained = {} <=> run.gaps \subseteq run.marked
  <2>1. \A i \in run.gaps \ run.marked : <<i, "gap">> \in unexplained
    OBVIOUS
  <2>2. QED
    BY <2>1
<1> HIDE DEF unexplained
<1>6. ASSUME run'.failures = {} PROVE run.failures = {} /\ run.gaps \subseteq run.marked
  <2>1. run.failures = {} /\ fs = {} /\ run.failures \cup fs = {}
    BY <1>4, <1>6
  <2>2. Cardinality(run.failures \cup fs) = 0
    BY <2>1, FS_EmptySet
  <2>3. fs = unexplained
    BY <1>2, <2>2
  <2>4. QED
    BY <1>5, <2>1, <2>3
<1>7. Made' = Made /\ made' = made /\ held' = held /\ lost' = lost
  BY <1>1 DEF Made, Unchanged
<1>8. RunTypes'
  BY <1>0, <1>1, <1>4, <1>7 DEF RunTypes, TypeInv
<1>9. TypeInv' /\ KeptInv' /\ AdmittedInv'
  BY <1>1, <1>8, RunKeeps
<1>10. Closure' = Closure /\ (AllLawful' <=> AllLawful) /\ \A k : Judged(k)' <=> Judged(k)
  BY <1>1, <1>4, SameScope
<1>11. run.cur.id \notin Made
  BY <1>0, <1>1, WalkFacts
<1>12. WalkInv'
  <2> SUFFICES ASSUME Full(run'.cfg), run'.failures = {} PROVE CleanWalk'
    BY DEF WalkInv
  <2>1. CleanWalk /\ run.gaps \subseteq run.marked
    BY <1>0, <1>1, <1>4, <1>6 DEF WalkInv
  <2>2. Ahead' = Ahead
    BY <1>1, <1>4 DEF Ahead
  <2>3. \A k : (Announced(k)' <=> Announced(k)) /\ (MarkedBy(run.visited, k)' <=> MarkedBy(run.visited, k))
    BY <1>4, <1>7 DEF Announced, MarkedBy
  <2>4. QED
    BY <1>4, <1>7, <1>10, <2>1, <2>2, <2>3 DEF CleanWalk
<1>13. PassInv'
  BY <1>4 DEF PassInv
<1>14. LawfulPasses'
  <2> SUFFICES ASSUME AllLawful', \A i \in Closure' \ held' : Due(made')[i] # 0 \/ MarkedBy(Closure, i)'
               PROVE  run'.failures = {}
    BY DEF LawfulPasses, AllLawful
  <2>1. AllLawful /\ Full(run.cfg)
    BY <1>10 DEF AllLawful
  <2>2. /\ run.failures = {} /\ Ahead \subseteq Closure
        /\ \A i \in run.gaps : i \notin held /\ Due(made)[i] = 0
    BY <1>0, <1>1, <2>1 DEF PassInv
  <2>3. CleanWalk
    BY <1>0, <1>1, <2>1, <2>2 DEF WalkInv
  <2>4. Closure \subseteq run.visited
    BY <1>0, <1>1, <1>11, <2>3, WalkCovers
  <2>5. ASSUME NEW i \in run.gaps PROVE i \in run.marked
    <3>1. i \in Closure /\ i \notin held /\ Due(made)[i] = 0
      BY <1>0, <2>2 DEF TypeInv, Ahead
    <3>2. MarkedBy(Closure, i)'
      BY <1>7, <1>10, <3>1
    <3>3. PICK m \in Closure \cap held :
             \E e \in made[m].edges : made[m].type = "delete" /\ e.type = "delete" /\ e.to = i
      BY <1>7, <1>10, <3>2 DEF MarkedBy
    <3>4. m \in (run.visited \cap held) \ {run.cur.id}
      BY <1>0, <1>11, <2>4, <3>3 DEF TypeInv
    <3>5. QED
      BY <2>3, <3>3, <3>4 DEF CleanWalk
  <2>6. unexplained = {}
    BY <1>5, <2>5
  <2>7. QED
    BY <1>2, <1>4, <2>2, <2>6
<1>15. QED
  BY <1>9, <1>12, <1>13, <1>14 DEF VerifyInv

-----------------------------------------------------------------------------
(* The invariant holds throughout. *)

LEMMA StutterKeeps ==
    ASSUME VerifyInv, UNCHANGED vars PROVE VerifyInv'
<1>1. /\ made' = made /\ held' = held /\ blobs' = blobs /\ now' = now /\ run' = run
      /\ forged' = forged /\ blind' = blind /\ lost' = lost
  BY DEF vars
<1>2. TypeInv' /\ KeptInv' /\ AdmittedInv'
  BY <1>1 DEF VerifyInv, TypeInv, KeptInv, AdmittedInv, Made
<1>3. Closure' = Closure /\ Ahead' = Ahead
  BY <1>1 DEF Closure, Ahead
<1>4. WalkInv'
  <2>1. \A i : /\ Judged(i)' <=> Judged(i)
               /\ Announced(i)' <=> Announced(i)
               /\ MarkedBy(run.visited, i)' <=> MarkedBy(run.visited, i)
    BY <1>1 DEF Judged, Announced, MarkedBy
  <2>2. CleanWalk' <=> CleanWalk
    BY <1>1, <1>3, <2>1 DEF CleanWalk
  <2>3. QED
    BY <1>1, <2>2 DEF VerifyInv, WalkInv
<1>5. AllLawful' <=> AllLawful
  BY <1>1, <1>3 DEF AllLawful, KeysHeld, SignersStandAlone
<1>6. PassInv'
  BY <1>1, <1>3, <1>5 DEF VerifyInv, PassInv
<1>7. LawfulPasses'
  BY <1>1, <1>3 DEF VerifyInv, LawfulPasses, KeysHeld, SignersStandAlone, MarkedBy
<1>8. QED
  BY <1>2, <1>4, <1>6, <1>7 DEF VerifyInv

LEMMA StepKeeps ==
    ASSUME VerifyInv, [Next]_vars PROVE VerifyInv'
<1>1. CASE Tick
  BY <1>1, TickKeeps
<1>2. ASSUME NEW b \in Offers(made), Contribute(b) PROVE VerifyInv'
  BY <1>2, ContributeKeeps
<1>3. ASSUME NEW b \in Smuggled(made), Smuggle(b) PROVE VerifyInv'
  BY <1>3, SmuggleKeeps
<1>4. ASSUME NEW k \in 1..Len(made), Consolidate(k) PROVE VerifyInv'
  BY <1>4, ConsolidateKeeps
<1>5. CASE Sweep
  BY <1>5, SweepKeeps
<1>6. ASSUME NEW i \in 1..Len(made), Fulfil(i) \/ Lose(i) \/ LoseContent(i) \/ Rot(i) PROVE VerifyInv'
  BY <1>6, FulfilKeeps, LoseKeeps, LoseContentKeeps, RotKeeps DEF Made
<1>7. ASSUME NEW cfg \in Configs, NEW scope \in {"graph", "archive"}, Begin(cfg, scope)
      PROVE  VerifyInv'
  BY <1>7, BeginKeeps
<1>8. CASE Step
  BY <1>8, JudgeKeeps, SettleKeeps, LookKeeps DEF Step
<1>9. CASE Abort
  BY <1>9, AbortKeeps
<1>10. CASE UNCHANGED vars
  BY <1>10, StutterKeeps
<1>11. QED
  BY <1>1, <1>2, <1>3, <1>4, <1>5, <1>6, <1>7, <1>8, <1>9, <1>10 DEF Next

(***************************************************************************)
(* Throughout: what was sealed is an archive whose claims cite earlier     *)
(* ones, nothing other rules read was deleted, what admission checked of a *)
(* claim still holds of it, and a walk has followed what it has judged.    *)
(***************************************************************************)
THEOREM VerifyInvariant == Spec => []VerifyInv
<1>1. Init => VerifyInv
  BY InitIsVerified
<1>2. VerifyInv /\ [Next]_vars => VerifyInv'
  BY StepKeeps
<1>3. QED
  BY <1>1, <1>2, PTL DEF Spec

(***************************************************************************)
(* No false alarm (verify.go): for every archive and every removal, a full *)
(* run over admitted claims of which only scheduled and marked ones are    *)
(* gone ends without a failure.                                            *)
(***************************************************************************)
THEOREM LawfulRunsPass == Spec => []LawfulPasses
<1>1. VerifyInv => LawfulPasses
  BY DEF VerifyInv
<1>2. QED
  BY <1>1, VerifyInvariant, PTL

(* Where nothing is missing a clean run's heights are longest chains. *)
LEMMA HeightsAreChains ==
    ASSUME TypeInv, CleanWalk, run.cur.id \notin Made, Closure \subseteq run.visited,
           Closure \subseteq held, NEW i \in Closure
    PROVE  made[i].height = LongestChain[i]
<1> DEFINE S == {k \in Closure : made[k].height # LongestChain[k]}
<1>1. /\ Archive(made) /\ Len(made) \in Nat /\ Closure \subseteq 1..Len(made)
      /\ \A j \in Closure \cap held : Refs(made[j]) \subseteq Closure
  BY ReachedIsClosed, ArchiveTypes DEF TypeInv, Closure
<1> SUFFICES ASSUME S # {} PROVE FALSE
  OBVIOUS
<1>2. S \subseteq Nat
  BY <1>1
<1>3. PICK k \in S : \A j \in S : k <= j
  <2> HIDE DEF S
  <2> QED
    BY <1>2, SmallestOf
<1>4. k \in Closure /\ k \in 1..Len(made) /\ made[k].height # LongestChain[k]
  BY <1>1, <1>3
<1>5. Refs(made[k]) \subseteq Closure /\ Refs(made[k]) \subseteq held
  BY <1>1, <1>4
<1>6. made[k].height = HeightOver({made[r].height : r \in Refs(made[k])})
  <2>1. k \in (run.visited \cap held) \ {run.cur.id}
    BY <1>1, <1>4 DEF Made
  <2>2. Judged(k)
    BY <2>1 DEF CleanWalk
  <2>3. QED
    BY <1>5, <2>2 DEF Judged
<1>7. \A r \in Refs(made[k]) : made[r].height = LongestChain[r]
  <2>1. ASSUME NEW r \in Refs(made[k]) PROVE r \in Nat /\ k \in Nat /\ r < k
    <3> HIDE DEF S
    <3>1. r \in 1..Len(made) /\ r < k
      BY <1>1, <1>4, ArchiveTypes
    <3>2. QED
      BY <1>4, <3>1
  <2>2. \A r \in Refs(made[k]) : ~(k <= r)
    BY <2>1
  <2>3. QED
    BY <1>3, <1>5, <2>2
<1>8. {made[r].height : r \in Refs(made[k])} = {LongestChain[r] : r \in Refs(made[k])}
  BY <1>7
<1>9. LongestChain[k] = HeightOver({LongestChain[r] : r \in Refs(made[k])})
  BY <1>1, <1>4, ChainUnfolds
<1>10. QED
  BY <1>4, <1>6, <1>8, <1>9

(* Along every path of present claims a clean run's dates run forward. *)
LEMMA DatesRunForward ==
    ASSUME TypeInv, CleanWalk, run.cur.id \notin Made, Closure \subseteq run.visited,
           NEW i \in Closure \cap held, NEW j \in Reached(made, held, {i}) \cap held
    PROVE  made[j].at <= made[i].at
<1> DEFINE X == {k \in Closure : k \in held => made[k].at <= made[i].at}
<1>1. /\ Archive(made) /\ Closure \subseteq 1..Len(made)
      /\ \A k \in Closure \cap held : Refs(made[k]) \subseteq Closure
      /\ \A k \in 1..Len(made) : made[k].at \in Nat
  BY ReachedIsClosed, ArchiveTypes DEF TypeInv, Closure, Claim
<1>2. {i} \cap 1..Len(made) \subseteq X
  BY <1>1
<1>3. ASSUME NEW k \in X \cap held \cap 1..Len(made) PROVE Refs(made[k]) \subseteq X
  <2>1. k \in (run.visited \cap held) \ {run.cur.id} /\ made[k].at <= made[i].at
    BY DEF Made
  <2>2. \A r \in Refs(made[k]) \cap held : made[r].at <= made[k].at
    BY <2>1 DEF CleanWalk, Judged
  <2>3. Refs(made[k]) \subseteq Closure
    BY <1>1
  <2>4. ASSUME NEW r \in Refs(made[k]) \cap held PROVE made[r].at <= made[i].at
    <3>1. made[r].at \in Nat /\ made[k].at \in Nat /\ made[i].at \in Nat
      BY <1>1, <2>3
    <3>2. made[r].at <= made[k].at /\ made[k].at <= made[i].at
      BY <2>1, <2>2
    <3>3. QED
      BY <3>1, <3>2
  <2>5. QED
    BY <2>3, <2>4
<1>4. Reached(made, held, {i}) \subseteq X
  <2> DEFINE roots == {i}
  <2>1. roots \cap 1..Len(made) \subseteq X /\ \A k \in X \cap held \cap 1..Len(made) : Refs(made[k]) \subseteq X
    BY <1>2, <1>3
  <2> HIDE DEF X, roots
  <2>2. Reached(made, held, roots) \subseteq X
    BY <1>1, <2>1, ReachedIsLeast
  <2>3. QED
    BY <2>2 DEF roots
<1>5. QED
  BY <1>4

(***************************************************************************)
(* What a clean verdict means (verify.go): for every archive, whatever was *)
(* smuggled, rotted, lost or removed meanwhile, a full run that reports    *)
(* nothing has read the whole closure, and what no rule checks by itself   *)
(* holds of it.                                                            *)
(***************************************************************************)
THEOREM CleanRunsAreSound == Spec => []CleanMeansSound
<1>1. ASSUME VerifyInv PROVE CleanMeansSound
  <2> SUFFICES ASSUME run.pc = "done", Full(run.cfg), run.failures = {}
               PROVE  /\ Closure \subseteq run.visited
                      /\ run.visited \cap (forged \cup blind) = {} =>
                            \A i \in run.visited \cap lost :
                                Due(made)[i] # 0 \/ MarkedBy(run.visited, i)
                      /\ Closure \subseteq held => \A i \in Closure : made[i].height = LongestChain[i]
                      /\ \A i \in Closure \cap held :
                            \A j \in Reached(made, held, {i}) \cap held : made[j].at <= made[i].at
                      /\ \A i \in Closure \cap held : made[i].key = made[SignerOf(made, i)].pubkey
                      /\ KeysHeld
    BY DEF CleanMeansSound
  <2>1. /\ TypeInv /\ AdmittedInv /\ CleanWalk /\ run.queue = {} /\ run.gaps \subseteq run.marked
        /\ run.visited \subseteq Made
    BY <1>1 DEF VerifyInv, WalkInv, CleanWalk, TypeInv
  <2>2. run.cur.id \notin Made
    BY <2>1, WalkFacts
  <2>3. Closure \subseteq run.visited
    BY <2>1, <2>2, WalkCovers
  <2>4. ASSUME run.visited \cap (forged \cup blind) = {}, NEW i \in run.visited \cap lost
        PROVE  Due(made)[i] # 0 \/ MarkedBy(run.visited, i)
    <3>1. CASE i \in run.gaps
      BY <2>1, <3>1 DEF CleanWalk
    <3>2. CASE Announced(i)
      <4>1. PICK j \in run.visited : \E e \in made[j].edges : e.to = i /\ e.due # 0
        BY <3>2 DEF Announced
      <4>2. j \in Made \ forged /\ j \notin blind
        BY <2>1, <2>4
      <4>3. QED
        BY <2>1, <4>1, <4>2 DEF AdmittedInv
    <3>3. QED
      BY <2>1, <3>1, <3>2 DEF CleanWalk
  <2>5. Closure \subseteq held => \A i \in Closure : made[i].height = LongestChain[i]
    BY <2>1, <2>2, <2>3, HeightsAreChains
  <2>6. \A i \in Closure \cap held :
            \A j \in Reached(made, held, {i}) \cap held : made[j].at <= made[i].at
    BY <2>1, <2>2, <2>3, DatesRunForward
  <2>7. \A i \in Closure \cap held : Judged(i)
    BY <2>1, <2>2, <2>3 DEF CleanWalk
  <2>8. KeysHeld /\ \A i \in Closure \cap held : made[i].key = made[SignerOf(made, i)].pubkey
    BY <2>7 DEF Judged, KeysHeld
  <2>9. QED
    BY <2>3, <2>4, <2>5, <2>6, <2>8
<1>2. QED
  BY <1>1, VerifyInvariant, PTL

-----------------------------------------------------------------------------
(* What the builder seals is admitted. *)

(* The edges of a claim built for a contributor: the caller's, and at most two of Sign's own. *)
LEMMA BuiltEdges ==
    ASSUME NEW g, NEW b, NEW here, NEW t, BuildAccepted(b, g, here), ~b.invalid
    PROVE  /\ \A e \in BuildClaim(b, g, t).edges :
                 \/ \E cfg \in b.edges : e = NewEdge(cfg, Due(g)[cfg.to])
                 \/ ~IsRootContributor(b) /\ e = ContributorEdge(b.contributor)
                 \/ b.diffOf # 0 /\ e = DiffEdge(b.diffOf)
           /\ ~IsRootContributor(b) =>
                 ContributorEdges(BuildClaim(b, g, t)) = {ContributorEdge(b.contributor)}
           /\ b.diffOf # 0 => DiffEdge(b.diffOf) \in BuildClaim(b, g, t).edges
           /\ \A cfg \in b.edges : NewEdge(cfg, Due(g)[cfg.to]) \in BuildClaim(b, g, t).edges
<1> DEFINE c == BuildClaim(b, g, t)
           k == b.contributor
<1>1. c.edges = AssembledEdges(b, g)
  BY DEF BuildClaim
<1>2. \A e \in c.edges :
          \/ \E cfg \in b.edges : e = NewEdge(cfg, Due(g)[cfg.to])
          \/ ~IsRootContributor(b) /\ e = ContributorEdge(b.contributor)
          \/ b.diffOf # 0 /\ e = DiffEdge(b.diffOf)
  BY <1>1 DEF AssembledEdges
<1>3. /\ b.diffOf # 0 => DiffEdge(b.diffOf) \in c.edges
      /\ \A cfg \in b.edges : NewEdge(cfg, Due(g)[cfg.to]) \in c.edges
      /\ ~IsRootContributor(b) => ContributorEdge(k) \in c.edges
  BY <1>1 DEF AssembledEdges
<1>4. ContributorEdge(k).type = "contributor"
  BY DEF ContributorEdge
<1>5. ASSUME ~IsRootContributor(b) PROVE ContributorEdges(c) = {ContributorEdge(k)}
  <2>1. \A e, f \in c.edges : e.type = "contributor" /\ f.type = "contributor" => e = f
    BY <1>1 DEF BuildAccepted, CheckEdgeCardinality
  <2>2. ContributorEdge(k) \in c.edges
    BY <1>3, <1>5
  <2> HIDE DEF c, k
  <2>3. QED
    BY <1>4, <2>1, <2>2 DEF ContributorEdges
<1>6. QED
  BY <1>2, <1>3, <1>5

LEMMA EndIsImposed ==
    ASSUME NEW g, NEW here, NEW roots, NEW k, NEW t
    PROVE  t \in EndsFor(g, here, roots, k) <=>
              \E j \in Reached(g, here, roots) \cap here : \E e \in g[j].edges :
                 e.type = "expiry" /\ e.to = k /\ e.ends # 0 /\ t = e.ends
BY DEF EndsFor

(* A claim is added and is present. *)
Adds(g, present, c, h, q) ==
    /\ Archive(g) /\ c \in Claim /\ Refs(c) \subseteq 1..Len(g) /\ present \subseteq 1..Len(g)
    /\ h = Append(g, c) /\ q = present \cup {Len(g) + 1}

(* The ends a key has in a contribution's own walk: the archive's, or the contribution's. *)
LEMMA OwnEnds ==
    ASSUME NEW g, NEW present, NEW c, NEW h, NEW q, Adds(g, present, c, h, q), NEW roots, NEW k
    PROVE  \A t \in EndsFor(h, q, roots, k) :
              \/ t \in EndsFor(g, present, present, k)
              \/ \E e \in c.edges : e.type = "expiry" /\ e.to = k /\ e.ends # 0 /\ t = e.ends
<1> SUFFICES ASSUME NEW t \in EndsFor(h, q, roots, k)
             PROVE  \/ t \in EndsFor(g, present, present, k)
                    \/ \E e \in c.edges : e.type = "expiry" /\ e.to = k /\ e.ends # 0 /\ t = e.ends
  OBVIOUS
<1> DEFINE n == Len(g)
<1>1. /\ Archive(g) /\ present \subseteq 1..n /\ q = present \cup {n + 1}
      /\ h[n + 1] = c /\ \A i \in 1..n : h[i] = g[i]
  BY AppendArchive DEF Adds
<1>2. PICK j \in Reached(h, q, roots) \cap q : \E e \in h[j].edges :
          e.type = "expiry" /\ e.to = k /\ e.ends # 0 /\ t = e.ends
  BY EndIsImposed
<1>3. CASE j = n + 1
  BY <1>1, <1>2, <1>3
<1>4. CASE j # n + 1
  <2>1. j \in present /\ j \in 1..n /\ h[j] = g[j]
    BY <1>1, <1>2, <1>4
  <2>2. j \in Reached(g, present, present) \cap present
    BY <1>1, <2>1, ReachedIsClosed
  <2>3. \E e \in g[j].edges : e.type = "expiry" /\ e.to = k /\ e.ends # 0 /\ t = e.ends
    BY <1>2, <2>1
  <2>4. t \in EndsFor(g, present, present, k)
    BY <2>2, <2>3, EndIsImposed
  <2>5. QED
    BY <2>4
<1>5. QED
  BY <1>3, <1>4

(* One careful claim, over an archive nobody smuggled into. *)
LEMMA CarefulIsAdmitted ==
    ASSUME TypeInv, KeptInv, AdmittedInv, forged = {}, NEW b, BuildAccepted(b, made, held), Careful(b)
    PROVE  Admitted(BuildClaim(b, made, now))
<1> DEFINE c == BuildClaim(b, made, now)
           n == Len(made)
           i == n + 1
           g == Append(made, c)
           here == held \cup {i}
           content == blobs \cup {i}
           k == b.contributor
           root == IsRootContributor(b)
           cfg0 == [content |-> FALSE]
<1>1. Archive(made) /\ n \in Nat /\ now \in Nat /\ Floor <= now /\ held \subseteq 1..n /\ blobs \subseteq 1..n
  BY ArchiveTypes DEF TypeInv, Made
<1>2. c \in Claim /\ Refs(c) \subseteq 1..n
  BY BuiltIsTyped DEF Made
<1>3. /\ ~b.invalid /\ b \in Builder /\ c.at = now /\ b.height = "derived"
      /\ c.type = b.type /\ c.due = b.due /\ c.key = b.key /\ c.pubkey = b.pubkey
      /\ c.broken = FALSE /\ c.edges = AssembledEdges(b, made)
  BY DEF Careful, BuildAccepted, BuildClaim
<1>4. /\ Archive(g) /\ Len(g) = i /\ i \in 1..Len(g) /\ g[i] = c
      /\ \A j \in 1..n : g[j] = made[j] /\ j # i /\ j \in 1..Len(g)
      /\ SameDiffs(made, g, n) /\ SameDiffs(g, made, n)
  <2> HIDE DEF c
  <2>1. /\ Archive(Append(made, c)) /\ Len(Append(made, c)) = n + 1
        /\ Append(made, c)[n + 1] = c
        /\ \A j \in 1..n : Append(made, c)[j] = made[j]
        /\ SameDiffs(made, Append(made, c), n) /\ SameDiffs(Append(made, c), made, n)
    BY <1>1, <1>2, AppendArchive
  <2>2. i \in 1..(n + 1) /\ \A j \in 1..n : j # n + 1 /\ j \in 1..(n + 1)
    BY <1>1
  <2>3. QED
    BY <2>1, <2>2
<1>5. Refs(c) \subseteq held
  BY <1>3 DEF BuildAccepted, HeightResolved, Refs
<1>6. /\ \A e \in c.edges :
            \/ \E cfg \in b.edges : e = NewEdge(cfg, Due(made)[cfg.to])
            \/ ~root /\ e = ContributorEdge(k)
            \/ b.diffOf # 0 /\ e = DiffEdge(b.diffOf)
      /\ ~root => ContributorEdges(c) = {ContributorEdge(k)}
      /\ b.diffOf # 0 => DiffEdge(b.diffOf) \in c.edges
      /\ \A cfg \in b.edges : NewEdge(cfg, Due(made)[cfg.to]) \in c.edges
  BY <1>3, BuiltEdges
<1>7. root => c.edges = {} /\ c.type = "contributor"
  BY <1>3, <1>6 DEF Careful, IsRootContributor
<1>8. ASSUME ~root
      PROVE  /\ k \in 1..n /\ made[k].type = "contributor" /\ Predecessors(made[k]) = {}
             /\ KeyValidNow(b)
             /\ c.edges # {} /\ SignerOf(g, i) = k /\ k \in Refs(c) /\ k # i /\ g[k] = made[k]
             /\ Due(made)[k] = 0
  <2>1. /\ k \in 1..n /\ made[k].type = "contributor" /\ Predecessors(made[k]) = {}
        /\ KeyValidNow(b)
    BY <1>8 DEF BuildAccepted, IsContributor, Careful
  <2>2. ContributorEdges(c) = {ContributorEdge(k)} /\ ContributorEdge(k).to = k
    BY <1>6, <1>8 DEF ContributorEdge
  <2>3. ContributorEdge(k) \in c.edges
    BY <2>2 DEF ContributorEdges
  <2>4. k \in Refs(c)
    BY <2>2, <2>3 DEF Refs
  <2>5. SignerOf(g, i) = k
    <3> HIDE DEF c, g, i, k
    <3>1. g[i].edges # {} /\ ContributorEdges(g[i]) = {ContributorEdge(k)}
      BY <1>4, <2>2, <2>3
    <3>2. (CHOOSE e \in {ContributorEdge(k)} : TRUE) = ContributorEdge(k)
      OBVIOUS
    <3>3. QED
      BY <2>2, <3>1, <3>2 DEF SignerOf
  <2>6. Due(made)[k] = 0
    <3>1. Due(made)[k] = made[k].due
      BY <1>1, <2>1, DueUnfolds
    <3>2. RuleStructureNotDeletable(made, k)
      <4>1. k \in Made \ forged
        BY <2>1 DEF Made
      <4>2. QED
        BY <4>1 DEF AdmittedInv, Lawful
    <3>3. QED
      BY <2>1, <3>1, <3>2 DEF RuleStructureNotDeletable, CheckDeletable, Structural
  <2>7. QED
    BY <1>4, <2>1, <2>3, <2>4, <2>5, <2>6
<1>9. \A e \in c.edges : e.to \in 1..n /\ e.to \in held /\ g[e.to] = made[e.to]
  BY <1>2, <1>4, <1>5 DEF Refs
<1> HIDE DEF c, g, here, content, i, k, root, n, cfg0
<1>10. held \subseteq here /\ here \subseteq 1..Len(g)
  BY <1>1, <1>4 DEF here, i
<1>11. ResolveSigner(g, here, i)
  <2>1. CASE root
    BY <1>4, <1>7, <2>1 DEF ResolveSigner
  <2>2. CASE ~root
    <3>1. k \in here /\ Predecessors(g[k]) = {} /\ k \in 1..Len(g)
      BY <1>4, <1>5, <1>8, <1>10, <2>2
    <3>2. k \in Resolvable(g, here)
      BY <1>4, <3>1, ResolvableUnfolds
    <3>3. ContributorEdges(g[i]) # {}
      BY <1>4, <1>6, <2>2
    <3>4. QED
      BY <1>8, <2>2, <3>2, <3>3 DEF ResolveSigner
  <2>3. QED
    BY <2>1, <2>2
<1>12. RecordRules(g, i) /\ RuleCreatedAtStated(g, i)
  BY <1>1, <1>3, <1>4 DEF RecordRules, RuleCreatedAtStated, Floor
<1>13. RuleSignature(g, i)
  <2>1. CheckSigningConsistency(b, made)
    BY <1>3 DEF BuildAccepted
  <2>2. CASE root
    <3>1. SignerOf(g, i) = i
      BY <1>4, <1>7, <2>2 DEF SignerOf
    <3>2. c.key = c.pubkey
      BY <1>3, <2>1, <2>2 DEF CheckSigningConsistency, root
    <3>3. QED
      BY <1>4, <3>1, <3>2 DEF RuleSignature
  <2>3. CASE ~root
    <3>1. c.key = made[k].pubkey
      BY <1>3, <2>1, <2>3 DEF CheckSigningConsistency, root, k
    <3>2. QED
      BY <1>4, <1>8, <2>3, <3>1 DEF RuleSignature
  <2>4. QED
    BY <2>2, <2>3
<1> DEFINE T == Refs(c)
<1>14. /\ T \subseteq 1..n /\ {g[r].height : r \in T} = {made[r].height : r \in T}
       /\ c.height = HeightOver({made[r].height : r \in T})
       /\ (T = {} <=> c.edges = {})
  <2>1. {g[r].height : r \in T} = {made[r].height : r \in T}
    BY <1>2, <1>4
  <2>2. c.height = ResolveHeight(b, made)
    BY DEF BuildClaim, c
  <2>3. ResolveHeight(b, made) = HeightOver({made[e.to].height : e \in c.edges})
    BY <1>3 DEF ResolveHeight
  <2>4. {made[e.to].height : e \in c.edges} = {made[r].height : r \in T}
    BY DEF Refs
  <2>5. T = {} <=> c.edges = {}
    BY DEF Refs
  <2>6. QED
    BY <1>2, <2>1, <2>2, <2>3, <2>4, <2>5
<1>15. RuleHeight(g, here, i, Refs(c))
  <2>1. /\ T = {} => HeightOver({made[r].height : r \in T}) = 0
        /\ T # {} => HeightOver({made[r].height : r \in T})
                       = 1 + Max({0} \cup {made[r].height : r \in T})
    <3>1. T \subseteq 1..Len(made) /\ Archive(made)
      BY <1>1, <1>14 DEF n
    <3> HIDE DEF T
    <3> QED
      BY <3>1, HeightOverClaims
  <2>2. g[i].height = IF g[i].edges = {} THEN 0 ELSE 1 + Max({0} \cup {g[r].height : r \in T})
    BY <1>4, <1>14, <2>1
  <2>3. T \subseteq here /\ T = Refs(g[i])
    BY <1>4, <1>5, <1>10
  <2> HIDE DEF T
  <2>4. RuleHeight(g, here, i, T)
    BY <2>2, <2>3 DEF RuleHeight
  <2>5. QED
    BY <2>4 DEF T
<1>16. RuleArchiveFirstTableHeight(g, i)
  <2> SUFFICES ASSUME g[i].type = "branches", g[i].edges = ContributorEdges(g[i])
               PROVE  g[i].height = 1
    BY DEF RuleArchiveFirstTableHeight
  <2>1. ~root
    BY <1>4, <1>7
  <2>2. c.edges = {ContributorEdge(k)}
    BY <1>4, <1>6, <2>1
  <2>3. b.diffOf = 0
    <3> SUFFICES ASSUME b.diffOf # 0 PROVE FALSE
      OBVIOUS
    <3>1. DiffEdge(b.diffOf) = ContributorEdge(k)
      BY <1>6, <2>2
    <3>2. DiffEdge(b.diffOf).type = "diff" /\ ContributorEdge(k).type = "contributor"
      BY DEF DiffEdge, ContributorEdge
    <3>3. QED
      BY <3>1, <3>2
  <2>4. made[k].height = 0
    BY <1>3, <1>4, <2>1, <2>3 DEF Careful, root, k
  <2>5. T = {k}
    <3>1. ContributorEdge(k).to = k
      BY DEF ContributorEdge
    <3>2. QED
      BY <2>2, <3>1 DEF Refs
  <2>6. \E m \in T : HeightOver({made[r].height : r \in T}) = 1 + made[m].height
    <3>1. T # {}
      BY <2>5
    <3>2. T \subseteq 1..Len(made) /\ Archive(made)
      BY <1>1, <1>14 DEF n
    <3> HIDE DEF T
    <3>3. QED
      BY <3>1, <3>2, HeightOverClaims
  <2>7. QED
    BY <1>4, <1>14, <2>4, <2>5, <2>6
<1>17. RuleCreatedAtMonotone(g, here, i)
  <2>1. ASSUME NEW r \in Refs(c) PROVE g[r].at <= c.at
    <3>1. r \in Made \ forged /\ g[r] = made[r]
      BY <1>2, <1>4 DEF Made, n
    <3>2. QED
      BY <1>3, <3>1 DEF AdmittedInv
  <2>2. \A r \in Refs(c) : g[r].at \in Nat /\ c.at \in Nat
    BY <1>1, <1>2, <1>3, <1>4, ArchiveTypes DEF Claim
  <2>3. QED
    BY <1>4, <2>1, <2>2 DEF RuleCreatedAtMonotone
<1>18. RuleDeleteMarkShape(g, i)
  <2> SUFFICES ASSUME c.type = "delete" PROVE \E e \in c.edges : e.type = "delete"
    BY <1>4 DEF RuleDeleteMarkShape
  <2>1. PICK cfg \in b.edges : cfg.type = "delete"
    BY <1>3 DEF Careful
  <2>2. NewEdge(cfg, Due(made)[cfg.to]) \in c.edges
    BY <1>6
  <2>3. NewEdge(cfg, Due(made)[cfg.to]).type = "delete"
    BY <2>1 DEF NewEdge
  <2>4. QED
    BY <2>2, <2>3
<1>19. RuleContent(g, content, i, cfg0)
  BY DEF RuleContent, cfg0
<1>20. RuleBranchTableReference(g, here, i)
  <2>1. ASSUME NEW e \in c.edges
        PROVE  (c.type = "branches" /\ e.type = "diff") \/ made[e.to].type # "branches"
    <3>1. CASE \E cfg \in b.edges : e = NewEdge(cfg, Due(made)[cfg.to])
      <4>1. PICK cfg \in b.edges : e = NewEdge(cfg, Due(made)[cfg.to])
        BY <3>1
      <4>2. e.to = cfg.to
        BY <4>1 DEF NewEdge
      <4>3. QED
        BY <4>1, <4>2 DEF Careful
    <3>2. CASE ~root /\ e = ContributorEdge(k)
      BY <1>8, <3>2 DEF ContributorEdge
    <3>3. CASE b.diffOf # 0 /\ e = DiffEdge(b.diffOf)
      <4>1. e.to = b.diffOf /\ e.type = "diff"
        BY <3>3 DEF DiffEdge
      <4>2. made[b.diffOf].type = "branches" => b.type = "branches"
        BY <3>3 DEF Careful
      <4>3. QED
        BY <1>3, <4>1, <4>2
    <3>4. QED
      BY <1>6, <3>1, <3>2, <3>3
  <2>2. QED
    BY <1>4, <1>9, <2>1 DEF RuleBranchTableReference
<1>21. RuleKeyWindow(g, here, {i}, i)
  <2> SUFFICES ASSUME SignerOf(g, i) # i
               PROVE  LET s == SignerOf(g, i)
                          ends == EndsFor(g, here, {i}, s)
                                    \cup (IF g[s].until = 0 THEN {} ELSE {g[s].until})
                      IN  /\ g[i].at >= g[s].from
                          /\ \A t \in ends : g[i].at <= t
    BY DEF RuleKeyWindow
  <2>1. ~root
    BY <1>4, <1>7 DEF SignerOf
  <2>2. SignerOf(g, i) = k /\ g[k] = made[k] /\ KeyValidNow(b) /\ made[k] \in Claim
    BY <1>1, <1>8, <2>1, ArchiveTypes DEF n
  <2>3. /\ made[k].from <= now /\ (made[k].until # 0 => now <= made[k].until)
        /\ \A t \in EndsFor(made, held, held, k) : now <= t
        /\ \A cfg \in b.edges : cfg.type = "expiry" /\ cfg.to = k /\ cfg.ends # 0 => now <= cfg.ends
    BY <2>2 DEF KeyValidNow, k
  <2>4. now >= made[k].from
    BY <1>1, <2>2, <2>3 DEF Claim
  <2>5. ASSUME NEW e \in c.edges, e.type = "expiry", e.to = k, e.ends # 0 PROVE now <= e.ends
    <3>1. e # ContributorEdge(k) /\ e # DiffEdge(b.diffOf)
      <4>1. ContributorEdge(k).type = "contributor" /\ DiffEdge(b.diffOf).type = "diff"
        BY DEF ContributorEdge, DiffEdge
      <4>2. "contributor" # "expiry" /\ "diff" # "expiry"
        OBVIOUS
      <4>3. QED
        BY <2>5, <4>1, <4>2
    <3>2. PICK cfg \in b.edges : e = NewEdge(cfg, Due(made)[cfg.to])
      BY <1>6, <3>1
    <3>3. cfg.type = e.type /\ cfg.to = e.to /\ cfg.ends = e.ends
      BY <3>2 DEF NewEdge
    <3>4. QED
      BY <2>3, <2>5, <3>3
  <2>6. ASSUME NEW t \in EndsFor(g, here, {i}, k) PROVE now <= t
    <3>1. \/ t \in EndsFor(made, held, held, k)
          \/ \E e \in c.edges : e.type = "expiry" /\ e.to = k /\ e.ends # 0 /\ t = e.ends
      <4>1. Adds(made, held, c, g, here)
        BY <1>1, <1>2 DEF Adds, g, here, i, n
      <4> DEFINE roots == {i}
      <4>2. t \in EndsFor(g, here, roots, k)
        OBVIOUS
      <4> HIDE DEF roots
      <4>3. QED
        BY <4>1, <4>2, OwnEnds
    <3>2. QED
      BY <2>3, <2>5, <3>1
  <2>7. QED
    BY <1>3, <1>4, <2>2, <2>3, <2>4, <2>6
<1>22. RuleDeleteByCopied(g, here, i)
  <2>1. \A j \in 1..n : Due(g)[j] = Due(made)[j]
    BY <1>1, <1>4, DueIsLocal
  <2>2. ASSUME NEW e \in c.edges PROVE e.due = Due(made)[e.to]
    <3>1. CASE \E cfg \in b.edges : e = NewEdge(cfg, Due(made)[cfg.to])
      <4>1. PICK cfg \in b.edges : e = NewEdge(cfg, Due(made)[cfg.to])
        BY <3>1
      <4>2. cfg.referenced /\ cfg.due = 0
        BY DEF Careful
      <4>3. e.to = cfg.to /\ e.due = Due(made)[cfg.to]
        BY <4>1, <4>2 DEF NewEdge
      <4>4. QED
        BY <4>3
    <3>2. CASE ~root /\ e = ContributorEdge(k)
      BY <1>8, <3>2 DEF ContributorEdge
    <3>3. CASE b.diffOf # 0 /\ e = DiffEdge(b.diffOf)
      BY <3>3 DEF DiffEdge, Careful
    <3>4. QED
      BY <1>6, <3>1, <3>2, <3>3
  <2>3. QED
    BY <1>4, <1>9, <2>1, <2>2 DEF RuleDeleteByCopied
<1>23. RuleStructureNotDeletable(g, i)
  <2>1. CheckDeletable(b.type, b.due)
    BY <1>3 DEF BuildAccepted, CheckClaim
  <2>2. QED
    BY <1>3, <1>4, <2>1 DEF RuleStructureNotDeletable
<1>24. VerifyClaim(g, here, content, {i}, cfg0, i, Refs(c))
  BY <1>11, <1>12, <1>13, <1>15, <1>16, <1>17, <1>18, <1>19, <1>20, <1>21, <1>22, <1>23
     DEF VerifyClaim, VerifyRules
<1>25. AdmitCreatedAt(c)
  BY <1>1, <1>3 DEF AdmitCreatedAt
<1>26. Admitted(c)
  BY <1>4, <1>5, <1>24, <1>25 DEF Admitted, g, here, content, i, n, cfg0
<1>27. QED
  BY <1>26 DEF c

(***************************************************************************)
(* NewEdge and Sign build what the Sequencer admits (edge.go, sign.go,     *)
(* contribution.go): for every offer and every archive nobody smuggled     *)
(* into, a claim built with the claims it references in hand passes        *)
(* admission, whatever was deleted or lost meanwhile.                      *)
(***************************************************************************)
THEOREM BuildersAreAdmitted == Spec => []BuiltIsAdmitted
<1>1. ASSUME VerifyInv PROVE BuiltIsAdmitted
  BY <1>1, CarefulIsAdmitted DEF VerifyInv, BuiltIsAdmitted
<1>2. QED
  BY <1>1, VerifyInvariant, PTL
=============================================================================
